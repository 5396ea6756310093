--------------------------- MODULE MCStockReports ---------------------------
(***************************************************************************)
(* Instances of StockReports for TLC: at most two sales of one unit each,  *)
(* on eBay or BASE, and a stock that survives them.                        *)
(***************************************************************************)
EXTENDS StockReports, TLC

CONSTANTS s1, s2

OnEbay    == (s1 :> "ebay")
BothEbay  == (s1 :> "ebay") @@ (s2 :> "ebay")
OneUnit   == (s1 :> 1)
TwoAndOne == (s1 :> 2) @@ (s2 :> 1)

=============================================================================
