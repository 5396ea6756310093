----------------------------- MODULE MCSaleSync -----------------------------
(***************************************************************************)
(* Instances of SaleSync for TLC. The last units are raced for: two sales  *)
(* on different channels, of one and two units, meet a stock of two.       *)
(***************************************************************************)
EXTENDS SaleSync, TLC

CONSTANTS s1, s2, m1, m2, m3

TwoChannels   == {"base", "ebay"}
ThreeChannels == {"base", "ebay", "shopify"}

\* s1 is delivered twice, s2 once.
Copies     == (m1 :> s1) @@ (m2 :> s1) @@ (m3 :> s2)
OneSale    == (m1 :> s1) @@ (m2 :> s1)

SoldOnBoth == (s1 :> "ebay") @@ (s2 :> "base")
SoldOnEbay == (s1 :> "ebay")
UnitsBoth  == (s1 :> 1) @@ (s2 :> 2)
UnitsOne   == (s1 :> 1)

=============================================================================
