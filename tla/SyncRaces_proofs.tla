--------------------------- MODULE SyncRaces_proofs ---------------------------
(***************************************************************************)
(* Proofs about MCSyncRaces: a behaviour of the three components that race *)
(* for one product, side by side, is a behaviour of each of them, so that  *)
(* what is proved of each for every value of its constants holds of it.    *)
(***************************************************************************)
EXTENDS MCSyncRaces, ContentSync_proofs, TLAPS

------------------------------------------------------------------------------
(***************************************************************************)
(* The constants MCSyncRaces gives to the sale and to the row are ones the *)
(* proofs about SaleSync and StockReports are for                          *)
(***************************************************************************)

LEMMA SaleConstants == Faulty!SaleSyncAssumption
BY DEF Faulty!SaleSyncAssumption, Faulty!Faults, Deliveries, OneSale, Copies, OnEbay,
       TwoUnits, OneChannel, KeyFaults

LEMMA StockConstants == Writers!StockReportsAssumption
BY DEF Writers!StockReportsAssumption, Writers!Happenings, TwoSales, SoldOnEach,
       OneEach, StockFaults

------------------------------------------------------------------------------
(***************************************************************************)
(* Each component alone                                                    *)
(***************************************************************************)

LEMMA ContentAlone == RacesSpec => Spec
<1>1. RacesInit => Init
  BY DEF RacesInit
<1>2. [RacesNext]_racesVars => [Next]_vars
  BY DEF RacesNext, racesVars
<1>3. QED
  BY <1>1, <1>2, PTL DEF RacesSpec, Spec

LEMMA SaleAlone == RacesSpec => Faulty!Spec
<1>1. RacesInit => Faulty!Init
  BY DEF RacesInit
<1>2. [RacesNext]_racesVars => [Faulty!Next]_(Faulty!vars)
  BY DEF RacesNext, racesVars, saleVars, Faulty!vars, Faulty!envVars, Faulty!history
<1>3. QED
  BY <1>1, <1>2, PTL DEF RacesSpec, Faulty!Spec

LEMMA StockAlone == RacesSpec => Writers!Spec
<1>1. RacesInit => Writers!Init
  BY DEF RacesInit
<1>2. [RacesNext]_racesVars => [Writers!Next]_(Writers!vars)
  BY DEF RacesNext, racesVars, stockVars, Writers!vars, Writers!world
<1>3. QED
  BY <1>1, <1>2, PTL DEF RacesSpec, Writers!Spec

------------------------------------------------------------------------------
(***************************************************************************)
(* What each keeps alone                                                   *)
(***************************************************************************)

\* No listing mixes two contents, and no push or paid model call enters under a
\* live claim or a completed key (CoherentOfferHolds, ImplementsGuardHolds).
THEOREM RacesKeepContent == RacesSpec => []CoherentOffer /\ ImplementsGuard
BY ContentAlone, CoherentOfferHolds, ImplementsGuardHolds

\* Whatever fails, a delivery enters Phase A only where the sale's key is nobody's,
\* and only who entered ends it (SaleSync_proofs' ImplementsGuardHolds).
THEOREM SaleGuardHolds == RacesSpec => SaleGuard
BY SaleAlone, SaleConstants, Faulty!ImplementsGuardHolds DEF SaleGuard

\* The stock row is as if each sale, report and repair wrote it in one step
\* (StockReports_proofs' ImplementsRowHolds).
THEOREM StockRowIsAtomicHolds == RacesSpec => StockRowIsAtomic
BY StockAlone, StockConstants, Writers!ImplementsRowHolds DEF StockRowIsAtomic

==============================================================================
