----------------------------- MODULE MCSyncRaces -----------------------------
(***************************************************************************)
(* The three components that race for one product, side by side for TLC:   *)
(* the sync of its content (ContentSync), a sale under whatever can happen *)
(* to it and its key (SaleSync), and the writers of its stock row          *)
(* (StockReports), a poll that dies included. They share no variable: a    *)
(* behaviour is one of `which` alone, and the others keep their initial    *)
(* states. The sale's product is listed where it was sold and nowhere else,*)
(* so nothing is pushed after it. The properties are those that hold       *)
(* whatever fails. The last two are instances of the modules with their    *)
(* proofs, which SyncRaces_proofs cites for the constants given here.      *)
(***************************************************************************)
EXTENDS ContentSync, TLC

CONSTANTS
  m1, m2,   \* the two deliveries of the one sale
  w1, w2    \* and the two workers they may reach

VARIABLES which,
  saleMaster, status, applied, outbox, saleIdem, orders, flagged, listed, remote,
  sold, deliveries, receives, saleWorker, crashes,
  unclaimed, unrecorded, late,                                       \* SaleSync's
  clock, item, shelf, edits, stage, placedAt, stockMaster, events, ordered,
  reporter, stockWorker, fixer                                       \* StockReports'

MCContents == 1..2
MCFirstContent == 1

One == {1}

Deliveries   == {m1, m2}
SaleWorkers  == {w1, w2}
OneChannel   == {"ebay"}
OneSale      == {"s"}
Copies       == [m \in Deliveries |-> "s"]
OnEbay       == [s \in OneSale |-> "ebay"]
TwoUnits     == [s \in OneSale |-> 2]
KeyFaults    == {"tx", "order", "postcommit", "store", "unlist", "ttl", "redrive"}

Faulty == INSTANCE SaleSync_proofs WITH
  master <- saleMaster, jobs <- outbox, idem <- saleIdem, queue <- deliveries,
  worker <- saleWorker,
  Workers <- SaleWorkers, Sales <- OneSale, Messages <- Deliveries, SaleOf <- Copies,
  SoldOn <- OnEbay, Units <- TwoUnits, Channels <- OneChannel,
  InitialQuantity <- 3, Buffer <- 1, MaxReceive <- 2, MaxAttempts <- 2,
  MaxCrashes <- 1, MaxUnclaimed <- 1, Environment <- KeyFaults

TwoSales    == {"s", "t"}
SoldOnEach  == [s \in TwoSales |-> IF s = "s" THEN "ebay" ELSE "base"]
OneEach     == [s \in TwoSales |-> 1]
StockFaults == {"told", "crash"}

Writers == INSTANCE StockReports_proofs WITH
  base <- item, master <- stockMaster, poller <- reporter, worker <- stockWorker,
  Pollers <- One, Workers <- One, Fixers <- One, Sales <- TwoSales,
  SoldOn <- SoldOnEach, Units <- OneEach, InitialQuantity <- 2, MaxAttempts <- 2,
  MaxEdits <- 0, Environment <- StockFaults

saleVars ==
  <<saleMaster, status, applied, outbox, saleIdem, orders, flagged, listed, remote,
    sold, deliveries, receives, saleWorker, crashes, unclaimed, unrecorded, late>>
stockVars ==
  <<clock, item, shelf, edits, stage, placedAt, stockMaster, events, ordered,
    reporter, stockWorker, fixer>>

RacesInit ==
  /\ which \in {"content", "sale", "stock"}
  /\ Init /\ Faulty!Init /\ Writers!Init

\* Bound: the merchant's edits and the content's failures together.
WithinBound == base.seq + failures <= MaxEdits + 1

RacesNext ==
  \/ which = "content" /\ Next /\ WithinBound' /\ UNCHANGED <<which, saleVars, stockVars>>
  \/ which = "sale" /\ Faulty!Next /\ UNCHANGED <<which, vars, stockVars>>
  \/ which = "stock" /\ Writers!Next /\ UNCHANGED <<which, vars, saleVars>>

racesVars == <<which, vars, saleVars, stockVars>>

RacesSpec == RacesInit /\ [][RacesNext]_racesVars

\* SaleSync's ImplementsGuard: whatever fails, a live claim and a recorded result of a
\* sale's key keep every delivery out, and no one changes the key but a delivery that
\* entered Phase A when it was free, by claim or without, or the TTL of a claim that
\* nobody in Phase A is left to own (withIdempotency, tryClaim).
SaleGuard == Faulty!ImplementsGuard

\* StockReports' ImplementsRow: to whoever reads, polls, sales and repairs change the
\* row in one indivisible step each, made on the row as it is then, although each of
\* them reads it first and writes it under a version later (inventory.ts).
StockRowIsAtomic == Writers!ImplementsRow

\* Executions of one kind are alike, and so are the deliveries of one sale.
Alike ==
  Permutations(AiWorkers) \cup Permutations(EbayWorkers)
    \cup Permutations(Deliveries) \cup Permutations(SaleWorkers)
=============================================================================
