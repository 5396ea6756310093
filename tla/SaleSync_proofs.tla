--------------------------- MODULE SaleSync_proofs ---------------------------
(***************************************************************************)
(* Proofs about SaleSync for every number of workers, sales, messages and  *)
(* channels, every stock and every set of failures.                        *)
(***************************************************************************)
EXTENDS SaleSync, FiniteSetTheorems, TLAPS

------------------------------------------------------------------------------
(***************************************************************************)
(* Operators and record updates                                            *)
(***************************************************************************)

LEMMA RowUpdate ==
  ASSUME NEW r \in Row, NEW q \in Nat, NEW b \in BOOLEAN, NEW v \in Nat,
         NEW e \in Nat
  PROVE  [r EXCEPT !.quantity = q, !.soldOut = b, !.version = v,
                   !.ebaySold = e] \in Row
BY DEF Row

\* A sale leaves a well-formed row.
LEMMA AfterSaleType ==
  ASSUME NEW row \in Row, NEW c, NEW n \in Nat
  PROVE  AfterSale(row, c, n) \in Row
<1> DEFINE left == AtLeastZero(row.quantity - n)
<1>1. row.quantity \in Nat /\ row.version \in Nat /\ row.ebaySold \in Nat
  BY DEF Row
<1>2. left \in Nat /\ (left = 0) \in BOOLEAN
  BY <1>1 DEF AtLeastZero
<1>3. (IF c = "ebay" THEN row.ebaySold + n ELSE row.ebaySold) \in Nat
  BY <1>1
<1>4. row.version + 1 \in Nat
  BY <1>1
<1> HIDE DEF left
<1>5. [row EXCEPT !.quantity = left, !.soldOut = (left = 0),
                  !.version = row.version + 1,
                  !.ebaySold = IF c = "ebay" THEN row.ebaySold + n
                                             ELSE row.ebaySold] \in Row
  BY <1>2, <1>3, <1>4, RowUpdate
<1>6. QED
  BY <1>5, Zenon DEF AfterSale, left

\* What a channel may be told is never negative.
LEMMA AvailableType ==
  ASSUME NEW q \in Nat, NEW c
  PROVE  Available(q, c) \in Nat
BY SaleSyncAssumption DEF Available, AvailableQuantity, AtLeastZero

\* The shapes in which an action rewrites a worker's locals.
LEMMA LocalsUpdate ==
  ASSUME NEW l \in Locals, NEW pc \in Control
  PROVE  /\ [l EXCEPT !.pc = pc] \in Locals
         /\ \A n \in Nat : [l EXCEPT !.attempt = n, !.pc = pc] \in Locals
         /\ \A row \in Row : [l EXCEPT !.pc = pc, !.seen = row] \in Locals
         /\ \A r \in Result : [l EXCEPT !.pc = pc, !.result = r] \in Locals
         /\ \A d \in SUBSET Channels :
              [l EXCEPT !.pc = pc, !.todo = d] \in Locals
         /\ \A r \in Result, d \in SUBSET Channels :
              [l EXCEPT !.pc = pc, !.result = r, !.todo = d] \in Locals
         /\ \A c \in Channels, row \in Row, n \in Nat :
              [l EXCEPT !.pc = pc, !.target = c, !.seen = row,
                        !.pushing = n] \in Locals
         /\ \A d \in SUBSET Channels :
              /\ [l EXCEPT !.pc = pc, !.todo = d, !.target = "none",
                           !.pushing = 0] \in Locals
              /\ [l EXCEPT !.pc = pc, !.todo = d, !.target = "none",
                           !.pushing = 0, !.failed = TRUE] \in Locals
BY DEF Locals

LEMMA NoResultType == NoResult \in Result
BY DEF NoResult, Result

LEMMA NoRowType == NoRow \in Row
BY DEF NoRow, Row

LEMMA IdleType == Idle \in Locals
BY NoResultType, NoRowType DEF Idle, Locals, Control, PhaseA, PhaseB

------------------------------------------------------------------------------
(***************************************************************************)
(* Type correctness                                                        *)
(***************************************************************************)

\* A worker that is not idle has a message, one that pushes has a target.
Busy  == \A w \in Workers : ~At(w, "idle") => worker[w].msg \in Messages
Aimed == \A w \in Workers : worker[w].pc \in {"push", "mark"} =>
                               worker[w].target \in Channels

Typed == TypeOK /\ Busy /\ Aimed

LEMMA InitTyped == Init => Typed
<1> SUFFICES ASSUME Init PROVE Typed
  OBVIOUS
<1> USE SaleSyncAssumption DEF Init
<1>1. master \in Row
  BY NoRowType DEF Row
<1>2. \A c \in Channels : Available(InitialQuantity, c) \in Nat
  BY AvailableType
<1>3. worker \in [Workers -> Locals]
  BY IdleType
<1>4. idem \in [Sales -> KeyRow]
  BY NoResultType DEF KeyRow, KeyStatus
<1>5. /\ applied \in [Sales -> Nat]
      /\ jobs \in [Sales -> [Channels -> JobStatus]]
      /\ remote \in [Channels -> Nat]
  BY <1>2 DEF JobStatus
<1>6. /\ queue \in [Messages -> Places]
      /\ receives \in [Messages -> Nat]
      /\ crashes \in 0..MaxCrashes
      /\ unclaimed \in [Sales -> 0..MaxUnclaimed]
      /\ unrecorded \in [Sales -> Nat] /\ late \subseteq Channels
  BY DEF Places
<1>7. /\ status \in {"active", "sold_out"}
      /\ orders \subseteq Sales /\ flagged \subseteq Sales
      /\ listed \subseteq Channels /\ sold \subseteq Sales
  OBVIOUS
<1>8. TypeOK
  BY <1>1, <1>3, <1>4, <1>5, <1>6, <1>7, Zenon DEF TypeOK
<1>9. Busy /\ Aimed
  BY DEF Busy, Aimed, At, Idle
<1>10. QED
  BY <1>8, <1>9 DEF Typed

\* A step that leaves each variable alone or well typed keeps the types.
LEMMA TypeFrame ==
  ASSUME Typed,
         UNCHANGED master   \/ master' \in Row,
         UNCHANGED status   \/ status' \in {"active", "sold_out"},
         UNCHANGED applied  \/ applied' \in [Sales -> Nat],
         UNCHANGED jobs     \/ jobs' \in [Sales -> [Channels -> JobStatus]],
         UNCHANGED idem     \/ idem' \in [Sales -> KeyRow],
         UNCHANGED orders   \/ orders' \subseteq Sales,
         UNCHANGED flagged  \/ flagged' \subseteq Sales,
         UNCHANGED listed   \/ listed' \subseteq Channels,
         UNCHANGED remote   \/ remote' \in [Channels -> Nat],
         UNCHANGED sold     \/ sold' \subseteq Sales,
         UNCHANGED queue    \/ queue' \in [Messages -> Places],
         UNCHANGED receives \/ receives' \in [Messages -> Nat],
         \/ UNCHANGED worker
         \/ worker' \in [Workers -> Locals] /\ Busy' /\ Aimed',
         UNCHANGED crashes  \/ crashes' \in 0..MaxCrashes,
         UNCHANGED unclaimed \/ unclaimed' \in [Sales -> 0..MaxUnclaimed],
         UNCHANGED unrecorded \/ unrecorded' \in [Sales -> Nat],
         UNCHANGED late     \/ late' \subseteq Channels
  PROVE  Typed'
<1>1. worker' \in [Workers -> Locals] /\ Busy' /\ Aimed'
  BY DEF Typed, TypeOK, Busy, Aimed, At
<1> USE DEF Typed, TypeOK
<1>2. master' \in Row /\ status' \in {"active", "sold_out"}
  BY Zenon
<1>3. applied' \in [Sales -> Nat] /\ jobs' \in [Sales -> [Channels -> JobStatus]]
  BY Zenon
<1>4. idem' \in [Sales -> KeyRow] /\ orders' \subseteq Sales
  BY Zenon
<1>5. flagged' \subseteq Sales /\ listed' \subseteq Channels
  BY Zenon
<1>6. remote' \in [Channels -> Nat] /\ sold' \subseteq Sales
  BY Zenon
<1>7. queue' \in [Messages -> Places] /\ receives' \in [Messages -> Nat]
  BY Zenon
<1>8. crashes' \in 0..MaxCrashes
  BY Zenon
<1>9. unclaimed' \in [Sales -> 0..MaxUnclaimed]
  BY Zenon
<1>10. unrecorded' \in [Sales -> Nat] /\ late' \subseteq Channels
  BY Zenon
<1>11. QED
  BY <1>1, <1>2, <1>3, <1>4, <1>5, <1>6, <1>7, <1>8, <1>9, <1>10, Zenon

\* Rewriting one worker's locals keeps the workers typed.
LEMMA GotoTyped ==
  ASSUME Typed, NEW w \in Workers, NEW l \in Locals, Goto(w, l),
         l.pc # "idle" => l.msg \in Messages,
         l.pc \in {"push", "mark"} => l.target \in Channels
  PROVE  worker' \in [Workers -> Locals] /\ Busy' /\ Aimed'
BY DEF Typed, TypeOK, Busy, Aimed, At, Goto

\* Returning or acknowledging a message leaves the worker idle.
LEMMA LeaveTyped ==
  ASSUME Typed, NEW w \in Workers, ~At(w, "idle"), Nack(w) \/ Ack(w)
  PROVE  /\ worker' \in [Workers -> Locals] /\ Busy' /\ Aimed'
         /\ queue' \in [Messages -> Places]
         /\ receives' \in [Messages -> Nat]
<1>1. Goto(w, Idle)
  BY DEF Nack, Ack
<1>2. worker' \in [Workers -> Locals] /\ Busy' /\ Aimed'
  BY <1>1, IdleType, GotoTyped DEF Idle
<1>3. queue' \in [Messages -> Places] /\ receives' \in [Messages -> Nat]
  BY DEF Nack, Ack, Returned, Typed, TypeOK, Places
<1>4. QED
  BY <1>2, <1>3

\* A busy worker's sale is a sale.
LEMMA SaleAtType ==
  ASSUME Typed, NEW w \in Workers, ~At(w, "idle")
  PROVE  /\ worker[w] \in Locals
         /\ worker[w].msg \in Messages
         /\ SaleAt(w) \in Sales
BY SaleSyncAssumption DEF Typed, TypeOK, Busy, SaleAt

\* The history of commits nobody recorded counts.
LEMMA UnrecordedTyped ==
  ASSUME Typed, NEW w \in Workers, ~At(w, "idle"), EndsUnrecorded(w)
  PROVE  unrecorded' \in [Sales -> Nat]
BY SaleAtType DEF EndsUnrecorded, Typed, TypeOK

\* A push lands on its channel.
LEMMA LandsTyped ==
  ASSUME Typed, NEW w \in Workers, worker[w].target \in Channels, Lands(w)
  PROVE  remote' \in [Channels -> Nat] /\ late' \subseteq Channels
BY DEF Lands, Typed, TypeOK, Locals

\* The marketplaces, the pollers and the schedules.
LEMMA EnvironmentTyped ==
  ASSUME Typed
  PROVE  /\ \A s \in Sales : BuyerOrders(s) \/ ClaimExpires(s) => Typed'
         /\ \A m \in Messages : EnqueueSale(m) \/ Redrive(m) => Typed'
         /\ \A c \in Channels : Unlist(c) => Typed'
<1> USE DEF dbVars, envVars, history
<1>1. ASSUME NEW s \in Sales, BuyerOrders(s) PROVE Typed'
  <2>0. remote[SoldOn[s]] \in Nat /\ Units[s] \in Nat
    BY SaleSyncAssumption DEF Typed, TypeOK
  <2>1. remote[SoldOn[s]] - Units[s] \in Nat
    BY <1>1, <2>0 DEF BuyerOrders
  <2>2. remote' \in [Channels -> Nat] /\ sold' \subseteq Sales
    BY <1>1, <2>1 DEF BuyerOrders, Typed, TypeOK
  <2>3. QED
    BY <1>1, <2>2, TypeFrame DEF BuyerOrders
<1>2. ASSUME NEW s \in Sales, ClaimExpires(s) PROVE Typed'
  <2>1. idem' \in [Sales -> KeyRow]
    BY <1>2 DEF ClaimExpires, Typed, TypeOK, KeyRow
  <2>2. QED
    BY <1>2, <2>1, TypeFrame DEF ClaimExpires
<1>3. ASSUME NEW m \in Messages, EnqueueSale(m) PROVE Typed'
  <2>1. queue' \in [Messages -> Places]
    BY <1>3 DEF EnqueueSale, Typed, TypeOK, Places
  <2>2. QED
    BY <1>3, <2>1, TypeFrame DEF EnqueueSale
<1>4. ASSUME NEW m \in Messages, Redrive(m) PROVE Typed'
  <2>1. queue' \in [Messages -> Places] /\ receives' \in [Messages -> Nat]
    BY <1>4 DEF Redrive, Typed, TypeOK, Places
  <2>2. QED
    BY <1>4, <2>1, TypeFrame DEF Redrive
<1>5. ASSUME NEW c \in Channels, Unlist(c) PROVE Typed'
  <2>1. listed' \subseteq Channels
    BY <1>5 DEF Unlist, Typed, TypeOK
  <2>2. QED
    BY <1>5, <2>1, TypeFrame DEF Unlist
<1>6. QED
  BY <1>1, <1>2, <1>3, <1>4, <1>5

\* The delivery, the claim and Phase A.
LEMMA PhaseATyped ==
  ASSUME Typed, NEW w \in Workers,
         \/ \E m \in Messages : Receive(w, m)
         \/ WinClaim(w) \/ RefuseClaim(w)
         \/ ReplayResult(w) \/ LoseClaim(w) \/ RunUnclaimed(w)
         \/ ReadSoldOut(w) \/ ReadMaster(w) \/ CommitSale(w) \/ CasMismatch(w)
         \/ TxAborts(w) \/ RecordOrder(w) \/ OrderNotRecorded(w)
         \/ Complete(w) \/ ThrowsAfterCommit(w)
         \/ FailKey(w) \/ FailKeyThrows(w)
  PROVE  Typed'
<1> USE DEF Control, PhaseA, PhaseB
<1>1. worker[w] \in Locals
  BY DEF Typed, TypeOK
<1>2. ~At(w, "idle") => worker[w].msg \in Messages /\ SaleAt(w) \in Sales
  BY SaleAtType
<1>R. ~At(w, "idle") => /\ idem[SaleAt(w)].result \in Result
                         /\ idem[SaleAt(w)].result.channels \in SUBSET Channels
  BY <1>2 DEF Typed, TypeOK, KeyRow, Result
<1>Z. [NoResult EXCEPT !.alreadyZero = TRUE, !.soldOut = TRUE] \in Result
  BY DEF NoResult, Result
<1>M. master \in Row
  BY DEF Typed, TypeOK
<1>T. worker[w].attempt + 1 \in Nat
  BY <1>1 DEF Locals
<1>C. worker[w].result \in Result /\ worker[w].result.channels \in SUBSET Channels
  BY <1>1 DEF Locals, Result
<1>3. ASSUME NEW m \in Messages, Receive(w, m) PROVE Typed'
  <2> DEFINE l == [Idle EXCEPT !.pc = "claim", !.msg = m]
  <2>0. l \in Locals
    BY NoResultType, NoRowType DEF Idle, Locals
  <2>1. l \in Locals /\ Goto(w, l)
    BY <1>3, <2>0 DEF Receive
  <2>2. worker' \in [Workers -> Locals] /\ Busy' /\ Aimed'
    <3>1. l.msg = m /\ l.pc = "claim"
      BY DEF Idle
    <3> HIDE DEF l
    <3>2. QED
      BY <2>1, <3>1, GotoTyped
  <2>3. queue' \in [Messages -> Places] /\ receives' \in [Messages -> Nat]
    <3>1. receives[m] + 1 \in Nat
      BY DEF Typed, TypeOK
    <3>2. QED
      BY <1>3, <3>1 DEF Receive, Typed, TypeOK, Places
  <2> HIDE DEF l
  <2>8. QED
    BY <1>3, <2>1, <2>2, <2>3, TypeFrame DEF Receive, dbVars, envVars, history
<1>4. ASSUME WinClaim(w) PROVE Typed'
  <2> DEFINE l == [worker[w] EXCEPT !.pc = "read"]
  <2>0. l \in Locals
    BY <1>1, LocalsUpdate
  <2>1. l \in Locals /\ Goto(w, l) /\ ~At(w, "idle")
    BY <1>4, <2>0 DEF WinClaim, At
  <2>2. worker' \in [Workers -> Locals] /\ Busy' /\ Aimed'
    <3>1. l.msg = worker[w].msg /\ l.pc \notin {"idle", "push", "mark"}
      BY <1>1 DEF Locals
    <3> HIDE DEF l
    <3>2. QED
      BY <2>1, <3>1, <1>2, GotoTyped
  <2>3. idem' \in [Sales -> KeyRow]
    BY <1>4, <1>1, <1>2, <2>1, SaleSyncAssumption DEF WinClaim, Typed, TypeOK, KeyRow, KeyStatus, NoResult, Result, At
  <2> HIDE DEF l
  <2>8. QED
    BY <1>4, <2>1, <2>2, <2>3, TypeFrame DEF WinClaim, dbVars, envVars, history
<1>5. ASSUME ReplayResult(w) PROVE Typed'
  <2> DEFINE l == [worker[w] EXCEPT !.pc = "dispatch", !.result = idem[SaleAt(w)].result,
                                 !.todo = idem[SaleAt(w)].result.channels]
  <2>a. ~At(w, "idle")
    BY <1>5 DEF ReplayResult, At
  <2>b. /\ idem[SaleAt(w)].result \in Result
        /\ idem[SaleAt(w)].result.channels \in SUBSET Channels
    BY <2>a, <1>R
  <2>0. l \in Locals
    BY <1>1, <2>b, LocalsUpdate
  <2>1. l \in Locals /\ Goto(w, l) /\ ~At(w, "idle")
    BY <1>5, <2>0 DEF ReplayResult, At
  <2>2. worker' \in [Workers -> Locals] /\ Busy' /\ Aimed'
    <3>1. l.msg = worker[w].msg /\ l.pc \notin {"idle", "push", "mark"}
      BY <1>1 DEF Locals
    <3> HIDE DEF l
    <3>2. QED
      BY <2>1, <3>1, <1>2, GotoTyped
  <2> HIDE DEF l
  <2>8. QED
    BY <1>5, <2>1, <2>2, TypeFrame DEF ReplayResult, dbVars, envVars, history
<1>6. ASSUME LoseClaim(w) PROVE Typed'
  <2>1. /\ worker' \in [Workers -> Locals] /\ Busy' /\ Aimed'
        /\ queue' \in [Messages -> Places] /\ receives' \in [Messages -> Nat]
    BY <1>6, LeaveTyped DEF LoseClaim, At
  <2>8. QED
    BY <1>6, <2>1, TypeFrame DEF LoseClaim, dbVars, envVars, history
<1>7. ASSUME ReadSoldOut(w) PROVE Typed'
  <2> DEFINE l == [worker[w] EXCEPT !.pc = "order",
                 !.result = [NoResult EXCEPT !.alreadyZero = TRUE,
                                             !.soldOut = TRUE]]
  <2>0. l \in Locals
    BY <1>1, LocalsUpdate, <1>Z
  <2>1. l \in Locals /\ Goto(w, l) /\ ~At(w, "idle")
    BY <1>7, <2>0 DEF ReadSoldOut, At
  <2>2. worker' \in [Workers -> Locals] /\ Busy' /\ Aimed'
    <3>1. l.msg = worker[w].msg /\ l.pc \notin {"idle", "push", "mark"}
      BY <1>1 DEF Locals
    <3> HIDE DEF l
    <3>2. QED
      BY <2>1, <3>1, <1>2, GotoTyped
  <2> HIDE DEF l
  <2>8. QED
    BY <1>7, <2>1, <2>2, TypeFrame DEF ReadSoldOut, dbVars, envVars, history
<1>8. ASSUME ReadMaster(w) PROVE Typed'
  <2> DEFINE l == [worker[w] EXCEPT !.pc = "cas", !.seen = master]
  <2>0. l \in Locals
    BY <1>1, LocalsUpdate, <1>M
  <2>1. l \in Locals /\ Goto(w, l) /\ ~At(w, "idle")
    BY <1>8, <2>0 DEF ReadMaster, At
  <2>2. worker' \in [Workers -> Locals] /\ Busy' /\ Aimed'
    <3>1. l.msg = worker[w].msg /\ l.pc \notin {"idle", "push", "mark"}
      BY <1>1 DEF Locals
    <3> HIDE DEF l
    <3>2. QED
      BY <2>1, <3>1, <1>2, GotoTyped
  <2> HIDE DEF l
  <2>8. QED
    BY <1>8, <2>1, <2>2, TypeFrame DEF ReadMaster, dbVars, envVars, history
<1>9. ASSUME CommitSale(w) PROVE Typed'
  <2> DEFINE s == SaleAt(w)
             row == AfterSale(worker[w].seen, SoldOn[s], Units[s])
             r == [alreadyZero |-> FALSE, soldOut |-> row.soldOut,
                   quantity |-> row.quantity,
                   channels |-> OtherChannels(s) \cap listed]
             l == [worker[w] EXCEPT !.pc = "order", !.result = r]
  <2>a. s \in Sales /\ At(w, "cas") /\ worker[w].msg \in Messages
    BY <1>9, <1>2 DEF CommitSale, At
  <2>b. row \in Row
    <3>1. worker[w].seen \in Row
      BY <1>1 DEF Locals
    <3>2. QED
      BY <2>a, <3>1, AfterSaleType, SaleSyncAssumption
  <2>c. row.soldOut \in BOOLEAN /\ row.quantity \in Nat
    BY <2>b DEF Row
  <2>d. OtherChannels(s) \cap listed \in SUBSET Channels
    BY DEF OtherChannels
  <2>e. r \in Result
    <3> HIDE DEF row, s
    <3>1. QED
      BY <2>c, <2>d DEF Result
  <2>f. CommitSale(w) <=>
          /\ At(w, "cas") /\ master.version = worker[w].seen.version
          /\ master' = row
          /\ status' = IF row.soldOut THEN "sold_out" ELSE status
          /\ applied' = [applied EXCEPT ![s] = @ + 1]
          /\ jobs' = [jobs EXCEPT ![s] = OutboxRows(s)]
          /\ Goto(w, l)
          /\ UNCHANGED <<idem, orders, flagged, envVars, remote, queue, receives>>
    BY DEF CommitSale
  <2>g. OutboxRows(s) \in [Channels -> JobStatus]
    BY <2>a DEF OutboxRows, Typed, TypeOK, JobStatus
  <2>h. l.msg = worker[w].msg /\ l.pc = "order"
    BY <1>1 DEF Locals
  <2> HIDE DEF row, r, s
  <2>1. l \in Locals
    BY <1>1, <2>e, LocalsUpdate, <2>a
  <2> HIDE DEF l
  <2>2. worker' \in [Workers -> Locals] /\ Busy' /\ Aimed'
    BY <1>9, <2>a, <2>f, <2>1, <2>h, GotoTyped
  <2>3. applied' \in [Sales -> Nat]
    BY <1>9, <2>a, <2>f DEF Typed, TypeOK
  <2>4. jobs' \in [Sales -> [Channels -> JobStatus]]
    BY <1>9, <2>a, <2>f, <2>g DEF Typed, TypeOK
  <2>5. master' \in Row /\ status' \in {"active", "sold_out"}
    BY <1>9, <2>b, <2>f DEF Typed, TypeOK
  <2>8. QED
    BY <1>9, <2>f, <2>2, <2>3, <2>4, <2>5, TypeFrame DEF envVars, history
<1>10. ASSUME CasMismatch(w) PROVE Typed'
  <2> DEFINE l == [worker[w] EXCEPT !.attempt = worker[w].attempt + 1,
                 !.pc = IF worker[w].attempt + 1 < MaxAttempts THEN "read"
                                                               ELSE "fail"]
  <2>0. l \in Locals
    BY <1>1, LocalsUpdate, <1>T
  <2>1. l \in Locals /\ Goto(w, l) /\ ~At(w, "idle")
    BY <1>10, <2>0 DEF CasMismatch, At
  <2>2. worker' \in [Workers -> Locals] /\ Busy' /\ Aimed'
    <3>1. l.msg = worker[w].msg /\ l.pc \notin {"idle", "push", "mark"}
      BY <1>1 DEF Locals
    <3> HIDE DEF l
    <3>2. QED
      BY <2>1, <3>1, <1>2, GotoTyped
  <2> HIDE DEF l
  <2>8. QED
    BY <1>10, <2>1, <2>2, TypeFrame DEF CasMismatch, dbVars, envVars, history
<1>11. ASSUME TxAborts(w) PROVE Typed'
  <2> DEFINE l == [worker[w] EXCEPT !.pc = "fail"]
  <2>0. l \in Locals
    BY <1>1, LocalsUpdate
  <2>1. l \in Locals /\ Goto(w, l) /\ ~At(w, "idle")
    BY <1>11, <2>0 DEF TxAborts, At
  <2>2. worker' \in [Workers -> Locals] /\ Busy' /\ Aimed'
    <3>1. l.msg = worker[w].msg /\ l.pc \notin {"idle", "push", "mark"}
      BY <1>1 DEF Locals
    <3> HIDE DEF l
    <3>2. QED
      BY <2>1, <3>1, <1>2, GotoTyped
  <2> HIDE DEF l
  <2>8. QED
    BY <1>11, <2>1, <2>2, TypeFrame DEF TxAborts, dbVars, envVars, history
<1>12. ASSUME RecordOrder(w) PROVE Typed'
  <2> DEFINE l == [worker[w] EXCEPT !.pc = "complete"]
  <2>0. l \in Locals
    BY <1>1, LocalsUpdate
  <2>1. l \in Locals /\ Goto(w, l) /\ ~At(w, "idle")
    BY <1>12, <2>0 DEF RecordOrder, At
  <2>2. worker' \in [Workers -> Locals] /\ Busy' /\ Aimed'
    <3>1. l.msg = worker[w].msg /\ l.pc \notin {"idle", "push", "mark"}
      BY <1>1 DEF Locals
    <3> HIDE DEF l
    <3>2. QED
      BY <2>1, <3>1, <1>2, GotoTyped
  <2>3. orders' \subseteq Sales
    BY <1>12, <1>1, <1>2, <2>1, SaleSyncAssumption DEF RecordOrder, Typed, TypeOK, At
  <2> HIDE DEF l
  <2>8. QED
    BY <1>12, <2>1, <2>2, <2>3, TypeFrame DEF RecordOrder, dbVars, envVars, history
<1>13. ASSUME OrderNotRecorded(w) PROVE Typed'
  <2> DEFINE l == [worker[w] EXCEPT !.pc = "complete"]
  <2>0. l \in Locals
    BY <1>1, LocalsUpdate
  <2>1. l \in Locals /\ Goto(w, l) /\ ~At(w, "idle")
    BY <1>13, <2>0 DEF OrderNotRecorded, At
  <2>2. worker' \in [Workers -> Locals] /\ Busy' /\ Aimed'
    <3>1. l.msg = worker[w].msg /\ l.pc \notin {"idle", "push", "mark"}
      BY <1>1 DEF Locals
    <3> HIDE DEF l
    <3>2. QED
      BY <2>1, <3>1, <1>2, GotoTyped
  <2> HIDE DEF l
  <2>8. QED
    BY <1>13, <2>1, <2>2, TypeFrame DEF OrderNotRecorded, dbVars, envVars, history
<1>14. ASSUME Complete(w) PROVE Typed'
  <2> DEFINE l == [worker[w] EXCEPT !.pc = "dispatch", !.todo = worker[w].result.channels]
  <2>0. l \in Locals
    BY <1>1, LocalsUpdate, <1>C
  <2>1. l \in Locals /\ Goto(w, l) /\ ~At(w, "idle")
    BY <1>14, <2>0 DEF Complete, At
  <2>2. worker' \in [Workers -> Locals] /\ Busy' /\ Aimed'
    <3>1. l.msg = worker[w].msg /\ l.pc \notin {"idle", "push", "mark"}
      BY <1>1 DEF Locals
    <3> HIDE DEF l
    <3>2. QED
      BY <2>1, <3>1, <1>2, GotoTyped
  <2>3. idem' \in [Sales -> KeyRow]
    <3>1. SaleAt(w) \in Sales /\ worker[w].result \in Result
      BY <1>2, <1>C, <2>1
    <3>2. idem[SaleAt(w)] \in KeyRow
      BY <3>1 DEF Typed, TypeOK
    <3>3. [idem[SaleAt(w)] EXCEPT !.status = "completed",
                                  !.result = worker[w].result] \in KeyRow
      BY <3>1, <3>2 DEF KeyRow, KeyStatus
    <3>4. QED
      BY <1>14, <3>1, <3>3 DEF Complete, Typed, TypeOK
  <2> HIDE DEF l
  <2>8. QED
    BY <1>14, <2>1, <2>2, <2>3, TypeFrame DEF Complete, dbVars, envVars, history
<1>15. ASSUME ThrowsAfterCommit(w) PROVE Typed'
  <2> DEFINE l == [worker[w] EXCEPT !.pc = "fail"]
  <2>0. l \in Locals
    BY <1>1, LocalsUpdate
  <2>1. l \in Locals /\ Goto(w, l) /\ ~At(w, "idle")
    BY <1>15, <2>0 DEF ThrowsAfterCommit, At
  <2>2. worker' \in [Workers -> Locals] /\ Busy' /\ Aimed'
    <3>1. l.msg = worker[w].msg /\ l.pc \notin {"idle", "push", "mark"}
      BY <1>1 DEF Locals
    <3> HIDE DEF l
    <3>2. QED
      BY <2>1, <3>1, <1>2, GotoTyped
  <2>3. unrecorded' \in [Sales -> Nat]
    BY <1>15, <2>1, UnrecordedTyped DEF ThrowsAfterCommit
  <2> HIDE DEF l
  <2>8. QED
    BY <1>15, <2>1, <2>2, <2>3, TypeFrame DEF ThrowsAfterCommit, dbVars
<1>16. ASSUME FailKey(w) PROVE Typed'
  <2>1. /\ worker' \in [Workers -> Locals] /\ Busy' /\ Aimed'
        /\ queue' \in [Messages -> Places] /\ receives' \in [Messages -> Nat]
    BY <1>16, LeaveTyped DEF FailKey, At
  <2>2. idem' \in [Sales -> KeyRow]
    BY <1>16, <1>2 DEF FailKey, Typed, TypeOK, KeyRow, KeyStatus, At
  <2>8. QED
    BY <1>16, <2>1, <2>2, TypeFrame DEF FailKey, dbVars, envVars, history
<1>17. ASSUME FailKeyThrows(w) PROVE Typed'
  <2>1. /\ worker' \in [Workers -> Locals] /\ Busy' /\ Aimed'
        /\ queue' \in [Messages -> Places] /\ receives' \in [Messages -> Nat]
    BY <1>17, LeaveTyped DEF FailKeyThrows, At
  <2>8. QED
    BY <1>17, <2>1, TypeFrame DEF FailKeyThrows, dbVars, envVars, history
<1>18. ASSUME RefuseClaim(w) PROVE Typed'
  <2> DEFINE l == [worker[w] EXCEPT !.pc = "select"]
  <2>1. l \in Locals /\ Goto(w, l) /\ ~At(w, "idle")
    BY <1>1, <1>18, LocalsUpdate DEF RefuseClaim, At
  <2>2. l.msg = worker[w].msg /\ l.pc = "select"
    BY <1>1 DEF Locals
  <2> HIDE DEF l
  <2>3. worker' \in [Workers -> Locals] /\ Busy' /\ Aimed'
    BY <2>1, <2>2, <1>2, GotoTyped
  <2>4. QED
    BY <1>18, <2>3, TypeFrame DEF RefuseClaim, dbVars, envVars, history
<1>19. ASSUME RunUnclaimed(w) PROVE Typed'
  <2> DEFINE l == [worker[w] EXCEPT !.pc = "read"]
  <2>1. l \in Locals /\ Goto(w, l) /\ ~At(w, "idle")
    BY <1>1, <1>19, LocalsUpdate DEF RunUnclaimed, At
  <2>2. l.msg = worker[w].msg /\ l.pc = "read"
    BY <1>1 DEF Locals
  <2> HIDE DEF l
  <2>3. worker' \in [Workers -> Locals] /\ Busy' /\ Aimed'
    BY <2>1, <2>2, <1>2, GotoTyped
  <2>4. unclaimed' \in [Sales -> 0..MaxUnclaimed]
    <3>1. SaleAt(w) \in Sales /\ unclaimed[SaleAt(w)] < MaxUnclaimed
      BY <1>2, <1>19, <2>1 DEF RunUnclaimed
    <3>2. unclaimed[SaleAt(w)] + 1 \in 0..MaxUnclaimed
      BY <3>1, SaleSyncAssumption DEF Typed, TypeOK
    <3>3. QED
      BY <1>19, <3>1, <3>2 DEF RunUnclaimed, Typed, TypeOK
  <2>5. QED
    BY <1>19, <2>3, <2>4, TypeFrame DEF RunUnclaimed, dbVars
<1>20. QED
  BY <1>3, <1>4, <1>5, <1>6, <1>7, <1>8, <1>9, <1>10, <1>11, <1>12, <1>13,
     <1>14, <1>15, <1>16, <1>17, <1>18, <1>19

\* Phase B and the crash.
LEMMA PhaseBTyped ==
  ASSUME Typed, NEW w \in Workers,
         \/ FlagDoubleSale(w) \/ Push(w) \/ PushFails(w) \/ MarkPushed(w)
         \/ EndDispatch(w) \/ Crash(w)
         \/ \E c \in Channels : SkipJob(w, c) \/ NoToken(w, c)
                                \/ ReadQuantity(w, c)
  PROVE  Typed'
<1> USE DEF Control, PhaseA, PhaseB
<1>1. worker[w] \in Locals
  BY DEF Typed, TypeOK
<1>2. ~At(w, "idle") => worker[w].msg \in Messages /\ SaleAt(w) \in Sales
  BY SaleAtType
<1>3. worker[w].pc \in {"push", "mark"} => worker[w].target \in Channels
  BY DEF Typed, Aimed
<1>4. worker[w].pushing \in Nat /\ worker[w].todo \in SUBSET Channels
  BY <1>1 DEF Locals
\* A channel's job is over: its row may have changed, the loop goes on.
<1>5. ASSUME NEW c \in Channels, JobDone(w, c), ~At(w, "idle")
      PROVE  worker' \in [Workers -> Locals] /\ Busy' /\ Aimed'
  <2> DEFINE l == [worker[w] EXCEPT !.pc = "dispatch", !.todo = @ \ {c},
                                    !.target = "none", !.pushing = 0]
  <2>0. worker[w].todo \ {c} \in SUBSET Channels
    BY <1>4
  <2>1. l \in Locals
    BY <1>1, <2>0, LocalsUpdate
  <2>2. l.msg = worker[w].msg /\ l.pc = "dispatch"
    BY <1>1 DEF Locals
  <2>3. Goto(w, l)
    BY <1>5 DEF JobDone
  <2> HIDE DEF l
  <2>4. QED
    BY <1>2, <1>5, <2>1, <2>2, <2>3, GotoTyped
<1>6. ASSUME NEW c \in Channels, JobFails(w, c), ~At(w, "idle")
      PROVE  /\ worker' \in [Workers -> Locals] /\ Busy' /\ Aimed'
             /\ jobs' \in [Sales -> [Channels -> JobStatus]]
  <2> DEFINE l == [worker[w] EXCEPT !.pc = "dispatch", !.todo = @ \ {c},
                                    !.target = "none", !.pushing = 0,
                                    !.failed = TRUE]
  <2>0. worker[w].todo \ {c} \in SUBSET Channels
    BY <1>4
  <2>1. l \in Locals
    BY <1>1, <2>0, LocalsUpdate
  <2>2. l.msg = worker[w].msg /\ l.pc = "dispatch"
    BY <1>1 DEF Locals
  <2>3. Goto(w, l)
    BY <1>6 DEF JobFails
  <2>4. jobs' \in [Sales -> [Channels -> JobStatus]]
    BY <1>2, <1>6 DEF JobFails, Typed, TypeOK, JobStatus
  <2> HIDE DEF l
  <2>5. QED
    BY <1>2, <1>6, <2>1, <2>2, <2>3, <2>4, GotoTyped
<1>7. ASSUME FlagDoubleSale(w) PROVE Typed'
  <2>1. ~At(w, "idle") /\ Ack(w)
    BY <1>7 DEF FlagDoubleSale, At
  <2>2. flagged' \subseteq Sales
    BY <1>2, <1>7, <2>1 DEF FlagDoubleSale, Typed, TypeOK
  <2>3. QED
    BY <1>7, <2>1, <2>2, LeaveTyped, TypeFrame
    DEF FlagDoubleSale, dbVars, envVars, history
<1>8. ASSUME Push(w) PROVE Typed'
  <2> DEFINE l == [worker[w] EXCEPT !.pc = "mark"]
  <2>0. l \in Locals
    BY <1>1, LocalsUpdate
  <2>1. Goto(w, l) /\ At(w, "push")
    BY <1>8 DEF Push
  <2>2. l.msg = worker[w].msg /\ l.pc = "mark" /\ l.target = worker[w].target
    BY <1>1 DEF Locals
  <2>3. worker[w].target \in Channels /\ worker[w].msg \in Messages
    BY <1>2, <1>3, <2>1 DEF At
  <2>4. remote' \in [Channels -> Nat] /\ late' \subseteq Channels
    BY <1>8, <2>3, LandsTyped DEF Push
  <2> HIDE DEF l
  <2>5. worker' \in [Workers -> Locals] /\ Busy' /\ Aimed'
    BY <2>0, <2>1, <2>2, <2>3, GotoTyped
  <2>6. QED
    BY <1>8, <2>4, <2>5, TypeFrame DEF Push, dbVars
<1>9. ASSUME PushFails(w) PROVE Typed'
  <2>1. ~At(w, "idle") /\ worker[w].target \in Channels
    BY <1>3, <1>9 DEF PushFails, At
  <2>2. remote' \in [Channels -> Nat] /\ late' \subseteq Channels
    BY <1>9, <2>1, LandsTyped DEF PushFails, Typed, TypeOK
  <2>3. JobFails(w, worker[w].target)
    BY <1>9 DEF PushFails
  <2>4. QED
    BY <1>6, <2>1, <2>2, <2>3, TypeFrame DEF JobFails
<1>10. ASSUME MarkPushed(w) PROVE Typed'
  <2>1. ~At(w, "idle") /\ worker[w].target \in Channels
    BY <1>3, <1>10 DEF MarkPushed, At
  <2>2. jobs' \in [Sales -> [Channels -> JobStatus]]
    BY <1>2, <1>10, <2>1 DEF MarkPushed, Typed, TypeOK, JobStatus
  <2>3. JobDone(w, worker[w].target)
    BY <1>10 DEF MarkPushed
  <2>4. QED
    BY <1>5, <1>10, <2>1, <2>2, <2>3, TypeFrame DEF MarkPushed, envVars, history
<1>11. ASSUME EndDispatch(w) PROVE Typed'
  <2>1. ~At(w, "idle") /\ (Nack(w) \/ Ack(w))
    BY <1>11 DEF EndDispatch, At
  <2>2. QED
    BY <1>11, <2>1, LeaveTyped, TypeFrame DEF EndDispatch, dbVars, envVars, history
<1>12. ASSUME Crash(w) PROVE Typed'
  <2>1. ~At(w, "idle") /\ Nack(w)
    BY <1>12 DEF Crash
  <2>2. crashes' \in 0..MaxCrashes
    BY <1>12, SaleSyncAssumption DEF Crash, Typed, TypeOK
  <2>3. unrecorded' \in [Sales -> Nat]
    BY <1>12, <2>1, UnrecordedTyped DEF Crash
  <2>4. QED
    BY <1>12, <2>1, <2>2, <2>3, LeaveTyped, TypeFrame DEF Crash, dbVars
<1>13. ASSUME NEW c \in Channels, SkipJob(w, c) PROVE Typed'
  <2>1. ~At(w, "idle") /\ JobDone(w, c)
    BY <1>13 DEF SkipJob, Dispatching, At
  <2>2. QED
    BY <1>5, <1>13, <2>1, TypeFrame DEF SkipJob, dbVars, envVars, history
<1>14. ASSUME NEW c \in Channels, NoToken(w, c) PROVE Typed'
  <2>1. ~At(w, "idle") /\ JobFails(w, c) /\ UNCHANGED <<remote, late>>
    BY <1>14 DEF NoToken, Dispatching, At
  <2>2. QED
    BY <1>6, <2>1, TypeFrame DEF JobFails
<1>15. ASSUME NEW c \in Channels, ReadQuantity(w, c) PROVE Typed'
  <2> DEFINE n == IF worker[w].result.soldOut THEN 0
                  ELSE Available(master.quantity, c)
             l == [worker[w] EXCEPT !.pc = "push", !.target = c,
                                    !.seen = master, !.pushing = n]
  <2>1. Goto(w, l) /\ ~At(w, "idle")
    BY <1>15 DEF ReadQuantity, Dispatching, At
  <2>2. n \in Nat /\ master \in Row
    BY AvailableType DEF Typed, TypeOK, Row
  <2>3. l.msg = worker[w].msg /\ l.pc = "push" /\ l.target = c
    BY <1>1 DEF Locals
  <2> HIDE DEF n
  <2>4. l \in Locals
    BY <1>1, <2>2, LocalsUpdate
  <2> HIDE DEF l
  <2>5. worker' \in [Workers -> Locals] /\ Busy' /\ Aimed'
    BY <1>2, <2>1, <2>3, <2>4, GotoTyped
  <2>6. QED
    BY <1>15, <2>5, TypeFrame DEF ReadQuantity, dbVars, envVars, history
<1>16. QED
  BY <1>7, <1>8, <1>9, <1>10, <1>11, <1>12, <1>13, <1>14, <1>15

LEMMA NextTyped == Typed /\ [Next]_vars => Typed'
<1> SUFFICES ASSUME Typed, [Next]_vars PROVE Typed'
  OBVIOUS
<1>1. CASE UNCHANGED vars
  <2>1. UNCHANGED <<Busy, Aimed>>
    BY <1>1 DEF vars, Busy, Aimed, At
  <2>2. QED
    BY <1>1, <2>1, TypeFrame DEF vars, history
<1>2. ASSUME NEW w \in Workers, WorkerStep(w) \/ FaultStep(w) PROVE Typed'
  BY <1>2, PhaseATyped, PhaseBTyped DEF WorkerStep, FaultStep
<1>3. QED
  BY <1>1, <1>2, EnvironmentTyped DEF Next

\* The types hold, a busy worker has a message and a pushing one a target.
THEOREM TypedInvariant == Spec => []Typed
BY InitTyped, NextTyped, PTL DEF Spec

\* Every variable keeps to its type, whatever the failures: no quantity that
\* is stored, pushed or offered is ever negative (inventory.ts's clamps).
THEOREM TypeCorrect == Spec => []TypeOK
<1>1. Typed => TypeOK
  BY DEF Typed
<1>2. QED
  BY <1>1, TypedInvariant, PTL

------------------------------------------------------------------------------
(***************************************************************************)
(* One claimant                                                            *)
(*                                                                         *)
(* OneClaimant is inductive together with the types: while no run of the   *)
(* sale is unclaimed, a claim can only be won where nobody holds it, since *)
(* a holder's key is in_progress and not expired, and only the holder      *)
(* takes its key out of that state. The one step that lets another in, the *)
(* run a failed key admits, counts itself.                                 *)
(***************************************************************************)

\* No worker enters Phase A and those inside stay with their message.
NobodyEnters ==
  \A v \in Workers : worker'[v].pc \in PhaseA =>
    worker[v].pc \in PhaseA /\ worker'[v].msg = worker[v].msg

LEMMA ClaimFrame ==
  ASSUME OneClaimant, NobodyEnters, UNCHANGED <<idem, unclaimed>>
  PROVE  OneClaimant'
BY DEF OneClaimant, NobodyEnters, Holds, SaleAt

\* Only the rewritten worker can enter.
LEMMA GotoEnters ==
  ASSUME Typed, NEW w \in Workers, NEW l, Goto(w, l),
         l.pc \in PhaseA => worker[w].pc \in PhaseA /\ l.msg = worker[w].msg
  PROVE  /\ NobodyEnters
         /\ \A v \in Workers \ {w} : worker'[v] = worker[v]
         /\ worker'[w] = l
BY DEF Typed, TypeOK, Goto, NobodyEnters

\* Who is not in Phase A after a step on its own locals.
LEMMA LeaveEnters ==
  ASSUME Typed, NEW w \in Workers, Nack(w) \/ Ack(w)
  PROVE  /\ NobodyEnters
         /\ \A v \in Workers \ {w} : worker'[v] = worker[v]
         /\ worker'[w].pc = "idle"
<1>1. Goto(w, Idle) /\ Idle.pc = "idle"
  BY DEF Nack, Ack, Idle
<1>2. QED
  BY <1>1, GotoEnters DEF PhaseA

\* How the program counter moves in the steps that leave the keys alone, the
\* throw after the commit apart.
Flow == {<<"idle", "claim">>, <<"claim", "select">>, <<"select", "dispatch">>,
         <<"read", "order">>, <<"read", "cas">>, <<"read", "fail">>,
         <<"cas", "order">>, <<"cas", "read">>, <<"cas", "fail">>,
         <<"order", "complete">>,
         <<"dispatch", "dispatch">>, <<"dispatch", "push">>,
         <<"push", "mark">>, <<"push", "dispatch">>, <<"mark", "dispatch">>}

\* One worker moves along Flow, with its message and the outcome of its
\* transaction, or it leaves its message; past the commit only a crash makes it
\* leave.
Moves(w) ==
  /\ \A v \in Workers \ {w} : worker'[v] = worker[v]
  /\ \/ /\ <<worker[w].pc, worker'[w].pc>> \in Flow
        /\ worker[w].pc # "idle" => worker'[w].msg = worker[w].msg
        /\ worker'[w].pc = "order" =>
             \/ /\ worker[w].pc = "read" /\ ReadSoldOut(w)
                /\ worker'[w].result.alreadyZero
             \/ CommitSale(w)
        /\ worker'[w].pc = "complete" \/ worker'[w].pc \in PhaseB =>
             worker[w].pc = "select" \/ worker'[w].result = worker[w].result
     \/ /\ worker'[w].pc = "idle"
        /\ worker[w].pc \in {"order", "complete"} => Crash(w)

Quiet(w) ==
  \/ \E m \in Messages : Receive(w, m)
  \/ RefuseClaim(w) \/ ReplayResult(w) \/ LoseClaim(w)
  \/ ReadSoldOut(w) \/ ReadMaster(w) \/ CommitSale(w) \/ CasMismatch(w)
  \/ TxAborts(w) \/ RecordOrder(w) \/ OrderNotRecorded(w) \/ FailKeyThrows(w)
  \/ FlagDoubleSale(w) \/ Push(w) \/ PushFails(w) \/ MarkPushed(w)
  \/ EndDispatch(w) \/ Crash(w)
  \/ \E c \in Channels : SkipJob(w, c) \/ NoToken(w, c) \/ ReadQuantity(w, c)

LEMMA GotoMoves ==
  ASSUME Typed, NEW w \in Workers, NEW l, Goto(w, l),
         <<worker[w].pc, l.pc>> \in Flow,
         worker[w].pc # "idle" => l.msg = worker[w].msg,
         l.pc = "order" => \/ /\ worker[w].pc = "read" /\ ReadSoldOut(w)
                              /\ l.result.alreadyZero
                           \/ CommitSale(w),
         l.pc = "complete" \/ l.pc \in PhaseB =>
           worker[w].pc = "select" \/ l.result = worker[w].result
  PROVE  Moves(w)
BY DEF Typed, TypeOK, Goto, Moves

LEMMA LeaveMoves ==
  ASSUME Typed, NEW w \in Workers, Nack(w) \/ Ack(w),
         worker[w].pc \in {"order", "complete"} => Crash(w)
  PROVE  Moves(w)
BY DEF Nack, Ack, Goto, Idle, Typed, TypeOK, Moves

LEMMA QuietMoves ==
  ASSUME Typed, NEW w \in Workers, Quiet(w)
  PROVE  Moves(w)
<1> USE DEF At
<1>1. worker[w] \in Locals
  BY DEF Typed, TypeOK
<1>2. ASSUME NEW m \in Messages, Receive(w, m) PROVE Moves(w)
  <2>1. [Idle EXCEPT !.pc = "claim", !.msg = m].pc = "claim"
    BY DEF Idle
  <2>2. QED
    BY <1>2, <2>1, GotoMoves DEF Receive, Flow, PhaseB
<1>3. ASSUME ReplayResult(w) PROVE Moves(w)
  <2> DEFINE l == [worker[w] EXCEPT !.pc = "dispatch",
                                    !.result = idem[SaleAt(w)].result,
                                    !.todo = idem[SaleAt(w)].result.channels]
  <2>1. Goto(w, l)
    BY <1>3 DEF ReplayResult
  <2>2. /\ <<worker[w].pc, l.pc>> \in Flow /\ l.msg = worker[w].msg
        /\ l.pc = "dispatch" /\ worker[w].pc = "select"
    BY <1>1, <1>3 DEF ReplayResult, Flow, Locals
  <2> HIDE DEF l
  <2>3. QED
    BY <2>1, <2>2, GotoMoves
<1>4. ASSUME LoseClaim(w) PROVE Moves(w)
  BY <1>4, LeaveMoves DEF LoseClaim
<1>5. ASSUME ReadSoldOut(w) PROVE Moves(w)
  <2> DEFINE l == [worker[w] EXCEPT !.pc = "order",
                 !.result = [NoResult EXCEPT !.alreadyZero = TRUE,
                                             !.soldOut = TRUE]]
  <2>1. Goto(w, l)
    BY <1>5 DEF ReadSoldOut
  <2>2. /\ <<worker[w].pc, l.pc>> \in Flow /\ l.msg = worker[w].msg
        /\ l.pc = "order" /\ l.result.alreadyZero
    BY <1>1, <1>5 DEF ReadSoldOut, Flow, Locals, NoResult
  <2> HIDE DEF l
  <2>3. QED
    BY <1>5, <2>1, <2>2, GotoMoves DEF ReadSoldOut, PhaseB
<1>6. ASSUME ReadMaster(w) PROVE Moves(w)
  <2> DEFINE l == [worker[w] EXCEPT !.pc = "cas", !.seen = master]
  <2>1. Goto(w, l)
    BY <1>6 DEF ReadMaster
  <2>2. /\ <<worker[w].pc, l.pc>> \in Flow /\ l.msg = worker[w].msg
        /\ l.pc \notin {"order", "complete"} /\ l.result = worker[w].result
    BY <1>1, <1>6 DEF ReadMaster, Flow, Locals
  <2> HIDE DEF l
  <2>3. QED
    BY <2>1, <2>2, GotoMoves
<1>7. ASSUME CommitSale(w) PROVE Moves(w)
  <2> DEFINE l == [worker[w] EXCEPT !.pc = "order", !.result =
                 [alreadyZero |-> FALSE,
                  soldOut |-> AfterSale(worker[w].seen, SoldOn[SaleAt(w)],
                                        Units[SaleAt(w)]).soldOut,
                  quantity |-> AfterSale(worker[w].seen, SoldOn[SaleAt(w)],
                                         Units[SaleAt(w)]).quantity,
                  channels |-> OtherChannels(SaleAt(w)) \cap listed]]
  <2>1. Goto(w, l)
    BY <1>7 DEF CommitSale
  <2>2. /\ <<worker[w].pc, l.pc>> \in Flow /\ l.msg = worker[w].msg
        /\ l.pc = "order"
    BY <1>1, <1>7 DEF CommitSale, Flow, Locals, NoResult
  <2> HIDE DEF l
  <2>3. QED
    BY <1>7, <2>1, <2>2, GotoMoves DEF CommitSale, PhaseB
<1>8. ASSUME CasMismatch(w) PROVE Moves(w)
  <2> DEFINE l == [worker[w] EXCEPT
                 !.attempt = worker[w].attempt + 1,
                 !.pc = IF worker[w].attempt + 1 < MaxAttempts THEN "read"
                                                               ELSE "fail"]
  <2>1. Goto(w, l)
    BY <1>8 DEF CasMismatch
  <2>2. /\ <<worker[w].pc, l.pc>> \in Flow /\ l.msg = worker[w].msg
        /\ l.pc \notin {"order", "complete"} /\ l.result = worker[w].result
    BY <1>1, <1>8 DEF CasMismatch, Flow, Locals
  <2> HIDE DEF l
  <2>3. QED
    BY <2>1, <2>2, GotoMoves
<1>9. ASSUME TxAborts(w) PROVE Moves(w)
  <2> DEFINE l == [worker[w] EXCEPT !.pc = "fail"]
  <2>1. Goto(w, l)
    BY <1>9 DEF TxAborts
  <2>2. /\ <<worker[w].pc, l.pc>> \in Flow /\ l.msg = worker[w].msg
        /\ l.pc \notin {"order", "complete"} /\ l.result = worker[w].result
    BY <1>1, <1>9 DEF TxAborts, Flow, Locals
  <2> HIDE DEF l
  <2>3. QED
    BY <2>1, <2>2, GotoMoves
<1>10. ASSUME RecordOrder(w) PROVE Moves(w)
  <2> DEFINE l == [worker[w] EXCEPT !.pc = "complete"]
  <2>1. Goto(w, l)
    BY <1>10 DEF RecordOrder
  <2>2. /\ <<worker[w].pc, l.pc>> \in Flow /\ l.msg = worker[w].msg
        /\ l.pc = "complete" /\ l.result = worker[w].result
    BY <1>1, <1>10 DEF RecordOrder, Flow, Locals, NoResult
  <2> HIDE DEF l
  <2>3. QED
    BY <2>1, <2>2, GotoMoves
<1>11. ASSUME OrderNotRecorded(w) PROVE Moves(w)
  <2> DEFINE l == [worker[w] EXCEPT !.pc = "complete"]
  <2>1. Goto(w, l)
    BY <1>11 DEF OrderNotRecorded
  <2>2. /\ <<worker[w].pc, l.pc>> \in Flow /\ l.msg = worker[w].msg
        /\ l.pc = "complete" /\ l.result = worker[w].result
    BY <1>1, <1>11 DEF OrderNotRecorded, Flow, Locals, NoResult
  <2> HIDE DEF l
  <2>3. QED
    BY <2>1, <2>2, GotoMoves
<1>12. ASSUME FailKeyThrows(w) PROVE Moves(w)
  BY <1>12, LeaveMoves DEF FailKeyThrows
<1>13. ASSUME FlagDoubleSale(w) PROVE Moves(w)
  BY <1>13, LeaveMoves DEF FlagDoubleSale
<1>14. ASSUME Push(w) PROVE Moves(w)
  <2> DEFINE l == [worker[w] EXCEPT !.pc = "mark"]
  <2>1. Goto(w, l)
    BY <1>14 DEF Push
  <2>2. /\ <<worker[w].pc, l.pc>> \in Flow /\ l.msg = worker[w].msg
        /\ l.pc \notin {"order", "complete"} /\ l.result = worker[w].result
    BY <1>1, <1>14 DEF Push, Flow, Locals
  <2> HIDE DEF l
  <2>3. QED
    BY <2>1, <2>2, GotoMoves
<1>15. ASSUME PushFails(w) PROVE Moves(w)
  <2> DEFINE l == [worker[w] EXCEPT !.pc = "dispatch",
                 !.todo = @ \ {worker[w].target}, !.target = "none",
                 !.pushing = 0, !.failed = TRUE]
  <2>1. Goto(w, l)
    BY <1>15 DEF PushFails, JobFails
  <2>2. /\ <<worker[w].pc, l.pc>> \in Flow /\ l.msg = worker[w].msg
        /\ l.pc \notin {"order", "complete"} /\ l.result = worker[w].result
    BY <1>1, <1>15 DEF PushFails, Flow, Locals
  <2> HIDE DEF l
  <2>3. QED
    BY <2>1, <2>2, GotoMoves
<1>16. ASSUME MarkPushed(w) PROVE Moves(w)
  <2> DEFINE l == [worker[w] EXCEPT !.pc = "dispatch",
                 !.todo = @ \ {worker[w].target}, !.target = "none",
                 !.pushing = 0]
  <2>1. Goto(w, l)
    BY <1>16 DEF MarkPushed, JobDone
  <2>2. /\ <<worker[w].pc, l.pc>> \in Flow /\ l.msg = worker[w].msg
        /\ l.pc \notin {"order", "complete"} /\ l.result = worker[w].result
    BY <1>1, <1>16 DEF MarkPushed, Flow, Locals
  <2> HIDE DEF l
  <2>3. QED
    BY <2>1, <2>2, GotoMoves
<1>17. ASSUME EndDispatch(w) PROVE Moves(w)
  BY <1>17, LeaveMoves DEF EndDispatch
<1>18. ASSUME Crash(w) PROVE Moves(w)
  <2>1. Nack(w)
    BY <1>18 DEF Crash
  <2>2. QED
    BY <1>18, <2>1, LeaveMoves
<1>19. ASSUME NEW c \in Channels, SkipJob(w, c) PROVE Moves(w)
  <2> DEFINE l == [worker[w] EXCEPT !.pc = "dispatch", !.todo = @ \ {c},
                                    !.target = "none", !.pushing = 0]
  <2>1. Goto(w, l)
    BY <1>19 DEF SkipJob, JobDone
  <2>2. /\ <<worker[w].pc, l.pc>> \in Flow /\ l.msg = worker[w].msg
        /\ l.pc \notin {"order", "complete"} /\ l.result = worker[w].result
    BY <1>1, <1>19 DEF SkipJob, Flow, Locals, Dispatching
  <2> HIDE DEF l
  <2>3. QED
    BY <2>1, <2>2, GotoMoves
<1>20. ASSUME NEW c \in Channels, NoToken(w, c) PROVE Moves(w)
  <2> DEFINE l == [worker[w] EXCEPT !.pc = "dispatch", !.todo = @ \ {c},
                                    !.target = "none", !.pushing = 0,
                                    !.failed = TRUE]
  <2>1. Goto(w, l)
    BY <1>20 DEF NoToken, JobFails
  <2>2. /\ <<worker[w].pc, l.pc>> \in Flow /\ l.msg = worker[w].msg
        /\ l.pc \notin {"order", "complete"} /\ l.result = worker[w].result
    BY <1>1, <1>20 DEF NoToken, Flow, Locals, Dispatching
  <2> HIDE DEF l
  <2>3. QED
    BY <2>1, <2>2, GotoMoves
<1>21. ASSUME NEW c \in Channels, ReadQuantity(w, c) PROVE Moves(w)
  <2> DEFINE l == [worker[w] EXCEPT !.pc = "push", !.target = c,
                 !.seen = master,
                 !.pushing = IF worker[w].result.soldOut THEN 0
                             ELSE Available(master.quantity, c)]
  <2>1. Goto(w, l)
    BY <1>21 DEF ReadQuantity
  <2>2. /\ <<worker[w].pc, l.pc>> \in Flow /\ l.msg = worker[w].msg
        /\ l.pc \notin {"order", "complete"} /\ l.result = worker[w].result
    BY <1>1, <1>21 DEF ReadQuantity, Flow, Locals, Dispatching
  <2> HIDE DEF l
  <2>3. QED
    BY <2>1, <2>2, GotoMoves
<1>22. ASSUME RefuseClaim(w) PROVE Moves(w)
  <2> DEFINE l == [worker[w] EXCEPT !.pc = "select"]
  <2>1. Goto(w, l)
    BY <1>22 DEF RefuseClaim
  <2>2. /\ <<worker[w].pc, l.pc>> \in Flow /\ l.msg = worker[w].msg
        /\ l.pc \notin {"order", "complete"} /\ l.result = worker[w].result
    BY <1>1, <1>22 DEF RefuseClaim, Flow, Locals
  <2> HIDE DEF l
  <2>3. QED
    BY <2>1, <2>2, GotoMoves
<1>23. QED
  BY <1>2, <1>3, <1>4, <1>5, <1>6, <1>7, <1>8, <1>9, <1>10, <1>11, <1>12,
     <1>13, <1>14, <1>15, <1>16, <1>17, <1>18, <1>19, <1>20, <1>21, <1>22
     DEF Quiet

\* What the quiet steps leave alone: the keys, the ledger unless the step is
\* the commit, and the histories unless it is a crash.
LEMMA QuietLeaves ==
  ASSUME NEW w \in Workers, Quiet(w)
  PROVE  /\ UNCHANGED <<idem, unclaimed>>
         /\ CommitSale(w) \/ UNCHANGED applied
         /\ Crash(w) \/ UNCHANGED unrecorded
BY DEF Quiet, Receive, RefuseClaim, ReplayResult, LoseClaim, ReadSoldOut, ReadMaster,
       CommitSale, CasMismatch, TxAborts, RecordOrder, OrderNotRecorded,
       FailKeyThrows, FlagDoubleSale, Push, PushFails, MarkPushed,
       EndDispatch, Crash, SkipJob, NoToken, ReadQuantity, JobFails, dbVars,
       envVars, history

LEMMA MovesEnters == \A w \in Workers : Moves(w) => NobodyEnters
BY DEF Moves, Flow, NobodyEnters, PhaseA

\* The throw after the commit stays within Phase A.
LEMMA ThrowEnters ==
  ASSUME Typed, NEW w \in Workers, ThrowsAfterCommit(w)
  PROVE  /\ NobodyEnters /\ UNCHANGED <<idem, applied, unclaimed>>
         /\ \A v \in Workers \ {w} : worker'[v] = worker[v]
<1> DEFINE l == [worker[w] EXCEPT !.pc = "fail"]
<1>1. Goto(w, l) /\ UNCHANGED <<idem, applied, unclaimed>>
  BY DEF ThrowsAfterCommit, dbVars
<1>2. l.msg = worker[w].msg /\ worker[w].pc \in PhaseA
  BY DEF ThrowsAfterCommit, PhaseA, Typed, TypeOK, Locals
<1> HIDE DEF l
<1>3. QED
  BY <1>1, <1>2, GotoEnters

\* The steps by which a worker writes a key.
LEMMA KeyStep ==
  ASSUME Typed, OneClaimant, NEW w \in Workers,
         WinClaim(w) \/ Complete(w) \/ FailKey(w)
  PROVE  OneClaimant'
<1> DEFINE s == SaleAt(w)
<1>1. s \in Sales /\ worker[w] \in Locals
  BY SaleAtType DEF WinClaim, Complete, FailKey, At
<1>2. idem[s] \in KeyRow /\ idem \in [Sales -> KeyRow]
  BY <1>1 DEF Typed, TypeOK
<1>3. \A v \in Workers : worker[v].pc \in PhaseA => SaleAt(v) \in Sales
  BY SaleAtType DEF At, PhaseA
<1>4. ASSUME WinClaim(w) PROVE OneClaimant'
  <2> DEFINE l == [worker[w] EXCEPT !.pc = "read"]
             r == [status |-> "in_progress", expired |-> FALSE,
                   result |-> NoResult]
  <2>1. Goto(w, l) /\ idem' = [idem EXCEPT ![s] = r] /\ Claimable(s)
    BY <1>4 DEF WinClaim
  <2>2. l.pc = "read" /\ l.msg = worker[w].msg
    BY <1>1 DEF Locals
  <2>3. unclaimed[s] = 0 => \A v \in Workers : ~Holds(v, s)
    BY <2>1 DEF OneClaimant, Claimable, Holds
  <2>9. UNCHANGED unclaimed
    BY <1>4 DEF WinClaim, envVars, history
  <2>4. /\ worker'[w] = l
        /\ \A v \in Workers \ {w} : worker'[v] = worker[v]
    <3> HIDE DEF l
    <3>1. QED
      BY <2>1 DEF Goto, Typed, TypeOK
  <2>5. idem'[s].status = "in_progress" /\ ~idem'[s].expired
    BY <1>1, <1>2, <2>1
  <2>6. \A t \in Sales \ {s} : idem'[t] = idem[t]
    BY <1>2, <2>1
  <2>7. SaleAt(w)' = s /\ \A v \in Workers \ {w} : SaleAt(v)' = SaleAt(v)
    BY <2>2, <2>4 DEF SaleAt
  <2> HIDE DEF l, r, s
  <2>8. QED
    BY <1>1, <1>3, <2>2, <2>3, <2>4, <2>5, <2>6, <2>7, <2>9
    DEF OneClaimant, Holds
<1>5. ASSUME Complete(w) \/ FailKey(w) PROVE OneClaimant'
  <2>1. /\ worker'[w].pc \notin PhaseA
        /\ \A v \in Workers \ {w} : worker'[v] = worker[v]
    <3>1. CASE Complete(w)
      <4> DEFINE l == [worker[w] EXCEPT !.pc = "dispatch",
                                        !.todo = worker[w].result.channels]
      <4>1. Goto(w, l) /\ l.pc = "dispatch"
        BY <1>1, <3>1 DEF Complete, Locals
      <4> HIDE DEF l
      <4>2. QED
        BY <4>1, GotoEnters DEF PhaseA
    <3>2. CASE FailKey(w)
      BY <3>2, LeaveEnters DEF FailKey, PhaseA
    <3>3. QED
      BY <1>5, <3>1, <3>2
  <2>2. \A t \in Sales \ {s} : idem'[t] = idem[t]
    BY <1>2, <1>5 DEF Complete, FailKey
  <2>3. worker[w].pc \in PhaseA
    BY <1>5 DEF Complete, FailKey, At, PhaseA
  <2>4. unclaimed[s] = 0 => \A v \in Workers \ {w} : ~Holds(v, s)
    BY <2>3 DEF OneClaimant
  <2>7. UNCHANGED unclaimed
    BY <1>5 DEF Complete, FailKey, envVars, history
  <2>5. \A v \in Workers \ {w} : SaleAt(v)' = SaleAt(v)
    BY <2>1 DEF SaleAt
  <2> HIDE DEF s
  <2>6. QED
    BY <1>3, <2>1, <2>2, <2>4, <2>5, <2>7 DEF OneClaimant, Holds
<1>6. QED
  BY <1>4, <1>5

\* The step that enters Phase A without a claim.
LEMMA SlipStep ==
  ASSUME Typed, NEW w \in Workers, RunUnclaimed(w)
  PROVE  /\ \A v \in Workers \ {w} : worker'[v] = worker[v]
         /\ worker[w].pc = "select" /\ worker'[w].pc = "read"
         /\ worker'[w].msg = worker[w].msg /\ SaleAt(w) \in Sales
         /\ idem[SaleAt(w)].status = "failed"
         /\ unclaimed' = [unclaimed EXCEPT ![SaleAt(w)] = @ + 1]
         /\ unclaimed' \in [Sales -> Nat]
         /\ unclaimed'[SaleAt(w)] = unclaimed[SaleAt(w)] + 1
         /\ \A t \in Sales \ {SaleAt(w)} : unclaimed'[t] = unclaimed[t]
         /\ UNCHANGED <<idem, applied, unrecorded>>
<1> DEFINE l == [worker[w] EXCEPT !.pc = "read"]
<1>1. worker[w] \in Locals /\ SaleAt(w) \in Sales /\ worker[w].pc = "select"
  BY SaleAtType DEF RunUnclaimed, At
<1>2. Goto(w, l) /\ l.pc = "read" /\ l.msg = worker[w].msg
  BY <1>1 DEF RunUnclaimed, Locals
<1> HIDE DEF l
<1>3. worker'[w] = l /\ \A v \in Workers \ {w} : worker'[v] = worker[v]
  BY <1>2 DEF Goto, Typed, TypeOK
<1>4. /\ idem[SaleAt(w)].status = "failed"
      /\ unclaimed' = [unclaimed EXCEPT ![SaleAt(w)] = @ + 1]
      /\ UNCHANGED <<idem, applied, unrecorded>>
  BY DEF RunUnclaimed, dbVars
<1>5. unclaimed \in [Sales -> Nat]
  BY SaleSyncAssumption DEF Typed, TypeOK
<1>6. QED
  BY <1>1, <1>2, <1>3, <1>4, <1>5

LEMMA NextClaims == Typed /\ OneClaimant /\ [Next]_vars => OneClaimant'
<1> SUFFICES ASSUME Typed, OneClaimant, [Next]_vars PROVE OneClaimant'
  OBVIOUS
<1>1. CASE UNCHANGED <<worker, idem, unclaimed>>
  BY <1>1, ClaimFrame DEF NobodyEnters
<1>2. ASSUME NEW s \in Sales, ClaimExpires(s) PROVE OneClaimant'
  <2>1. UNCHANGED <<worker, unclaimed>> /\ \A v \in Workers : ~Holds(v, s)
    BY <1>2 DEF ClaimExpires, envVars, history
  <2>2. \A t \in Sales \ {s} : idem'[t] = idem[t]
    BY <1>2 DEF ClaimExpires, Typed, TypeOK
  <2>3. \A v \in Workers : worker[v].pc \in PhaseA => SaleAt(v) \in Sales
    BY SaleAtType DEF At, PhaseA
  <2>4. QED
    BY <2>1, <2>2, <2>3 DEF OneClaimant, Holds, SaleAt
<1>3. ASSUME NEW w \in Workers, WorkerStep(w) \/ FaultStep(w)
      PROVE  OneClaimant'
  <2>1. CASE WinClaim(w) \/ Complete(w) \/ FailKey(w)
    BY <2>1, KeyStep
  <2>4. CASE RunUnclaimed(w)
    <3>1. \A v \in Workers : worker[v].pc \in PhaseA => SaleAt(v) \in Sales
      BY SaleAtType DEF At, PhaseA
    <3>2. unclaimed[SaleAt(w)] \in Nat /\ SaleAt(w)' = SaleAt(w)
      BY <2>4, SlipStep, SaleSyncAssumption DEF Typed, TypeOK, SaleAt
    <3>3. unclaimed'[SaleAt(w)] # 0
      BY <2>4, <3>2, SlipStep
    <3>4. \A v \in Workers \ {w} : SaleAt(v)' = SaleAt(v)
      BY <2>4, SlipStep DEF SaleAt
    <3>5. QED
      BY <2>4, <3>1, <3>2, <3>3, <3>4, SlipStep DEF OneClaimant, Holds
  <2>2. CASE ~(WinClaim(w) \/ Complete(w) \/ FailKey(w) \/ RunUnclaimed(w))
    <3>1. Quiet(w) \/ ThrowsAfterCommit(w)
      BY <1>3, <2>2 DEF WorkerStep, FaultStep, Quiet
    <3>2. QED
      BY <3>1, QuietMoves, QuietLeaves, MovesEnters, ThrowEnters, ClaimFrame
  <2>3. QED
    BY <2>1, <2>2, <2>4
<1>4. ASSUME NEW s \in Sales, BuyerOrders(s) PROVE UNCHANGED <<worker, idem, unclaimed>>
  BY <1>4 DEF BuyerOrders, envVars, history
<1>5. ASSUME NEW m \in Messages, EnqueueSale(m) \/ Redrive(m)
      PROVE  UNCHANGED <<worker, idem, unclaimed>>
  BY <1>5 DEF EnqueueSale, Redrive, envVars, history
<1>6. ASSUME NEW c \in Channels, Unlist(c) PROVE UNCHANGED <<worker, idem, unclaimed>>
  BY <1>6 DEF Unlist, envVars, history
<1>7. UNCHANGED vars => UNCHANGED <<worker, idem, unclaimed>>
  BY DEF vars, envVars, history
<1>8. QED
  BY <1>1, <1>2, <1>3, <1>4, <1>5, <1>6, <1>7 DEF Next

LEMMA InitClaims == Init => OneClaimant
BY DEF Init, OneClaimant, Idle, PhaseA

\* Until one of them runs unclaimed, duplicate deliveries never run Phase A of one
\* sale together: tryClaim's upsert admits one of them, and a dead owner's claim
\* only after its TTL.
THEOREM OneClaimantHolds == Spec => []OneClaimant
BY InitClaims, NextClaims, TypedInvariant, PTL DEF Spec

\* A completed key is final while no run of the sale was unclaimed: only the
\* holder of a claim writes its outcome, only the holder decrements, and a
\* holder's key is in_progress.
THEOREM CompletedIsFinalHolds == Spec => CompletedIsFinal
<1> DEFINE Final == \A s \in Sales : idem[s].status = "completed" /\ unclaimed[s] = 0 =>
                      idem'[s] = idem[s] /\ applied'[s] = applied[s]
<1>1. ASSUME Typed, OneClaimant, [Next]_vars PROVE Final
  <2>1. ASSUME NEW w \in Workers, WorkerStep(w) \/ FaultStep(w) PROVE Final
    <3> DEFINE t == SaleAt(w)
    <3>1. worker[w].pc \in PhaseA /\ unclaimed[t] = 0 =>
            idem[t].status = "in_progress"
      BY <1>1 DEF OneClaimant
    <3>2. CASE WinClaim(w)
      BY <1>1, <3>2 DEF WinClaim, Claimable, dbVars, Typed, TypeOK
    <3>3. CASE Complete(w) \/ FailKey(w)
      BY <1>1, <3>1, <3>3
      DEF Complete, FailKey, At, PhaseA, dbVars, Typed, TypeOK
    <3>4. CASE CommitSale(w)
      <4>1. /\ unclaimed[t] = 0 => idem[t].status = "in_progress"
            /\ applied' = [applied EXCEPT ![t] = @ + 1] /\ UNCHANGED idem
        BY <3>1, <3>4 DEF CommitSale, At, PhaseA
      <4> HIDE DEF t
      <4>2. QED
        BY <1>1, <4>1 DEF Typed, TypeOK
    <3>7. CASE RunUnclaimed(w)
      BY <1>1, <3>7, SlipStep
    <3>5. CASE ~(\/ WinClaim(w) \/ Complete(w) \/ FailKey(w) \/ CommitSale(w)
                \/ RunUnclaimed(w))
      <4>1. Quiet(w) \/ ThrowsAfterCommit(w)
        BY <2>1, <3>5 DEF WorkerStep, FaultStep, Quiet
      <4>2. QED
        BY <1>1, <3>5, <4>1, QuietLeaves, ThrowEnters
    <3>6. QED
      BY <3>2, <3>3, <3>4, <3>5, <3>7
  <2>2. ASSUME NEW s \in Sales, ClaimExpires(s) PROVE Final
    BY <1>1, <2>2 DEF ClaimExpires, dbVars, Typed, TypeOK
  <2>3. ASSUME NEW s \in Sales, BuyerOrders(s) PROVE Final
    BY <2>3 DEF BuyerOrders, dbVars
  <2>4. ASSUME NEW m \in Messages, EnqueueSale(m) \/ Redrive(m) PROVE Final
    BY <2>4 DEF EnqueueSale, Redrive, dbVars
  <2>5. ASSUME NEW c \in Channels, Unlist(c) PROVE Final
    BY <2>5 DEF Unlist, dbVars
  <2>6. UNCHANGED vars => Final
    BY DEF vars
  <2>7. QED
    BY <1>1, <2>1, <2>2, <2>3, <2>4, <2>5, <2>6 DEF Next
<1>2. Spec => [][Final]_vars
  BY <1>1, TypedInvariant, OneClaimantHolds, PTL DEF Spec
<1>3. QED
  BY <1>2 DEF CompletedIsFinal

------------------------------------------------------------------------------
(***************************************************************************)
(* The idempotency guard                                                   *)
(*                                                                         *)
(* A delivery that wins a claim finds the key nobody's, one that slips in  *)
(* does while the key is given back, and whatever takes one out of Phase A *)
(* leaves the key decided, free or, with a death, as it is.                *)
(***************************************************************************)

\* What the guard sees.
KeyState == [s \in Sales |-> KeyIs(s)]
HeldKeys == [w \in Workers |-> Under(w)]

\* A worker that leaves Phase A leaves its key in the state it then has.
LEMMA LeavesGuard ==
  ASSUME Typed, NEW w \in Workers,
         worker[w].pc \in PhaseA, worker'[w].pc \notin PhaseA,
         \A v \in Workers \ {w} : worker'[v] = worker[v],
         \A t \in Sales \ {SaleAt(w)} : idem'[t] = idem[t],
         \A s \in Sales : s = SaleAt(w) =>
           KeyIs(s)' \in {"done", "free", KeyIs(s)}
  PROVE  Guard!Next
<1>1. PICK s \in Sales : s = SaleAt(w)
  BY SaleAtType DEF At, PhaseA
<1>2. HeldKeys' = [HeldKeys EXCEPT ![w] = {}]
  BY DEF HeldKeys, Under, SaleAt
<1>3. KeyState' = [KeyState EXCEPT ![s] = KeyIs(s)']
  <2>1. \A t \in Sales : t # s => KeyIs(t)' = KeyIs(t)
    BY <1>1 DEF KeyIs
  <2> QED
    BY <2>1 DEF KeyState
<1>4. KeyIs(s)' \in {"done", "free", KeyState[s]}
  BY <1>1 DEF KeyState
<1>5. s \in HeldKeys[w]
  BY <1>1 DEF HeldKeys, Under
<1>6. Guard!Leave(w, s)
  BY <1>2, <1>3, <1>4 DEF Guard!Leave, HeldKeys, KeyState
<1> QED
  BY <1>5, <1>6 DEF Guard!Next, HeldKeys

\* A step that leaves the keys alone.
LEMMA SameKeysGuard ==
  ASSUME Typed, NEW w \in Workers, NobodyEnters, UNCHANGED idem,
         \A v \in Workers \ {w} : worker'[v] = worker[v]
  PROVE  [Guard!Next]_(Guard!vars)
<1>1. CASE worker'[w].pc \in PhaseA \/ worker[w].pc \notin PhaseA
  <2>1. \A v \in Workers : Under(v)' = Under(v)
    BY <1>1 DEF NobodyEnters, Under, SaleAt
  <2> QED
    BY <2>1 DEF Guard!vars, KeyIs
<1>2. CASE worker'[w].pc \notin PhaseA /\ worker[w].pc \in PhaseA
  BY <1>2, LeavesGuard DEF KeyIs
<1> QED
  BY <1>1, <1>2

LEMMA ClaimGuard ==
  ASSUME Typed, NEW w \in Workers, WinClaim(w)
  PROVE  Guard!Next
<1>1. PICK s \in Sales : s = SaleAt(w) /\ worker[w].pc = "claim"
  BY SaleAtType DEF WinClaim, At
<1>2. worker[w] \in Locals /\ idem \in [Sales -> KeyRow]
  BY DEF Typed, TypeOK
<1>3. /\ worker'[w].pc = "read" /\ worker'[w].msg = worker[w].msg
      /\ \A v \in Workers \ {w} : worker'[v] = worker[v]
  <2> DEFINE l == [worker[w] EXCEPT !.pc = "read"]
  <2>1. l.pc = "read" /\ l.msg = worker[w].msg
    BY <1>2 DEF Locals
  <2>2. Goto(w, l)
    BY DEF WinClaim
  <2> HIDE DEF l
  <2> QED
    BY <2>1, <2>2 DEF Goto, Typed, TypeOK
<1>4. /\ idem'[s].status = "in_progress" /\ ~idem'[s].expired
      /\ \A t \in Sales \ {s} : idem'[t] = idem[t]
  BY <1>1, <1>2 DEF WinClaim
<1>5. HeldKeys[w] = {} /\ HeldKeys' = [HeldKeys EXCEPT ![w] = {s}]
  BY <1>1, <1>3 DEF HeldKeys, Under, SaleAt, PhaseA
<1>6. KeyState[s] = "free" /\ KeyState' = [KeyState EXCEPT ![s] = "claimed"]
  <2>1. KeyIs(s) = "free"
    BY <1>1 DEF WinClaim, Claimable, KeyIs
  <2>2. KeyIs(s)' = "claimed" /\ \A t \in Sales : t # s => KeyIs(t)' = KeyIs(t)
    BY <1>4 DEF KeyIs
  <2> QED
    BY <2>1, <2>2 DEF KeyState
<1>7. Guard!Claim(w, s)
  BY <1>5, <1>6 DEF Guard!Claim, Guard!Enter, HeldKeys, KeyState
<1>8. s \in HeldKeys'[w]
  BY <1>5 DEF HeldKeys
<1> QED
  BY <1>7, <1>8 DEF Guard!Next, HeldKeys

\* The run a key just given back lets in.
LEMMA SlipGuard ==
  ASSUME Typed, NEW w \in Workers, RunUnclaimed(w)
  PROVE  Guard!Next
<1>1. PICK s \in Sales : s = SaleAt(w)
  BY SlipStep
<1>2. HeldKeys[w] = {} /\ HeldKeys' = [HeldKeys EXCEPT ![w] = {s}]
  <2>1. /\ worker[w].pc = "select" /\ worker'[w].pc = "read"
        /\ worker'[w].msg = worker[w].msg
        /\ \A v \in Workers \ {w} : worker'[v] = worker[v]
    BY SlipStep
  <2> QED
    BY <1>1, <2>1 DEF HeldKeys, Under, SaleAt, PhaseA
<1>3. KeyState[s] = "free" /\ UNCHANGED KeyState
  BY <1>1, SlipStep DEF KeyState, KeyIs
<1>4. Guard!Slip(w, s)
  BY <1>2, <1>3 DEF Guard!Slip, Guard!Enter, HeldKeys, KeyState
<1>5. s \in HeldKeys'[w]
  BY <1>2 DEF HeldKeys
<1> QED
  BY <1>4, <1>5 DEF Guard!Next, HeldKeys

LEMMA OutcomeGuard ==
  ASSUME Typed, NEW w \in Workers, Complete(w) \/ FailKey(w)
  PROVE  Guard!Next
<1>1. worker[w] \in Locals /\ idem \in [Sales -> KeyRow]
  BY DEF Typed, TypeOK
<1>2. /\ worker'[w].pc \notin PhaseA
      /\ \A v \in Workers \ {w} : worker'[v] = worker[v]
  <2>1. CASE Complete(w)
    <3> DEFINE l == [worker[w] EXCEPT !.pc = "dispatch",
                                      !.todo = worker[w].result.channels]
    <3>1. Goto(w, l) /\ l.pc = "dispatch"
      BY <1>1, <2>1 DEF Complete, Locals
    <3> HIDE DEF l
    <3> QED
      BY <3>1, GotoEnters DEF PhaseA
  <2>2. CASE FailKey(w)
    BY <2>2, LeaveEnters DEF FailKey, PhaseA
  <2> QED
    BY <2>1, <2>2
<1>3. \A t \in Sales \ {SaleAt(w)} : idem'[t] = idem[t]
  BY <1>1 DEF Complete, FailKey
<1>4. worker[w].pc \in PhaseA
  BY DEF Complete, FailKey, At, PhaseA
<1>5. ASSUME NEW s \in Sales, s = SaleAt(w) PROVE KeyIs(s)' \in {"done", "free"}
  <2>1. idem[s] \in KeyRow
    BY <1>1
  <2>2. idem'[s].status \in {"completed", "failed"}
    BY <1>1, <1>5, <2>1 DEF Complete, FailKey, KeyRow
  <2> QED
    BY <2>2 DEF KeyIs
<1> QED
  BY <1>2, <1>3, <1>4, <1>5, LeavesGuard

LEMMA ExpiryGuard ==
  ASSUME Typed, NEW s \in Sales, ClaimExpires(s)
  PROVE  Guard!Next
<1>1. UNCHANGED HeldKeys /\ \A w \in Workers : s \notin HeldKeys[w]
  BY DEF ClaimExpires, HeldKeys, Under, SaleAt, Holds
<1>2. KeyIs(s) = "claimed" /\ KeyIs(s)' = "free"
  BY DEF ClaimExpires, KeyIs, Typed, TypeOK, KeyRow
<1>3. \A t \in Sales : t # s => KeyIs(t)' = KeyIs(t)
  BY DEF ClaimExpires, KeyIs, Typed, TypeOK
<1>4. KeyState[s] = "claimed" /\ KeyState' = [KeyState EXCEPT ![s] = "free"]
  BY <1>2, <1>3 DEF KeyState
<1>5. Guard!Expire(s)
  BY <1>1, <1>4 DEF Guard!Expire, HeldKeys, KeyState
<1> QED
  BY <1>5 DEF Guard!Next

LEMMA NextGuard ==
  Typed /\ [Next]_vars => [Guard!Next]_(Guard!vars)
<1> SUFFICES ASSUME Typed, [Next]_vars
             PROVE  [Guard!Next]_(Guard!vars)
  OBVIOUS
<1>1. CASE UNCHANGED <<worker, idem>>
  BY <1>1 DEF Guard!vars, KeyIs, Under, SaleAt
<1>2. ASSUME NEW w \in Workers, WorkerStep(w) \/ FaultStep(w)
      PROVE  [Guard!Next]_(Guard!vars)
  <2>1. CASE WinClaim(w) \/ Complete(w) \/ FailKey(w)
    BY <2>1, ClaimGuard, OutcomeGuard
  <2>3. CASE RunUnclaimed(w)
    BY <2>3, SlipGuard
  <2>2. CASE ~(WinClaim(w) \/ Complete(w) \/ FailKey(w) \/ RunUnclaimed(w))
    <3>1. Quiet(w) \/ ThrowsAfterCommit(w)
      BY <1>2, <2>2 DEF WorkerStep, FaultStep, Quiet
    <3>2. /\ NobodyEnters /\ UNCHANGED idem
          /\ \A v \in Workers \ {w} : worker'[v] = worker[v]
      BY <3>1, QuietMoves, QuietLeaves, MovesEnters, ThrowEnters DEF Moves
    <3> QED
      BY <3>2, SameKeysGuard
  <2> QED
    BY <2>1, <2>2, <2>3
<1>3. ASSUME \/ \E s \in Sales : BuyerOrders(s)
             \/ \E m \in Messages : EnqueueSale(m) \/ Redrive(m)
             \/ \E c \in Channels : Unlist(c)
             \/ UNCHANGED vars
      PROVE  UNCHANGED <<worker, idem>>
  BY <1>3 DEF BuyerOrders, EnqueueSale, Redrive, Unlist, vars
<1> QED
  BY <1>1, <1>2, <1>3, ExpiryGuard DEF Next

\* Whatever dies, throws, expires or is redriven, Phase A gets from the idempotency
\* guard what it promises and no more: a live claim or a recorded result admits
\* nobody, and who is in Phase A without a claim slipped in while the key was given
\* back (withIdempotency, IdempotencyStore.tryClaim).
THEOREM ImplementsGuardHolds == Spec => ImplementsGuard
<1>1. Init => Guard!Init
  BY DEF Init, Guard!Init, KeyIs, Under, Idle, PhaseA
<1> QED
  BY <1>1, NextGuard, TypedInvariant, PTL
     DEF Spec, ImplementsGuard, Guard!Spec

------------------------------------------------------------------------------
(***************************************************************************)
(* Every decrement accounted for                                           *)
(*                                                                         *)
(* A sale may be taken once: by whoever holds its claim or, while nobody   *)
(* does, by whoever claims it next. The strengthening counts what has been *)
(* taken, the runs of Phase A that have not taken anything and the room    *)
(* the key leaves for one more. A step moves units between the three; only *)
(* a run without a claim, and one that loses what it has taken, add to     *)
(* them, and both are counted.                                             *)
(***************************************************************************)
Early == {"read", "cas", "fail"}
Late  == {"order", "complete"}

\* A run of Phase A that has taken nothing, so far or at all, or is about to
\* give the key back.
Pending(w, s) ==
  /\ SaleAt(w) = s
  /\ \/ worker[w].pc \in Early
     \/ worker[w].pc \in Late /\ worker[w].result.alreadyZero

Undecided(s) == {w \in Workers : Pending(w, s)}

\* The key admits another run, at once or when the claim of a dead one expires.
Open(s) ==
  \/ Claimable(s)
  \/ idem[s].status = "in_progress" /\ \A w \in Workers : ~Holds(w, s)

One(b) == IF b THEN 1 ELSE 0

Account(s) ==
  /\ IsFiniteSet(Undecided(s))
  /\ applied[s] + Cardinality(Undecided(s)) + One(Open(s))
       <= 1 + unclaimed[s] + unrecorded[s]

Accounts == \A s \in Sales : Account(s)

\* A step of one worker changes the undecided runs by that worker at most.
LEMMA UndecidedStep ==
  ASSUME NEW w \in Workers, NEW s \in Sales, IsFiniteSet(Undecided(s)),
         \A v \in Workers \ {w} : worker'[v] = worker[v]
  PROVE  /\ IsFiniteSet(Undecided(s)')
         /\ Cardinality(Undecided(s)) \in Nat
         /\ Cardinality(Undecided(s)')
              = Cardinality(Undecided(s)) + One(Pending(w, s)') - One(Pending(w, s))
<1>1. \A v \in Workers \ {w} : v \in Undecided(s)' <=> v \in Undecided(s)
  BY DEF Undecided, Pending, SaleAt
<1>2. /\ w \in Undecided(s) <=> Pending(w, s)
      /\ w \in Undecided(s)' <=> Pending(w, s)'
  BY DEF Undecided
<1>3. Undecided(s) \subseteq Workers /\ Undecided(s)' \subseteq Workers
  BY DEF Undecided
<1>4. Cardinality(Undecided(s)) \in Nat
  BY FS_CardinalityType
<1>5. CASE Pending(w, s)' /\ ~Pending(w, s)
  <2>1. Undecided(s)' = Undecided(s) \cup {w} /\ w \notin Undecided(s)
    BY <1>1, <1>2, <1>3, <1>5
  <2>2. QED
    BY <1>4, <1>5, <2>1, FS_AddElement DEF One
<1>6. CASE ~Pending(w, s)' /\ Pending(w, s)
  <2>1. Undecided(s)' = Undecided(s) \ {w} /\ w \in Undecided(s)
    BY <1>1, <1>2, <1>3, <1>6
  <2>2. QED
    BY <1>4, <1>6, <2>1, FS_RemoveElement DEF One
<1>7. CASE Pending(w, s)' <=> Pending(w, s)
  <2>1. Undecided(s)' = Undecided(s)
    BY <1>1, <1>2, <1>3, <1>7
  <2>2. QED
    BY <1>4, <1>7, <2>1 DEF One
<1>8. QED
  BY <1>5, <1>6, <1>7

\* A step of one worker about one sale keeps the accounts if it adds nothing to
\* that sale's.
LEMMA AccountStep ==
  ASSUME Typed, Accounts, NEW w \in Workers, NEW s \in Sales, Typed',
         \A v \in Workers \ {w} : worker'[v] = worker[v],
         \A t \in Sales \ {s} :
           /\ idem'[t] = idem[t] /\ applied'[t] = applied[t]
           /\ unclaimed'[t] = unclaimed[t] /\ unrecorded'[t] = unrecorded[t],
         worker[w].pc \in PhaseA => SaleAt(w) = s,
         worker'[w].pc \in PhaseA => SaleAt(w)' = s,
         applied'[s] + One(Pending(w, s)') + One(Open(s)')
             + unclaimed[s] + unrecorded[s]
           <= applied[s] + One(Pending(w, s)) + One(Open(s))
                + unclaimed'[s] + unrecorded'[s]
  PROVE  Accounts'
<1>1. \A t \in Sales : /\ applied[t] \in Nat /\ applied'[t] \in Nat
                        /\ unclaimed[t] \in Nat /\ unclaimed'[t] \in Nat
                        /\ unrecorded[t] \in Nat /\ unrecorded'[t] \in Nat
  BY SaleSyncAssumption DEF Typed, TypeOK
<1>2. \A b : One(b) \in {0, 1}
  BY DEF One
<1>3. ASSUME NEW t \in Sales PROVE Account(t)'
  <2>1. /\ IsFiniteSet(Undecided(t)')
        /\ Cardinality(Undecided(t)) \in Nat
        /\ Cardinality(Undecided(t)')
             = Cardinality(Undecided(t)) + One(Pending(w, t)') - One(Pending(w, t))
    BY UndecidedStep DEF Accounts, Account
  <2>2. CASE t = s
    <3>1. applied[s] + Cardinality(Undecided(s)) + One(Open(s))
            <= 1 + unclaimed[s] + unrecorded[s]
      BY DEF Accounts, Account
    <3>2. applied'[s] + Cardinality(Undecided(s)') + One(Open(s)')
            <= 1 + unclaimed'[s] + unrecorded'[s]
      <4> DEFINE a == One(Open(s)) b == One(Open(s)') c == One(Pending(w, s))
                 d == One(Pending(w, s)') n == Cardinality(Undecided(s))
                 k == Cardinality(Undecided(s)')
      <4>1. /\ a \in {0, 1} /\ b \in {0, 1} /\ c \in {0, 1} /\ d \in {0, 1}
            /\ n \in Nat /\ k = n + d - c
        BY <1>2, <2>1, <2>2
      <4>2. applied'[s] + d + b + unclaimed[s] + unrecorded[s]
              <= applied[s] + c + a + unclaimed'[s] + unrecorded'[s]
        OBVIOUS
      <4>3. applied[s] + n + a <= 1 + unclaimed[s] + unrecorded[s]
        BY <3>1
      <4> HIDE DEF a, b, c, d, n, k
      <4>4. applied'[s] + k + b <= 1 + unclaimed'[s] + unrecorded'[s]
        BY <1>1, <4>1, <4>2, <4>3
      <4>5. QED
        BY <4>4 DEF b, k
    <3>3. QED
      BY <2>1, <2>2, <3>2 DEF Account
  <2>3. CASE t # s
    <3>1. Pending(w, t)' = Pending(w, t)
      BY <2>3 DEF Pending, PhaseA, Early, Late
    <3>2. Open(t)' = Open(t)
      <4>1. \A v \in Workers : Holds(v, t)' = Holds(v, t)
        BY <2>3 DEF Holds, SaleAt
      <4>2. QED
        BY <2>3, <4>1 DEF Open, Claimable
    <3>3. Cardinality(Undecided(t)') = Cardinality(Undecided(t))
      BY <1>2, <2>1, <3>1
    <3>4. QED
      BY <2>1, <2>3, <3>2, <3>3 DEF Accounts, Account
  <2>4. QED
    BY <2>2, <2>3
<1>4. QED
  BY <1>3 DEF Accounts

\* The steps that leave keys, ledger and histories alone: an undecided run may
\* come to its end, and only such a run leaves Phase A.
LEMMA MovesAccount ==
  ASSUME Typed, Accounts, Typed', NEW w \in Workers, Moves(w), ~CommitSale(w),
         UNCHANGED <<idem, applied, unclaimed, unrecorded>>
  PROVE  Accounts'
<1> USE DEF Early, Late, PhaseA
<1>1. ASSUME NEW s \in Sales, worker[w].pc \in PhaseA => SaleAt(w) = s,
             worker'[w].pc \in PhaseA => SaleAt(w)' = s,
             Pending(w, s)' => Pending(w, s),
             Holds(w, s) => Holds(w, s)' \/ Pending(w, s)
      PROVE  Accounts'
  <2>0. \A v \in Workers \ {w} : worker'[v] = worker[v]
    BY DEF Moves
  <2>1. One(Pending(w, s)') + One(Open(s)') <= One(Pending(w, s)) + One(Open(s))
    <3>1. \A v \in Workers \ {w} : Holds(v, s)' = Holds(v, s)
      BY <2>0 DEF Holds, SaleAt
    <3>2. Pending(w, s) => Holds(w, s)
      BY DEF Pending, Holds
    <3>2a. Pending(w, s)' => Holds(w, s)'
      BY DEF Pending, Holds
    <3>3. Open(s)' => Open(s) \/ (Pending(w, s) /\ ~Pending(w, s)')
      <4>1. Claimable(s)' = Claimable(s)
        BY DEF Claimable
      <4>2. CASE Holds(w, s)' \/ ~Holds(w, s)
        BY <3>1, <4>1, <4>2 DEF Open
      <4>3. CASE ~Holds(w, s)' /\ Holds(w, s)
        BY <1>1, <3>2a, <4>3
      <4>4. QED
        BY <4>2, <4>3
    <3>4. QED
      BY <1>1, <3>3 DEF One
  <2>2. /\ applied[s] \in Nat /\ unclaimed[s] \in Nat /\ unrecorded[s] \in Nat
        /\ One(Pending(w, s)) \in Nat /\ One(Open(s)) \in Nat
        /\ One(Pending(w, s)') \in Nat /\ One(Open(s)') \in Nat
    BY SaleSyncAssumption DEF Typed, TypeOK, One
  <2>3. applied'[s] + One(Pending(w, s)') + One(Open(s)')
            + unclaimed[s] + unrecorded[s]
          <= applied[s] + One(Pending(w, s)) + One(Open(s))
               + unclaimed'[s] + unrecorded'[s]
    BY <2>1, <2>2
  <2>4. QED
    BY <1>1, <2>0, <2>3, AccountStep
<1>2. CASE worker[w].pc \in PhaseA
  <2>1. PICK s \in Sales : s = SaleAt(w)
    BY <1>2, SaleAtType DEF At
  <2>2. worker'[w].pc \in PhaseA => SaleAt(w)' = s
    BY <1>2, <2>1 DEF Moves, SaleAt, Flow
  <2>3. Pending(w, s)' => Pending(w, s)
    BY <1>2, <2>1 DEF Moves, Flow, Pending, SaleAt
  <2>4. Holds(w, s)' \/ Pending(w, s)
    <3>1. CASE worker'[w].pc # "idle"
      BY <1>2, <2>1, <3>1 DEF Moves, Flow, Holds, SaleAt
    <3>2. CASE worker'[w].pc = "idle" /\ worker[w].pc \in Late
      <4>1. EndsUnrecorded(w) /\ unrecorded[s] \in Nat
        BY <2>1, <3>2 DEF Moves, Flow, Crash, Typed, TypeOK
      <4>2. worker[w].result.alreadyZero
        BY <2>1, <3>2, <4>1 DEF EndsUnrecorded, Typed, TypeOK
      <4>3. QED
        BY <2>1, <3>2, <4>2 DEF Pending
    <3>3. CASE worker[w].pc \in Early
      BY <2>1, <3>3 DEF Pending
    <3>4. QED
      BY <1>2, <3>1, <3>2, <3>3
  <2>5. QED
    BY <1>1, <2>1, <2>2, <2>3, <2>4
<1>3. CASE worker[w].pc \notin PhaseA
  <2>1. worker'[w].pc \notin PhaseA
    BY <1>3 DEF Moves, Flow
  <2>2. CASE Sales = {}
    BY <2>2 DEF Accounts
  <2>3. ASSUME NEW s \in Sales PROVE Accounts'
    <3>1. ~Pending(w, s)' /\ ~Holds(w, s)
      BY <1>3, <2>1 DEF Pending, Holds
    <3>2. QED
      BY <1>1, <1>3, <2>1, <3>1
  <2>4. QED
    BY <2>2, <2>3
<1>4. QED
  BY <1>2, <1>3

\* What the claim and the outcome do to the worker and the key.
LEMMA DecidingStep ==
  ASSUME Typed, NEW w \in Workers, NEW s \in Sales, s = SaleAt(w),
         WinClaim(w) \/ Complete(w) \/ FailKey(w) \/ CommitSale(w)
  PROVE  /\ \A v \in Workers \ {w} : worker'[v] = worker[v]
         /\ \A t \in Sales \ {s} : idem'[t] = idem[t] /\ applied'[t] = applied[t]
         /\ UNCHANGED <<unclaimed, unrecorded>>
         /\ WinClaim(w) =>
              /\ worker[w].pc = "claim" /\ worker'[w].pc = "read"
              /\ worker'[w].msg = worker[w].msg /\ applied'[s] = applied[s]
              /\ idem'[s].status = "in_progress" /\ ~idem'[s].expired
              /\ Claimable(s)
         /\ Complete(w) => /\ worker[w].pc = "complete"
                           /\ worker'[w].pc = "dispatch"
                           /\ worker'[w].msg = worker[w].msg
                           /\ worker'[w].result = worker[w].result
                           /\ idem'[s].status = "completed"
                           /\ idem'[s].result = worker[w].result
                           /\ applied'[s] = applied[s]
         /\ FailKey(w) => /\ worker[w].pc = "fail" /\ worker'[w].pc = "idle"
                          /\ idem'[s].status = "failed"
                          /\ applied'[s] = applied[s]
         /\ CommitSale(w) => /\ worker[w].pc = "cas" /\ worker'[w].pc = "order"
                             /\ worker'[w].msg = worker[w].msg
                             /\ ~worker'[w].result.alreadyZero
                             /\ applied'[s] = applied[s] + 1
                             /\ UNCHANGED idem
<1>1. /\ worker[w] \in Locals /\ idem \in [Sales -> KeyRow] /\ idem[s] \in KeyRow
      /\ applied \in [Sales -> Nat]
  BY DEF Typed, TypeOK
<1>2. CASE WinClaim(w)
  <2> DEFINE l == [worker[w] EXCEPT !.pc = "read"]
  <2>1. Goto(w, l) /\ l.pc = "read" /\ l.msg = worker[w].msg
    BY <1>1, <1>2 DEF WinClaim, Locals
  <2> HIDE DEF l
  <2>2. worker'[w] = l /\ \A v \in Workers \ {w} : worker'[v] = worker[v]
    BY <2>1 DEF Goto, Typed, TypeOK
  <2>3. QED
    BY <1>1, <1>2, <2>1, <2>2 DEF WinClaim, Complete, FailKey, CommitSale, At,
       dbVars, envVars, history
<1>3. CASE Complete(w)
  <2> DEFINE l == [worker[w] EXCEPT !.pc = "dispatch",
                                    !.todo = worker[w].result.channels]
  <2>1. /\ Goto(w, l) /\ l.pc = "dispatch" /\ l.msg = worker[w].msg
        /\ l.result = worker[w].result
    BY <1>1, <1>3 DEF Complete, Locals
  <2> HIDE DEF l
  <2>2. worker'[w] = l /\ \A v \in Workers \ {w} : worker'[v] = worker[v]
    BY <2>1 DEF Goto, Typed, TypeOK
  <2>3. /\ idem'[s].status = "completed" /\ idem'[s].result = worker[w].result
        /\ \A t \in Sales \ {s} : idem'[t] = idem[t]
    BY <1>1, <1>3 DEF Complete, KeyRow
  <2>4. QED
    BY <1>1, <1>3, <2>1, <2>2, <2>3 DEF WinClaim, Complete, FailKey, CommitSale,
       At, dbVars, envVars, history
<1>4. CASE FailKey(w)
  <2>1. worker'[w].pc = "idle" /\ \A v \in Workers \ {w} : worker'[v] = worker[v]
    BY <1>4, LeaveEnters DEF FailKey
  <2>2. /\ idem'[s].status = "failed"
        /\ \A t \in Sales \ {s} : idem'[t] = idem[t]
    BY <1>1, <1>4 DEF FailKey, KeyRow
  <2>3. QED
    BY <1>1, <1>4, <2>1, <2>2 DEF WinClaim, Complete, FailKey, CommitSale, At,
       dbVars, envVars, history
<1>5. CASE CommitSale(w)
  <2> DEFINE r == [alreadyZero |-> FALSE,
                   soldOut |-> AfterSale(worker[w].seen, SoldOn[SaleAt(w)],
                                         Units[SaleAt(w)]).soldOut,
                   quantity |-> AfterSale(worker[w].seen, SoldOn[SaleAt(w)],
                                          Units[SaleAt(w)]).quantity,
                   channels |-> OtherChannels(SaleAt(w)) \cap listed]
             l == [worker[w] EXCEPT !.pc = "order", !.result = r]
  <2>1. Goto(w, l)
    BY <1>5 DEF CommitSale
  <2>2. l.pc = "order" /\ l.msg = worker[w].msg /\ ~l.result.alreadyZero
    BY <1>1 DEF Locals
  <2> HIDE DEF l
  <2>3. worker'[w] = l /\ \A v \in Workers \ {w} : worker'[v] = worker[v]
    BY <2>1 DEF Goto, Typed, TypeOK
  <2>4. QED
    BY <1>1, <1>5, <2>2, <2>3 DEF WinClaim, Complete, FailKey, CommitSale, At,
       envVars, history
<1>6. QED
  BY <1>2, <1>3, <1>4, <1>5

LEMMA DecidingAccount ==
  ASSUME Typed, Accounts, Typed', NEW w \in Workers,
         WinClaim(w) \/ Complete(w) \/ FailKey(w) \/ CommitSale(w)
  PROVE  Accounts'
<1> USE DEF Early, Late
<1>1. PICK s \in Sales : s = SaleAt(w)
  BY SaleAtType DEF WinClaim, Complete, FailKey, CommitSale, At
<1>2. /\ applied[s] \in Nat /\ unclaimed[s] \in Nat /\ unrecorded[s] \in Nat
      /\ One(Pending(w, s)) \in {0, 1} /\ One(Open(s)) \in {0, 1}
      /\ One(Pending(w, s)') \in {0, 1} /\ One(Open(s)') \in {0, 1}
  BY SaleSyncAssumption DEF Typed, TypeOK, One
<1>3. applied'[s] + One(Pending(w, s)') + One(Open(s)')
        <= applied[s] + One(Pending(w, s)) + One(Open(s))
  <2>1. CASE WinClaim(w)
    <3>1. Holds(w, s)' /\ ~Claimable(s)' /\ Open(s)
      BY <1>1, <2>1, DecidingStep DEF Holds, SaleAt, PhaseA, Claimable, Open
    <3>2. ~Open(s)'
      BY <3>1 DEF Open
    <3>3. applied'[s] = applied[s]
      BY <1>1, <2>1, DecidingStep
    <3>4. QED
      BY <1>2, <3>1, <3>2, <3>3 DEF One
  <2>2. CASE Complete(w)
    <3>1. ~Open(s)' /\ ~Pending(w, s)' /\ applied'[s] = applied[s]
      BY <1>1, <2>2, DecidingStep DEF Open, Claimable, Pending
    <3>2. QED
      BY <1>2, <3>1 DEF One
  <2>3. CASE FailKey(w)
    <3>1. Pending(w, s) /\ ~Pending(w, s)' /\ applied'[s] = applied[s]
      BY <1>1, <2>3, DecidingStep DEF Pending
    <3>2. QED
      BY <1>2, <3>1 DEF One
  <2>4. CASE CommitSale(w)
    <3>1. Pending(w, s) /\ ~Pending(w, s)' /\ applied'[s] = applied[s] + 1
      BY <1>1, <2>4, DecidingStep DEF Pending
    <3>2. Open(s)' => Open(s)
      <4>1. Holds(w, s)' /\ Claimable(s)' = Claimable(s)
        BY <1>1, <2>4, DecidingStep DEF Holds, SaleAt, PhaseA, Claimable
      <4>2. QED
        BY <4>1 DEF Open
    <3>3. QED
      BY <1>2, <3>1, <3>2 DEF One
  <2>5. QED
    BY <2>1, <2>2, <2>3, <2>4
<1>4. /\ \A v \in Workers \ {w} : worker'[v] = worker[v]
      /\ \A t \in Sales \ {s} : idem'[t] = idem[t] /\ applied'[t] = applied[t]
      /\ UNCHANGED <<unclaimed, unrecorded>>
      /\ worker'[w].pc \in PhaseA => SaleAt(w)' = s
  BY <1>1, DecidingStep DEF SaleAt, PhaseA
<1>5. applied'[s] + One(Pending(w, s)') + One(Open(s)')
          + unclaimed[s] + unrecorded[s]
        <= applied[s] + One(Pending(w, s)) + One(Open(s))
             + unclaimed'[s] + unrecorded'[s]
  <2>1. applied'[s] \in Nat
    BY DEF Typed, TypeOK
  <2>2. unclaimed'[s] = unclaimed[s] /\ unrecorded'[s] = unrecorded[s]
    BY <1>4
  <2>3. QED
    BY <1>2, <1>3, <2>1, <2>2
<1>6. QED
  BY <1>1, <1>4, <1>5, AccountStep

\* The run without a claim counts itself, as does the one that loses its commit.
LEMMA HistoryAccount ==
  ASSUME Typed, Accounts, Typed', NEW w \in Workers,
         RunUnclaimed(w) \/ ThrowsAfterCommit(w) \/ Crash(w)
  PROVE  Accounts'
<1> USE DEF Early, Late
<1>1. PICK s \in Sales : s = SaleAt(w)
  BY SaleAtType DEF RunUnclaimed, ThrowsAfterCommit, Crash, At
<1>2. /\ applied[s] \in Nat /\ unclaimed[s] \in Nat /\ unrecorded[s] \in Nat
      /\ One(Pending(w, s)) \in {0, 1} /\ One(Open(s)) \in {0, 1}
      /\ One(Pending(w, s)') \in {0, 1} /\ One(Open(s)') \in {0, 1}
  BY SaleSyncAssumption DEF Typed, TypeOK, One
<1>3. CASE RunUnclaimed(w)
  <2>1. /\ \A v \in Workers \ {w} : worker'[v] = worker[v]
        /\ UNCHANGED <<idem, applied, unrecorded>>
        /\ \A t \in Sales \ {s} : unclaimed'[t] = unclaimed[t]
        /\ unclaimed'[s] = unclaimed[s] + 1
        /\ worker'[w].pc \in PhaseA => SaleAt(w)' = s
        /\ worker[w].pc \notin PhaseA
    BY <1>1, <1>3, SlipStep DEF PhaseA, SaleAt
  <2>2. Open(s)
    BY <1>1, <1>3, SlipStep DEF Open, Claimable
  <2>3. applied'[s] + One(Pending(w, s)') + One(Open(s)')
            + unclaimed[s] + unrecorded[s]
          <= applied[s] + One(Pending(w, s)) + One(Open(s))
               + unclaimed'[s] + unrecorded'[s]
    BY <1>2, <2>1, <2>2 DEF One
  <2>4. QED
    BY <1>1, <2>1, <2>3, AccountStep
<1>4. CASE ThrowsAfterCommit(w) \/ Crash(w)
  <2>1. /\ \A v \in Workers \ {w} : worker'[v] = worker[v]
        /\ UNCHANGED <<idem, applied, unclaimed>>
        /\ worker'[w].pc \in PhaseA => SaleAt(w)' = s /\ ThrowsAfterCommit(w)
        /\ Crash(w) => worker'[w].pc = "idle"
    <3>1. CASE Crash(w)
      BY <3>1, LeaveEnters DEF Crash, PhaseA, dbVars
    <3>2. CASE ThrowsAfterCommit(w)
      <4>1. ~Crash(w)
        <5>1. worker'[w].pc = "fail"
          BY <3>2 DEF ThrowsAfterCommit, Goto, Typed, TypeOK, Locals
        <5>2. QED
          BY <5>1, LeaveEnters DEF Crash
      <4>2. QED
        BY <1>1, <3>2, <4>1, ThrowEnters DEF NobodyEnters, SaleAt
    <3>3. QED
      BY <1>4, <3>1, <3>2
  <2>2. CASE UNCHANGED unrecorded /\ Crash(w)
    <3>1. Moves(w) /\ ~CommitSale(w)
      <4>1. Moves(w)
        BY <2>2, QuietMoves DEF Quiet
      <4>2. worker'[w].pc = "idle"
        BY <2>1, <2>2
      <4>3. QED
        BY <1>1, <4>1, <4>2, DecidingStep
    <3>2. QED
      BY <2>1, <2>2, <3>1, MovesAccount
  <2>3. CASE UNCHANGED unrecorded /\ ThrowsAfterCommit(w)
    <3>1. worker[w].pc \in Late /\ worker[w].result.alreadyZero
      BY <1>1, <1>2, <2>3 DEF ThrowsAfterCommit, EndsUnrecorded, Typed, TypeOK
    <3>2. Pending(w, s)
      BY <1>1, <3>1 DEF Pending
    <3>3. /\ \A v \in Workers : Holds(v, s)' = Holds(v, s)
          /\ SaleAt(w)' = s
      <4>1. worker'[w].pc = "fail" /\ worker'[w].msg = worker[w].msg
        BY <2>3 DEF ThrowsAfterCommit, Goto, Typed, TypeOK, Locals
      <4>2. QED
        BY <1>1, <2>1, <3>1, <4>1 DEF Holds, SaleAt, PhaseA
    <3>4. Open(s)' = Open(s)
      BY <2>1, <3>3 DEF Open, Claimable
    <3>5. applied'[s] + One(Pending(w, s)') + One(Open(s)')
              + unclaimed[s] + unrecorded[s]
            <= applied[s] + One(Pending(w, s)) + One(Open(s))
                 + unclaimed'[s] + unrecorded'[s]
      BY <1>2, <2>1, <2>3, <3>2, <3>4 DEF One
    <3>6. QED
      BY <1>1, <2>1, <2>3, <3>5, AccountStep
  <2>4. CASE unrecorded' # unrecorded
    <3>1. /\ worker[w].pc \in Late /\ ~worker[w].result.alreadyZero
          /\ unrecorded' = [unrecorded EXCEPT ![s] = @ + 1]
      BY <1>1, <1>4, <2>4 DEF ThrowsAfterCommit, Crash, EndsUnrecorded
    <3>2. /\ unrecorded'[s] = unrecorded[s] + 1
          /\ \A t \in Sales \ {s} : unrecorded'[t] = unrecorded[t]
      BY <3>1 DEF Typed, TypeOK
    <3>3. One(Pending(w, s)') + One(Open(s)') <= One(Open(s)) + 1
      <4>1. CASE Crash(w)
        <5>1. ~Pending(w, s)'
          BY <2>1, <4>1 DEF Pending
        <5>2. QED
          BY <1>2, <5>1 DEF One
      <4>2. CASE ThrowsAfterCommit(w)
        <5>1. worker'[w].pc = "fail" /\ worker'[w].msg = worker[w].msg
          BY <4>2 DEF ThrowsAfterCommit, Goto, Typed, TypeOK, Locals
        <5>2. \A v \in Workers : Holds(v, s)' = Holds(v, s)
          BY <1>1, <2>1, <3>1, <5>1 DEF Holds, SaleAt, PhaseA
        <5>3. Open(s)' = Open(s)
          BY <2>1, <5>2 DEF Open, Claimable
        <5>4. QED
          BY <1>2, <5>3
      <4>3. QED
        BY <1>4, <4>1, <4>2
    <3>4. applied'[s] + One(Pending(w, s)') + One(Open(s)')
              + unclaimed[s] + unrecorded[s]
            <= applied[s] + One(Pending(w, s)) + One(Open(s))
                 + unclaimed'[s] + unrecorded'[s]
      BY <1>2, <2>1, <3>2, <3>3
    <3>5. QED
      BY <1>1, <2>1, <3>2, <3>4, AccountStep
  <2>5. QED
    BY <1>4, <2>2, <2>3, <2>4
<1>5. QED
  BY <1>3, <1>4

\* An expiry opens no more than the death of the owner already did.
LEMMA ExpiryAccount ==
  ASSUME Typed, Accounts, NEW s \in Sales, ClaimExpires(s)
  PROVE  Accounts'
<1>1. /\ idem[s].status = "in_progress" /\ \A w \in Workers : ~Holds(w, s)
      /\ UNCHANGED <<worker, applied, unclaimed, unrecorded>>
      /\ \A t \in Sales \ {s} : idem'[t] = idem[t]
  BY DEF ClaimExpires, dbVars, envVars, history, Typed, TypeOK
<1>2. Open(s)
  BY <1>1 DEF Open
<1>3. \A t \in Sales : Open(t)' => Open(t)
  BY <1>1, <1>2 DEF Open, Claimable, Holds, SaleAt
<1>4. \A t \in Sales : UNCHANGED Undecided(t)
  BY <1>1 DEF Undecided, Pending, SaleAt
<1>5. ASSUME NEW t \in Sales PROVE Account(t)'
  <2>1. /\ applied[t] \in Nat /\ unclaimed[t] \in Nat /\ unrecorded[t] \in Nat
        /\ One(Open(t)') <= One(Open(t)) /\ One(Open(t)) \in Nat
        /\ One(Open(t)') \in Nat
    BY <1>3, SaleSyncAssumption DEF Typed, TypeOK, One
  <2>2. IsFiniteSet(Undecided(t)) /\ Cardinality(Undecided(t)) \in Nat
    BY FS_CardinalityType DEF Accounts, Account
  <2>3. QED
    BY <1>1, <1>4, <2>1, <2>2 DEF Accounts, Account
<1>6. QED
  BY <1>5 DEF Accounts

LEMMA NextAccounts == Typed /\ Accounts /\ [Next]_vars => Accounts'
<1> SUFFICES ASSUME Typed, Accounts, [Next]_vars PROVE Accounts'
  OBVIOUS
<1>T. Typed'
  BY NextTyped
<1>1. CASE UNCHANGED <<worker, idem, applied, unclaimed, unrecorded>>
  <2>1. \A s \in Sales : UNCHANGED <<Undecided(s), Open(s)>>
    BY <1>1 DEF Undecided, Pending, Open, Claimable, Holds, SaleAt
  <2>2. QED
    BY <1>1, <2>1 DEF Accounts, Account
<1>2. ASSUME NEW w \in Workers, WorkerStep(w) \/ FaultStep(w) PROVE Accounts'
  <2>1. CASE WinClaim(w) \/ CommitSale(w) \/ Complete(w) \/ FailKey(w)
    BY <1>T, <2>1, DecidingAccount
  <2>2. CASE RunUnclaimed(w) \/ ThrowsAfterCommit(w) \/ Crash(w)
    BY <1>T, <2>2, HistoryAccount
  <2>3. CASE ~(\/ WinClaim(w) \/ CommitSale(w) \/ Complete(w) \/ FailKey(w)
               \/ RunUnclaimed(w) \/ ThrowsAfterCommit(w) \/ Crash(w))
    <3>1. Quiet(w)
      BY <1>2, <2>3 DEF WorkerStep, FaultStep, Quiet
    <3>2. QED
      BY <1>T, <2>3, <3>1, QuietMoves, QuietLeaves, MovesAccount
  <2>4. QED
    BY <2>1, <2>2, <2>3
<1>3. ASSUME \/ \E s \in Sales : BuyerOrders(s)
             \/ \E m \in Messages : EnqueueSale(m) \/ Redrive(m)
             \/ \E c \in Channels : Unlist(c)
             \/ UNCHANGED vars
      PROVE  UNCHANGED <<worker, idem, applied, unclaimed, unrecorded>>
  BY <1>3 DEF BuyerOrders, EnqueueSale, Redrive, Unlist, vars, dbVars, envVars,
              history
<1>4. QED
  BY <1>1, <1>2, <1>3, ExpiryAccount DEF Next

LEMMA InitAccounts == Init => Accounts
<1> SUFFICES ASSUME Init, NEW s \in Sales PROVE Account(s)
  BY DEF Accounts
<1>1. Undecided(s) = {}
  BY DEF Init, Undecided, Pending, Idle, Early, Late
<1>2. Claimable(s)
  BY DEF Init, Claimable
<1>3. QED
  BY <1>1, <1>2, FS_EmptySet DEF Account, Init, Open, One

THEOREM AccountsInvariant == Spec => []Accounts
BY InitAccounts, NextAccounts, TypedInvariant, PTL DEF Spec

\* Whatever fails, dies, expires or is redriven, with any number of workers and
\* copies: a sale is taken off the stock once, and once more at most for each run
\* that entered Phase A without a claim or committed and recorded no result.
THEOREM DecrementsAccountedHolds == Spec => []DecrementsAccounted
<1>1. Typed /\ Accounts => DecrementsAccounted
  <2> SUFFICES ASSUME Typed, Accounts, NEW s \in Sales
               PROVE  applied[s] <= 1 + unclaimed[s] + unrecorded[s]
    BY DEF DecrementsAccounted
  <2>1. /\ applied[s] \in Nat /\ unclaimed[s] \in Nat /\ unrecorded[s] \in Nat
        /\ One(Open(s)) \in Nat
    BY SaleSyncAssumption DEF Typed, TypeOK, One
  <2>2. Cardinality(Undecided(s)) \in Nat
    BY FS_CardinalityType DEF Accounts, Account
  <2>3. QED
    BY <2>1, <2>2 DEF Accounts, Account
<1>2. QED
  BY <1>1, TypedInvariant, AccountsInvariant, PTL
------------------------------------------------------------------------------
(***************************************************************************)
(* The ledger implemented                                                  *)
(*                                                                         *)
(* A commit is a step of the abstract ledger because what it computes from *)
(* is the row there is: a matching version means a matching row, and the   *)
(* row was read with stock left; the accounts say that it may be taken.    *)
(* The steps that count themselves in the histories lose track of a sale.  *)
(* Every other step leaves stock, ledger and histories alone.              *)
(***************************************************************************)

\* What a worker holds on its way to the compare-and-swap.
FreshRead ==
  \A w \in Workers : worker[w].pc = "cas" =>
    /\ worker[w].seen \in Row
    /\ worker[w].seen.quantity > 0
    /\ worker[w].seen.version =< master.version
    /\ worker[w].seen.version = master.version => worker[w].seen = master

\* Nobody comes to the compare-and-swap, and who is there keeps its read.
NobodyReads ==
  \A v \in Workers : worker'[v].pc = "cas" =>
    worker[v].pc = "cas" /\ worker'[v].seen = worker[v].seen

LEMMA ReadFrame ==
  ASSUME FreshRead, NobodyReads, UNCHANGED master
  PROVE  FreshRead'
BY DEF FreshRead, NobodyReads

\* Among the quiet steps only ReadMaster comes to the compare-and-swap.
LEMMA QuietReads ==
  ASSUME Typed, NEW w \in Workers, Quiet(w), ~ReadMaster(w)
  PROVE  NobodyReads
<1>1. Moves(w)
  BY QuietMoves
<1>2. worker[w].pc = "read" => worker'[w].pc # "cas"
  <2> SUFFICES ASSUME worker[w].pc = "read" PROVE worker'[w].pc # "cas"
    OBVIOUS
  <2>1. worker[w] \in Locals
    BY DEF Typed, TypeOK
  <2>2. ReadSoldOut(w) \/ TxAborts(w) \/ Crash(w)
    BY DEF Quiet, Receive, RefuseClaim, ReplayResult, LoseClaim, CommitSale, CasMismatch, RecordOrder,
       OrderNotRecorded, FailKeyThrows, FlagDoubleSale, Push, PushFails, MarkPushed,
       EndDispatch, SkipJob, NoToken, ReadQuantity, Dispatching, At
  <2>3. CASE ReadSoldOut(w)
    <3> DEFINE r == [NoResult EXCEPT !.alreadyZero = TRUE, !.soldOut = TRUE]
               l == [worker[w] EXCEPT !.pc = "order", !.result = r]
    <3>1. Goto(w, l)
      BY <2>3 DEF ReadSoldOut
    <3>2. l.pc = "order"
      BY <2>1 DEF Locals
    <3> HIDE DEF l
    <3>3. QED
      BY <3>1, <3>2 DEF Goto, Typed, TypeOK
  <2>4. CASE TxAborts(w)
    BY <2>1, <2>4 DEF TxAborts, Goto, Typed, TypeOK, Locals
  <2>5. CASE Crash(w)
    BY <2>5, LeaveEnters DEF Crash
  <2>6. QED
    BY <2>2, <2>3, <2>4, <2>5
<1>3. QED
  BY <1>1, <1>2 DEF Moves, Flow, NobodyReads

\* The quiet steps that write the row, and those that do not.
LEMMA QuietRow ==
  ASSUME NEW w \in Workers, Quiet(w)
  PROVE  CommitSale(w) \/ UNCHANGED master
BY DEF Quiet, Receive, RefuseClaim, ReplayResult, LoseClaim, ReadSoldOut, ReadMaster,
       CommitSale, CasMismatch, TxAborts, RecordOrder, OrderNotRecorded,
       FailKeyThrows, FlagDoubleSale, Push, PushFails, MarkPushed,
       EndDispatch, Crash, SkipJob, NoToken, ReadQuantity, JobFails, dbVars

\* A commit raises the version, so whoever else has read has an older one.
LEMMA CommitReads ==
  ASSUME Typed, FreshRead, NEW w \in Workers, CommitSale(w)
  PROVE  /\ FreshRead'
         /\ worker[w].seen = master /\ master.quantity > 0
         /\ master' = AfterSale(master, SoldOn[SaleAt(w)], Units[SaleAt(w)])
<1>1. /\ worker[w].pc = "cas" /\ master.version = worker[w].seen.version
      /\ master' = AfterSale(worker[w].seen, SoldOn[SaleAt(w)], Units[SaleAt(w)])
  BY DEF CommitSale, At
<1>2. worker[w].seen = master /\ master.quantity > 0
  BY <1>1 DEF FreshRead
<1>3. master.version \in Nat /\ master'.version = master.version + 1
  BY <1>1, <1>2 DEF AfterSale, Typed, TypeOK, Row
<1>4. NobodyReads
  <2>1. Moves(w) /\ ~ReadMaster(w)
    BY <1>1, QuietMoves DEF Quiet, ReadMaster, At
  <2>2. QED
    BY QuietReads DEF Quiet, ReadMaster, At, CommitSale
<1>5. QED
  <2>1. ASSUME NEW v \in Workers, worker'[v].pc = "cas"
        PROVE  /\ worker'[v].seen \in Row /\ worker'[v].seen.quantity > 0
               /\ worker'[v].seen.version < master'.version
    <3>1. worker[v].pc = "cas" /\ worker'[v].seen = worker[v].seen
      BY <1>4, <2>1 DEF NobodyReads
    <3>2. worker[v].seen.version \in Nat
      BY <3>1 DEF FreshRead, Row
    <3>3. QED
      BY <1>3, <3>1, <3>2 DEF FreshRead
  <2>2. master'.version \in Nat /\ \A v \in Workers : worker'[v].seen \in Row => worker'[v].seen.version \in Nat
    BY <1>3 DEF Row
  <2>3. FreshRead'
    BY <2>1, <2>2 DEF FreshRead
  <2>4. QED
    BY <1>1, <1>2, <2>3

LEMMA NextReads == Typed /\ FreshRead /\ [Next]_vars => FreshRead'
<1> SUFFICES ASSUME Typed, FreshRead, [Next]_vars PROVE FreshRead'
  OBVIOUS
<1>1. CASE UNCHANGED <<worker, master>>
  BY <1>1, ReadFrame DEF NobodyReads
<1>2. ASSUME NEW w \in Workers, Quiet(w) PROVE FreshRead'
  <2>1. CASE ReadMaster(w)
    <3> DEFINE l == [worker[w] EXCEPT !.pc = "cas", !.seen = master]
    <3>1. Goto(w, l) /\ UNCHANGED master /\ ~AlreadyZero(master)
      BY <2>1 DEF ReadMaster, dbVars
    <3>2. l.seen = master
      BY DEF Typed, TypeOK, Locals
    <3>3. master \in Row /\ master.quantity \in Nat /\ master.version \in Nat
      BY DEF Typed, TypeOK, Row
    <3>4. master.quantity > 0
      BY <3>1, <3>3 DEF AlreadyZero
    <3> HIDE DEF l
    <3>5. worker'[w] = l /\ \A v \in Workers \ {w} : worker'[v] = worker[v]
      BY <3>1 DEF Goto, Typed, TypeOK
    <3>6. QED
      BY <3>1, <3>2, <3>3, <3>4, <3>5 DEF FreshRead
  <2>2. CASE CommitSale(w)
    BY <2>2, CommitReads
  <2>3. CASE ~ReadMaster(w) /\ ~CommitSale(w)
    BY <1>2, <2>3, QuietReads, QuietRow, ReadFrame
  <2>4. QED
    BY <2>1, <2>2, <2>3
<1>3. ASSUME NEW w \in Workers,
             \/ WinClaim(w) \/ Complete(w) \/ FailKey(w) \/ ThrowsAfterCommit(w)
             \/ RunUnclaimed(w)
      PROVE  FreshRead'
  <2>1. UNCHANGED master
    BY <1>3 DEF WinClaim, Complete, FailKey, ThrowsAfterCommit, RunUnclaimed,
       dbVars
  <2>2. worker[w] \in Locals
    BY DEF Typed, TypeOK
  <2>3. PICK l : Goto(w, l) /\ l.pc # "cas"
    <3>1. CASE WinClaim(w)
      BY <2>2, <3>1 DEF WinClaim, Locals
    <3>2. CASE Complete(w)
      <4> DEFINE l == [worker[w] EXCEPT !.pc = "dispatch", !.todo = worker[w].result.channels]
      <4>1. Goto(w, l) /\ l.pc = "dispatch"
        BY <2>2, <3>2 DEF Complete, Locals
      <4> HIDE DEF l
      <4>2. QED
        BY <4>1
    <3>3. CASE FailKey(w)
      BY <3>3 DEF FailKey, Nack, Idle
    <3>4. CASE ThrowsAfterCommit(w)
      BY <2>2, <3>4 DEF ThrowsAfterCommit, Locals
    <3>5. CASE RunUnclaimed(w)
      BY <2>2, <3>5 DEF RunUnclaimed, Locals
    <3>6. QED
      BY <1>3, <3>1, <3>2, <3>3, <3>4, <3>5
  <2>4. NobodyReads
    BY <2>3 DEF Goto, NobodyReads, Typed, TypeOK
  <2>5. QED
    BY <2>1, <2>4, ReadFrame
<1>4. ASSUME NEW s \in Sales, BuyerOrders(s) \/ ClaimExpires(s) PROVE UNCHANGED <<worker, master>>
  BY <1>4 DEF BuyerOrders, ClaimExpires, dbVars
<1>5. ASSUME NEW m \in Messages, EnqueueSale(m) \/ Redrive(m) PROVE UNCHANGED <<worker, master>>
  BY <1>5 DEF EnqueueSale, Redrive, dbVars
<1>6. ASSUME NEW c \in Channels, Unlist(c) PROVE UNCHANGED <<worker, master>>
  BY <1>6 DEF Unlist, dbVars
<1>7. UNCHANGED vars => UNCHANGED <<worker, master>>
  BY DEF vars
<1>8. ASSUME NEW w \in Workers, WorkerStep(w) \/ FaultStep(w) PROVE FreshRead'
  <2>1. \/ Quiet(w) \/ WinClaim(w) \/ Complete(w) \/ FailKey(w)
        \/ ThrowsAfterCommit(w) \/ RunUnclaimed(w)
    BY <1>8 DEF WorkerStep, FaultStep, Quiet
  <2>2. QED
    BY <1>2, <1>3, <2>1
<1>9. QED
  BY <1>1, <1>4, <1>5, <1>6, <1>7, <1>8 DEF Next

\* What the abstract ledger allows each sale.
Allowed == [s \in Sales |-> 1 + unclaimed[s] + unrecorded[s]]

\* One more run of a sale is one more time it may be taken.
LEMMA LosesTrack ==
  ASSUME Typed, NEW s \in Sales, UNCHANGED <<master, applied>>,
         \/ /\ unclaimed' = [unclaimed EXCEPT ![s] = @ + 1]
            /\ UNCHANGED unrecorded
         \/ /\ unrecorded' = [unrecorded EXCEPT ![s] = @ + 1]
            /\ UNCHANGED unclaimed
  PROVE  Ledger!Next
<1>1. unclaimed \in [Sales -> Nat] /\ unrecorded \in [Sales -> Nat]
  BY SaleSyncAssumption DEF Typed, TypeOK
<1>2. Allowed' = [Allowed EXCEPT ![s] = @ + 1]
  <2>1. ASSUME NEW t \in Sales
        PROVE  1 + unclaimed'[t] + unrecorded'[t]
                 = IF t = s THEN 1 + unclaimed[t] + unrecorded[t] + 1
                            ELSE 1 + unclaimed[t] + unrecorded[t]
    BY <1>1
  <2>2. QED
    BY <2>1 DEF Allowed
<1>3. Ledger!LoseTrack(s)
  BY <1>2 DEF Ledger!LoseTrack, Allowed
<1>4. QED
  BY <1>3 DEF Ledger!Next

\* The abstract steps: a commit takes its sale, a run that is unclaimed or loses its
\* commit loses track of it, all else stutters.
LEMMA LedgerStep ==
  ASSUME Typed, Accounts, FreshRead, [Next]_vars
  PROVE  [Ledger!Next]_Ledger!vars
<1>1. CASE UNCHANGED <<master, applied, unclaimed, unrecorded>>
  BY <1>1 DEF Ledger!vars
<1>2. ASSUME NEW w \in Workers, CommitSale(w) PROVE Ledger!Next
  <2>1. PICK s \in Sales : s = SaleAt(w)
    BY <1>2, SaleAtType DEF CommitSale, At
  <2>2. worker[w].pc = "cas" /\ applied' = [applied EXCEPT ![s] = @ + 1]
    BY <1>2, <2>1 DEF CommitSale, At
  <2>3. applied \in [Sales -> Nat] /\ applied[s] < Allowed[s]
    <3>1. /\ applied[s] \in Nat /\ unclaimed[s] \in Nat /\ unrecorded[s] \in Nat
          /\ One(Open(s)) \in Nat /\ applied \in [Sales -> Nat]
      BY SaleSyncAssumption DEF Typed, TypeOK, One
    <3>2. w \in Undecided(s)
      BY <2>1, <2>2 DEF Undecided, Pending, Early
    <3>3. IsFiniteSet(Undecided(s))
      BY DEF Accounts, Account
    <3>4. Cardinality(Undecided(s)) \in Nat /\ Cardinality(Undecided(s)) # 0
      BY <3>2, <3>3, FS_CardinalityType, FS_EmptySet
    <3>5. QED
      BY <3>1, <3>4 DEF Accounts, Account, Allowed
  <2>4. UNCHANGED Allowed
    BY <1>2 DEF CommitSale, Allowed, envVars, history
  <2>5. /\ master.quantity > 0 /\ master.quantity \in Nat /\ Units[s] \in Nat
        /\ master' = AfterSale(master, SoldOn[s], Units[s])
    BY <1>2, <2>1, CommitReads, SaleSyncAssumption DEF Typed, TypeOK, Row
  <2>6. master'.quantity = IF Units[s] > master.quantity THEN 0
                                                       ELSE master.quantity - Units[s]
    <3>1. master'.quantity = AtLeastZero(master.quantity - Units[s])
      BY <2>5 DEF AfterSale, Typed, TypeOK, Row
    <3>2. QED
      BY <2>5, <3>1 DEF AtLeastZero
  <2>7. Ledger!Take(s)
    BY <2>2, <2>3, <2>4, <2>5, <2>6 DEF Ledger!Take, Allowed
  <2>8. QED
    BY <2>7 DEF Ledger!Next
<1>3. ASSUME NEW w \in Workers, WorkerStep(w) \/ FaultStep(w)
      PROVE  \/ CommitSale(w) \/ Ledger!Next
             \/ UNCHANGED <<master, applied, unclaimed, unrecorded>>
  <2>1. CASE RunUnclaimed(w)
    BY <2>1, SlipStep, LosesTrack DEF RunUnclaimed, dbVars
  <2>2. CASE ThrowsAfterCommit(w) \/ Crash(w)
    <3>1. /\ SaleAt(w) \in Sales /\ EndsUnrecorded(w)
          /\ UNCHANGED <<master, applied, unclaimed>>
      BY <2>2, SaleAtType DEF ThrowsAfterCommit, Crash, At, dbVars
    <3>2. \/ UNCHANGED unrecorded
          \/ unrecorded' = [unrecorded EXCEPT ![SaleAt(w)] = @ + 1]
      BY <3>1 DEF EndsUnrecorded
    <3>3. QED
      BY <3>1, <3>2, LosesTrack
  <2>3. CASE Quiet(w) /\ ~Crash(w)
    BY <2>3, QuietRow, QuietLeaves
  <2>4. CASE WinClaim(w) \/ Complete(w) \/ FailKey(w)
    BY <2>4 DEF WinClaim, Complete, FailKey, dbVars, envVars, history
  <2>5. QED
    BY <1>3, <2>1, <2>2, <2>3, <2>4 DEF WorkerStep, FaultStep, Quiet
<1>4. ASSUME \/ \E s \in Sales : BuyerOrders(s) \/ ClaimExpires(s)
             \/ \E m \in Messages : EnqueueSale(m) \/ Redrive(m)
             \/ \E c \in Channels : Unlist(c)
             \/ UNCHANGED vars
      PROVE  UNCHANGED <<master, applied, unclaimed, unrecorded>>
  BY <1>4 DEF BuyerOrders, ClaimExpires, EnqueueSale, Redrive, Unlist, vars,
              dbVars, envVars, history
<1>5. QED
  BY <1>1, <1>2, <1>3, <1>4 DEF Next

LEMMA InitLedger == Init => FreshRead /\ Ledger!Init
<1> SUFFICES ASSUME Init PROVE FreshRead /\ Ledger!Init
  OBVIOUS
<1>1. FreshRead
  BY DEF Init, FreshRead, Idle
<1>2. master.quantity = InitialQuantity /\ applied = [s \in Sales |-> 0]
  BY DEF Init, NoRow
<1>3. Allowed = [s \in Sales |-> 1]
  BY DEF Init, Allowed
<1>4. QED
  BY <1>1, <1>2, <1>3 DEF Ledger!Init, Allowed

\* Whatever the queues, claims, retries and crashes do, the pipeline is the ledger of
\* SaleLedger: a sale is taken off the stock in one step, from what there is, once and
\* once more for each run that was unclaimed or lost its commit (applySaleWithOutbox).
THEOREM ImplementsLedgerHolds == Spec => ImplementsLedger
<1>1. Spec => []FreshRead
  BY InitLedger, NextReads, TypedInvariant, PTL DEF Spec
<1>2. QED
  BY <1>1, LedgerStep, InitLedger, TypedInvariant, AccountsInvariant, PTL
  DEF Spec, ImplementsLedger, Ledger!Spec
------------------------------------------------------------------------------
(***************************************************************************)
(* The outbox                                                              *)
(*                                                                         *)
(* As long as every channel stays listed, a commit leaves a row for each   *)
(* other channel, and Phase B writes only rows that are there: the list of *)
(* channels it works through, from the commit to the loop and by way of    *)
(* the cached result, names none without one.                              *)
(***************************************************************************)

HasRow(s, c) == jobs[s][c] # "none"

\* The channels a worker goes by.
Promised(w) ==
  /\ worker[w].pc \in Late =>
       \A c \in worker[w].result.channels : HasRow(SaleAt(w), c)
  /\ worker[w].pc \in PhaseB => \A c \in worker[w].todo : HasRow(SaleAt(w), c)
  /\ worker[w].pc \in {"push", "mark"} => HasRow(SaleAt(w), worker[w].target)

\* And those a replay will go by.
Cached ==
  \A s \in Sales : idem[s].status = "completed" =>
    \A c \in idem[s].result.channels : HasRow(s, c)

Outbox ==
  /\ listed = Channels /\ OutboxWithDecrement /\ Cached
  /\ \A w \in Workers : Promised(w)

\* No row is taken away.
RowsStay == \A s \in Sales, c \in Channels : HasRow(s, c) => HasRow(s, c)'

LEMMA CachedStays ==
  ASSUME Typed, Cached, RowsStay, UNCHANGED idem
  PROVE  Cached'
BY DEF Cached, RowsStay, Typed, TypeOK, KeyRow, Result

LEMMA PromiseStays ==
  ASSUME Typed, RowsStay, NEW v \in Workers, Promised(v), worker'[v] = worker[v]
  PROVE  Promised(v)'
<1>1. worker[v] \in Locals
  BY DEF Typed, TypeOK
<1>2. worker[v].pc # "idle" => SaleAt(v) \in Sales
  BY SaleAtType DEF At
<1>3. SaleAt(v)' = SaleAt(v)
  BY DEF SaleAt
<1>4. worker[v].result.channels \subseteq Channels /\ worker[v].todo \subseteq Channels
  BY <1>1 DEF Locals, Result
<1>5. worker[v].pc \in {"push", "mark"} => worker[v].target \in Channels
  BY DEF Typed, Aimed
<1>6. QED
  BY <1>2, <1>3, <1>4, <1>5 DEF Promised, RowsStay, Late, PhaseB

\* Phase B's writes find the row they update.
LEMMA JobWritten ==
  ASSUME Typed, OutboxWithDecrement, NEW s \in Sales, NEW c \in Channels,
         NEW x \in {"failed", "completed"}, HasRow(s, c),
         jobs' = [jobs EXCEPT ![s][c] = x], UNCHANGED applied
  PROVE  OutboxWithDecrement' /\ RowsStay
<1>1. jobs \in [Sales -> [Channels -> JobStatus]]
  BY DEF Typed, TypeOK
<1>2. \A t \in Sales, d \in Channels :
        jobs'[t][d] = IF t = s /\ d = c THEN x ELSE jobs[t][d]
  BY <1>1
<1>3. QED
  BY <1>2 DEF OutboxWithDecrement, RowsStay, HasRow

\* The commit's rows come with its decrement.
LEMMA CommitRows ==
  ASSUME Typed, Outbox, NEW w \in Workers, CommitSale(w)
  PROVE  /\ OutboxWithDecrement' /\ RowsStay
         /\ \A c \in OtherChannels(SaleAt(w)) : jobs'[SaleAt(w)][c] # "none"
<1>1. PICK s \in Sales : s = SaleAt(w)
  BY SaleAtType DEF CommitSale, At
<1>2. /\ jobs' = [jobs EXCEPT ![s] = OutboxRows(s)]
      /\ applied' = [applied EXCEPT ![s] = @ + 1]
  BY <1>1 DEF CommitSale
<1>3. jobs \in [Sales -> [Channels -> JobStatus]] /\ applied \in [Sales -> Nat]
  BY DEF Typed, TypeOK
<1>4. \A t \in Sales, c \in Channels :
        jobs'[t][c] = IF t = s /\ c # SoldOn[s] /\ jobs[s][c] = "none" THEN "pending"
                                                                     ELSE jobs[t][c]
  BY <1>2, <1>3 DEF OutboxRows, OtherChannels, Outbox
<1>5. /\ applied'[s] > 0
      /\ \A t \in Sales \ {s} : applied'[t] = applied[t]
  BY <1>2, <1>3
<1>6. RowsStay
  BY <1>4 DEF RowsStay, HasRow
<1>7. OutboxWithDecrement'
  BY <1>4, <1>5 DEF Outbox, OutboxWithDecrement
<1>8. QED
  BY <1>1, <1>4, <1>6, <1>7 DEF HasRow, OtherChannels

\* A step that writes the locals of one worker keeps every promise if the new locals do.
LEMMA NewPromise ==
  ASSUME Typed, RowsStay, NEW w \in Workers, NEW l, Goto(w, l),
         \A v \in Workers : Promised(v), l.msg = worker[w].msg,
         l.pc \in Late => \A c \in l.result.channels : jobs'[SaleAt(w)][c] # "none",
         l.pc \in PhaseB => \A c \in l.todo : jobs'[SaleAt(w)][c] # "none",
         l.pc \in {"push", "mark"} => jobs'[SaleAt(w)][l.target] # "none"
  PROVE  \A v \in Workers : Promised(v)'
<1>1. worker'[w] = l /\ \A v \in Workers \ {w} : worker'[v] = worker[v]
  BY DEF Goto, Typed, TypeOK
<1>2. SaleAt(w)' = SaleAt(w)
  BY <1>1 DEF SaleAt
<1>3. Promised(w)'
  BY <1>1, <1>2 DEF Promised, HasRow
<1>4. QED
  BY <1>1, <1>3, PromiseStays

\* A worker that goes where no channels count promises nothing.
LEMMA NoPromise ==
  ASSUME Typed, RowsStay, NEW w \in Workers, NEW l, Goto(w, l),
         \A v \in Workers : Promised(v), l.pc \notin Late \cup PhaseB
  PROVE  \A v \in Workers : Promised(v)'
<1>1. worker'[w] = l /\ \A v \in Workers \ {w} : worker'[v] = worker[v]
  BY DEF Goto, Typed, TypeOK
<1>2. Promised(w)'
  BY <1>1 DEF Promised, PhaseB
<1>3. QED
  BY <1>1, <1>2, PromiseStays

\* The steps of Phase B that write a job, and the lists they shorten.
LEMMA JobPromise ==
  ASSUME Typed, Outbox, NEW w \in Workers, NEW c \in Channels,
         NEW x \in {"failed", "completed"}, NEW b \in BOOLEAN,
         worker[w].pc \in PhaseB, HasRow(SaleAt(w), c), SaleAt(w) \in Sales,
         jobs' = [jobs EXCEPT ![SaleAt(w)][c] = x], UNCHANGED <<applied, idem, listed>>,
         Goto(w, [worker[w] EXCEPT !.pc = "dispatch", !.todo = @ \ {c}, !.target = "none",
                                   !.pushing = 0, !.failed = b])
  PROVE  Outbox'
<1>1. OutboxWithDecrement' /\ RowsStay
  <2>1. PICK s \in Sales : s = SaleAt(w)
    OBVIOUS
  <2>2. QED
    BY <2>1, JobWritten DEF Outbox
<1>2. Cached' /\ listed' = Channels
  BY <1>1, CachedStays DEF Outbox
<1> DEFINE l == [worker[w] EXCEPT !.pc = "dispatch", !.todo = worker[w].todo \ {c},
                                  !.target = "none", !.pushing = 0, !.failed = b]
<1>3. worker[w] \in Locals
  BY DEF Typed, TypeOK
<1>4. /\ l.pc = "dispatch" /\ l.msg = worker[w].msg
      /\ l.todo \subseteq worker[w].todo /\ worker[w].todo \subseteq Channels
  BY <1>3 DEF Locals
<1>5. Goto(w, l)
  OBVIOUS
<1> HIDE DEF l
<1>6. \A d \in l.todo : jobs'[SaleAt(w)][d] # "none"
  BY <1>1, <1>4 DEF Outbox, Promised, RowsStay, HasRow
<1>7. \A v \in Workers : Promised(v)'
  BY <1>1, <1>4, <1>5, <1>6, NewPromise DEF Outbox, Late
<1>8. QED
  BY <1>1, <1>2, <1>7 DEF Outbox

\* The steps that write no row.
LEMMA RowlessStep ==
  ASSUME Typed, Outbox, NEW w \in Workers, UNCHANGED <<jobs, applied, listed>>,
         Cached', \A v \in Workers : Promised(v)'
  PROVE  Outbox'
BY DEF Outbox, OutboxWithDecrement

LEMMA StayingRows == UNCHANGED jobs => RowsStay
BY DEF RowsStay, HasRow

LEMMA QuietOutbox ==
  ASSUME Typed, Outbox, NEW w \in Workers, Quiet(w)
  PROVE  Outbox'
<1> USE DEF At
<1>1. worker[w] \in Locals /\ \A v \in Workers : Promised(v)
  BY DEF Typed, TypeOK, Outbox
<1>2. ASSUME UNCHANGED <<jobs, applied, idem, listed>>,
             NEW l, Goto(w, l), l.pc \notin Late \cup PhaseB
      PROVE  Outbox'
  BY <1>1, <1>2, NoPromise, StayingRows, CachedStays, RowlessStep DEF Outbox
<1>3. ASSUME UNCHANGED <<jobs, applied, idem, listed>>,
             NEW l, Goto(w, l), l.msg = worker[w].msg,
             l.pc \in Late => \A c \in l.result.channels : HasRow(SaleAt(w), c),
             l.pc \in PhaseB => \A c \in l.todo : HasRow(SaleAt(w), c),
             l.pc \in {"push", "mark"} => HasRow(SaleAt(w), l.target)
      PROVE  Outbox'
  <2>1. RowsStay /\ jobs' = jobs
    BY <1>3, StayingRows
  <2>2. \A v \in Workers : Promised(v)'
    BY <1>1, <1>3, <2>1, NewPromise DEF HasRow
  <2>3. QED
    BY <1>3, <2>1, <2>2, CachedStays, RowlessStep DEF Outbox
<1>4. ASSUME LoseClaim(w) \/ FailKeyThrows(w) \/ FlagDoubleSale(w) \/ EndDispatch(w)
               \/ Crash(w) PROVE Outbox'
  <2>1. Goto(w, Idle) /\ Idle.pc \notin Late \cup PhaseB
    BY <1>4 DEF LoseClaim, FailKeyThrows, FlagDoubleSale, EndDispatch, Crash, Nack, Ack,
       Idle, Late, PhaseB
  <2>2. UNCHANGED <<jobs, applied, idem, listed>>
    BY <1>4 DEF LoseClaim, FailKeyThrows, FlagDoubleSale, EndDispatch, Crash, dbVars, envVars, history
  <2>3. QED
    BY <1>2, <2>1, <2>2
<1>5. ASSUME NEW m \in Messages, Receive(w, m) PROVE Outbox'
  <2>1. [Idle EXCEPT !.pc = "claim", !.msg = m].pc \notin Late \cup PhaseB
    BY DEF Idle, Late, PhaseB
  <2>2. QED
    BY <1>2, <1>5, <2>1 DEF Receive, dbVars, envVars, history
<1>6. ASSUME RefuseClaim(w) \/ ReadMaster(w) \/ CasMismatch(w) \/ TxAborts(w)
      PROVE  Outbox'
  <2>1. PICK l : Goto(w, l) /\ l.pc \in {"cas", "read", "fail", "select"}
    <3>1. CASE ReadMaster(w)
      <4> DEFINE l == [worker[w] EXCEPT !.pc = "cas", !.seen = master]
      <4>1. Goto(w, l) /\ l.pc = "cas"
        BY <1>1, <3>1 DEF ReadMaster, Locals
      <4> HIDE DEF l
      <4>2. QED
        BY <4>1
    <3>2. CASE CasMismatch(w)
      <4> DEFINE n == worker[w].attempt + 1
                 p == IF n < MaxAttempts THEN "read" ELSE "fail"
                 l == [worker[w] EXCEPT !.attempt = n, !.pc = p]
      <4>1. Goto(w, l) /\ l.pc = p /\ p \in {"read", "fail"}
        BY <1>1, <3>2 DEF CasMismatch, Locals
      <4> HIDE DEF l
      <4>2. QED
        BY <4>1
    <3>3. CASE TxAborts(w)
      BY <1>1, <3>3 DEF TxAborts, Locals
    <3>4. CASE RefuseClaim(w)
      BY <1>1, <3>4 DEF RefuseClaim, Locals
    <3>5. QED
      BY <1>6, <3>1, <3>2, <3>3, <3>4
  <2>2. UNCHANGED <<jobs, applied, idem, listed>>
    BY <1>6 DEF RefuseClaim, ReadMaster, CasMismatch, TxAborts, dbVars, envVars, history
  <2>3. QED
    BY <1>2, <2>1, <2>2 DEF Late, PhaseB
<1>7. ASSUME ReplayResult(w) PROVE Outbox'
  <2> DEFINE l == [worker[w] EXCEPT !.pc = "dispatch", !.result = idem[SaleAt(w)].result,
                                    !.todo = idem[SaleAt(w)].result.channels]
  <2>1. Goto(w, l) /\ l.pc = "dispatch" /\ l.msg = worker[w].msg
        /\ l.todo = idem[SaleAt(w)].result.channels
    BY <1>1, <1>7 DEF ReplayResult, Locals
  <2>2. SaleAt(w) \in Sales /\ idem[SaleAt(w)].status = "completed"
    BY <1>7, SaleAtType DEF ReplayResult
  <2> HIDE DEF l
  <2>3. \A c \in l.todo : HasRow(SaleAt(w), c)
    BY <2>1, <2>2 DEF Outbox, Cached
  <2>4. UNCHANGED <<jobs, applied, idem, listed>>
    BY <1>7 DEF ReplayResult, dbVars, envVars, history
  <2>5. QED
    BY <1>3, <2>1, <2>3, <2>4 DEF Late
<1>8. ASSUME ReadSoldOut(w) PROVE Outbox'
  <2> DEFINE r == [NoResult EXCEPT !.alreadyZero = TRUE, !.soldOut = TRUE]
             l == [worker[w] EXCEPT !.pc = "order", !.result = r]
  <2>1. Goto(w, l) /\ l.pc = "order" /\ l.msg = worker[w].msg /\ l.result.channels = {}
    BY <1>1, <1>8 DEF ReadSoldOut, Locals, NoResult
  <2>2. UNCHANGED <<jobs, applied, idem, listed>>
    BY <1>8 DEF ReadSoldOut, envVars, history
  <2> HIDE DEF l
  <2>3. QED
    BY <1>3, <2>1, <2>2 DEF PhaseB
<1>9. ASSUME RecordOrder(w) \/ OrderNotRecorded(w) PROVE Outbox'
  <2> DEFINE l == [worker[w] EXCEPT !.pc = "complete"]
  <2>1. Goto(w, l) /\ UNCHANGED <<jobs, applied, idem, listed>> /\ worker[w].pc = "order"
    BY <1>9 DEF RecordOrder, OrderNotRecorded, dbVars, envVars, history
  <2>2. l.pc = "complete" /\ l.msg = worker[w].msg /\ l.result = worker[w].result
    BY <1>1 DEF Locals
  <2> HIDE DEF l
  <2>3. \A c \in l.result.channels : HasRow(SaleAt(w), c)
    BY <1>1, <2>1, <2>2 DEF Promised, Late
  <2>4. QED
    BY <1>3, <2>1, <2>2, <2>3 DEF PhaseB
<1>10. ASSUME CommitSale(w) PROVE Outbox'
  <2> DEFINE r == [alreadyZero |-> FALSE,
                   soldOut |-> AfterSale(worker[w].seen, SoldOn[SaleAt(w)],
                                         Units[SaleAt(w)]).soldOut,
                   quantity |-> AfterSale(worker[w].seen, SoldOn[SaleAt(w)],
                                          Units[SaleAt(w)]).quantity,
                   channels |-> OtherChannels(SaleAt(w)) \cap listed]
             l == [worker[w] EXCEPT !.pc = "order", !.result = r]
  <2>1. Goto(w, l) /\ UNCHANGED <<idem, listed>>
    BY <1>10 DEF CommitSale, envVars, history
  <2>2. r.channels \subseteq OtherChannels(SaleAt(w))
    OBVIOUS
  <2> HIDE DEF r
  <2>3. l.pc = "order" /\ l.msg = worker[w].msg /\ l.result = r
    BY <1>1 DEF Locals
  <2> HIDE DEF l
  <2>4. /\ OutboxWithDecrement' /\ RowsStay
        /\ \A c \in l.result.channels : jobs'[SaleAt(w)][c] # "none"
    BY <1>10, <2>2, <2>3, CommitRows
  <2>5. \A v \in Workers : Promised(v)'
    BY <1>1, <2>1, <2>3, <2>4, NewPromise DEF PhaseB
  <2>6. QED
    BY <2>1, <2>4, <2>5, CachedStays DEF Outbox
<1>11. ASSUME Push(w) PROVE Outbox'
  <2> DEFINE l == [worker[w] EXCEPT !.pc = "mark"]
  <2>1. Goto(w, l) /\ UNCHANGED <<jobs, applied, idem, listed>> /\ worker[w].pc = "push"
    BY <1>11 DEF Push, dbVars, envVars, history
  <2>2. /\ l.pc = "mark" /\ l.msg = worker[w].msg
        /\ l.todo = worker[w].todo /\ l.target = worker[w].target
    BY <1>1 DEF Locals
  <2> HIDE DEF l
  <2>3. (\A c \in l.todo : HasRow(SaleAt(w), c)) /\ HasRow(SaleAt(w), l.target)
    BY <1>1, <2>1, <2>2 DEF Promised, PhaseB
  <2>4. QED
    BY <1>3, <2>1, <2>2, <2>3 DEF Late
<1>12. ASSUME NEW c \in Channels, SkipJob(w, c) PROVE Outbox'
  <2> DEFINE l == [worker[w] EXCEPT !.pc = "dispatch", !.todo = worker[w].todo \ {c},
                                    !.target = "none", !.pushing = 0]
  <2>1. Goto(w, l) /\ UNCHANGED <<jobs, applied, idem, listed>> /\ worker[w].pc = "dispatch"
    BY <1>12 DEF SkipJob, JobDone, Dispatching, dbVars, envVars, history
  <2>2. /\ l.pc = "dispatch" /\ l.msg = worker[w].msg /\ l.todo \subseteq worker[w].todo
    BY <1>1 DEF Locals
  <2> HIDE DEF l
  <2>3. \A d \in l.todo : HasRow(SaleAt(w), d)
    BY <1>1, <2>1, <2>2 DEF Promised, PhaseB
  <2>4. QED
    BY <1>3, <2>1, <2>2, <2>3 DEF Late
<1>13. ASSUME NEW c \in Channels, ReadQuantity(w, c) PROVE Outbox'
  <2> DEFINE q == IF worker[w].result.soldOut THEN 0 ELSE Available(master.quantity, c)
             l == [worker[w] EXCEPT !.pc = "push", !.target = c,
                                    !.seen = master, !.pushing = q]
  <2>1. /\ Goto(w, l) /\ UNCHANGED <<jobs, applied, idem, listed>>
        /\ worker[w].pc = "dispatch" /\ c \in worker[w].todo
    BY <1>13 DEF ReadQuantity, Dispatching, dbVars, envVars, history
  <2>2. l.pc = "push" /\ l.msg = worker[w].msg /\ l.todo = worker[w].todo /\ l.target = c
    BY <1>1 DEF Locals
  <2> HIDE DEF l
  <2>3. (\A d \in l.todo : HasRow(SaleAt(w), d)) /\ HasRow(SaleAt(w), l.target)
    BY <1>1, <2>1, <2>2 DEF Promised, PhaseB
  <2>4. QED
    BY <1>3, <2>1, <2>2, <2>3 DEF Late
<1>14. ASSUME NEW c \in Channels, JobFails(w, c), worker[w].pc \in PhaseB,
              HasRow(SaleAt(w), c)
       PROVE  Outbox'
  <2>1. SaleAt(w) \in Sales
    BY <1>14, SaleAtType DEF PhaseB
  <2>2. /\ jobs' = [jobs EXCEPT ![SaleAt(w)][c] = "failed"]
        /\ UNCHANGED <<applied, idem, listed>>
        /\ Goto(w, [worker[w] EXCEPT !.pc = "dispatch", !.todo = @ \ {c}, !.target = "none",
                                     !.pushing = 0, !.failed = TRUE])
    BY <1>14 DEF JobFails, envVars, history
  <2>3. QED
    BY <1>14, <2>1, <2>2, JobPromise
<1>15. ASSUME NEW c \in Channels, NoToken(w, c) PROVE Outbox'
  BY <1>1, <1>14, <1>15 DEF NoToken, Dispatching, Promised, PhaseB
<1>16. ASSUME PushFails(w) \/ MarkPushed(w)
       PROVE  /\ worker[w].pc \in PhaseB /\ worker[w].target \in Channels
              /\ HasRow(SaleAt(w), worker[w].target)
  BY <1>1, <1>16 DEF PushFails, MarkPushed, Promised, PhaseB, Typed, Aimed
<1>17. ASSUME PushFails(w) PROVE Outbox'
  BY <1>14, <1>16, <1>17 DEF PushFails
<1>18. ASSUME MarkPushed(w) PROVE Outbox'
  <2> DEFINE c == worker[w].target
             l == [worker[w] EXCEPT !.pc = "dispatch", !.todo = worker[w].todo \ {c},
                                    !.target = "none", !.pushing = 0]
  <2>1. /\ jobs' = [jobs EXCEPT ![SaleAt(w)][c] = "completed"]
        /\ UNCHANGED <<applied, idem, listed>> /\ Goto(w, l)
    BY <1>18 DEF MarkPushed, JobDone, envVars, history
  <2>2. l = [worker[w] EXCEPT !.pc = "dispatch", !.todo = @ \ {c}, !.target = "none",
                              !.pushing = 0, !.failed = worker[w].failed]
    BY <1>1 DEF Locals
  <2>3. SaleAt(w) \in Sales /\ worker[w].failed \in BOOLEAN
    BY <1>1, <1>16, <1>18, SaleAtType DEF PhaseB, Locals
  <2> HIDE DEF l
  <2>4. QED
    BY <1>16, <1>18, <2>1, <2>2, <2>3, JobPromise
<1>19. QED
  BY <1>4, <1>5, <1>6, <1>7, <1>8, <1>9, <1>10, <1>11, <1>12, <1>13, <1>15, <1>17, <1>18
  DEF Quiet

\* The steps on the key: winning, completing, failing, the throw after the
\* commit, and the run without a claim.
LEMMA KeyOutbox ==
  ASSUME Typed, Outbox, NEW w \in Workers,
         \/ WinClaim(w) \/ Complete(w) \/ FailKey(w) \/ ThrowsAfterCommit(w)
         \/ RunUnclaimed(w)
  PROVE  Outbox'
<1>1. /\ worker[w] \in Locals /\ idem \in [Sales -> KeyRow] /\ SaleAt(w) \in Sales
      /\ \A v \in Workers : Promised(v)
  BY SaleAtType DEF WinClaim, Complete, FailKey, ThrowsAfterCommit,
     RunUnclaimed, At, Typed, TypeOK, Outbox
<1>2. UNCHANGED <<jobs, applied, listed>> /\ RowsStay
  BY StayingRows DEF WinClaim, Complete, FailKey, ThrowsAfterCommit,
     RunUnclaimed, dbVars, envVars, history
<1>3. CASE Complete(w)
  <2> DEFINE l == [worker[w] EXCEPT !.pc = "dispatch", !.todo = worker[w].result.channels]
  <2>1. Goto(w, l) /\ worker[w].pc = "complete"
    BY <1>3 DEF Complete, At
  <2>2. l.pc = "dispatch" /\ l.msg = worker[w].msg /\ l.todo = worker[w].result.channels
    BY <1>1 DEF Locals
  <2> HIDE DEF l
  <2>3. \A c \in worker[w].result.channels : HasRow(SaleAt(w), c)
    BY <1>1, <2>1 DEF Promised, Late
  <2>4. \A v \in Workers : Promised(v)'
    BY <1>1, <1>2, <2>1, <2>2, <2>3, NewPromise DEF Late, HasRow
  <2>5. Cached'
    <3>1. PICK s \in Sales : s = SaleAt(w)
      BY <1>1
    <3>2. idem' = [idem EXCEPT ![s].status = "completed", ![s].result = worker[w].result]
      BY <1>3, <3>1 DEF Complete
    <3>3. /\ idem'[s].result = worker[w].result
          /\ \A t \in Sales \ {s} : idem'[t] = idem[t]
      BY <1>1, <3>2 DEF KeyRow
    <3>4. QED
      BY <1>2, <2>3, <3>1, <3>3 DEF Outbox, Cached, HasRow
  <2>6. QED
    BY <1>2, <2>4, <2>5, RowlessStep
<1>4. CASE WinClaim(w) \/ FailKey(w) \/ ThrowsAfterCommit(w) \/ RunUnclaimed(w)
  <2>1. PICK l : Goto(w, l) /\ l.pc \in {"read", "idle", "fail"}
    <3>1. CASE WinClaim(w)
      BY <1>1, <3>1 DEF WinClaim, Locals
    <3>2. CASE FailKey(w)
      BY <3>2 DEF FailKey, Nack, Idle
    <3>3. CASE ThrowsAfterCommit(w)
      BY <1>1, <3>3 DEF ThrowsAfterCommit, Locals
    <3>4. CASE RunUnclaimed(w)
      BY <1>1, <3>4 DEF RunUnclaimed, Locals
    <3>5. QED
      BY <1>4, <3>1, <3>2, <3>3, <3>4
  <2>2. \A v \in Workers : Promised(v)'
    BY <1>1, <1>2, <2>1, NoPromise DEF Late, PhaseB
  <2>3. \A s \in Sales : idem'[s].status # "completed" \/ idem'[s] = idem[s]
    BY <1>1, <1>4 DEF WinClaim, FailKey, ThrowsAfterCommit, RunUnclaimed, KeyRow
  <2>4. Cached'
    BY <1>2, <2>3 DEF Outbox, Cached, HasRow
  <2>5. QED
    BY <1>2, <2>2, <2>4, RowlessStep
<1>5. QED
  BY <1>3, <1>4

LEMMA NextOutbox ==
  ASSUME "unlist" \notin Environment, Typed, Outbox, [Next]_vars
  PROVE  Outbox'
<1>1. CASE UNCHANGED <<worker, idem, jobs, applied, listed>>
  BY <1>1 DEF Outbox, OutboxWithDecrement, Cached, Promised, HasRow, SaleAt
<1>2. ASSUME NEW w \in Workers, WorkerStep(w) \/ FaultStep(w) PROVE Outbox'
  <2>1. \/ Quiet(w)
        \/ WinClaim(w) \/ Complete(w) \/ FailKey(w) \/ ThrowsAfterCommit(w)
        \/ RunUnclaimed(w)
    BY <1>2 DEF WorkerStep, FaultStep, Quiet
  <2>2. QED
    BY <2>1, QuietOutbox, KeyOutbox
<1>3. ASSUME NEW s \in Sales, ClaimExpires(s) PROVE Outbox'
  <2>1. UNCHANGED <<worker, jobs, applied, listed>>
    BY <1>3 DEF ClaimExpires, dbVars, envVars, history
  <2>2. \A t \in Sales : idem'[t].status = idem[t].status /\ idem'[t].result = idem[t].result
    BY <1>3 DEF ClaimExpires, Typed, TypeOK, KeyRow
  <2>3. QED
    BY <2>1, <2>2 DEF Outbox, OutboxWithDecrement, Cached, Promised, HasRow, SaleAt
<1>4. ASSUME NEW s \in Sales, BuyerOrders(s)
      PROVE  UNCHANGED <<worker, idem, jobs, applied, listed>>
  BY <1>4 DEF BuyerOrders, dbVars
<1>5. ASSUME NEW m \in Messages, EnqueueSale(m) \/ Redrive(m)
      PROVE  UNCHANGED <<worker, idem, jobs, applied, listed>>
  BY <1>5 DEF EnqueueSale, Redrive, dbVars, envVars, history
<1>6. UNCHANGED vars => UNCHANGED <<worker, idem, jobs, applied, listed>>
  BY DEF vars
<1>7. SwitchedOn("unlist") = {}
  BY DEF SwitchedOn
<1>8. QED
  BY <1>1, <1>2, <1>3, <1>4, <1>5, <1>6, <1>7 DEF Next

LEMMA InitOutbox == Init => Outbox
BY SaleSyncAssumption
DEF Init, Outbox, OutboxWithDecrement, Cached, Promised, Idle, Late, PhaseB

\* While every listing stays published, each decremented sale has its outbox row for every
\* other channel, and no other sale has any: through aborted transactions, lost claims,
\* crashes, replays and pushes that fail (applySaleWithOutbox).
THEOREM OutboxWithDecrementHolds ==
  ASSUME "unlist" \notin Environment PROVE Spec => []OutboxWithDecrement
<1>1. Typed /\ Outbox /\ [Next]_vars => Outbox'
  BY NextOutbox, "unlist" \notin Environment
<1>2. Outbox => OutboxWithDecrement
  BY DEF Outbox
<1>3. QED
  BY <1>1, <1>2, InitOutbox, TypedInvariant, PTL DEF Spec

------------------------------------------------------------------------------
(***************************************************************************)
(* The verdict on a sale                                                   *)
(*                                                                         *)
(* A result says alreadyZero only where the stock was gone, and stock once *)
(* gone stays gone: nothing is taken later, whoever runs. Who finds it     *)
(* gone is a run that has taken nothing; that nobody else has, follows     *)
(* from the accounts where no gap let the sale be run again. The result    *)
(* travels from the commit to the key and from the key to every replay;    *)
(* only a worker that holds one acknowledges a message.                    *)
(***************************************************************************)

\* The flag of the row says what its quantity says.
RowSound == master.soldOut = (master.quantity = 0)

Done(s) == idem[s].status = "completed"

\* A listing that is never taken off is published all along.
Published == "unlist" \notin Environment => listed = Channels

\* A sale that met an empty stock; unless a gap intervened it took no units.
Missed(s) == master.soldOut /\ (NoGap(s) => applied[s] = 0)

\* A result that tells the truth about its sale, and names every channel to be told.
Sound(s, r) ==
  IF r.alreadyZero
  THEN Missed(s)
  ELSE applied[s] > 0 /\ ("unlist" \notin Environment => r.channels = OtherChannels(s))

Knows(w) == worker[w].pc \in Late \cup PhaseB

Verdicts ==
  /\ RowSound /\ Published
  /\ \A s \in Sales : Done(s) => Sound(s, idem[s].result)
  /\ \A w \in Workers : Knows(w) => Sound(SaleAt(w), worker[w].result)
  /\ \A s \in flagged : Missed(s)
  /\ \A m \in Messages : queue[m] = "deleted" =>
       SaleOf[m] \in flagged \/ applied[SaleOf[m]] > 0

\* The gaps of a sale are never closed again.
GapsStay == \A s \in Sales : NoGap(s)' => NoGap(s)

LEMMA EndsGaps ==
  ASSUME Typed, NEW w \in Workers, ~At(w, "idle"), EndsUnrecorded(w), UNCHANGED unclaimed
  PROVE  GapsStay
<1>1. unrecorded \in [Sales -> Nat] /\ SaleAt(w) \in Sales
  BY SaleAtType DEF Typed, TypeOK
<1>2. \A s \in Sales : unrecorded'[s] = 0 => unrecorded[s] = 0
  BY <1>1 DEF EndsUnrecorded
<1>3. QED
  BY <1>2 DEF GapsStay, NoGap

\* Every step that takes nothing off the stock, through what it leaves behind.
LEMMA VerdictFrame ==
  ASSUME Typed, Verdicts, GapsStay,
         UNCHANGED <<applied, master, listed>>,
         flagged \subseteq flagged', flagged' \subseteq Sales,
         \A s \in flagged' : s \in flagged \/ Missed(s),
         \A s \in Sales : Done(s)' =>
           \/ Done(s) /\ idem'[s].result = idem[s].result
           \/ Sound(s, idem'[s].result),
         \A v \in Workers : Knows(v)' =>
           SaleAt(v)' \in Sales /\ Sound(SaleAt(v)', worker'[v].result),
         \A m \in Messages : queue'[m] = "deleted" =>
           queue[m] = "deleted" \/ SaleOf[m] \in flagged' \/ applied[SaleOf[m]] > 0
  PROVE  Verdicts'
<1>1. \A s \in Sales : Missed(s) => Missed(s)'
  BY DEF Missed, GapsStay
<1>2. ASSUME NEW s \in Sales, NEW r, Sound(s, r)
      PROVE  IF r.alreadyZero
             THEN Missed(s)'
             ELSE applied'[s] > 0
                  /\ ("unlist" \notin Environment => r.channels = OtherChannels(s))
  BY <1>1, <1>2 DEF Sound
<1>3. ASSUME NEW s \in Sales, Done(s)' PROVE Sound(s, idem[s].result)'
  <2>1. Sound(s, idem'[s].result)
    BY <1>3 DEF Verdicts
  <2>2. QED
    BY <1>2, <2>1 DEF Sound
<1>4. ASSUME NEW v \in Workers, Knows(v)' PROVE Sound(SaleAt(v), worker[v].result)'
  BY <1>2, <1>4 DEF Sound
<1>5. (\A s \in flagged : Missed(s))'
  BY <1>1 DEF Verdicts
<1>6. (\A m \in Messages : queue[m] = "deleted" =>
         SaleOf[m] \in flagged \/ applied[SaleOf[m]] > 0)'
  BY DEF Verdicts
<1>7. RowSound' /\ Published'
  BY DEF Verdicts, RowSound, Published
<1>8. QED
  BY <1>3, <1>4, <1>5, <1>6, <1>7 DEF Verdicts

\* Who is about to look at the stock, and whose sale met no gap, finds it not taken.
LEMMA FirstLook ==
  ASSUME Typed, Accounts, NEW w \in Workers, At(w, "read"), NoGap(SaleAt(w))
  PROVE  applied[SaleAt(w)] = 0
<1>1. PICK s \in Sales : s = SaleAt(w)
  BY SaleAtType DEF At
<1>2. w \in Undecided(s)
  BY <1>1 DEF Undecided, Pending, Early, At
<1>3. IsFiniteSet(Undecided(s)) /\ Account(s)
  BY <1>1 DEF Accounts, Account
<1>4. Cardinality(Undecided(s)) \in Nat /\ Cardinality(Undecided(s)) # 0
  BY <1>2, <1>3, FS_CardinalityType, FS_EmptySet
<1>5. One(Open(s)) \in Nat /\ applied[s] \in Nat
  BY <1>1 DEF One, Typed, TypeOK
<1>6. applied[s] + Cardinality(Undecided(s)) + One(Open(s)) <= 1
  BY <1>1, <1>3 DEF Account, NoGap
<1>7. QED
  BY <1>1, <1>4, <1>5, <1>6

\* What the quiet steps do to the flags, the listings and the acknowledged messages.
LEMMA QuietMail ==
  ASSUME Typed, NEW w \in Workers, Quiet(w)
  PROVE  /\ UNCHANGED listed
         /\ FlagDoubleSale(w) \/ UNCHANGED flagged
         /\ \A m \in Messages : queue'[m] = "deleted" =>
              \/ queue[m] = "deleted"
              \/ m = worker[w].msg /\ FlagDoubleSale(w)
              \/ /\ m = worker[w].msg /\ At(w, "dispatch")
                 /\ ~worker[w].result.alreadyZero
<1>1. UNCHANGED listed /\ (FlagDoubleSale(w) \/ UNCHANGED flagged)
  BY DEF Quiet, Receive, RefuseClaim, ReplayResult, LoseClaim, ReadSoldOut, ReadMaster,
         CommitSale, CasMismatch, TxAborts, RecordOrder, OrderNotRecorded,
         FailKeyThrows, FlagDoubleSale, Push, PushFails, MarkPushed,
         EndDispatch, Crash, SkipJob, NoToken, ReadQuantity, JobFails, dbVars,
         envVars, history
<1>2. \/ UNCHANGED queue
      \/ \E m \in Messages : queue' = [queue EXCEPT ![m] = "inflight"]
      \/ \E p \in {"visible", "dlq"} : queue' = [queue EXCEPT ![worker[w].msg] = p]
      \/ /\ queue' = [queue EXCEPT ![worker[w].msg] = "deleted"]
         /\ FlagDoubleSale(w) \/ EndDispatch(w)
  BY DEF Quiet, Receive, RefuseClaim, ReplayResult, LoseClaim, ReadSoldOut, ReadMaster,
         CommitSale, CasMismatch, TxAborts, RecordOrder, OrderNotRecorded,
         FailKeyThrows, FlagDoubleSale, Push, PushFails, MarkPushed,
         EndDispatch, Crash, SkipJob, NoToken, ReadQuantity, JobFails, Nack, Ack, Returned,
         envVars, history
<1>3. EndDispatch(w) => At(w, "dispatch") /\ ~worker[w].result.alreadyZero
  BY DEF EndDispatch
<1>4. queue \in [Messages -> Places]
  BY DEF Typed, TypeOK
<1>5. QED
  BY <1>1, <1>2, <1>3, <1>4

\* A replay works with the recorded result; nothing else leaves the refused claim with one.
LEMMA ReplayStep ==
  ASSUME Typed, NEW w \in Workers, Quiet(w), worker[w].pc = "select"
  PROVE  \/ worker'[w].pc = "idle"
         \/ /\ worker'[w].pc = "dispatch" /\ worker'[w].msg = worker[w].msg
            /\ Done(SaleAt(w)) /\ worker'[w].result = idem[SaleAt(w)].result
<1> USE DEF At
<1>1. worker[w] \in Locals /\ worker \in [Workers -> Locals]
  BY DEF Typed, TypeOK
<1>2. ReplayResult(w) \/ LoseClaim(w) \/ Crash(w)
  BY DEF Quiet, Receive, RefuseClaim, ReadSoldOut, ReadMaster,
         CommitSale, CasMismatch, TxAborts, RecordOrder, OrderNotRecorded,
         FailKeyThrows, FlagDoubleSale, Push, PushFails, MarkPushed,
         EndDispatch, SkipJob, NoToken, ReadQuantity, Dispatching
<1>3. CASE ReplayResult(w)
  <2> DEFINE r == idem[SaleAt(w)].result
             l == [worker[w] EXCEPT !.pc = "dispatch", !.result = r, !.todo = r.channels]
  <2>1. Goto(w, l) /\ Done(SaleAt(w))
    BY <1>3 DEF ReplayResult, Done
  <2>2. l.pc = "dispatch" /\ l.msg = worker[w].msg /\ l.result = r
    BY <1>1 DEF Locals
  <2> HIDE DEF l
  <2>3. QED
    BY <1>1, <2>1, <2>2 DEF Goto
<1>4. CASE LoseClaim(w) \/ Crash(w)
  BY <1>1, <1>4 DEF LoseClaim, Crash, Nack, Goto, Idle
<1>5. QED
  BY <1>2, <1>3, <1>4

LEMMA QuietVerdicts ==
  ASSUME Typed, Typed', Accounts, Verdicts, NEW w \in Workers, Quiet(w), ~CommitSale(w)
  PROVE  Verdicts'
<1>1. UNCHANGED <<idem, unclaimed, applied, master, listed>>
  BY QuietLeaves, QuietRow, QuietMail
<1>2. GapsStay
  <2>1. CASE Crash(w)
    BY <1>1, <2>1, EndsGaps DEF Crash
  <2>2. CASE ~Crash(w)
    BY <1>1, <2>2, QuietLeaves DEF GapsStay, NoGap
  <2>3. QED
    BY <2>1, <2>2
<1>3. Moves(w)
  BY QuietMoves
<1>4. ASSUME FlagDoubleSale(w)
      PROVE  /\ flagged' = flagged \cup {SaleAt(w)} /\ Missed(SaleAt(w))
             /\ SaleAt(w) \in Sales
  <2>1. /\ Knows(w) /\ worker[w].result.alreadyZero /\ ~At(w, "idle")
        /\ flagged' = flagged \cup {SaleAt(w)}
    BY <1>4 DEF FlagDoubleSale, Knows, PhaseB, At
  <2>2. QED
    BY <2>1, SaleAtType DEF Verdicts, Sound
<1>5. /\ flagged \subseteq flagged' /\ flagged' \subseteq Sales
      /\ \A s \in flagged' : s \in flagged \/ Missed(s)
  <2>1. flagged \subseteq Sales
    BY DEF Typed, TypeOK
  <2>2. QED
    BY <1>4, <2>1, QuietMail
<1>6. \A m \in Messages : queue'[m] = "deleted" =>
        queue[m] = "deleted" \/ SaleOf[m] \in flagged' \/ applied[SaleOf[m]] > 0
  <2> SUFFICES ASSUME NEW m \in Messages, queue'[m] = "deleted", queue[m] # "deleted"
               PROVE  SaleOf[m] \in flagged' \/ applied[SaleOf[m]] > 0
    OBVIOUS
  <2>1. CASE m = worker[w].msg /\ FlagDoubleSale(w)
    BY <1>4, <2>1 DEF SaleAt
  <2>2. CASE m = worker[w].msg /\ At(w, "dispatch") /\ ~worker[w].result.alreadyZero
    BY <2>2 DEF Verdicts, Knows, PhaseB, Sound, SaleAt, At
  <2>3. QED
    BY <2>1, <2>2, QuietMail
<1>7. ASSUME NEW v \in Workers, Knows(v)'
      PROVE  SaleAt(v)' \in Sales /\ Sound(SaleAt(v)', worker'[v].result)
  <2>1. SaleAt(v)' \in Sales
    BY <1>7, SaleSyncAssumption
    DEF Typed, TypeOK, Busy, At, Knows, Late, PhaseB, SaleAt
  <2>2. CASE v # w
    BY <1>3, <1>7, <2>1, <2>2 DEF Moves, Verdicts, Knows, SaleAt
  <2>3. CASE v = w /\ worker[w].pc = "select"
    BY <1>7, <2>1, <2>3, ReplayStep DEF Verdicts, Knows, Late, PhaseB, SaleAt
  <2>4. CASE v = w /\ worker[w].pc # "select"
    <3>1. CASE worker'[w].pc = "order"
      <4>1. ReadSoldOut(w) /\ worker'[w].result.alreadyZero /\ worker'[w].msg = worker[w].msg
        BY <1>3, <3>1 DEF Moves, Flow
      <4>2. At(w, "read") /\ AlreadyZero(master)
        BY <4>1 DEF ReadSoldOut
      <4>3. master.soldOut
        BY <4>2 DEF AlreadyZero, Verdicts, RowSound, Typed, TypeOK, Row
      <4>4. NoGap(SaleAt(w)) => applied[SaleAt(w)] = 0
        BY <4>2, FirstLook
      <4>5. QED
        BY <2>1, <2>4, <4>1, <4>3, <4>4 DEF Sound, Missed, SaleAt
    <3>2. CASE worker'[w].pc # "order"
      <4>1. /\ worker'[w].pc = "complete" \/ worker'[w].pc \in PhaseB
        BY <1>7, <2>4, <3>2 DEF Knows, Late
      <4>2. /\ <<worker[w].pc, worker'[w].pc>> \in Flow
            /\ worker[w].pc # "idle" => worker'[w].msg = worker[w].msg
            /\ worker'[w].result = worker[w].result
        BY <1>3, <2>4, <4>1 DEF Moves, PhaseB
      <4>3. Knows(w)
        BY <2>4, <4>1, <4>2 DEF Flow, Knows, Late, PhaseB
      <4>4. worker'[w].msg = worker[w].msg
        BY <4>2, <4>3 DEF Knows, Late, PhaseB
      <4>5. QED
        BY <2>1, <2>4, <4>2, <4>3, <4>4 DEF Verdicts, SaleAt
    <3>3. QED
      BY <3>1, <3>2
  <2>5. QED
    BY <2>2, <2>3, <2>4
<1>8. \A s \in Sales : Done(s)' => Done(s) /\ idem'[s].result = idem[s].result
  BY <1>1 DEF Done
<1>9. QED
  BY <1>1, <1>2, <1>5, <1>6, <1>7, <1>8, VerdictFrame

\* The steps on the key, the throw after the commit and the run without a claim: only
\* complete() makes a result known, and it is its worker's.
LEMMA KeyVerdicts ==
  ASSUME Typed, Typed', Verdicts, NEW w \in Workers,
         \/ WinClaim(w) \/ Complete(w) \/ FailKey(w) \/ ThrowsAfterCommit(w)
         \/ RunUnclaimed(w)
  PROVE  Verdicts'
<1> USE DEF At
<1>1. PICK s \in Sales : s = SaleAt(w)
  BY SaleAtType DEF WinClaim, Complete, FailKey, ThrowsAfterCommit, RunUnclaimed
<1>2. /\ worker[w] \in Locals /\ worker \in [Workers -> Locals]
      /\ idem \in [Sales -> KeyRow] /\ queue \in [Messages -> Places]
      /\ unclaimed \in [Sales -> 0..MaxUnclaimed] /\ flagged \subseteq Sales
  BY DEF Typed, TypeOK
<1>3. UNCHANGED <<applied, master, flagged, listed>>
  BY DEF WinClaim, Complete, FailKey, ThrowsAfterCommit, RunUnclaimed, dbVars, envVars
<1>4. GapsStay
  <2>1. CASE WinClaim(w) \/ Complete(w) \/ FailKey(w)
    BY <2>1 DEF WinClaim, Complete, FailKey, envVars, history, GapsStay, NoGap
  <2>2. CASE ThrowsAfterCommit(w)
    BY <2>2, EndsGaps DEF ThrowsAfterCommit
  <2>3. CASE RunUnclaimed(w)
    <3>1. /\ unclaimed' = [unclaimed EXCEPT ![s] = @ + 1] /\ UNCHANGED unrecorded
      BY <1>1, <2>3 DEF RunUnclaimed
    <3>2. \A t \in Sales : unclaimed'[t] = 0 => unclaimed[t] = 0
      BY <1>2, <3>1, SaleSyncAssumption
    <3>3. QED
      BY <3>1, <3>2 DEF GapsStay, NoGap
  <2>4. QED
    BY <2>1, <2>2, <2>3
<1>5. \A m \in Messages : queue'[m] = "deleted" => queue[m] = "deleted"
  BY <1>2 DEF WinClaim, Complete, FailKey, ThrowsAfterCommit, RunUnclaimed, Nack, Returned
<1>6. /\ \A v \in Workers \ {w} : worker'[v] = worker[v]
      /\ Knows(w)' => Complete(w) /\ Knows(w)
                      /\ worker'[w].msg = worker[w].msg
                      /\ worker'[w].result = worker[w].result
  <2>1. CASE Complete(w)
    <3> DEFINE l == [worker[w] EXCEPT !.pc = "dispatch", !.todo = worker[w].result.channels]
    <3>1. Goto(w, l) /\ worker[w].pc = "complete"
      BY <2>1 DEF Complete
    <3>2. l.msg = worker[w].msg /\ l.result = worker[w].result
      BY <1>2 DEF Locals
    <3> HIDE DEF l
    <3>3. QED
      BY <1>2, <2>1, <3>1, <3>2 DEF Goto, Knows, Late
  <2>2. CASE WinClaim(w) \/ FailKey(w) \/ ThrowsAfterCommit(w) \/ RunUnclaimed(w)
    <3>1. PICK l : Goto(w, l) /\ l.pc \in {"read", "idle", "fail"}
      <4>1. CASE WinClaim(w)
        BY <1>2, <4>1 DEF WinClaim, Locals
      <4>2. CASE FailKey(w)
        BY <4>2 DEF FailKey, Nack, Idle
      <4>3. CASE ThrowsAfterCommit(w)
        BY <1>2, <4>3 DEF ThrowsAfterCommit, Locals
      <4>4. CASE RunUnclaimed(w)
        BY <1>2, <4>4 DEF RunUnclaimed, Locals
      <4>5. QED
        BY <2>2, <4>1, <4>2, <4>3, <4>4
    <3>2. QED
      BY <1>2, <3>1 DEF Goto, Knows, Late, PhaseB
  <2>3. QED
    BY <2>1, <2>2
<1>7. ASSUME NEW v \in Workers, Knows(v)'
      PROVE  SaleAt(v)' \in Sales /\ Sound(SaleAt(v)', worker'[v].result)
  <2>1. /\ worker'[v].msg = worker[v].msg /\ worker'[v].result = worker[v].result /\ Knows(v)
    BY <1>6, <1>7 DEF Knows
  <2>2. SaleAt(v) \in Sales
    BY <2>1, SaleAtType DEF Knows, Late, PhaseB
  <2>3. QED
    BY <2>1, <2>2 DEF Verdicts, SaleAt
<1>8. ASSUME NEW t \in Sales, Done(t)'
      PROVE  \/ Done(t) /\ idem'[t].result = idem[t].result
             \/ Sound(t, idem'[t].result)
  <2>1. CASE Complete(w) /\ t = s
    <3>1. idem'[s].result = worker[w].result /\ Knows(w)
      BY <1>1, <1>2, <2>1 DEF Complete, KeyRow, Knows, Late
    <3>2. QED
      BY <1>1, <2>1, <3>1 DEF Verdicts
  <2>2. CASE ~(Complete(w) /\ t = s)
    BY <1>1, <1>2, <1>8, <2>2
    DEF WinClaim, Complete, FailKey, ThrowsAfterCommit, RunUnclaimed, KeyRow, Done
  <2>3. QED
    BY <2>1, <2>2
<1>9. QED
  BY <1>2, <1>3, <1>4, <1>5, <1>7, <1>8, VerdictFrame

\* The decrement: stock that was there had not been gone, so no verdict yet says it
\* was; the sale's own is that it took its units.
LEMMA CommitVerdicts ==
  ASSUME Typed, Typed', FreshRead, Verdicts, NEW w \in Workers, CommitSale(w)
  PROVE  Verdicts'
<1>1. PICK s \in Sales : s = SaleAt(w)
  BY SaleAtType DEF CommitSale, At
<1>2. worker[w] \in Locals /\ applied \in [Sales -> Nat] /\ master \in Row
  BY DEF Typed, TypeOK
<1>3. /\ master.quantity > 0 /\ master' = AfterSale(master, SoldOn[s], Units[s])
      /\ UNCHANGED <<idem, flagged, listed, queue>>
      /\ applied' = [applied EXCEPT ![s] = @ + 1]
  BY <1>1, CommitReads DEF CommitSale, envVars
<1>4. RowSound' /\ ~master.soldOut
  <2>1. master'.soldOut = (master'.quantity = 0)
    BY <1>2, <1>3 DEF AfterSale, Row
  <2>2. RowSound'
    BY <2>1, Zenon DEF RowSound
  <2>3. RowSound /\ master.quantity # 0
    BY <1>3 DEF Verdicts
  <2>4. ~master.soldOut
    BY <1>2, <2>3, Zenon DEF RowSound
  <2>5. QED
    BY <2>2, <2>4
<1>5. applied'[s] > 0 /\ \A t \in Sales : applied[t] > 0 => applied'[t] > 0
  <2>1. applied' = [applied EXCEPT ![s] = applied[s] + 1] /\ applied[s] + 1 > 0
    BY <1>1, <1>2, <1>3
  <2>2. QED
    BY <1>1, <1>2, <2>1
<1>7. ASSUME NEW t \in Sales, NEW r, Sound(t, r)
      PROVE  IF r.alreadyZero
             THEN Missed(t)'
             ELSE applied'[t] > 0
                  /\ ("unlist" \notin Environment => r.channels = OtherChannels(t))
  BY <1>4, <1>5, <1>7 DEF Sound, Missed
<1>8. PICK l : /\ Goto(w, l) /\ l.pc = "order" /\ l.msg = worker[w].msg
               /\ l.result.alreadyZero = FALSE
               /\ l.result.channels = OtherChannels(s) \cap listed
  <2> DEFINE rw == AfterSale(worker[w].seen, SoldOn[SaleAt(w)], Units[SaleAt(w)])
             r == [alreadyZero |-> FALSE, soldOut |-> rw.soldOut, quantity |-> rw.quantity,
                   channels |-> OtherChannels(SaleAt(w)) \cap listed]
             l == [worker[w] EXCEPT !.pc = "order", !.result = r]
  <2>1. Goto(w, l)
    BY DEF CommitSale
  <2>2. r.alreadyZero = FALSE /\ r.channels = OtherChannels(s) \cap listed
    BY <1>1
  <2> HIDE DEF r
  <2>3. l.pc = "order" /\ l.msg = worker[w].msg /\ l.result = r
    BY <1>2 DEF Locals
  <2> HIDE DEF l
  <2>4. QED
    BY <2>1, <2>2, <2>3
<1>9. worker'[w] = l /\ \A v \in Workers \ {w} : worker'[v] = worker[v]
  BY <1>8 DEF Goto, Typed, TypeOK
<1>10. ASSUME NEW v \in Workers, Knows(v)' PROVE Sound(SaleAt(v), worker[v].result)'
  <2>1. CASE v = w
    <3>1. "unlist" \notin Environment => OtherChannels(s) \cap listed = OtherChannels(s)
      BY DEF Verdicts, Published, OtherChannels
    <3>2. SaleAt(w)' = s
      BY <1>1, <1>8, <1>9 DEF SaleAt
    <3>3. QED
      BY <1>5, <1>8, <1>9, <2>1, <3>1, <3>2 DEF Sound, OtherChannels
  <2>2. CASE v # w
    <3>1. worker'[v] = worker[v] /\ Knows(v) /\ SaleAt(v)' = SaleAt(v)
      BY <1>9, <1>10, <2>2 DEF Knows, SaleAt
    <3>2. SaleAt(v) \in Sales /\ Sound(SaleAt(v), worker[v].result)
      BY <3>1, SaleAtType DEF Verdicts, Knows, Late, PhaseB, At
    <3>3. QED
      BY <1>7, <3>1, <3>2 DEF Sound
  <2>3. QED
    BY <2>1, <2>2
<1>11. ASSUME NEW t \in Sales, Done(t)' PROVE Sound(t, idem[t].result)'
  <2>1. Sound(t, idem[t].result) /\ idem' = idem
    BY <1>3, <1>11 DEF Done, Verdicts
  <2>2. QED
    BY <1>7, <2>1 DEF Sound
<1>12. flagged' = {}
  BY <1>3, <1>4 DEF Verdicts, Missed
<1>13. (\A m \in Messages : queue[m] = "deleted" =>
          SaleOf[m] \in flagged \/ applied[SaleOf[m]] > 0)'
  BY <1>3, <1>5, <1>12, SaleSyncAssumption DEF Verdicts
<1>14. QED
  BY <1>3, <1>4, <1>10, <1>11, <1>12, <1>13 DEF Verdicts, Published

\* Nothing is decided yet.
LEMMA InitVerdicts == Init => Verdicts
<1> SUFFICES ASSUME Init PROVE Verdicts
  OBVIOUS
<1>1. master.soldOut = FALSE /\ master.quantity # 0
  BY SaleSyncAssumption DEF Init, NoRow
<1>2. RowSound
  BY <1>1, Zenon DEF RowSound
<1>3. QED
  BY <1>2 DEF Init, Verdicts, Published, Knows, Done, Idle, Late, PhaseB

\* Worker by worker, then the environment.
LEMMA NextVerdicts ==
  ASSUME Typed, Accounts, FreshRead, Verdicts, [Next]_vars
  PROVE  Verdicts'
<1>0. Typed' /\ \A m \in Messages : SaleOf[m] \in Sales
  BY NextTyped, SaleSyncAssumption
<1>1. ASSUME UNCHANGED <<worker, applied, master, flagged, listed, unclaimed, unrecorded>>,
             \A s \in Sales : Done(s)' => Done(s) /\ idem'[s].result = idem[s].result,
             \A m \in Messages : queue'[m] = "deleted" => queue[m] = "deleted"
      PROVE  Verdicts'
  <2>1. GapsStay /\ flagged \subseteq Sales
    BY <1>1 DEF GapsStay, NoGap, Typed, TypeOK
  <2>2. \A v \in Workers : Knows(v)' =>
          SaleAt(v)' \in Sales /\ Sound(SaleAt(v)', worker'[v].result)
    BY <1>1, SaleAtType DEF Verdicts, Knows, Late, PhaseB, SaleAt, At
  <2>3. QED
    BY <1>1, <2>1, <2>2, VerdictFrame
<1>2. ASSUME NEW w \in Workers, WorkerStep(w) \/ FaultStep(w) PROVE Verdicts'
  <2>1. \/ Quiet(w)
        \/ WinClaim(w) \/ Complete(w) \/ FailKey(w) \/ ThrowsAfterCommit(w)
        \/ RunUnclaimed(w)
    BY <1>2 DEF WorkerStep, FaultStep, Quiet
  <2>2. QED
    BY <1>0, <2>1, QuietVerdicts, CommitVerdicts, KeyVerdicts
<1>3. ASSUME NEW s \in Sales, ClaimExpires(s) PROVE Verdicts'
  <2>1. /\ UNCHANGED <<worker, applied, master, flagged, listed, queue, unclaimed, unrecorded>>
        /\ \A t \in Sales : /\ idem'[t].status = idem[t].status
                            /\ idem'[t].result = idem[t].result
    BY <1>3 DEF ClaimExpires, dbVars, envVars, history, Typed, TypeOK, KeyRow
  <2>2. QED
    BY <1>1, <2>1 DEF Done
<1>4. ASSUME NEW s \in Sales, BuyerOrders(s) PROVE Verdicts'
  BY <1>1, <1>4 DEF BuyerOrders, dbVars, history, Done
<1>5. ASSUME NEW m \in Messages, EnqueueSale(m) \/ Redrive(m) PROVE Verdicts'
  <2>1. /\ UNCHANGED <<worker, applied, idem, master, flagged, listed, unclaimed, unrecorded>>
        /\ queue' = [queue EXCEPT ![m] = "visible"]
    BY <1>5 DEF EnqueueSale, Redrive, dbVars, envVars, history
  <2>2. QED
    BY <1>1, <2>1 DEF Typed, TypeOK, Done
<1>6. ASSUME "unlist" \in Environment, NEW c \in Channels, Unlist(c) PROVE Verdicts'
  BY <1>6 DEF Unlist, dbVars, history, Verdicts, Knows, RowSound, Published, Sound, Missed,
              NoGap, Done, SaleAt
<1>7. UNCHANGED vars => Verdicts'
  BY <1>1 DEF vars, history, Done
<1>8. \A on \in SwitchedOn("unlist") : "unlist" \in Environment
  BY DEF SwitchedOn
<1>9. QED
  BY <1>2, <1>3, <1>4, <1>5, <1>6, <1>7, <1>8 DEF Next

\* Every result there is tells the truth about its sale, and every flag and acknowledgement
\* rests on one.
THEOREM VerdictsInvariant == Spec => []Verdicts
<1>1. Spec => []FreshRead
  BY InitLedger, NextReads, TypedInvariant, PTL DEF Spec
<1>2. QED
  BY <1>1, InitVerdicts, NextVerdicts, TypedInvariant, AccountsInvariant, PTL DEF Spec

\* Whatever fails, dies, expires or runs unclaimed: a sale whose messages are all
\* acknowledged and that took no units is flagged for a human, and a flagged sale met an
\* empty stock, taking no units unless a gap let it run again (dispatchPhaseB).
THEOREM DoubleSaleFlaggedHolds == Spec => []DoubleSaleFlagged
<1>1. Typed /\ Verdicts => DoubleSaleFlagged
  <2> SUFFICES ASSUME Typed, Verdicts, NEW s \in Sales
               PROVE  /\ Settled(s) /\ applied[s] = 0 => s \in flagged
                      /\ s \in flagged => master.soldOut /\ (NoGap(s) => applied[s] = 0)
    BY DEF DoubleSaleFlagged
  <2>1. s \in flagged => master.soldOut /\ (NoGap(s) => applied[s] = 0)
    BY DEF Verdicts, Missed
  <2>2. Settled(s) => s \in flagged \/ applied[s] > 0
    BY DEF Settled, Verdicts
  <2>3. QED
    BY <2>1, <2>2 DEF Typed, TypeOK
<1>2. QED
  BY <1>1, VerdictsInvariant, TypedInvariant, PTL

------------------------------------------------------------------------------
(***************************************************************************)
(* No push forgotten                                                       *)
(*                                                                         *)
(* An acknowledged message cannot be the last one while a channel waits,   *)
(* nor while the key has been taken back: whoever leaves a job undone has  *)
(* failed and returns its message, whoever fails a key returns its own,    *)
(* and the next delivery runs again or replays the recorded channels. Two  *)
(* deliveries may work together and one may undo what the other saw done,  *)
(* so the invariant names no owner: some message is waiting, or some worker*)
(* still has the duty before it or a failure behind it.                    *)
(***************************************************************************)

\* Up to the outcome of Phase A.
Before == {"claim", "select"} \cup PhaseA

\* A copy of the sale is in the queue or the DLQ.
Waiting(s) == \E m \in Messages : SaleOf[m] = s /\ queue[m] \in {"visible", "dlq"}

\* What a sale may still demand: that a channel c be told or, as "none", that its key
\* be completed.
Demands == Channels \cup {"none"}

\* The worker will come to it, will return its message, or will flag the sale.
Owes(w, s, c) ==
  /\ ~At(w, "idle") /\ SaleAt(w) = s
  /\ \/ worker[w].pc \in Before
     \/ /\ worker[w].pc \in PhaseB
        /\ IF worker[w].result.alreadyZero
           THEN c \in Channels
           ELSE worker[w].failed \/ c \in worker[w].todo

Owed(s, c) == Waiting(s) \/ \E w \in Workers : Owes(w, s, c)

\* Each worker holds a message of its own.
Held ==
  \A w \in Workers : ~At(w, "idle") =>
    /\ queue[worker[w].msg] = "inflight"
    /\ \A v \in Workers \ {w} : At(v, "idle") \/ worker[v].msg # worker[w].msg

\* Some delivery of the sale has seen its key completed.
Served(s) ==
  \/ \E m \in Messages : SaleOf[m] = s /\ queue[m] = "deleted"
  \/ \E w \in Workers : worker[w].pc \in PhaseB /\ SaleAt(w) = s

Must(s, c) ==
  IF c \in Channels
  THEN jobs[s][c] \in {"pending", "failed"} /\ s \notin flagged
  ELSE Served(s) /\ ~Done(s)

Owing == \A s \in Sales, c \in Demands : Must(s, c) => Owed(s, c)

\* How a step treats a message and its worker.
Takes(w, m) ==
  /\ worker[w].pc = "idle" /\ queue[m] = "visible"
  /\ queue' = [queue EXCEPT ![m] = "inflight"]
  /\ worker'[w].msg = m /\ worker'[w].pc = "claim"

Keeps(w) ==
  /\ worker[w].pc # "idle" /\ worker'[w].pc # "idle"
  /\ UNCHANGED queue /\ worker'[w].msg = worker[w].msg

Leaves(w, p) ==
  /\ worker[w].pc # "idle" /\ worker'[w] = Idle
  /\ queue' = [queue EXCEPT ![worker[w].msg] = p]

\* A worker takes a message, keeps it, returns it or acknowledges it.
LEMMA MessageSteps ==
  ASSUME Typed, NEW w \in Workers, WorkerStep(w) \/ FaultStep(w)
  PROVE  /\ \A v \in Workers \ {w} : worker'[v] = worker[v]
         /\ \/ \E m \in Messages : Receive(w, m) /\ Takes(w, m)
            \/ Keeps(w)
            \/ Nack(w) /\ \E p \in {"visible", "dlq"} : Leaves(w, p)
            \/ Ack(w) /\ Leaves(w, "deleted")
<1> USE DEF At
<1>1. worker[w] \in Locals /\ worker \in [Workers -> Locals]
  BY DEF Typed, TypeOK
<1> DEFINE Goal == /\ \A v \in Workers \ {w} : worker'[v] = worker[v]
                   /\ \/ \E m \in Messages : Receive(w, m) /\ Takes(w, m)
                      \/ Keeps(w)
                      \/ Nack(w) /\ \E p \in {"visible", "dlq"} : Leaves(w, p)
                      \/ Ack(w) /\ Leaves(w, "deleted")
<1>2. ASSUME NEW m \in Messages, Receive(w, m) PROVE Goal
  <2> DEFINE l == [Idle EXCEPT !.pc = "claim", !.msg = m]
  <2>1. Goto(w, l) /\ l.pc = "claim" /\ l.msg = m
    BY <1>2 DEF Receive, Idle
  <2> HIDE DEF l
  <2>2. worker'[w] = l /\ \A v \in Workers \ {w} : worker'[v] = worker[v]
    BY <1>1, <2>1 DEF Goto
  <2>3. Takes(w, m)
    BY <1>2, <2>1, <2>2 DEF Receive, Takes
  <2>4. QED
    BY <1>2, <2>2, <2>3
<1>3. ASSUME Nack(w), worker[w].pc # "idle" PROVE Goal
  <2>1. worker'[w] = Idle /\ \A v \in Workers \ {w} : worker'[v] = worker[v]
    BY <1>1, <1>3 DEF Nack, Goto
  <2>2. \E p \in {"visible", "dlq"} : Leaves(w, p)
    BY <1>3, <2>1 DEF Nack, Returned, Leaves
  <2>3. QED
    BY <1>3, <2>1, <2>2
<1>4. ASSUME Ack(w), worker[w].pc # "idle" PROVE Goal
  <2>1. worker'[w] = Idle /\ \A v \in Workers \ {w} : worker'[v] = worker[v]
    BY <1>1, <1>4 DEF Ack, Goto
  <2>2. Leaves(w, "deleted")
    BY <1>4, <2>1 DEF Ack, Leaves
  <2>3. QED
    BY <1>4, <2>1, <2>2
<1>5. ASSUME NEW l, Goto(w, l), l.msg = worker[w].msg, l.pc # "idle",
             worker[w].pc # "idle", UNCHANGED queue
      PROVE  Goal
  <2>1. worker'[w] = l /\ \A v \in Workers \ {w} : worker'[v] = worker[v]
    BY <1>1, <1>5 DEF Goto
  <2>2. Keeps(w)
    BY <1>5, <2>1 DEF Keeps
  <2>3. QED
    BY <2>1, <2>2
<1>6. CASE LoseClaim(w) \/ FailKey(w) \/ FailKeyThrows(w) \/ Crash(w)
  BY <1>3, <1>6 DEF LoseClaim, FailKey, FailKeyThrows, Crash
<1>7. CASE FlagDoubleSale(w) \/ EndDispatch(w)
  BY <1>3, <1>4, <1>7 DEF FlagDoubleSale, EndDispatch
<1>8. CASE WinClaim(w) \/ RefuseClaim(w) \/ RunUnclaimed(w) \/ TxAborts(w)
             \/ ThrowsAfterCommit(w) \/ RecordOrder(w) \/ OrderNotRecorded(w) \/ Push(w)
  <2>1. /\ worker[w].pc # "idle" /\ UNCHANGED queue
        /\ \E pc \in {"read", "select", "fail", "complete", "mark"} :
             Goto(w, [worker[w] EXCEPT !.pc = pc])
    BY <1>8 DEF WinClaim, RefuseClaim, RunUnclaimed, TxAborts, ThrowsAfterCommit, RecordOrder, OrderNotRecorded, Push
  <2>2. PICK pc \in {"read", "select", "fail", "complete", "mark"} :
             Goto(w, [worker[w] EXCEPT !.pc = pc])
    BY <2>1
  <2> DEFINE l == [worker[w] EXCEPT !.pc = pc]
  <2>3. Goto(w, l) /\ l.msg = worker[w].msg /\ l.pc # "idle"
    BY <1>1, <2>2 DEF Locals
  <2> HIDE DEF l
  <2>4. QED
    BY <1>5, <2>1, <2>3
<1>9. CASE ReplayResult(w)
  <2> DEFINE l == [worker[w] EXCEPT !.pc = "dispatch", !.result = idem[SaleAt(w)].result,
                                    !.todo = idem[SaleAt(w)].result.channels]
  <2>1. Goto(w, l) /\ l.msg = worker[w].msg /\ l.pc # "idle"
    BY <1>1, <1>9 DEF ReplayResult, Locals
  <2> HIDE DEF l
  <2>2. QED
    BY <1>5, <1>9, <2>1 DEF ReplayResult
<1>10. CASE ReadSoldOut(w)
  <2> DEFINE r == [NoResult EXCEPT !.alreadyZero = TRUE, !.soldOut = TRUE]
             l == [worker[w] EXCEPT !.pc = "order", !.result = r]
  <2>1. Goto(w, l) /\ l.msg = worker[w].msg /\ l.pc # "idle"
    BY <1>1, <1>10 DEF ReadSoldOut, Locals
  <2> HIDE DEF l
  <2>2. QED
    BY <1>5, <1>10, <2>1 DEF ReadSoldOut
<1>11. CASE ReadMaster(w)
  <2> DEFINE l == [worker[w] EXCEPT !.pc = "cas", !.seen = master]
  <2>1. Goto(w, l) /\ l.msg = worker[w].msg /\ l.pc # "idle"
    BY <1>1, <1>11 DEF ReadMaster, Locals
  <2> HIDE DEF l
  <2>2. QED
    BY <1>5, <1>11, <2>1 DEF ReadMaster
<1>12. CASE CommitSale(w)
  <2>1. PICK r : Goto(w, [worker[w] EXCEPT !.pc = "order", !.result = r])
    BY <1>12 DEF CommitSale
  <2> DEFINE l == [worker[w] EXCEPT !.pc = "order", !.result = r]
  <2>2. Goto(w, l) /\ l.msg = worker[w].msg /\ l.pc # "idle"
    BY <1>1, <2>1 DEF Locals
  <2> HIDE DEF l
  <2>3. QED
    BY <1>5, <1>12, <2>2 DEF CommitSale
<1>13. CASE CasMismatch(w)
  <2> DEFINE n == worker[w].attempt + 1
             p == IF n < MaxAttempts THEN "read" ELSE "fail"
             l == [worker[w] EXCEPT !.attempt = n, !.pc = p]
  <2>1. Goto(w, l) /\ l.msg = worker[w].msg /\ l.pc # "idle"
    BY <1>1, <1>13 DEF CasMismatch, Locals
  <2> HIDE DEF l
  <2>2. QED
    BY <1>5, <1>13, <2>1 DEF CasMismatch
<1>14. CASE Complete(w)
  <2> DEFINE l == [worker[w] EXCEPT !.pc = "dispatch", !.todo = worker[w].result.channels]
  <2>1. Goto(w, l) /\ l.msg = worker[w].msg /\ l.pc # "idle"
    BY <1>1, <1>14 DEF Complete, Locals
  <2> HIDE DEF l
  <2>2. QED
    BY <1>5, <1>14, <2>1 DEF Complete
<1>15. CASE \E c \in Channels : ReadQuantity(w, c)
  <2>1. PICK c, q : Goto(w, [worker[w] EXCEPT !.pc = "push", !.target = c, !.seen = master,
                                             !.pushing = q])
    BY <1>15 DEF ReadQuantity
  <2> DEFINE l == [worker[w] EXCEPT !.pc = "push", !.target = c, !.seen = master,
                                    !.pushing = q]
  <2>2. Goto(w, l) /\ l.msg = worker[w].msg /\ l.pc # "idle"
    BY <1>1, <2>1 DEF Locals
  <2> HIDE DEF l
  <2>3. QED
    BY <1>5, <1>15, <2>2 DEF ReadQuantity, Dispatching
<1>16. CASE MarkPushed(w) \/ \E c \in Channels : SkipJob(w, c)
  <2>1. PICK c : JobDone(w, c)
    BY <1>16 DEF MarkPushed, SkipJob
  <2> DEFINE l == [worker[w] EXCEPT !.pc = "dispatch", !.todo = worker[w].todo \ {c},
                                    !.target = "none", !.pushing = 0]
  <2>2. Goto(w, l) /\ l.msg = worker[w].msg /\ l.pc # "idle"
    BY <1>1, <2>1 DEF Locals, JobDone
  <2> HIDE DEF l
  <2>3. QED
    BY <1>5, <1>16, <2>2 DEF MarkPushed, SkipJob, Dispatching
<1>17. CASE PushFails(w) \/ \E c \in Channels : NoToken(w, c)
  <2>1. PICK c : JobFails(w, c)
    BY <1>17 DEF PushFails, NoToken
  <2> DEFINE l == [worker[w] EXCEPT !.pc = "dispatch", !.todo = worker[w].todo \ {c},
                                    !.target = "none", !.pushing = 0, !.failed = TRUE]
  <2>2. Goto(w, l) /\ l.msg = worker[w].msg /\ l.pc # "idle"
    BY <1>1, <2>1 DEF Locals, JobFails
  <2> HIDE DEF l
  <2>3. QED
    BY <1>5, <1>17, <2>1, <2>2 DEF PushFails, NoToken, Dispatching, JobFails
<1>18. QED
  BY <1>2, <1>6, <1>7, <1>8, <1>9, <1>10, <1>11, <1>12, <1>13, <1>14, <1>15, <1>16, <1>17
  DEF WorkerStep, FaultStep

\* One message, one worker.
LEMMA NextHeld == ASSUME Typed, Held, [Next]_vars PROVE Held'
<1> USE DEF At
<1>1. ASSUME NEW w \in Workers, WorkerStep(w) \/ FaultStep(w) PROVE Held'
  <2>1. /\ \A v \in Workers \ {w} : worker'[v] = worker[v]
        /\ \/ \E m \in Messages : Takes(w, m)
           \/ Keeps(w)
           \/ \E p : Leaves(w, p)
    BY <1>1, MessageSteps
  <2>2. queue \in [Messages -> Places]
        /\ \A v \in Workers : worker[v].pc # "idle" => worker[v].msg \in Messages
    BY DEF Typed, TypeOK, Busy
  <2>3. ASSUME NEW m \in Messages, Takes(w, m) PROVE Held'
    <3>1. /\ worker'[w].msg = m /\ queue[m] = "visible"
          /\ queue' = [queue EXCEPT ![m] = "inflight"]
      BY <2>3 DEF Takes
    <3>2. \A v \in Workers : worker[v].pc # "idle" => worker[v].msg # m
      BY <3>1 DEF Held
    <3>3. QED
      BY <2>1, <2>2, <2>3, <3>1, <3>2 DEF Held
  <2>4. CASE Keeps(w)
    BY <2>1, <2>4 DEF Keeps, Held
  <2>5. ASSUME NEW p, Leaves(w, p) PROVE Held'
    <3>1. worker'[w].pc = "idle" /\ \A m \in Messages \ {worker[w].msg} : queue'[m] = queue[m]
      BY <2>2, <2>5 DEF Leaves, Idle
    <3>2. \A v \in Workers \ {w} : worker[v].pc # "idle" =>
            worker[v].msg \in Messages \ {worker[w].msg}
      BY <2>2, <2>5 DEF Held, Leaves
    <3>3. QED
      BY <2>1, <3>1, <3>2 DEF Held
  <2>6. QED
    BY <2>1, <2>3, <2>4, <2>5
<1>2. ASSUME NEW m \in Messages, EnqueueSale(m) \/ Redrive(m) PROVE Held'
  <2>1. /\ queue[m] # "inflight" /\ queue' = [queue EXCEPT ![m] = "visible"]
        /\ UNCHANGED worker
    BY <1>2 DEF EnqueueSale, Redrive
  <2>2. QED
    BY <2>1 DEF Held, Typed, TypeOK
<1>3. UNCHANGED <<worker, queue>> => Held'
  BY DEF Held
<1>4. \A s \in Sales : BuyerOrders(s) \/ ClaimExpires(s) => UNCHANGED <<worker, queue>>
  BY DEF BuyerOrders, ClaimExpires
<1>5. \A c \in Channels : Unlist(c) => UNCHANGED <<worker, queue>>
  BY DEF Unlist
<1>6. UNCHANGED vars => UNCHANGED <<worker, queue>>
  BY DEF vars
<1>7. QED
  BY <1>1, <1>2, <1>3, <1>4, <1>5, <1>6 DEF Next

\* Who owed nothing before a step, or owes it still, leaves what was owed owed.
LEMMA StillOwed ==
  ASSUME Typed, Held, NEW w \in Workers, WorkerStep(w) \/ FaultStep(w),
         NEW s \in Sales, NEW c \in Demands, Owed(s, c),
         Owes(w, s, c) => Owes(w, s, c)' \/ Nack(w)
  PROVE  Owed(s, c)'
<1> USE DEF At
<1>1. /\ \A v \in Workers \ {w} : worker'[v] = worker[v]
      /\ \/ \E m \in Messages : Takes(w, m)
         \/ Keeps(w)
         \/ Nack(w) /\ \E p \in {"visible", "dlq"} : Leaves(w, p)
         \/ Ack(w) /\ Leaves(w, "deleted")
  BY MessageSteps
<1>2. /\ queue \in [Messages -> Places]
      /\ worker[w].pc # "idle" => worker[w].msg \in Messages
  BY DEF Typed, TypeOK, Busy
<1>3. ASSUME NEW v \in Workers \ {w}, Owes(v, s, c) PROVE Owes(v, s, c)'
  BY <1>1, <1>3 DEF Owes, SaleAt
<1>4. ASSUME NEW m \in Messages, SaleOf[m] = s, queue[m] \in {"visible", "dlq"}
      PROVE  queue'[m] \in {"visible", "dlq"} \/ Owes(w, s, c)'
  <2>1. worker[w].pc # "idle" => worker[w].msg # m
    BY <1>4 DEF Held
  <2>2. ASSUME NEW n \in Messages, Takes(w, n)
        PROVE  queue'[m] \in {"visible", "dlq"} \/ Owes(w, s, c)'
    <3>1. CASE n = m
      BY <1>4, <2>2, <3>1 DEF Takes, Owes, Before, SaleAt
    <3>2. CASE n # m
      BY <1>2, <1>4, <2>2, <3>2 DEF Takes
    <3>3. QED
      BY <3>1, <3>2
  <2>3. ASSUME NEW p, Leaves(w, p) PROVE queue'[m] = queue[m]
    BY <1>2, <2>1, <2>3 DEF Leaves
  <2>4. QED
    BY <1>1, <1>4, <2>2, <2>3 DEF Keeps
<1>5. Nack(w) /\ SaleAt(w) = s => Waiting(s)' \/ ~Owes(w, s, c)
  <2>1. ASSUME NEW p \in {"visible", "dlq"}, Leaves(w, p), SaleAt(w) = s PROVE Waiting(s)'
    <3>1. queue'[worker[w].msg] = p /\ worker[w].msg \in Messages
      BY <1>2, <2>1 DEF Leaves
    <3>2. QED
      BY <2>1, <3>1 DEF Waiting, SaleAt
  <2>2. Nack(w) /\ Owes(w, s, c) => \E p \in {"visible", "dlq"} : Leaves(w, p)
    <3>1. ASSUME Nack(w), Owes(w, s, c) PROVE \E p \in {"visible", "dlq"} : Leaves(w, p)
      <4>1. worker'[w] = Idle
        BY <3>1 DEF Nack, Goto, Typed, TypeOK
      <4>2. \E p \in {"visible", "dlq"} : queue' = [queue EXCEPT ![worker[w].msg] = p]
        BY <3>1 DEF Nack, Returned
      <4>3. QED
        BY <3>1, <4>1, <4>2 DEF Leaves, Owes
    <3>2. QED
      BY <3>1
  <2>3. QED
    BY <2>1, <2>2
<1>6. QED
  BY <1>3, <1>4, <1>5 DEF Owed, Waiting, Owes

\* A step either leaves a demand to whoever it was left to, or takes it on.
LEMMA OweStep ==
  ASSUME Typed, Held, Owing, NEW w \in Workers, WorkerStep(w) \/ FaultStep(w),
         NEW s \in Sales, NEW c \in Demands,
         \/ Must(s, c) /\ (Owes(w, s, c) => Owes(w, s, c)' \/ Nack(w))
         \/ Owes(w, s, c)'
         \/ Nack(w) /\ ~At(w, "idle") /\ SaleAt(w) = s
  PROVE  Owed(s, c)'
<1>1. CASE Nack(w) /\ ~At(w, "idle") /\ SaleAt(w) = s
  <2>1. PICK p \in {"visible", "dlq"} : queue' = [queue EXCEPT ![worker[w].msg] = p]
    BY <1>1 DEF Nack, Returned
  <2>2. worker[w].msg \in Messages /\ queue \in [Messages -> Places]
    <3>1. worker[w].msg \in Messages
      BY <1>1, SaleAtType
    <3>2. QED
      BY <3>1 DEF Typed, TypeOK
  <2>3. queue'[worker[w].msg] = p
    BY <2>1, <2>2
  <2>4. SaleOf[worker[w].msg] = s /\ queue'[worker[w].msg] \in {"visible", "dlq"}
    BY <1>1, <2>1, <2>3 DEF SaleAt
  <2>5. Waiting(s)'
    BY <2>2, <2>4 DEF Waiting
  <2>6. QED
    BY <2>5 DEF Owed
<1>2. CASE Must(s, c) /\ (Owes(w, s, c) => Owes(w, s, c)' \/ Nack(w))
  <2>1. Owed(s, c)
    BY <1>2 DEF Owing
  <2>2. QED
    BY <1>2, <2>1, StillOwed
<1>3. CASE Owes(w, s, c)'
  BY <1>3 DEF Owed
<1>4. QED
  BY <1>1, <1>2, <1>3

\* A waiting channel is one of those the result names.
LEMMA UndoneNamed ==
  ASSUME "unlist" \notin Environment, OutboxWithDecrement,
         NEW s \in Sales, NEW c \in Channels, NEW r, Sound(s, r),
         jobs[s][c] \in {"pending", "failed"}
  PROVE  r.alreadyZero \/ c \in r.channels
BY DEF OutboxWithDecrement, Sound, OtherChannels

\* What the steps before Phase B leave of other sales, and where they lead.
LEMMA BeforeStep ==
  ASSUME Typed, NEW w \in Workers,
         \/ RefuseClaim(w) \/ LoseClaim(w) \/ WinClaim(w) \/ RunUnclaimed(w)
         \/ ReadSoldOut(w) \/ ReadMaster(w) \/ CommitSale(w) \/ CasMismatch(w)
         \/ RecordOrder(w) \/ FailKey(w) \/ TxAborts(w) \/ OrderNotRecorded(w)
         \/ ThrowsAfterCommit(w) \/ FailKeyThrows(w)
  PROVE  /\ worker[w].pc \in Before /\ UNCHANGED flagged
         /\ \A s \in Sales \ {SaleAt(w)} : jobs'[s] = jobs[s] /\ idem'[s] = idem[s]
         /\ Nack(w) \/ worker'[w].pc \in Before
<1> USE DEF At
<1>1. /\ worker[w] \in Locals /\ worker \in [Workers -> Locals]
      /\ idem \in [Sales -> KeyRow] /\ jobs \in [Sales -> [Channels -> JobStatus]]
  BY DEF Typed, TypeOK
<1>2. worker[w].pc \in Before /\ UNCHANGED flagged
  BY DEF RefuseClaim, LoseClaim, WinClaim, RunUnclaimed, ReadSoldOut, ReadMaster, CommitSale,
     CasMismatch, RecordOrder, FailKey, TxAborts, OrderNotRecorded, ThrowsAfterCommit,
     FailKeyThrows, Before, PhaseA
<1>3. \A s \in Sales \ {SaleAt(w)} : jobs'[s] = jobs[s] /\ idem'[s] = idem[s]
  BY <1>1 DEF RefuseClaim, LoseClaim, WinClaim, RunUnclaimed, ReadSoldOut, ReadMaster,
     CommitSale, CasMismatch, RecordOrder, FailKey, TxAborts, OrderNotRecorded,
     ThrowsAfterCommit, FailKeyThrows, dbVars
<1>4. CASE RefuseClaim(w) \/ WinClaim(w) \/ RunUnclaimed(w) \/ RecordOrder(w)
             \/ TxAborts(w) \/ OrderNotRecorded(w) \/ ThrowsAfterCommit(w)
  <2>1. PICK pc \in Before : Goto(w, [worker[w] EXCEPT !.pc = pc])
    BY <1>4 DEF RefuseClaim, WinClaim, RunUnclaimed, RecordOrder, TxAborts, OrderNotRecorded,
       ThrowsAfterCommit, Before, PhaseA
  <2>2. QED
    BY <1>1, <1>2, <1>3, <2>1 DEF Goto, Locals
<1>5. CASE LoseClaim(w) \/ FailKey(w) \/ FailKeyThrows(w)
  BY <1>2, <1>3, <1>5 DEF LoseClaim, FailKey, FailKeyThrows
<1>6. CASE ReadSoldOut(w) \/ ReadMaster(w) \/ CasMismatch(w) \/ CommitSale(w)
  <2>1. Quiet(w)
    BY <1>6 DEF Quiet
  <2>2. Moves(w) /\ worker[w].pc \in {"read", "cas"}
    BY <1>6, <2>1, QuietMoves DEF ReadSoldOut, ReadMaster, CasMismatch, CommitSale
  <2>3. worker'[w].pc \in Before \/ worker'[w].pc = "idle"
    BY <2>2 DEF Moves, Flow, Before, PhaseA
  <2>4. worker'[w].pc # "idle"
    <3>1. WorkerStep(w)
      BY <1>6 DEF WorkerStep
    <3>2. UNCHANGED queue /\ worker[w].msg \in Messages
      BY <1>6, SaleAtType DEF ReadSoldOut, ReadMaster, CasMismatch, CommitSale
    <3>3. CASE ReadMaster(w)
      <4> DEFINE l == [worker[w] EXCEPT !.pc = "cas", !.seen = master]
      <4>1. Goto(w, l) /\ l.pc = "cas"
        BY <1>1, <3>3 DEF ReadMaster, Locals
      <4> HIDE DEF l
      <4>2. QED
        BY <1>1, <4>1 DEF Goto
    <3>4. CASE ReadSoldOut(w)
      <4> DEFINE r == [NoResult EXCEPT !.alreadyZero = TRUE, !.soldOut = TRUE]
                 l == [worker[w] EXCEPT !.pc = "order", !.result = r]
      <4>1. Goto(w, l) /\ l.pc = "order"
        BY <1>1, <3>4 DEF ReadSoldOut, Locals
      <4> HIDE DEF l
      <4>2. QED
        BY <1>1, <4>1 DEF Goto
    <3>5. CASE CommitSale(w)
      <4>1. PICK r : Goto(w, [worker[w] EXCEPT !.pc = "order", !.result = r])
        BY <3>5 DEF CommitSale
      <4> DEFINE l == [worker[w] EXCEPT !.pc = "order", !.result = r]
      <4>2. Goto(w, l) /\ l.pc = "order"
        BY <1>1, <4>1 DEF Locals
      <4> HIDE DEF l
      <4>3. QED
        BY <1>1, <4>2 DEF Goto
    <3>6. CASE CasMismatch(w)
      <4> DEFINE n == worker[w].attempt + 1
                 p == IF n < MaxAttempts THEN "read" ELSE "fail"
                 l == [worker[w] EXCEPT !.attempt = n, !.pc = p]
      <4>1. Goto(w, l) /\ l.pc = p /\ p # "idle"
        BY <1>1, <3>6 DEF CasMismatch, Locals
      <4> HIDE DEF l, p
      <4>2. QED
        BY <1>1, <4>1 DEF Goto
    <3>7. QED
      BY <1>6, <3>3, <3>4, <3>5, <3>6
  <2>5. QED
    BY <1>2, <1>3, <2>3, <2>4
<1>7. QED
  BY <1>4, <1>5, <1>6

\* A sale comes to be served only by the step of a worker that enters Phase B for it.
LEMMA ServedStep ==
  ASSUME Typed, NEW w \in Workers, WorkerStep(w) \/ FaultStep(w),
         NEW s \in Sales, Served(s)'
  PROVE  \/ Served(s)
         \/ worker'[w].pc \in PhaseB /\ SaleAt(w)' = s
         \/ /\ worker[w].pc # "idle" /\ SaleAt(w) = s /\ ~Nack(w)
            /\ worker'[w].pc = "idle"
<1> USE DEF At
<1>1. /\ \A v \in Workers \ {w} : worker'[v] = worker[v]
      /\ \/ \E m \in Messages : Takes(w, m)
         \/ Keeps(w)
         \/ \E p \in {"visible", "dlq"} : Leaves(w, p)
         \/ Leaves(w, "deleted")
  BY MessageSteps
<1>2. queue \in [Messages -> Places] /\ \A v \in Workers : worker[v].pc # "idle" =>
        worker[v].msg \in Messages
  BY DEF Typed, TypeOK, Busy
<1>3. CASE \E v \in Workers : worker'[v].pc \in PhaseB /\ SaleAt(v)' = s
  BY <1>1, <1>3 DEF Served, SaleAt
<1>4. ASSUME NEW m \in Messages, SaleOf[m] = s, queue'[m] = "deleted", queue[m] # "deleted"
      PROVE  worker[w].pc # "idle" /\ SaleAt(w) = s /\ ~Nack(w) /\ worker'[w].pc = "idle"
  <2>1. Leaves(w, "deleted") /\ m = worker[w].msg
    BY <1>1, <1>2, <1>4 DEF Takes, Keeps, Leaves
  <2>2. ~Nack(w)
    <3>1. queue'[worker[w].msg] = "deleted" /\ worker[w].msg \in Messages
      BY <1>4, <2>1
    <3>2. QED
      BY <1>2, <3>1 DEF Nack, Returned
  <2>3. QED
    BY <1>4, <2>1, <2>2 DEF Leaves, Idle, SaleAt
<1>5. QED
  BY <1>3, <1>4 DEF Served

\* Before Phase B: the worker goes on, or returns its message.
LEMMA OweBefore ==
  ASSUME Typed, Held, Owing, NEW w \in Workers, WorkerStep(w) \/ FaultStep(w),
         \/ RefuseClaim(w) \/ LoseClaim(w) \/ WinClaim(w) \/ RunUnclaimed(w)
         \/ ReadSoldOut(w) \/ ReadMaster(w) \/ CommitSale(w) \/ CasMismatch(w)
         \/ RecordOrder(w) \/ FailKey(w) \/ TxAborts(w) \/ OrderNotRecorded(w)
         \/ ThrowsAfterCommit(w) \/ FailKeyThrows(w)
  PROVE  Owing'
<1> SUFFICES ASSUME NEW s \in Sales, NEW c \in Demands, Must(s, c)' PROVE Owed(s, c)'
  BY DEF Owing, Demands
<1>1. /\ worker[w].pc \in Before /\ UNCHANGED flagged
      /\ s # SaleAt(w) => jobs'[s] = jobs[s] /\ idem'[s] = idem[s]
      /\ Nack(w) \/ worker'[w].pc \in Before
      /\ worker[w].pc # "idle"
  BY BeforeStep DEF Before, PhaseA
<1>2. CASE s = SaleAt(w)
  <2>1. CASE Nack(w)
    BY <1>1, <1>2, <2>1, OweStep DEF At
  <2>2. CASE worker'[w].pc \in Before
    <3>1. worker'[w].msg = worker[w].msg
      BY <1>1, <2>2, MessageSteps DEF Takes, Keeps, Leaves, Idle, Before, PhaseA
    <3>2. Owes(w, s, c)'
      BY <1>2, <2>2, <3>1 DEF Owes, Before, PhaseA, At, SaleAt
    <3>3. QED
      BY <3>2, OweStep
  <2>3. QED
    BY <1>1, <2>1, <2>2
<1>3. CASE s # SaleAt(w)
  <2>1. worker'[w].pc \notin PhaseB
    <3>1. Nack(w) => worker'[w].pc = "idle"
      BY DEF Nack, Goto, Idle, Typed, TypeOK
    <3>2. QED
      BY <1>1, <3>1 DEF Before, PhaseA, PhaseB
  <2>2. Served(s)' => Served(s)
    BY <1>3, <2>1, ServedStep
  <2>3. Must(s, c)
    BY <1>1, <1>3, <2>2 DEF Must, Done
  <2>4. QED
    BY <1>3, <2>3, OweStep DEF Owes
<1>4. QED
  BY <1>2, <1>3

\* A delivery, and the death of a worker: a message comes in or goes back.
LEMMA OweComesGoes ==
  ASSUME Typed, Held, Owing, NEW w \in Workers, WorkerStep(w) \/ FaultStep(w),
         Crash(w) \/ \E m \in Messages : Receive(w, m)
  PROVE  Owing'
<1> SUFFICES ASSUME NEW s \in Sales, NEW c \in Demands, Must(s, c)' PROVE Owed(s, c)'
  BY DEF Owing, Demands
<1>1. UNCHANGED <<jobs, idem, flagged>>
  BY DEF Crash, Receive, dbVars
<1>2. worker'[w].pc \notin PhaseB /\ (Nack(w) \/ worker[w].pc = "idle")
  <2>1. CASE Crash(w)
    BY <2>1 DEF Crash, Nack, Goto, Idle, Typed, TypeOK, PhaseB
  <2>2. CASE \E m \in Messages : Receive(w, m)
    <3>1. worker \in [Workers -> Locals]
      BY DEF Typed, TypeOK
    <3>2. PICK m \in Messages : /\ Goto(w, [Idle EXCEPT !.pc = "claim", !.msg = m])
                                /\ worker[w].pc = "idle"
      BY <2>2 DEF Receive, At
    <3>3. [Idle EXCEPT !.pc = "claim", !.msg = m].pc = "claim"
      BY DEF Idle
    <3>4. QED
      BY <3>1, <3>2, <3>3 DEF Goto, PhaseB
  <2>3. QED
    BY <2>1, <2>2
<1>3. Served(s)' => Served(s)
  BY <1>2, ServedStep
<1>4. Must(s, c)
  BY <1>1, <1>3 DEF Must, Done
<1>5. QED
  BY <1>2, <1>4, OweStep DEF Owes, At

\* Phase B begins with the channels of the result, fresh from the commit or replayed.
LEMMA OweBegin ==
  ASSUME Typed, Verdicts, OutboxWithDecrement, Held, Owing,
         "unlist" \notin Environment, NEW w \in Workers, Complete(w) \/ ReplayResult(w)
  PROVE  Owing'
<1> USE DEF At
<1> SUFFICES ASSUME NEW s \in Sales, NEW c \in Demands, Must(s, c)' PROVE Owed(s, c)'
  BY DEF Owing, Demands
<1>1. /\ idem \in [Sales -> KeyRow] /\ worker[w] \in Locals
      /\ worker[w].pc \in {"select", "complete"} /\ SaleAt(w) \in Sales
      /\ WorkerStep(w) \/ FaultStep(w)
      /\ UNCHANGED <<jobs, flagged>>
  BY SaleAtType DEF Typed, TypeOK, Complete, ReplayResult, dbVars, WorkerStep
<1>2. PICK r : /\ Sound(SaleAt(w), r)
               /\ worker'[w].pc = "dispatch" /\ worker'[w].msg = worker[w].msg
               /\ worker'[w].todo = r.channels /\ worker'[w].result = r
               /\ Done(SaleAt(w))' /\ \A t \in Sales \ {SaleAt(w)} : idem'[t] = idem[t]
  <2>1. CASE Complete(w)
    <3> DEFINE l == [worker[w] EXCEPT !.pc = "dispatch", !.todo = worker[w].result.channels]
    <3>1. Goto(w, l) /\ l.pc = "dispatch" /\ l.msg = worker[w].msg
          /\ l.todo = worker[w].result.channels /\ l.result = worker[w].result
      BY <1>1, <2>1 DEF Complete, Locals
    <3> HIDE DEF l
    <3>2. Sound(SaleAt(w), worker[w].result)
      BY <2>1 DEF Complete, Verdicts, Knows, Late
    <3>3. Done(SaleAt(w))' /\ \A t \in Sales \ {SaleAt(w)} : idem'[t] = idem[t]
      <4>1. PICK t \in Sales : t = SaleAt(w)
        BY <1>1
      <4>2. idem' = [idem EXCEPT ![t].status = "completed", ![t].result = worker[w].result]
        BY <2>1, <4>1 DEF Complete
      <4>3. idem'[t].status = "completed" /\ \A u \in Sales \ {t} : idem'[u] = idem[u]
        BY <1>1, <4>2 DEF KeyRow
      <4>4. SaleAt(w)' = t
        BY <3>1, <4>1 DEF Goto, SaleAt, Typed, TypeOK
      <4>5. QED
        BY <4>1, <4>3, <4>4 DEF Done
    <3>4. QED
      BY <3>1, <3>2, <3>3 DEF Goto, Typed, TypeOK
  <2>2. CASE ReplayResult(w)
    <3> DEFINE r == idem[SaleAt(w)].result
               l == [worker[w] EXCEPT !.pc = "dispatch", !.result = r, !.todo = r.channels]
    <3>1. Goto(w, l) /\ l.pc = "dispatch" /\ l.msg = worker[w].msg
          /\ l.todo = r.channels /\ l.result = r
      BY <1>1, <2>2 DEF ReplayResult, Locals
    <3> HIDE DEF l
    <3>2. Sound(SaleAt(w), r) /\ Done(SaleAt(w)) /\ idem' = idem
      BY <1>1, <2>2 DEF ReplayResult, Verdicts, Done
    <3>3. SaleAt(w)' = SaleAt(w)
      BY <3>1 DEF Goto, SaleAt, Typed, TypeOK
    <3>4. QED
      BY <3>1, <3>2, <3>3 DEF Goto, Typed, TypeOK, Done
  <2>3. QED
    BY <2>1, <2>2
<1>3. SaleAt(w)' = SaleAt(w)
  BY <1>2 DEF SaleAt
<1>4. CASE SaleAt(w) # s
  <2>1. Served(s)' => Served(s)
    BY <1>1, <1>2, <1>3, <1>4, ServedStep
  <2>2. Must(s, c)
    BY <1>1, <1>2, <1>4, <2>1 DEF Must, Done
  <2>3. QED
    BY <1>1, <1>4, <2>2, OweStep DEF Owes
<1>5. CASE SaleAt(w) = s
  <2>1. c \in Channels
    BY <1>2, <1>3, <1>5 DEF Must
  <2>2. r.alreadyZero \/ c \in r.channels
    BY <1>1, <1>2, <1>5, <2>1, UndoneNamed DEF Must
  <2>3. Owes(w, s, c)'
    BY <1>2, <1>3, <1>5, <2>1, <2>2 DEF Owes, PhaseB
  <2>4. QED
    BY <1>1, <2>3, OweStep
<1>6. QED
  BY <1>4, <1>5

\* Acknowledged is a sale that has just been flagged, or one whose channels are all done.
LEMMA OweAcknowledged ==
  ASSUME Typed, Held, Owing, NEW w \in Workers, FlagDoubleSale(w) \/ EndDispatch(w)
  PROVE  Owing'
<1> USE DEF At
<1> SUFFICES ASSUME NEW s \in Sales, NEW c \in Demands, Must(s, c)' PROVE Owed(s, c)'
  BY DEF Owing, Demands
<1>1. /\ UNCHANGED <<idem, jobs>> /\ flagged \subseteq flagged'
      /\ FlagDoubleSale(w) => SaleAt(w) \in flagged' /\ worker[w].result.alreadyZero
      /\ EndDispatch(w) => /\ ~worker[w].result.alreadyZero /\ worker[w].todo = {}
                           /\ worker[w].failed => Nack(w)
      /\ worker[w].pc = "dispatch" /\ worker[w] \in Locals
      /\ WorkerStep(w) \/ FaultStep(w)
  BY DEF FlagDoubleSale, EndDispatch, dbVars, WorkerStep, Typed, TypeOK
<1>2. Served(s)' => Served(s)
  <2>1. worker'[w].pc = "idle"
    BY DEF FlagDoubleSale, EndDispatch, Nack, Ack, Goto, Idle, Typed, TypeOK
  <2>2. SaleAt(w) = s => Served(s)
    BY <1>1 DEF Served, PhaseB
  <2>3. QED
    BY <1>1, <2>1, <2>2, ServedStep DEF PhaseB
<1>3. Must(s, c)
  BY <1>1, <1>2 DEF Must, Done
<1>4. CASE c \in Channels
  <2>1. Owes(w, s, c) => Nack(w)
    BY <1>1, <1>4 DEF Owes, Must, Before, PhaseA
  <2>2. QED
    BY <1>1, <1>3, <2>1, OweStep
<1>5. CASE c \notin Channels
  <2>1. Owes(w, s, c) => Nack(w)
    BY <1>1, <1>5 DEF Owes, Before, PhaseA
  <2>2. QED
    BY <1>1, <1>3, <2>1, OweStep
<1>6. QED
  BY <1>4, <1>5

\* The loop: a channel leaves the list when its job is completed or has failed.
LEMMA OweLoop ==
  ASSUME Typed, Verdicts, Held, Owing,
         Environment \cap {"isolated", "account", "unlist"} = {}, NEW w \in Workers,
         \/ \E c \in Channels : SkipJob(w, c) \/ ReadQuantity(w, c) \/ NoToken(w, c)
         \/ Push(w) \/ PushFails(w) \/ MarkPushed(w)
  PROVE  Owing'
<1> USE DEF At
<1> SUFFICES ASSUME NEW s \in Sales, NEW c \in Demands, Must(s, c)' PROVE Owed(s, c)'
  BY DEF Owing, Demands
<1>1. /\ UNCHANGED <<idem, flagged>> /\ worker[w].pc \in PhaseB /\ worker[w] \in Locals
      /\ jobs \in [Sales -> [Channels -> JobStatus]]
      /\ WorkerStep(w) \/ FaultStep(w)
      /\ listed = Channels
  BY DEF Typed, TypeOK, SkipJob, ReadQuantity, NoToken, JobFails, Push, PushFails, MarkPushed,
     Dispatching, PhaseB, WorkerStep, FaultStep, Verdicts, Published, dbVars
<1>2. SaleAt(w) \in Sales /\ "none" \notin Channels
  BY <1>1, SaleAtType, SaleSyncAssumption DEF PhaseB
<1>3. ASSUME NEW l, Goto(w, l), l.pc \in PhaseB, l.msg = worker[w].msg,
             l.result = worker[w].result,
             worker[w].failed => l.failed,
             l.todo \subseteq Channels,
             SaleAt(w) # s => jobs'[s] = jobs[s],
             SaleAt(w) = s /\ c \in Channels =>
               \/ l.failed
               \/ jobs'[s][c] = jobs[s][c] /\ (c \in worker[w].todo => c \in l.todo)
      PROVE  Owed(s, c)'
  <2>1. worker'[w] = l /\ SaleAt(w)' = SaleAt(w)
    BY <1>3 DEF Goto, Typed, TypeOK, SaleAt
  <2>2. Served(s)' => Served(s)
    BY <1>1, <1>3, <2>1, ServedStep DEF Served, PhaseB
  <2>3. ASSUME c \in Channels => jobs'[s][c] = jobs[s][c],
               Owes(w, s, c) => Owes(w, s, c)'
        PROVE  Owed(s, c)'
    <3>1. Must(s, c)
      BY <1>1, <2>2, <2>3 DEF Must, Done
    <3>2. QED
      BY <1>1, <2>3, <3>1, OweStep
  <2>4. CASE SaleAt(w) # s
    BY <1>3, <2>3, <2>4 DEF Owes
  <2>5. CASE SaleAt(w) = s /\ c \notin Channels
    <3>1. c \notin worker[w].todo
      BY <1>1, <2>5 DEF Locals
    <3>2. Owes(w, s, c) => Owes(w, s, c)'
      BY <1>1, <1>3, <2>1, <2>5, <3>1 DEF Owes, PhaseB, Before, PhaseA
    <3>3. QED
      BY <2>3, <2>5, <3>2
  <2>6. CASE SaleAt(w) = s /\ c \in Channels
    <3>1. CASE worker[w].result.alreadyZero \/ l.failed
      <4>1. Owes(w, s, c)'
        BY <1>3, <2>1, <2>6, <3>1 DEF Owes, PhaseB
      <4>2. QED
        BY <1>1, <4>1, OweStep
    <3>2. CASE ~(worker[w].result.alreadyZero \/ l.failed)
      <4>1. jobs'[s][c] = jobs[s][c] /\ (c \in worker[w].todo => c \in l.todo)
        BY <1>3, <2>6, <3>2
      <4>2. Owes(w, s, c) => Owes(w, s, c)'
        BY <1>1, <1>3, <2>1, <2>6, <3>2, <4>1 DEF Owes, PhaseB, Before, PhaseA
      <4>3. QED
        BY <2>3, <4>1, <4>2
    <3>3. QED
      BY <3>1, <3>2
  <2>7. QED
    BY <2>4, <2>5, <2>6
<1>4. ASSUME NEW d \in Channels, SkipJob(w, d) PROVE Owed(s, c)'
  <2> DEFINE l == [worker[w] EXCEPT !.pc = "dispatch", !.todo = worker[w].todo \ {d},
                                    !.target = "none", !.pushing = 0]
  <2>1. /\ Goto(w, l) /\ jobs' = jobs
        /\ jobs[SaleAt(w)][d] = "completed"
    BY <1>1, <1>4 DEF SkipJob, JobDone, dbVars
  <2>2. /\ l.pc = "dispatch" /\ l.msg = worker[w].msg /\ l.failed = worker[w].failed
        /\ l.todo = worker[w].todo \ {d} /\ l.result = worker[w].result
        /\ l.todo \subseteq Channels
    BY <1>1 DEF Locals
  <2> HIDE DEF l
  <2>3. SaleAt(w) = s /\ c \in Channels => c # d
    BY <2>1 DEF Must
  <2>4. QED
    BY <1>3, <2>1, <2>2, <2>3 DEF PhaseB
<1>5. CASE \E d \in Channels : ReadQuantity(w, d)
  <2>1. PICK d, q : /\ Goto(w, [worker[w] EXCEPT !.pc = "push", !.target = d,
                                                !.seen = master, !.pushing = q])
                    /\ jobs' = jobs
    BY <1>5 DEF ReadQuantity, dbVars
  <2> DEFINE l == [worker[w] EXCEPT !.pc = "push", !.target = d, !.seen = master,
                                    !.pushing = q]
  <2>2. /\ Goto(w, l) /\ l.pc = "push" /\ l.msg = worker[w].msg
        /\ l.failed = worker[w].failed /\ l.todo = worker[w].todo
        /\ l.result = worker[w].result /\ l.todo \subseteq Channels
    BY <1>1, <2>1 DEF Locals
  <2> HIDE DEF l
  <2>3. QED
    BY <1>3, <2>1, <2>2 DEF PhaseB
<1>6. CASE Push(w)
  <2> DEFINE l == [worker[w] EXCEPT !.pc = "mark"]
  <2>1. Goto(w, l) /\ jobs' = jobs
    BY <1>6 DEF Push, dbVars
  <2>2. /\ l.pc = "mark" /\ l.msg = worker[w].msg
        /\ l.failed = worker[w].failed /\ l.todo = worker[w].todo
        /\ l.result = worker[w].result /\ l.todo \subseteq Channels
    BY <1>1 DEF Locals
  <2> HIDE DEF l
  <2>3. QED
    BY <1>3, <2>1, <2>2 DEF PhaseB
<1>7. ASSUME NEW d, JobFails(w, d) PROVE Owed(s, c)'
  <2> DEFINE l == [worker[w] EXCEPT !.pc = "dispatch", !.todo = worker[w].todo \ {d},
                                    !.target = "none", !.pushing = 0, !.failed = TRUE]
  <2>1. Goto(w, l) /\ jobs' = [jobs EXCEPT ![SaleAt(w)][d] = "failed"]
    BY <1>7 DEF JobFails
  <2>2. l.pc = "dispatch" /\ l.msg = worker[w].msg /\ l.failed = TRUE
        /\ l.result = worker[w].result /\ l.todo \subseteq Channels
    BY <1>1 DEF Locals
  <2> HIDE DEF l
  <2>3. SaleAt(w) # s => jobs'[s] = jobs[s]
    BY <1>1, <1>2, <2>1
  <2>4. QED
    BY <1>3, <2>1, <2>2, <2>3 DEF PhaseB
<1>8. CASE MarkPushed(w)
  <2> DEFINE d == worker[w].target
             l == [worker[w] EXCEPT !.pc = "dispatch", !.todo = worker[w].todo \ {d},
                                    !.target = "none", !.pushing = 0]
  <2>1. Goto(w, l) /\ jobs' = [jobs EXCEPT ![SaleAt(w)][d] = "completed"]
    BY <1>8 DEF MarkPushed, JobDone
  <2>2. /\ l.pc = "dispatch" /\ l.msg = worker[w].msg /\ l.failed = worker[w].failed
        /\ l.todo = worker[w].todo \ {d} /\ l.result = worker[w].result
        /\ l.todo \subseteq Channels
    BY <1>1 DEF Locals
  <2> HIDE DEF l
  <2>3. /\ SaleAt(w) # s => jobs'[s] = jobs[s]
        /\ SaleAt(w) = s /\ c \in Channels => c # d /\ jobs'[s][c] = jobs[s][c]
    BY <1>1, <1>2, <2>1 DEF Must
  <2>4. QED
    BY <1>3, <2>1, <2>2, <2>3 DEF PhaseB
<1>9. QED
  BY <1>4, <1>5, <1>6, <1>7, <1>8 DEF PushFails, NoToken

\* Worker by worker, then the environment, which only brings messages back.
LEMMA NextOwing ==
  ASSUME Environment \cap {"isolated", "account", "unlist"} = {},
         Typed, Verdicts, OutboxWithDecrement, Held, Owing, [Next]_vars
  PROVE  Owing'
<1>1. ASSUME NEW w \in Workers, WorkerStep(w) \/ FaultStep(w) PROVE Owing'
  BY <1>1, OweBefore, OweComesGoes, OweBegin, OweAcknowledged, OweLoop DEF WorkerStep, FaultStep
<1>2. ASSUME UNCHANGED <<worker, jobs, flagged>>,
             \A s \in Sales : idem'[s].status = idem[s].status,
             UNCHANGED queue
             \/ \E m \in Messages : queue' = [queue EXCEPT ![m] = "visible"]
      PROVE  Owing'
  <2> SUFFICES ASSUME NEW s \in Sales, NEW c \in Demands, Must(s, c)' PROVE Owed(s, c)'
    BY DEF Owing, Demands
  <2>1. queue \in [Messages -> Places]
    BY DEF Typed, TypeOK
  <2>2. Served(s)' => Served(s)
    BY <1>2, <2>1 DEF Served, SaleAt
  <2>3. Owed(s, c)
    BY <1>2, <2>2 DEF Owing, Must, Done
  <2>4. Waiting(s) => Waiting(s)'
    BY <1>2, <2>1 DEF Waiting
  <2>5. \A w \in Workers : Owes(w, s, c) => Owes(w, s, c)'
    BY <1>2 DEF Owes, At, SaleAt
  <2>6. QED
    BY <2>3, <2>4, <2>5 DEF Owed
<1>3. ASSUME NEW s \in Sales, BuyerOrders(s) PROVE Owing'
  BY <1>2, <1>3 DEF BuyerOrders, dbVars
<1>4. ASSUME NEW s \in Sales, ClaimExpires(s) PROVE Owing'
  <2>1. \A t \in Sales : idem'[t].status = idem[t].status
    BY <1>4 DEF ClaimExpires, Typed, TypeOK, KeyRow
  <2>2. UNCHANGED <<worker, jobs, queue, flagged>>
    BY <1>4 DEF ClaimExpires, dbVars
  <2>3. QED
    BY <1>2, <2>1, <2>2
<1>5. ASSUME NEW m \in Messages, EnqueueSale(m) \/ Redrive(m) PROVE Owing'
  BY <1>2, <1>5 DEF EnqueueSale, Redrive, dbVars
<1>6. SwitchedOn("unlist") = {}
  BY DEF SwitchedOn
<1>7. UNCHANGED vars => Owing'
  BY <1>2 DEF vars
<1>8. QED
  BY <1>1, <1>3, <1>4, <1>5, <1>6, <1>7 DEF Next

\* Nothing is owed yet.
LEMMA InitOwing == Init => Held /\ Owing
BY DEF Init, Held, Owing, Must, Served, Idle, At, PhaseB

\* Where no job is passed over (an isolated channel, a listing taken off, a disconnected
\* account), and whatever else fails, dies, expires or runs unclaimed: a sale whose messages
\* are all acknowledged has its key completed, and every other channel told unless a human
\* has been (dispatchPhaseB).
THEOREM NoPushForgottenHolds ==
  ASSUME Environment \cap {"isolated", "account", "unlist"} = {}
  PROVE  Spec => []NoPushForgotten
<1>1. Spec => []OutboxWithDecrement
  BY OutboxWithDecrementHolds
<1>2. Typed /\ Verdicts /\ OutboxWithDecrement /\ Held /\ Owing /\ [Next]_vars
        => Held' /\ Owing'
  BY NextOwing, NextHeld
<1>3. Typed /\ Held /\ Owing => NoPushForgotten
  <2> SUFFICES ASSUME Typed, Held, Owing, NEW s \in Sales, Settled(s)
               PROVE  /\ Done(s)
                      /\ \A c \in Channels : jobs[s][c] \in {"none", "completed"}
                                            \/ s \in flagged
    BY DEF NoPushForgotten, Done
  <2>1. ~Waiting(s) /\ Served(s)
    BY DEF Settled, Waiting, Served
  <2>2. \A w \in Workers : \A c : ~Owes(w, s, c)
    BY DEF Owes, Held, Settled, SaleAt, Typed, Busy
  <2>3. \A c \in Demands : ~Must(s, c)
    BY <2>1, <2>2 DEF Owing, Owed
  <2>4. Done(s)
    BY <2>1, <2>3, SaleSyncAssumption DEF Must, Demands
  <2>5. \A c \in Channels : jobs[s][c] \in {"none", "completed"} \/ s \in flagged
    BY <2>3 DEF Must, Demands, Typed, TypeOK, JobStatus
  <2>6. QED
    BY <2>4, <2>5
<1>4. QED
  BY <1>1, <1>2, <1>3, InitOwing, VerdictsInvariant, TypedInvariant, PTL DEF Spec

=============================================================================
