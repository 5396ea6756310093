------------------------ MODULE StockReports_proofs -------------------------
(***************************************************************************)
(* Proofs about StockReports for any number of polls, workers and repairs. *)
(* First the row: every write of it raises its version by one, and whoever *)
(* is about to write holds a copy taken when the row had that version, so  *)
(* a matching version means an unchanged row. Then the units: the eBay     *)
(* sales a report passed over are those its row remembered, those in the   *)
(* ledger and those a poll has yet to write there. Then the ledger: what   *)
(* reconstructInventory replays from the newest report is the row, as long *)
(* as reports and sales reach the row in the order of their times.         *)
(***************************************************************************)
EXTENDS StockReports, FiniteSetTheorems, SequenceTheorems, TLAPS

------------------------------------------------------------------------------
(***************************************************************************)
(* The arithmetic of the row                                               *)
(***************************************************************************)

LEMMA ClampType == \A x : AtLeastZero(x) \in Nat
BY DEF AtLeastZero

\* A sale, a report and a repair each leave a well-formed row one version on.
LEMMA SaleRow ==
  ASSUME NEW row \in Row, NEW c, NEW n \in Nat
  PROVE  /\ AfterSale(row, c, n) \in Row
         /\ AfterSale(row, c, n).version = row.version + 1
         /\ AfterSale(row, c, n).baseSeq = row.baseSeq
         /\ AfterSale(row, c, n).quantity = AtLeastZero(row.quantity - n)
         /\ AfterSale(row, c, n).ebaySold =
              IF c = "ebay" THEN row.ebaySold + n ELSE row.ebaySold
<1> DEFINE left  == AtLeastZero(row.quantity - n)
           empty == (left = 0)
           units == IF c = "ebay" THEN row.ebaySold + n ELSE row.ebaySold
           new   == [row EXCEPT !.quantity = left, !.soldOut = empty,
                       !.version = row.version + 1, !.ebaySold = units]
<1>1. left \in Nat /\ empty \in BOOLEAN
  BY ClampType
<1>2. units \in Nat /\ row.version + 1 \in Nat
  BY DEF Row
<1>3. AfterSale(row, c, n) = new
  BY Zenon DEF AfterSale
<1> HIDE DEF left, empty, units
<1>4. /\ new \in Row /\ new.version = row.version + 1 /\ new.baseSeq = row.baseSeq
      /\ new.quantity = left /\ new.ebaySold = units
  BY <1>1, <1>2 DEF Row
<1>. QED
  BY <1>3, <1>4 DEF left, units

LEMMA ReportRow ==
  ASSUME NEW row \in Row, NEW n \in Nat, NEW t \in Nat
  PROVE  /\ AfterBaseReport(row, n, t) \in Row
         /\ AfterBaseReport(row, n, t).version = row.version + 1
         /\ AfterBaseReport(row, n, t).baseSeq = t
         /\ AfterBaseReport(row, n, t).quantity = AtLeastZero(n - row.ebaySold)
         /\ AfterBaseReport(row, n, t).ebaySold = 0
<1> DEFINE left  == AtLeastZero(n - row.ebaySold)
           empty == (left = 0)
           new   == [row EXCEPT !.quantity = left, !.soldOut = empty,
                       !.version = row.version + 1, !.ebaySold = 0,
                       !.baseSeq = t]
<1>1. left \in Nat /\ empty \in BOOLEAN
  BY ClampType
<1>2. row.version + 1 \in Nat
  BY DEF Row
<1>3. AfterBaseReport(row, n, t) = new
  BY Zenon DEF AfterBaseReport
<1> HIDE DEF left, empty
<1>4. /\ new \in Row /\ new.version = row.version + 1 /\ new.baseSeq = t
      /\ new.quantity = left /\ new.ebaySold = 0
  BY <1>1, <1>2 DEF Row
<1>. QED
  BY <1>3, <1>4 DEF left

LEMMA RepairRow ==
  ASSUME NEW row \in Row, NEW n \in Nat
  PROVE  /\ AfterRepair(row, n) \in Row
         /\ AfterRepair(row, n).version = row.version + 1
         /\ AfterRepair(row, n).baseSeq = row.baseSeq
         /\ AfterRepair(row, n).ebaySold = row.ebaySold
         /\ AfterRepair(row, n).quantity = n
<1> DEFINE empty == (n = 0)
           new   == [row EXCEPT !.quantity = n, !.soldOut = empty,
                       !.version = row.version + 1]
<1>1. empty \in BOOLEAN /\ row.version + 1 \in Nat
  BY DEF Row
<1>2. AfterRepair(row, n) = new
  BY Zenon DEF AfterRepair
<1> HIDE DEF empty
<1>3. /\ new \in Row /\ new.version = row.version + 1 /\ new.baseSeq = row.baseSeq
      /\ new.ebaySold = row.ebaySold /\ new.quantity = n
  BY <1>1 DEF Row
<1>. QED
  BY <1>2, <1>3

LEMMA NoRowType == NoRow \in Row
BY DEF NoRow, Row

LEMMA IdleTypes ==
  /\ IdlePoller \in PollerLocals
  /\ IdleWorker \in WorkerLocals
  /\ IdleFixer \in FixerLocals
BY NoRowType DEF IdlePoller, IdleWorker, IdleFixer, PollerLocals, WorkerLocals,
                 FixerLocals, Item

------------------------------------------------------------------------------
(***************************************************************************)
(* Type correctness                                                        *)
(***************************************************************************)

\* A worker that is not idle has a sale.
Busy == \A w \in Workers : worker[w].pc # "idle" => worker[w].sale \in Sales

Typed == TypeOK /\ Busy

LEMMA InitTyped == Init => Typed
<1> SUFFICES ASSUME Init PROVE Typed
  OBVIOUS
<1>1. /\ clock \in Nat /\ base \in Item /\ shelf \in Nat
      /\ edits \in 0..MaxEdits
  BY StockReportsAssumption DEF Init, Item
<1>2. /\ stage \in [Sales -> {"none", "placed", "decided"}]
      /\ placedAt \in [Sales -> Nat]
      /\ events \in Seq(Event) /\ ordered \in BOOLEAN
  BY DEF Init
<1>3. master \in Row
  BY StockReportsAssumption, NoRowType DEF Init, Row
<1>4. /\ poller \in [Pollers -> PollerLocals]
      /\ worker \in [Workers -> WorkerLocals]
      /\ fixer \in [Fixers -> FixerLocals]
  BY IdleTypes DEF Init
<1>5. Busy
  BY DEF Init, Busy, IdleWorker
<1>. QED
  BY <1>1, <1>2, <1>3, <1>4, <1>5, Zenon DEF Typed, TypeOK

\* A step that leaves each variable alone or well typed keeps the types.
LEMMA TypeFrame ==
  ASSUME Typed,
         UNCHANGED clock    \/ clock' \in Nat,
         UNCHANGED base     \/ base' \in Item,
         UNCHANGED shelf    \/ shelf' \in Nat,
         UNCHANGED edits    \/ edits' \in 0..MaxEdits,
         UNCHANGED stage    \/ stage' \in [Sales -> {"none", "placed", "decided"}],
         UNCHANGED placedAt \/ placedAt' \in [Sales -> Nat],
         UNCHANGED master   \/ master' \in Row,
         UNCHANGED events   \/ events' \in Seq(Event),
         UNCHANGED ordered  \/ ordered' \in BOOLEAN,
         UNCHANGED poller   \/ poller' \in [Pollers -> PollerLocals],
         \/ UNCHANGED worker
         \/ worker' \in [Workers -> WorkerLocals] /\ Busy',
         UNCHANGED fixer    \/ fixer' \in [Fixers -> FixerLocals]
  PROVE  Typed'
<1>1. worker' \in [Workers -> WorkerLocals] /\ Busy'
  BY DEF Typed, TypeOK, Busy
<1>2. /\ clock' \in Nat /\ base' \in Item /\ shelf' \in Nat
      /\ edits' \in 0..MaxEdits
  BY Zenon DEF Typed, TypeOK
<1>3. /\ stage' \in [Sales -> {"none", "placed", "decided"}]
      /\ placedAt' \in [Sales -> Nat] /\ master' \in Row
  BY Zenon DEF Typed, TypeOK
<1>4. /\ events' \in Seq(Event) /\ ordered' \in BOOLEAN
      /\ poller' \in [Pollers -> PollerLocals]
      /\ fixer' \in [Fixers -> FixerLocals]
  BY Zenon DEF Typed, TypeOK
<1>. QED
  BY <1>1, <1>2, <1>3, <1>4, Zenon DEF Typed, TypeOK

LEMMA NowType ==
  ASSUME Typed, NEW t \in Now
  PROVE  t \in Nat
BY DEF Typed, TypeOK, Now

\* The shapes in which an action rewrites a process's locals.
LEMMA PollerUpdate ==
  ASSUME NEW l \in PollerLocals
  PROVE  /\ \A i \in Item : [IdlePoller EXCEPT !.pc = "read", !.item = i] \in PollerLocals
         /\ \A r \in Row : [l EXCEPT !.pc = "cas", !.seen = r] \in PollerLocals
         /\ [l EXCEPT !.pc = "event"] \in PollerLocals
         /\ [l EXCEPT !.pc = "read", !.attempt = l.attempt + 1] \in PollerLocals
<1>1. \A i \in Item : [IdlePoller EXCEPT !.pc = "read", !.item = i] \in PollerLocals
  BY IdleTypes DEF PollerLocals
<1>2. \A r \in Row : [l EXCEPT !.pc = "cas", !.seen = r] \in PollerLocals
  BY DEF PollerLocals
<1>3. [l EXCEPT !.pc = "event"] \in PollerLocals
  BY DEF PollerLocals
<1>4. l.attempt + 1 \in Nat
  BY DEF PollerLocals
<1>5. \A n \in Nat : [l EXCEPT !.pc = "read", !.attempt = n] \in PollerLocals
  BY DEF PollerLocals
<1>. QED
  BY <1>1, <1>2, <1>3, <1>4, <1>5

LEMMA WorkerUpdate ==
  ASSUME NEW l \in WorkerLocals
  PROVE  /\ \A s \in Sales, r \in Row :
              /\ [IdleWorker EXCEPT !.pc = "cas", !.sale = s, !.seen = r] \in WorkerLocals
              /\ [IdleWorker EXCEPT !.pc = "query", !.sale = s, !.seen = r] \in WorkerLocals
         /\ \A n \in Nat : [l EXCEPT !.pc = "push", !.pushing = n] \in WorkerLocals
BY IdleTypes DEF WorkerLocals

LEMMA FixerUpdate ==
  ASSUME NEW l \in FixerLocals
  PROVE  \A n \in Nat :
           /\ [IdleFixer EXCEPT !.pc = "ledger", !.counter = n] \in FixerLocals
           /\ [l EXCEPT !.pc = "reread", !.target = n] \in FixerLocals
           /\ [l EXCEPT !.pc = "write", !.version = n] \in FixerLocals
BY IdleTypes DEF FixerLocals

LEMMA SetWorkerTyped ==
  ASSUME Typed, NEW w \in Workers, NEW l \in WorkerLocals,
         l.pc = "idle" \/ l.sale \in Sales, SetWorker(w, l)
  PROVE  worker' \in [Workers -> WorkerLocals] /\ Busy'
BY DEF Typed, TypeOK, Busy, SetWorker

LEMMA WorldTyped ==
  ASSUME Typed,
         \/ EditItem
         \/ \E s \in Sales : EbaySale(s) \/ BaseSale(s) \/ RefuseSale(s)
  PROVE  Typed'
<1> USE StockReportsAssumption
<1>1. CASE EditItem
  <2>1. PICK t \in Now, added \in {0, 1} :
          /\ base' = [stock |-> base.stock + added, modified |-> t]
          /\ shelf' = shelf + added /\ clock' = t
    BY <1>1 DEF EditItem
  <2>2. t \in Nat
    BY NowType
  <2>3. clock' \in Nat /\ base' \in Item /\ shelf' \in Nat /\ edits' \in 0..MaxEdits
    BY <1>1, <2>1, <2>2 DEF EditItem, Typed, TypeOK, Item
  <2>. QED
    BY <1>1, <2>3, TypeFrame DEF EditItem
<1>2. ASSUME NEW s \in Sales, NEW t \in Now, Place(s, t)
      PROVE  /\ clock' \in Nat /\ shelf' \in Nat
             /\ stage' \in [Sales -> {"none", "placed", "decided"}]
             /\ placedAt' \in [Sales -> Nat]
  BY <1>2, NowType DEF Place, Typed, TypeOK
<1>3. ASSUME NEW s \in Sales, EbaySale(s)
      PROVE  Typed'
  <2>1. PICK t \in Now : Place(s, t)
    BY <1>3 DEF EbaySale
  <2>. QED
    BY <1>2, <1>3, <2>1, TypeFrame DEF EbaySale, Place
<1>4. ASSUME NEW s \in Sales, BaseSale(s)
      PROVE  Typed'
  <2>1. PICK t \in Now :
          /\ Place(s, t) /\ base.stock >= Units[s]
          /\ base' = [stock |-> base.stock - Units[s], modified |-> t]
    BY <1>4 DEF BaseSale
  <2>2. base' \in Item
    BY <2>1, NowType DEF Typed, TypeOK, Item
  <2>. QED
    BY <1>2, <2>1, <2>2, TypeFrame DEF Place
<1>5. ASSUME NEW s \in Sales, RefuseSale(s)
      PROVE  Typed'
  <2>1. stage' \in [Sales -> {"none", "placed", "decided"}]
    BY <1>5 DEF RefuseSale, Typed, TypeOK
  <2>. QED
    BY <1>5, <2>1, TypeFrame DEF RefuseSale, world
<1>. QED
  BY <1>1, <1>3, <1>4, <1>5

LEMMA PollerTyped ==
  ASSUME Typed, NEW p \in Pollers,
         \/ FetchItem(p) \/ SkipReport(p) \/ ReadForReport(p) \/ ApplyReport(p)
         \/ ReportMismatch(p) \/ RecordReport(p) \/ PollDies(p)
  PROVE  Typed'
<1> DEFINE l == poller[p]
<1>1. /\ l \in PollerLocals /\ base \in Item /\ master \in Row
      /\ l.item \in Item /\ l.seen \in Row
      /\ l.item.stock \in Nat /\ l.item.modified \in Nat
  BY DEF Typed, TypeOK, PollerLocals, Item
<1>2. ASSUME NEW k \in PollerLocals, SetPoller(p, k)
      PROVE  poller' \in [Pollers -> PollerLocals]
  BY <1>2 DEF SetPoller, Typed, TypeOK
<1>3. CASE FetchItem(p)
  BY <1>1, <1>2, <1>3, PollerUpdate, TypeFrame DEF FetchItem, world
<1>4. CASE SkipReport(p) \/ PollDies(p)
  BY <1>2, <1>4, IdleTypes, TypeFrame DEF SkipReport, PollDies, world
<1>5. CASE ReadForReport(p)
  BY <1>1, <1>2, <1>5, PollerUpdate, TypeFrame DEF ReadForReport, world
<1>6. CASE ApplyReport(p)
  <2>1. master' \in Row
    BY <1>1, <1>6, ReportRow DEF ApplyReport
  <2>2. ordered' \in BOOLEAN
    BY <1>6 DEF ApplyReport, InOrder
  <2>3. poller' \in [Pollers -> PollerLocals]
    BY <1>1, <1>2, <1>6, PollerUpdate DEF ApplyReport
  <2>. QED
    BY <1>6, <2>1, <2>2, <2>3, TypeFrame DEF ApplyReport, world
<1>7. CASE ReportMismatch(p)
  BY <1>1, <1>2, <1>7, PollerUpdate, IdleTypes, TypeFrame DEF ReportMismatch, world
<1>8. CASE RecordReport(p)
  <2>1. AfterBaseReport(l.seen, l.item.stock, l.item.modified) \in Row
    BY <1>1, ReportRow
  <2>2. events' \in Seq(Event)
    <3>1. /\ AfterBaseReport(l.seen, l.item.stock, l.item.modified).quantity \in Nat
          /\ l.item.modified \in Nat /\ l.seen.ebaySold \in Nat
      BY <1>1, <2>1 DEF Row, PollerLocals, Item
    <3>2. [kind |-> "report", at |-> l.item.modified,
           quantity |-> AfterBaseReport(l.seen, l.item.stock, l.item.modified).quantity,
           ebay |-> l.seen.ebaySold] \in Event
      BY <3>1 DEF Event
    <3>3. QED
      BY <1>8, <3>2 DEF RecordReport, Typed, TypeOK
  <2>3. poller' \in [Pollers -> PollerLocals]
    BY <1>2, <1>8, IdleTypes DEF RecordReport
  <2>. QED
    BY <1>8, <2>2, <2>3, TypeFrame DEF RecordReport, world
<1>. QED
  BY <1>3, <1>4, <1>5, <1>6, <1>7, <1>8

LEMMA WorkerTyped ==
  ASSUME Typed, NEW w \in Workers,
         \/ \E s \in Sales : ReadForSale(w, s)
         \/ CommitSale(w) \/ SaleMismatch(w)
         \/ ReadForBase(w) \/ TellBase(w) \/ DoNotTell(w)
  PROVE  Typed'
<1> USE StockReportsAssumption
<1> DEFINE l == worker[w]
<1>1. l \in WorkerLocals /\ master \in Row /\ l.seen \in Row /\ l.pushing \in Nat
  BY DEF Typed, TypeOK, WorkerLocals
<1>2. IdleWorker.pc = "idle"
  BY DEF IdleWorker
<1>3. ASSUME SetWorker(w, IdleWorker)
      PROVE  worker' \in [Workers -> WorkerLocals] /\ Busy'
  BY <1>2, <1>3, IdleTypes, SetWorkerTyped
<1>4. ASSUME NEW s \in Sales, ReadForSale(w, s)
      PROVE  Typed'
  <2> DEFINE k == [IdleWorker EXCEPT !.pc = "cas", !.sale = s, !.seen = master]
  <2>1. k \in WorkerLocals
    BY <1>1, WorkerUpdate
  <2>2. k.sale \in Sales
    BY DEF IdleWorker
  <2>3. SetWorker(w, k)
    BY <1>4 DEF ReadForSale
  <2> HIDE DEF k
  <2>4. worker' \in [Workers -> WorkerLocals] /\ Busy'
    BY <2>1, <2>2, <2>3, SetWorkerTyped
  <2>. QED
    BY <1>4, <2>4, TypeFrame DEF ReadForSale, world
<1>5. CASE CommitSale(w)
  <2> DEFINE s == l.sale
             row == AfterSale(l.seen, SoldOn[s], Units[s])
             k == [IdleWorker EXCEPT !.pc = "query", !.sale = s, !.seen = row]
  <2>1. s \in Sales /\ Units[s] \in Nat /\ placedAt[s] \in Nat
    BY <1>5 DEF CommitSale, Typed, TypeOK, Busy
  <2>2. row \in Row
    BY <1>1, <2>1, SaleRow
  <2>3. master' = row
    BY <1>5 DEF CommitSale
  <2>4. events' \in Seq(Event)
    BY <1>5, <2>1 DEF CommitSale, Event, Typed, TypeOK
  <2>5. ordered' \in BOOLEAN
    BY <1>5 DEF CommitSale, InOrder
  <2>6. stage' \in [Sales -> {"none", "placed", "decided"}]
    BY <1>5, <2>1 DEF CommitSale, Typed, TypeOK
  <2>7. SetWorker(w, k) \/ SetWorker(w, IdleWorker)
    BY <1>5 DEF CommitSale
  <2>8. k \in WorkerLocals /\ k.sale = s
    BY <1>1, <2>1, <2>2, WorkerUpdate DEF IdleWorker
  <2> HIDE DEF k, row
  <2>9. worker' \in [Workers -> WorkerLocals] /\ Busy'
    BY <1>3, <2>1, <2>7, <2>8, SetWorkerTyped
  <2>10. UNCHANGED <<world, poller, fixer>>
    BY <1>5 DEF CommitSale
  <2>. QED
    BY <2>2, <2>3, <2>4, <2>5, <2>6, <2>9, <2>10, TypeFrame DEF world
<1>6. CASE SaleMismatch(w) \/ DoNotTell(w)
  BY <1>3, <1>6, TypeFrame DEF SaleMismatch, DoNotTell, world
<1>7. CASE ReadForBase(w)
  <2> DEFINE n == IF l.seen.soldOut THEN 0 ELSE master.quantity
             k == [l EXCEPT !.pc = "push", !.pushing = n]
  <2>1. n \in Nat
    BY <1>1 DEF Row
  <2>2. l.sale \in Sales /\ SetWorker(w, k)
    BY <1>7 DEF ReadForBase, Typed, Busy
  <2> HIDE DEF n
  <2>3. k \in WorkerLocals /\ k.sale = l.sale
    BY <1>1, <2>1, WorkerUpdate DEF WorkerLocals
  <2> HIDE DEF k
  <2>4. worker' \in [Workers -> WorkerLocals] /\ Busy'
    BY <2>2, <2>3, SetWorkerTyped
  <2>. QED
    BY <1>7, <2>4, TypeFrame DEF ReadForBase, world
<1>8. CASE TellBase(w)
  <2>1. PICK t \in Now : base' = [stock |-> l.pushing, modified |-> t] /\ clock' = t
    BY <1>8 DEF TellBase
  <2>2. clock' \in Nat /\ base' \in Item
    BY <1>1, <2>1, NowType DEF Item
  <2>3. worker' \in [Workers -> WorkerLocals] /\ Busy'
    BY <1>3, <1>8 DEF TellBase
  <2>. QED
    BY <1>8, <2>2, <2>3, TypeFrame DEF TellBase
<1>. QED
  BY <1>4, <1>5, <1>6, <1>7, <1>8

LEMMA FixerTyped ==
  ASSUME Typed, NEW f \in Fixers,
         \/ ReadCounter(f) \/ ReadLedger(f) \/ ReadVersion(f) \/ WriteRepair(f)
         \/ RepairMismatch(f)
  PROVE  Typed'
<1> DEFINE l == fixer[f]
<1>1. /\ l \in FixerLocals /\ l.target \in Nat
      /\ master \in Row /\ master.quantity \in Nat /\ master.version \in Nat
  BY DEF Typed, TypeOK, FixerLocals, Row
<1>2. ASSUME NEW k \in FixerLocals, SetFixer(f, k)
      PROVE  fixer' \in [Fixers -> FixerLocals]
  BY <1>2 DEF SetFixer, Typed, TypeOK
<1>3. CASE ReadCounter(f)
  BY <1>1, <1>2, <1>3, FixerUpdate, TypeFrame DEF ReadCounter, world
<1>4. CASE ReadLedger(f)
  <2>1. Replay(events) \in Nat
    BY ClampType DEF Replay
  <2>2. fixer' \in [Fixers -> FixerLocals]
    BY <1>1, <1>2, <1>4, <2>1, FixerUpdate, IdleTypes DEF ReadLedger
  <2>. QED
    BY <1>4, <2>2, TypeFrame DEF ReadLedger, world
<1>5. CASE ReadVersion(f)
  BY <1>1, <1>2, <1>5, FixerUpdate, TypeFrame DEF ReadVersion, world
<1>6. CASE WriteRepair(f)
  <2>1. master' \in Row
    BY <1>1, <1>6, RepairRow DEF WriteRepair
  <2>. QED
    BY <1>2, <1>6, <2>1, IdleTypes, TypeFrame DEF WriteRepair, world
<1>7. CASE RepairMismatch(f)
  BY <1>2, <1>7, IdleTypes, TypeFrame DEF RepairMismatch, world
<1>. QED
  BY <1>3, <1>4, <1>5, <1>6, <1>7

LEMMA NextTyped == Typed /\ [Next]_vars => Typed'
<1> SUFFICES ASSUME Typed, [Next]_vars PROVE Typed'
  OBVIOUS
<1>1. CASE UNCHANGED vars
  BY <1>1, TypeFrame DEF vars, world
<1>2. CASE Next
  BY <1>2, WorldTyped, PollerTyped, WorkerTyped, FixerTyped, Zenon DEF Next, SalesOn
<1>. QED
  BY <1>1, <1>2

\* Every variable keeps its type: no quantity becomes negative, however
\* reports, sales and repairs meet.
THEOREM TypeCorrect == Spec => []TypeOK
<1>1. Init => Typed
  BY InitTyped
<1>2. Typed /\ [Next]_vars => Typed'
  BY NextTyped
<1>3. Typed => TypeOK
  BY DEF Typed
<1>. QED
  BY <1>1, <1>2, <1>3, PTL DEF Spec

------------------------------------------------------------------------------
(***************************************************************************)
(* A version names one row                                                 *)
(***************************************************************************)

\* A poller about to write has seen a row older than its report.
Checked == \A p \in Pollers : poller[p].pc = "cas" =>
             ~StaleReport(poller[p].seen, poller[p].item.modified)

Guarded == Typed /\ VersionNamesRow /\ Checked

\* What a step does to the row, to its BASE clock and to those about to write.
Advances == master'.version = master.version + 1
Copies(p) == /\ UNCHANGED master
             /\ poller'[p].seen = master
             /\ ~StaleReport(master, poller'[p].item.modified)

Consequence ==
  /\ master' = master \/ Advances
  /\ master'.baseSeq # master.baseSeq =>
       \E p \in Pollers : ApplyReport(p) /\ master'.baseSeq = poller[p].item.modified
  /\ \A p \in Pollers : poller'[p].pc = "cas" =>
       poller'[p] = poller[p] \/ Copies(p)
  /\ \A w \in Workers : worker'[w].pc = "cas" =>
       worker'[w] = worker[w] \/ (UNCHANGED master /\ worker'[w].seen = master)

LEMMA WorldSteps ==
  ASSUME Typed,
         \/ EditItem
         \/ \E s \in Sales : EbaySale(s) \/ BaseSale(s) \/ RefuseSale(s)
  PROVE  Consequence
<1>1. UNCHANGED <<master, poller, worker>>
  BY DEF EditItem, EbaySale, BaseSale, RefuseSale, Place
<1>. QED
  BY <1>1 DEF Consequence

LEMMA PollerSteps ==
  ASSUME Guarded, NEW p \in Pollers,
         \/ FetchItem(p) \/ SkipReport(p) \/ ReadForReport(p) \/ ApplyReport(p)
         \/ ReportMismatch(p) \/ RecordReport(p) \/ PollDies(p)
  PROVE  Consequence
<1> DEFINE l == poller[p]
<1>1. UNCHANGED worker
  BY DEF FetchItem, SkipReport, ReadForReport, ApplyReport, ReportMismatch,
         RecordReport, PollDies
<1>2. l \in PollerLocals /\ DOMAIN poller = Pollers
  BY DEF Guarded, Typed, TypeOK
<1>3. ASSUME NEW k, SetPoller(p, k)
      PROVE  poller'[p] = k /\ \A q \in Pollers \ {p} : poller'[q] = poller[q]
  BY <1>2, <1>3 DEF SetPoller, Guarded, Typed, TypeOK
<1>4. ASSUME NEW k, SetPoller(p, k), k.pc # "cas", UNCHANGED master
      PROVE  Consequence
  BY <1>1, <1>3, <1>4 DEF Consequence
<1>5. IdlePoller.pc = "idle"
  BY DEF IdlePoller
<1>6. CASE FetchItem(p)
  <2> DEFINE k == [IdlePoller EXCEPT !.pc = "read", !.item = base]
  <2>1. k.pc = "read"
    BY DEF IdlePoller
  <2>2. SetPoller(p, k) /\ UNCHANGED master
    BY <1>6 DEF FetchItem
  <2> HIDE DEF k
  <2>. QED
    BY <1>4, <2>1, <2>2
<1>7. CASE SkipReport(p) \/ RecordReport(p) \/ PollDies(p)
  <2>1. SetPoller(p, IdlePoller) /\ UNCHANGED master
    BY <1>7 DEF SkipReport, RecordReport, PollDies
  <2>. QED
    BY <1>4, <1>5, <2>1
<1>8. CASE ReadForReport(p)
  <2> DEFINE k == [l EXCEPT !.pc = "cas", !.seen = master]
  <2>1. SetPoller(p, k) /\ UNCHANGED master /\ ~StaleReport(master, l.item.modified)
    BY <1>8 DEF ReadForReport
  <2>2. k.seen = master /\ k.item = l.item
    BY <1>2 DEF PollerLocals
  <2> HIDE DEF k
  <2>3. Copies(p)
    BY <1>3, <2>1, <2>2, Zenon DEF Copies
  <2>. QED
    BY <1>1, <1>3, <2>1, <2>3 DEF Consequence
<1>9. CASE ApplyReport(p)
  <2> DEFINE k == [l EXCEPT !.pc = "event"]
  <2>1. l.pc = "cas" /\ master.version = l.seen.version
    BY <1>9 DEF ApplyReport
  <2>2. l.seen = master
    BY <2>1 DEF Guarded, VersionNamesRow
  <2>3. /\ l.item.stock \in Nat /\ l.item.modified \in Nat /\ master \in Row
    BY <1>2 DEF PollerLocals, Item, Guarded, Typed, TypeOK
  <2>4. master' = AfterBaseReport(master, l.item.stock, l.item.modified)
    BY <1>9, <2>2 DEF ApplyReport
  <2>5. Advances /\ master'.baseSeq = l.item.modified
    BY <2>3, <2>4, ReportRow DEF Advances
  <2>6. k.pc = "event" /\ SetPoller(p, k)
    BY <1>2, <1>9 DEF ApplyReport, PollerLocals
  <2> HIDE DEF k
  <2>7. \A q \in Pollers : poller'[q].pc = "cas" => poller'[q] = poller[q]
    BY <1>3, <2>6
  <2>. QED
    BY <1>1, <1>9, <2>5, <2>7 DEF Consequence
<1>10. CASE ReportMismatch(p)
  <2> DEFINE k == [l EXCEPT !.pc = "read", !.attempt = l.attempt + 1]
  <2>1. k.pc = "read"
    BY <1>2 DEF PollerLocals
  <2>2. (SetPoller(p, k) \/ SetPoller(p, IdlePoller)) /\ UNCHANGED master
    BY <1>10 DEF ReportMismatch
  <2> HIDE DEF k
  <2>. QED
    BY <1>4, <1>5, <2>1, <2>2
<1>. QED
  BY <1>6, <1>7, <1>8, <1>9, <1>10

LEMMA WorkerSteps ==
  ASSUME Guarded, NEW w \in Workers,
         \/ \E s \in Sales : ReadForSale(w, s)
         \/ CommitSale(w) \/ SaleMismatch(w)
         \/ ReadForBase(w) \/ TellBase(w) \/ DoNotTell(w)
  PROVE  Consequence
<1> DEFINE l == worker[w]
<1>1. UNCHANGED poller
  BY DEF ReadForSale, CommitSale, SaleMismatch, ReadForBase, TellBase, DoNotTell,
         world
<1>2. l \in WorkerLocals /\ DOMAIN worker = Workers
  BY DEF Guarded, Typed, TypeOK
<1>3. ASSUME NEW k, SetWorker(w, k)
      PROVE  worker'[w] = k /\ \A v \in Workers \ {w} : worker'[v] = worker[v]
  BY <1>2, <1>3 DEF SetWorker, Guarded, Typed, TypeOK
<1>4. ASSUME NEW k, SetWorker(w, k), k.pc # "cas", UNCHANGED master
      PROVE  Consequence
  BY <1>1, <1>3, <1>4 DEF Consequence
<1>5. IdleWorker.pc = "idle"
  BY DEF IdleWorker
<1>6. ASSUME NEW s \in Sales, ReadForSale(w, s)
      PROVE  Consequence
  <2> DEFINE k == [IdleWorker EXCEPT !.pc = "cas", !.sale = s, !.seen = master]
  <2>1. SetWorker(w, k) /\ UNCHANGED master
    BY <1>6 DEF ReadForSale
  <2>2. k.seen = master
    BY DEF IdleWorker
  <2> HIDE DEF k
  <2>. QED
    BY <1>1, <1>3, <2>1, <2>2 DEF Consequence
<1>7. CASE CommitSale(w)
  <2> DEFINE s == l.sale
             row == AfterSale(l.seen, SoldOn[s], Units[s])
             k == [IdleWorker EXCEPT !.pc = "query", !.sale = s, !.seen = row]
  <2>1. l.pc = "cas" /\ master.version = l.seen.version
    BY <1>7 DEF CommitSale
  <2>2. l.seen = master /\ master \in Row
    BY <2>1 DEF Guarded, VersionNamesRow, Typed, TypeOK
  <2>3. s \in Sales /\ Units[s] \in Nat
    BY <2>1, StockReportsAssumption DEF Guarded, Typed, Busy
  <2>4. master' = AfterSale(master, SoldOn[s], Units[s])
    BY <1>7, <2>2 DEF CommitSale
  <2>5. Advances /\ master'.baseSeq = master.baseSeq
    BY <2>2, <2>3, <2>4, SaleRow DEF Advances
  <2>6. SetWorker(w, k) \/ SetWorker(w, IdleWorker)
    BY <1>7 DEF CommitSale
  <2>7. k.pc = "query"
    BY DEF IdleWorker
  <2> HIDE DEF k
  <2>8. \A v \in Workers : worker'[v].pc = "cas" => worker'[v] = worker[v]
    BY <1>3, <1>5, <2>6, <2>7
  <2>. QED
    BY <1>1, <2>5, <2>8 DEF Consequence
<1>8. CASE SaleMismatch(w) \/ TellBase(w) \/ DoNotTell(w)
  <2>1. SetWorker(w, IdleWorker) /\ UNCHANGED master
    BY <1>8 DEF SaleMismatch, TellBase, DoNotTell
  <2>. QED
    BY <1>4, <1>5, <2>1
<1>9. CASE ReadForBase(w)
  <2> DEFINE n == IF l.seen.soldOut THEN 0 ELSE master.quantity
             k == [l EXCEPT !.pc = "push", !.pushing = n]
  <2>1. SetWorker(w, k) /\ UNCHANGED master
    BY <1>9 DEF ReadForBase
  <2> HIDE DEF n
  <2>2. k.pc = "push"
    BY <1>2 DEF WorkerLocals
  <2> HIDE DEF k
  <2>. QED
    BY <1>4, <2>1, <2>2
<1>. QED
  BY <1>6, <1>7, <1>8, <1>9

LEMMA FixerSteps ==
  ASSUME Guarded, NEW f \in Fixers,
         \/ ReadCounter(f) \/ ReadLedger(f) \/ ReadVersion(f) \/ WriteRepair(f)
         \/ RepairMismatch(f)
  PROVE  Consequence
<1>1. UNCHANGED <<poller, worker>>
  BY DEF ReadCounter, ReadLedger, ReadVersion, WriteRepair, RepairMismatch
<1>2. CASE WriteRepair(f)
  <2>1. master \in Row /\ fixer[f].target \in Nat
    BY DEF Guarded, Typed, TypeOK, FixerLocals
  <2>2. Advances /\ master'.baseSeq = master.baseSeq
    BY <1>2, <2>1, RepairRow DEF WriteRepair, Advances
  <2>. QED
    BY <1>1, <2>2 DEF Consequence
<1>3. CASE ReadCounter(f) \/ ReadLedger(f) \/ ReadVersion(f) \/ RepairMismatch(f)
  <2>1. UNCHANGED master
    BY <1>3 DEF ReadCounter, ReadLedger, ReadVersion, RepairMismatch
  <2>. QED
    BY <1>1, <2>1 DEF Consequence
<1>. QED
  BY <1>2, <1>3

LEMMA NextSteps == Guarded /\ [Next]_vars => Consequence
<1> SUFFICES ASSUME Guarded, [Next]_vars PROVE Consequence
  OBVIOUS
<1>1. CASE UNCHANGED vars
  BY <1>1 DEF vars, Consequence
<1>2. CASE Next
  BY <1>2, WorldSteps, PollerSteps, WorkerSteps, FixerSteps, Zenon
  DEF Next, Guarded, SalesOn
<1>. QED
  BY <1>1, <1>2

LEMMA NextGuarded == Guarded /\ [Next]_vars => Guarded'
<1> SUFFICES ASSUME Guarded, [Next]_vars PROVE Guarded'
  OBVIOUS
<1>1. Consequence
  BY NextSteps
<1>2. Typed'
  BY NextTyped DEF Guarded
<1>3. master.version \in Nat /\ (master' = master \/ Advances)
  BY <1>1 DEF Consequence, Guarded, Typed, TypeOK, Row
<1>4. \A p \in Pollers : poller[p].seen.version \in Nat
  BY DEF Guarded, Typed, TypeOK, PollerLocals, Row
<1>5. \A w \in Workers : worker[w].seen.version \in Nat
  BY DEF Guarded, Typed, TypeOK, WorkerLocals, Row
<1>6. ASSUME NEW p \in Pollers, poller'[p].pc = "cas"
      PROVE  /\ poller'[p].seen.version <= master'.version
             /\ poller'[p].seen.version = master'.version => poller'[p].seen = master'
             /\ ~StaleReport(poller'[p].seen, poller'[p].item.modified)
  <2>1. CASE poller'[p] = poller[p]
    BY <1>3, <1>4, <1>6, <2>1 DEF Guarded, VersionNamesRow, Checked, Advances
  <2>2. CASE Copies(p)
    BY <1>3, <2>2 DEF Copies
  <2>. QED
    BY <1>1, <1>6, <2>1, <2>2 DEF Consequence
<1>7. ASSUME NEW w \in Workers, worker'[w].pc = "cas"
      PROVE  /\ worker'[w].seen.version <= master'.version
             /\ worker'[w].seen.version = master'.version => worker'[w].seen = master'
  <2>1. CASE worker'[w] = worker[w]
    BY <1>3, <1>5, <1>7, <2>1 DEF Guarded, VersionNamesRow, Advances
  <2>2. CASE UNCHANGED master /\ worker'[w].seen = master
    BY <1>3, <2>2
  <2>. QED
    BY <1>1, <1>7, <2>1, <2>2 DEF Consequence
<1>8. VersionNamesRow'
  BY <1>6, <1>7 DEF VersionNamesRow
<1>9. Checked'
  BY <1>6 DEF Checked
<1>. QED
  BY <1>2, <1>8, <1>9 DEF Guarded

LEMMA InitGuarded == Init => Guarded
<1> SUFFICES ASSUME Init PROVE Guarded
  OBVIOUS
<1>1. \A p \in Pollers : poller[p].pc # "cas"
  BY DEF Init, IdlePoller
<1>2. \A w \in Workers : worker[w].pc # "cas"
  BY DEF Init, IdleWorker
<1>. QED
  BY <1>1, <1>2, InitTyped DEF Guarded, VersionNamesRow, Checked

\* The optimistic lock works: whoever is about to write the row and finds its
\* version unchanged holds the very row that is there.
THEOREM VersionNamesRowHolds == Spec => []VersionNamesRow
<1>1. Init => Guarded
  BY InitGuarded
<1>2. Guarded /\ [Next]_vars => Guarded'
  BY NextGuarded
<1>3. Guarded => VersionNamesRow
  BY DEF Guarded
<1>. QED
  BY <1>1, <1>2, <1>3, PTL DEF Spec

------------------------------------------------------------------------------
\* BASE's logical clock never goes back: no report, however late, overwrites
\* one of the same age or a newer one.
THEOREM ReportsAdvanceHolds == Spec => ReportsAdvance
<1>1. Init => Guarded
  BY InitGuarded
<1>2. Guarded /\ [Next]_vars => Guarded'
  BY NextGuarded
<1>3. Guarded /\ [Next]_vars =>
        [master'.baseSeq # master.baseSeq => master'.baseSeq > master.baseSeq]_vars
  <2> SUFFICES ASSUME Guarded, [Next]_vars, master'.baseSeq # master.baseSeq
               PROVE  master'.baseSeq > master.baseSeq
    OBVIOUS
  <2>1. PICK p \in Pollers : ApplyReport(p) /\ master'.baseSeq = poller[p].item.modified
    BY NextSteps DEF Consequence
  <2>2. poller[p].seen = master /\ ~StaleReport(master, poller[p].item.modified)
    BY <2>1 DEF ApplyReport, Guarded, VersionNamesRow, Checked
  <2>3. master.baseSeq \in Nat /\ poller[p].item.modified \in Nat
    BY DEF Guarded, Typed, TypeOK, Row, PollerLocals, Item
  <2>. QED
    BY <2>1, <2>2, <2>3 DEF StaleReport
<1>. QED
  BY <1>1, <1>2, <1>3, PTL DEF Spec, ReportsAdvance

------------------------------------------------------------------------------
(***************************************************************************)
(* The row as if every writer's read and write were one step               *)
(*                                                                         *)
(* A version that matches names the very row that is there, so what the    *)
(* writer saw and decided on when it read is still so when it writes: the  *)
(* write is the step. What is left to know is that a sale is still open    *)
(* when it is committed, and that BASE's clock goes forward.               *)
(***************************************************************************)

\* A sale being committed is still open, and no other worker has it.
OwnSale ==
  /\ \A w \in Workers : worker[w].pc = "cas" => stage[worker[w].sale] = "placed"
  /\ \A v, w \in Workers :
       worker[v].pc = "cas" /\ worker[w].pc = "cas" /\ v # w => worker[v].sale # worker[w].sale

\* What a worker about to write, and BASE's clock, are known to satisfy.
Waiting ==
  /\ OwnSale
  /\ \A w \in Workers : worker[w].pc = "cas" => ~AlreadyZero(worker[w].seen)
  /\ base.modified <= clock

LEMMA InitWaiting == Init => Waiting
BY DEF Init, Waiting, OwnSale, IdleWorker

LEMMA NowLater ==
  ASSUME Typed, Waiting, NEW t \in Now
  PROVE  t \in Nat /\ base.modified <= t
BY DEF Typed, TypeOK, Now, Waiting, Item

\* A worker that lets go of its sale, or goes on without writing, disturbs nobody.
LEMMA WorkerWaits ==
  ASSUME Typed, Waiting, NEW w \in Workers, NEW k, SetWorker(w, k), k.pc # "cas",
         \A o \in Sales : stage'[o] = stage[o] \/ (worker[w].pc = "cas" /\ o = worker[w].sale),
         base'.modified <= clock'
  PROVE  Waiting'
<1>1. worker'[w] = k /\ \A v \in Workers \ {w} : worker'[v] = worker[v]
  BY DEF Typed, TypeOK, SetWorker
<1>2. \A v \in Workers : worker'[v].pc = "cas" =>
        /\ v # w /\ worker'[v] = worker[v] /\ worker[v].sale \in Sales
        /\ stage'[worker[v].sale] = stage[worker[v].sale]
  BY <1>1 DEF Typed, Busy, Waiting, OwnSale
<1> QED
  BY <1>2 DEF Waiting, OwnSale

LEMMA NextWaiting == Typed /\ Waiting /\ [Next]_vars => Waiting'
<1> SUFFICES ASSUME Typed, Waiting, [Next]_vars PROVE Waiting'
  OBVIOUS
<1>1. /\ stage \in [Sales -> {"none", "placed", "decided"}]
      /\ worker \in [Workers -> WorkerLocals]
      /\ \A w \in Workers : worker[w].pc # "idle" => worker[w].sale \in Sales
  BY DEF Typed, TypeOK, Busy
<1>2. ASSUME UNCHANGED <<stage, worker>>, base'.modified <= clock' PROVE Waiting'
  BY <1>2 DEF Waiting, OwnSale
<1>3. ASSUME UNCHANGED <<clock, base>> PROVE base'.modified <= clock'
  BY <1>3 DEF Waiting
<1>4. CASE EditItem
  <2>1. PICK t \in Now : base'.modified = t /\ clock' = t
    BY <1>4 DEF EditItem
  <2> QED
    BY <1>2, <1>4, <2>1, NowLater DEF EditItem
<1>5. ASSUME NEW s \in Sales, EbaySale(s) \/ BaseSale(s) PROVE Waiting'
  <2>1. PICK t \in Now : Place(s, t) /\ (base' = base \/ base'.modified = t)
    BY <1>5 DEF EbaySale, BaseSale
  <2>2. base'.modified <= clock'
    BY <2>1, NowLater DEF Place
  <2>3. \A o \in Sales : stage[o] = "placed" => stage'[o] = "placed"
    BY <1>1, <2>1 DEF Place
  <2> QED
    BY <1>1, <2>1, <2>2, <2>3 DEF Place, Waiting, OwnSale
<1>6. ASSUME NEW s \in Sales, RefuseSale(s) PROVE Waiting'
  <2>1. \A w \in Workers : worker[w].pc = "cas" => worker[w].sale # s
    BY <1>6 DEF RefuseSale, Taken
  <2>2. \A o \in Sales \ {s} : stage'[o] = stage[o]
    BY <1>1, <1>6 DEF RefuseSale
  <2> QED
    BY <1>1, <1>3, <1>6, <2>1, <2>2 DEF RefuseSale, world, Waiting, OwnSale
<1>7. ASSUME NEW p \in Pollers,
             \/ FetchItem(p) \/ SkipReport(p) \/ ReadForReport(p) \/ ApplyReport(p)
             \/ ReportMismatch(p) \/ RecordReport(p) \/ PollDies(p)
      PROVE  Waiting'
  <2>1. UNCHANGED <<clock, base, stage, worker>>
    BY <1>7 DEF FetchItem, SkipReport, ReadForReport, ApplyReport, ReportMismatch,
                RecordReport, PollDies, world
  <2> QED
    BY <1>2, <1>3, <2>1
<1>8. ASSUME NEW w \in Workers, NEW s \in Sales, ReadForSale(w, s) PROVE Waiting'
  <2>1. stage[s] = "placed" /\ ~AlreadyZero(master) /\ UNCHANGED <<clock, base, stage>>
    BY <1>8 DEF ReadForSale, world
  <2>2. \A v \in Workers : worker[v].pc = "cas" => worker[v].sale # s
    BY <1>8 DEF ReadForSale, Taken
  <2>3. /\ worker'[w].sale = s /\ worker'[w].seen = master
        /\ \A v \in Workers \ {w} : worker'[v] = worker[v]
    BY <1>1, <1>8 DEF ReadForSale, SetWorker, IdleWorker
  <2> QED
    BY <1>3, <2>1, <2>2, <2>3 DEF Waiting, OwnSale
<1>9. ASSUME NEW w \in Workers, CommitSale(w) PROVE Waiting'
  <2> DEFINE s == worker[w].sale
             k == IF SoldOn[s] = "ebay"
                    THEN [IdleWorker EXCEPT !.pc = "query", !.sale = s,
                            !.seen = AfterSale(worker[w].seen, SoldOn[s], Units[s])]
                    ELSE IdleWorker
  <2>1. SetWorker(w, k) /\ k.pc # "cas"
    BY <1>9 DEF CommitSale, IdleWorker
  <2>2. \A o \in Sales : stage'[o] = stage[o] \/ (worker[w].pc = "cas" /\ o = s)
    BY <1>1, <1>9 DEF CommitSale
  <2> HIDE DEF k
  <2> QED
    BY <1>3, <1>9, <2>1, <2>2, WorkerWaits DEF CommitSale, world
<1>10. ASSUME NEW w \in Workers, SaleMismatch(w) \/ DoNotTell(w) PROVE Waiting'
  <2>1. SetWorker(w, IdleWorker) /\ UNCHANGED <<clock, base, stage>>
    BY <1>10 DEF SaleMismatch, DoNotTell, world
  <2> QED
    BY <1>3, <2>1, WorkerWaits DEF IdleWorker
<1>11. ASSUME NEW w \in Workers, ReadForBase(w) PROVE Waiting'
  <2> DEFINE n == IF worker[w].seen.soldOut THEN 0 ELSE master.quantity
             k == [worker[w] EXCEPT !.pc = "push", !.pushing = n]
  <2>1. SetWorker(w, k) /\ UNCHANGED <<clock, base, stage>>
    BY <1>11 DEF ReadForBase, world
  <2> HIDE DEF n
  <2>2. k.pc # "cas"
    BY <1>1 DEF WorkerLocals
  <2> HIDE DEF k
  <2> QED
    BY <1>3, <2>1, <2>2, WorkerWaits
<1>12. ASSUME NEW w \in Workers, TellBase(w) PROVE Waiting'
  <2>1. PICK t \in Now : base'.modified = t /\ clock' = t
    BY <1>12 DEF TellBase
  <2>2. SetWorker(w, IdleWorker) /\ stage' = stage /\ base'.modified <= clock'
    BY <1>12, <2>1, NowLater DEF TellBase
  <2> QED
    BY <2>2, WorkerWaits DEF IdleWorker
<1>13. ASSUME NEW f \in Fixers,
              \/ ReadCounter(f) \/ ReadLedger(f) \/ ReadVersion(f) \/ WriteRepair(f)
              \/ RepairMismatch(f)
       PROVE  Waiting'
  <2>1. UNCHANGED <<clock, base, stage, worker>>
    BY <1>13 DEF ReadCounter, ReadLedger, ReadVersion, WriteRepair, RepairMismatch,
                 world
  <2> QED
    BY <1>2, <1>3, <2>1
<1>14. CASE UNCHANGED vars
  BY <1>2, <1>3, <1>14 DEF vars, world
<1> QED
  BY <1>4, <1>5, <1>6, <1>7, <1>8, <1>9, <1>10, <1>11, <1>12, <1>13, <1>14
     DEF Next, SalesOn

\* The pure part of inventory.ts is the same seen from both specifications.
LEMMA SameRow ==
  /\ \A r : AtomicRow!AlreadyZero(r) <=> AlreadyZero(r)
  /\ \A r, c, n : AtomicRow!AfterSale(r, c, n) = AfterSale(r, c, n)
  /\ \A r, t : AtomicRow!StaleReport(r, t) <=> StaleReport(r, t)
  /\ \A r, n, t : AtomicRow!AfterBaseReport(r, n, t) = AfterBaseReport(r, n, t)
  /\ \A r, n : AtomicRow!AfterRepair(r, n) = AfterRepair(r, n)
  /\ AtomicRow!Row = Row /\ AtomicRow!Item = Item
BY DEF AtomicRow!AlreadyZero, AlreadyZero, AtomicRow!AfterSale, AfterSale,
       AtomicRow!AtLeastZero, AtLeastZero, AtomicRow!StaleReport, StaleReport,
       AtomicRow!AfterBaseReport, AfterBaseReport, AtomicRow!AfterRepair, AfterRepair,
       AtomicRow!Row, Row, AtomicRow!Item, Item

\* What a step of a poll does to what the polls carry.
Carried == [p \in Pollers |-> Fetched(p)]

LEMMA PollerCarries ==
  ASSUME Typed, NEW p \in Pollers, NEW k, SetPoller(p, k)
  PROVE  /\ k.pc \in {"read", "cas"} =>
              Carried' = [Carried EXCEPT ![p] = {k.item}]
         /\ k.pc \notin {"read", "cas"} =>
              Carried' = [Carried EXCEPT ![p] = {}]
<1>1. poller'[p] = k /\ \A q \in Pollers \ {p} : poller'[q] = poller[q]
  BY DEF Typed, TypeOK, SetPoller
<1> QED
  BY <1>1 DEF Carried, Fetched

LEMMA SaleDecides ==
  ASSUME Typed, NEW s \in Sales, stage[s] = "placed",
         stage' = [stage EXCEPT ![s] = "decided"]
  PROVE  s \notin DecidedSales /\ DecidedSales' = DecidedSales \cup {s}
BY DEF Typed, TypeOK, DecidedSales

\* A step that touches neither the row, nor a decision, nor what a poll carries.
RowStutters == UNCHANGED <<master, DecidedSales, base, Carried>>

LEMMA WorldRow ==
  ASSUME Typed, Waiting,
         \/ EditItem
         \/ \E s \in Sales : EbaySale(s) \/ BaseSale(s)
         \/ \E w \in Workers : TellBase(w)
  PROVE  AtomicRow!Change
<1>0. base \in Item /\ base.modified \in Nat
  BY DEF Typed, TypeOK, Item
<1>1. UNCHANGED <<master, poller>> /\ base' \in Item
  <2>1. base' \in Item
    <3>1. CASE EditItem
      BY <1>0, <3>1, NowLater DEF EditItem, Item
    <3>2. ASSUME NEW s \in Sales, EbaySale(s) \/ BaseSale(s) PROVE base' \in Item
      BY <1>0, <3>2, NowLater, StockReportsAssumption DEF EbaySale, BaseSale, Item
    <3>3. ASSUME NEW w \in Workers, TellBase(w) PROVE base' \in Item
      BY <3>3, NowLater DEF TellBase, Item, Typed, TypeOK, WorkerLocals
    <3> QED
      BY <3>1, <3>2, <3>3
  <2> QED
    BY <2>1 DEF EditItem, EbaySale, BaseSale, Place, TellBase
<1>2. base'.modified >= base.modified
  BY <1>0, NowLater DEF EditItem, EbaySale, BaseSale, TellBase
<1>3. UNCHANGED DecidedSales
  BY DEF EditItem, EbaySale, BaseSale, Place, TellBase, DecidedSales, Typed, TypeOK
<1> QED
  BY <1>1, <1>2, <1>3, SameRow DEF AtomicRow!Change, Carried, Fetched

LEMMA PollerRow ==
  ASSUME Guarded, NEW p \in Pollers,
         \/ FetchItem(p) \/ SkipReport(p) \/ ReadForReport(p) \/ ApplyReport(p)
         \/ ReportMismatch(p) \/ RecordReport(p) \/ PollDies(p)
  PROVE  \/ AtomicRow!Fetch(p) \/ AtomicRow!Drop(p) \/ RowStutters
         \/ \E i \in Fetched(p) : AtomicRow!Report(p, i)
<1> DEFINE l == poller[p]
<1>0. Typed /\ l \in PollerLocals
  BY DEF Guarded, Typed, TypeOK
<1>1. UNCHANGED <<base, DecidedSales>>
  BY DEF FetchItem, SkipReport, ReadForReport, ApplyReport, ReportMismatch,
         RecordReport, PollDies, world, DecidedSales
<1>2. Carried[p] = Fetched(p)
  BY DEF Carried
<1>3. ASSUME UNCHANGED master, NEW k, SetPoller(p, k), l.pc \in {"read", "cas"},
             k.pc \in {"read", "cas"}, k.item = l.item
      PROVE  RowStutters
  <2>1. Carried' = [Carried EXCEPT ![p] = Fetched(p)]
    BY <1>0, <1>3, PollerCarries DEF Fetched
  <2> QED
    BY <1>1, <1>2, <1>3, <2>1 DEF RowStutters, Carried
<1>4. ASSUME UNCHANGED master, SetPoller(p, IdlePoller)
      PROVE  AtomicRow!Drop(p)
  <2>1. Carried' = [Carried EXCEPT ![p] = {}]
    BY <1>0, <1>4, PollerCarries DEF IdlePoller
  <2> QED
    BY <1>1, <1>4, <2>1 DEF AtomicRow!Drop, Carried
<1>5. CASE FetchItem(p)
  <2> DEFINE k == [IdlePoller EXCEPT !.pc = "read", !.item = base]
  <2>1. k.pc = "read" /\ k.item = base
    BY DEF IdlePoller
  <2>2. SetPoller(p, k) /\ UNCHANGED master
    BY <1>5 DEF FetchItem
  <2> HIDE DEF k
  <2>3. Carried' = [Carried EXCEPT ![p] = {base}]
    BY <1>0, <2>1, <2>2, PollerCarries
  <2> QED
    BY <1>1, <2>2, <2>3 DEF AtomicRow!Fetch, Carried
<1>6. CASE SkipReport(p) \/ RecordReport(p) \/ PollDies(p)
  BY <1>4, <1>6 DEF SkipReport, RecordReport, PollDies
<1>7. CASE ReadForReport(p)
  <2> DEFINE k == [l EXCEPT !.pc = "cas", !.seen = master]
  <2>1. k.pc = "cas" /\ k.item = l.item
    BY <1>0 DEF PollerLocals
  <2>2. SetPoller(p, k) /\ UNCHANGED master /\ l.pc = "read"
    BY <1>7 DEF ReadForReport
  <2> HIDE DEF k
  <2> QED
    BY <1>3, <2>1, <2>2
<1>8. CASE ApplyReport(p)
  <2> DEFINE k == [l EXCEPT !.pc = "event"]
             i == l.item
  <2>1. l.pc = "cas" /\ l.seen = master /\ ~StaleReport(master, i.modified)
    BY <1>8 DEF ApplyReport, Guarded, VersionNamesRow, Checked
  <2>2. master' = AfterBaseReport(master, i.stock, i.modified)
    BY <1>8, <2>1 DEF ApplyReport
  <2>3. k.pc = "event" /\ SetPoller(p, k)
    BY <1>0, <1>8 DEF PollerLocals, ApplyReport
  <2> HIDE DEF k
  <2>4. Carried' = [Carried EXCEPT ![p] = {}]
    BY <1>0, <2>3, PollerCarries
  <2>5. i \in Fetched(p)
    BY <2>1 DEF Fetched
  <2>6. AtomicRow!Report(p, i)
    BY <1>1, <1>2, <2>1, <2>2, <2>4, <2>5, SameRow DEF AtomicRow!Report, Carried
  <2> QED
    BY <2>5, <2>6
<1>9. CASE ReportMismatch(p)
  <2> DEFINE k == [l EXCEPT !.pc = "read", !.attempt = l.attempt + 1]
  <2>1. k.pc = "read" /\ k.item = l.item
    BY <1>0 DEF PollerLocals
  <2>2. /\ SetPoller(p, k) \/ SetPoller(p, IdlePoller)
        /\ UNCHANGED master /\ l.pc = "cas"
    BY <1>9 DEF ReportMismatch
  <2> HIDE DEF k
  <2> QED
    BY <1>3, <1>4, <2>1, <2>2
<1> QED
  BY <1>5, <1>6, <1>7, <1>8, <1>9

LEMMA WorkerRow ==
  ASSUME Guarded, Waiting, NEW w \in Workers,
         \/ \E s \in Sales : ReadForSale(w, s)
         \/ CommitSale(w) \/ SaleMismatch(w) \/ ReadForBase(w) \/ DoNotTell(w)
  PROVE  RowStutters \/ \E s \in Sales : AtomicRow!Decide(s)
<1> DEFINE Looks == \/ \E s \in Sales : ReadForSale(w, s)
                    \/ SaleMismatch(w) \/ ReadForBase(w) \/ DoNotTell(w)
<1>0. Looks => UNCHANGED <<base, poller, stage, master>>
  BY ZenonT(30) DEF ReadForSale, SaleMismatch, ReadForBase, DoNotTell, world
<1>r. CommitSale(w) => UNCHANGED <<base, poller>>
  BY ZenonT(30) DEF CommitSale, world
<1>l. Looks \/ CommitSale(w)
  OBVIOUS
<1> HIDE DEF Looks
<1>1. UNCHANGED <<base, poller, Carried>>
  BY <1>0, <1>r, <1>l DEF Carried, Fetched
<1>2. CASE Looks
  BY <1>0, <1>1, <1>2 DEF RowStutters, DecidedSales
<1>3. CASE CommitSale(w)
  <2> DEFINE s == worker[w].sale
  <2>1. /\ worker[w].pc = "cas" /\ worker[w].seen = master
        /\ stage' = [stage EXCEPT ![s] = "decided"]
    BY <1>3 DEF CommitSale, Guarded, VersionNamesRow
  <2>2. master' = AfterSale(master, SoldOn[s], Units[s])
    BY <1>3, <2>1 DEF CommitSale
  <2>3. s \in Sales /\ stage[s] = "placed" /\ ~AlreadyZero(master)
    BY <2>1 DEF Guarded, Typed, Busy, Waiting, OwnSale
  <2>4. s \notin DecidedSales /\ DecidedSales' = DecidedSales \cup {s}
    BY <2>1, <2>3, SaleDecides DEF Guarded
  <2>5. AtomicRow!Decide(s)
    BY <1>1, <2>2, <2>3, <2>4, SameRow DEF AtomicRow!Decide, Carried
  <2> QED
    BY <2>3, <2>5
<1> QED
  BY <1>l, <1>2, <1>3

LEMMA RefusalRow ==
  ASSUME Typed, NEW s \in Sales, RefuseSale(s)
  PROVE  AtomicRow!Decide(s)
<1>1. UNCHANGED <<master, base, Carried>> /\ AlreadyZero(master)
  BY DEF RefuseSale, world, Carried, Fetched
<1>2. s \notin DecidedSales /\ DecidedSales' = DecidedSales \cup {s}
  BY SaleDecides DEF RefuseSale
<1> QED
  BY <1>1, <1>2, SameRow DEF AtomicRow!Decide, Carried

LEMMA FixerRow ==
  ASSUME Typed, NEW f \in Fixers,
         \/ ReadCounter(f) \/ ReadLedger(f) \/ ReadVersion(f) \/ WriteRepair(f)
         \/ RepairMismatch(f)
  PROVE  RowStutters \/ AtomicRow!Repair
<1>1. UNCHANGED <<base, DecidedSales, Carried>>
  BY DEF ReadCounter, ReadLedger, ReadVersion, WriteRepair, RepairMismatch, world,
         DecidedSales, Carried, Fetched
<1>2. CASE WriteRepair(f)
  <2>1. master \in Row /\ fixer[f].target \in Nat
    BY DEF Typed, TypeOK, FixerLocals
  <2>2. /\ master' = AfterRepair(master, fixer[f].target) /\ master' \in Row
        /\ master'.quantity = fixer[f].target
    BY <1>2, <2>1, RepairRow DEF WriteRepair
  <2> QED
    BY <1>1, <2>2, SameRow DEF AtomicRow!Repair, Carried
<1>3. CASE ReadCounter(f) \/ ReadLedger(f) \/ ReadVersion(f) \/ RepairMismatch(f)
  BY <1>1, <1>3 DEF ReadCounter, ReadLedger, ReadVersion, RepairMismatch, RowStutters
<1> QED
  BY <1>2, <1>3

LEMMA NextRow ==
  Guarded /\ Waiting /\ [Next]_vars => [AtomicRow!Next]_(AtomicRow!vars)
<1> SUFFICES ASSUME Guarded, Waiting, [Next]_vars
             PROVE  AtomicRow!Next \/ UNCHANGED AtomicRow!vars
  OBVIOUS
<1>1. RowStutters => UNCHANGED AtomicRow!vars
  BY DEF RowStutters, AtomicRow!vars, Carried
<1>2. \A p \in Pollers : Carried[p] = Fetched(p)
  BY DEF Carried
<1>3. CASE \/ EditItem
           \/ \E s \in Sales : EbaySale(s) \/ BaseSale(s)
           \/ \E w \in Workers : TellBase(w)
  BY <1>3, WorldRow DEF Guarded, AtomicRow!Next
<1>4. CASE \E s \in Sales : RefuseSale(s)
  BY <1>4, RefusalRow DEF Guarded, AtomicRow!Next
<1>5. ASSUME NEW p \in Pollers,
             \/ FetchItem(p) \/ SkipReport(p) \/ ReadForReport(p) \/ ApplyReport(p)
             \/ ReportMismatch(p) \/ RecordReport(p) \/ PollDies(p)
      PROVE  AtomicRow!Next \/ UNCHANGED AtomicRow!vars
  BY <1>1, <1>2, <1>5, PollerRow DEF AtomicRow!Next, Carried
<1>6. ASSUME NEW w \in Workers,
             \/ \E s \in Sales : ReadForSale(w, s)
             \/ CommitSale(w) \/ SaleMismatch(w) \/ ReadForBase(w) \/ DoNotTell(w)
      PROVE  AtomicRow!Next \/ UNCHANGED AtomicRow!vars
  BY <1>1, <1>6, WorkerRow DEF AtomicRow!Next
<1>7. ASSUME NEW f \in Fixers,
             \/ ReadCounter(f) \/ ReadLedger(f) \/ ReadVersion(f) \/ WriteRepair(f)
             \/ RepairMismatch(f)
      PROVE  AtomicRow!Next \/ UNCHANGED AtomicRow!vars
  BY <1>1, <1>7, FixerRow DEF AtomicRow!Next, Guarded
<1>8. CASE UNCHANGED vars
  <2>1. RowStutters
    BY <1>8 DEF vars, world, RowStutters, DecidedSales, Carried, Fetched
  <2> QED
    BY <1>1, <2>1
<1> QED
  BY <1>3, <1>4, <1>5, <1>6, <1>7, <1>8 DEF Next, SalesOn

LEMMA InitRow == Init => AtomicRow!Init
<1> SUFFICES ASSUME Init PROVE AtomicRow!Init
  OBVIOUS
<1>1. master = FirstRow /\ base = FirstItem /\ DecidedSales = {}
  BY DEF Init, FirstRow, FirstItem, DecidedSales
<1>2. [p \in Pollers |-> Fetched(p)] = [p \in Pollers |-> {}]
  BY DEF Init, Fetched, IdlePoller
<1> QED
  BY <1>1, <1>2 DEF AtomicRow!Init

\* Whatever the polls, sales and repairs do between their reads and their writes,
\* the row changes as if each had read and written it in one step: a sale comes off
\* the stock there is, once, a report replaces it only if it is newer, and no write
\* is lost (the compare-and-swap of applySale, applyBaseStockReport and
\* applyReconstructedInventory).
THEOREM ImplementsRowHolds == Spec => ImplementsRow
<1>1. Init => Guarded /\ Waiting /\ AtomicRow!Init
  BY InitGuarded, InitWaiting, InitRow
<1>2. Guarded /\ Waiting /\ [Next]_vars => Guarded' /\ Waiting'
  BY NextGuarded, NextWaiting DEF Guarded
<1>3. Guarded /\ Waiting /\ [Next]_vars => [AtomicRow!Next]_(AtomicRow!vars)
  BY NextRow
<1> QED
  BY <1>1, <1>2, <1>3, PTL DEF Spec, ImplementsRow, AtomicRow!Spec

------------------------------------------------------------------------------
(***************************************************************************)
(* Units, counted: what an element more or less makes of the count.        *)
(***************************************************************************)

LEMMA UnitsFinite ==
  ASSUME NEW S, IsFiniteSet(S), NEW q \in [S -> Nat]
  PROVE  /\ IsFiniteSet(UNION {{x} \X (1..q[x]) : x \in S})
         /\ UnitsOf(q) = Cardinality(UNION {{x} \X (1..q[x]) : x \in S})
         /\ UnitsOf(q) \in Nat
<1> DEFINE Each == {{x} \X (1..q[x]) : x \in S}
           f == [x \in S |-> {x} \X (1..q[x])]
<1>1. f \in Surjection(S, Each)
  BY DEF Surjection
<1>2. IsFiniteSet(Each)
  BY <1>1, FS_Surjection
<1>3. ASSUME NEW x \in S PROVE IsFiniteSet({x} \X (1..q[x]))
  <2>1. \A n \in Nat : IsFiniteSet(1..n)
    BY FS_Interval
  <2>2. IsFiniteSet({x}) /\ IsFiniteSet(1..q[x])
    BY <2>1, FS_Singleton
  <2>3. QED
    BY <2>2, FS_Product
<1>4. \A T \in Each : IsFiniteSet(T)
  BY <1>3
<1>5. IsFiniteSet(UNION Each)
  BY <1>2, <1>4, FS_UNION
<1>6. UnitsOf(q) = Cardinality(UNION Each)
  BY DEF UnitsOf
<1>7. QED
  BY <1>5, <1>6, FS_CardinalityType

LEMMA UnitsNone ==
  ASSUME NEW q, DOMAIN q = {}
  PROVE  UnitsOf(q) = 0
<1>1. UNION {{x} \X (1..q[x]) : x \in DOMAIN q} = {}
  OBVIOUS
<1>2. QED
  BY <1>1, FS_EmptySet DEF UnitsOf

\* One function gives an element more its units.
Adds(q, x, r) ==
  /\ IsFiniteSet(DOMAIN q) /\ q \in [DOMAIN q -> Nat]
  /\ x \notin DOMAIN q /\ r \in [DOMAIN q \cup {x} -> Nat]
  /\ \A y \in DOMAIN q : r[y] = q[y]

LEMMA UnitsMore ==
  ASSUME NEW q, NEW x, NEW r, Adds(q, x, r)
  PROVE  UnitsOf(r) = UnitsOf(q) + r[x]
<1> DEFINE S == DOMAIN q
           A == UNION {{y} \X (1..q[y]) : y \in S}
           B == {x} \X (1..r[x])
           C == UNION {{y} \X (1..r[y]) : y \in S \cup {x}}
<1>0. /\ IsFiniteSet(S) /\ q \in [S -> Nat] /\ x \notin S /\ r \in [S \cup {x} -> Nat]
       /\ \A y \in S : r[y] = q[y]
  BY DEF Adds
<1>1. C = A \cup B
  BY <1>0
<1>2. A \cap B = {}
  BY <1>0
<1>3. IsFiniteSet(A) /\ UnitsOf(q) = Cardinality(A) /\ UnitsOf(q) \in Nat
  BY <1>0, UnitsFinite
<1>4. IsFiniteSet(B) /\ Cardinality(B) = r[x]
  <2>1. r[x] \in Nat
    BY <1>0
  <2>2. ASSUME NEW n \in Nat PROVE IsFiniteSet(1..n) /\ Cardinality(1..n) = n
    BY FS_Interval
  <2>3. IsFiniteSet({x}) /\ Cardinality({x}) = 1
    BY FS_Singleton
  <2>4. IsFiniteSet(1..r[x]) /\ Cardinality(1..r[x]) = r[x]
    BY <2>1, <2>2
  <2>5. IsFiniteSet(B) /\ Cardinality(B) = Cardinality({x}) * Cardinality(1..r[x])
    BY <2>3, <2>4, FS_Product
  <2>6. 1 * r[x] = r[x]
    BY <2>1
  <2>7. QED
    BY <2>3, <2>4, <2>5, <2>6
<1>5. UnitsOf(r) = Cardinality(C)
  BY <1>0 DEF UnitsOf
<1> HIDE DEF A, B, C
<1>6. Cardinality(A \cup B) = Cardinality(A) + Cardinality(B) - Cardinality(A \cap B)
  BY <1>3, <1>4, FS_Union
<1>7. Cardinality(A \cap B) = 0
  BY <1>2, FS_EmptySet
<1>8. r[x] \in Nat
  BY <1>0
<1>9. QED
  BY <1>1, <1>3, <1>4, <1>5, <1>6, <1>7, <1>8

LEMMA UnitsLess ==
  ASSUME NEW S, IsFiniteSet(S), NEW q \in [S -> Nat], NEW x \in S
  PROVE  /\ UnitsOf(q) = UnitsOf([y \in S \ {x} |-> q[y]]) + q[x]
         /\ UnitsOf([y \in S \ {x} |-> q[y]]) \in Nat
         /\ q[x] <= UnitsOf(q)
<1> DEFINE T == S \ {x}
           p == [y \in T |-> q[y]]
<1>1. IsFiniteSet(T)
  BY FS_RemoveElement
<1>2. p \in [T -> Nat] /\ x \notin T /\ T \cup {x} = S /\ \A y \in T : q[y] = p[y]
  OBVIOUS
<1>3. UnitsOf(p) \in Nat
  BY <1>1, <1>2, UnitsFinite
<1>4. q \in [T \cup {x} -> Nat]
  BY <1>2
<1>5. q[x] \in Nat
  OBVIOUS
<1>6. UnitsOf(q) = UnitsOf(p) + q[x]
  <2>1. DOMAIN p = T
    OBVIOUS
  <2> HIDE DEF p, T
  <2>2. Adds(p, x, q)
    BY <1>1, <1>2, <1>4, <2>1 DEF Adds
  <2>3. QED
    BY <2>2, UnitsMore
<1> HIDE DEF p, T
<1>7. QED
  BY <1>3, <1>5, <1>6 DEF p, T

------------------------------------------------------------------------------
(***************************************************************************)
(* The units of the ledger and of the reports not yet in it                *)
(***************************************************************************)

OfKind(ledger, kind) == {i \in DOMAIN ledger : ledger[i].kind = kind}
EbayOf(ledger, kind) == UnitsOf([i \in OfKind(ledger, kind) |-> ledger[i].ebay])

\* An entry more adds its units to those of its kind.
LEMMA OneEntryMore ==
  ASSUME NEW ledger \in Seq(Event), NEW e \in Event
  PROVE  /\ DOMAIN Append(ledger, e) = DOMAIN ledger \cup {Len(ledger) + 1}
         /\ Len(ledger) + 1 \notin DOMAIN ledger
         /\ \A i \in DOMAIN ledger : Append(ledger, e)[i] = ledger[i]
         /\ Append(ledger, e)[Len(ledger) + 1] = e
         /\ OfKind(Append(ledger, e), e.kind) = OfKind(ledger, e.kind) \cup {Len(ledger) + 1}
         /\ \A k : k # e.kind => OfKind(Append(ledger, e), k) = OfKind(ledger, k)
<1> DEFINE new == Append(ledger, e)
<1>1. /\ DOMAIN ledger = 1..Len(ledger) /\ Len(ledger) \in Nat
      /\ DOMAIN new = 1..(Len(ledger) + 1)
      /\ \A i \in 1..Len(ledger) : new[i] = ledger[i]
      /\ new[Len(ledger) + 1] = e
  BY AppendProperties
<1> HIDE DEF new
<1>2. DOMAIN new = DOMAIN ledger \cup {Len(ledger) + 1} /\ Len(ledger) + 1 \notin DOMAIN ledger
  BY <1>1
<1>3. OfKind(new, e.kind) = OfKind(ledger, e.kind) \cup {Len(ledger) + 1}
  BY <1>1, <1>2 DEF OfKind
<1>4. ASSUME NEW k, k # e.kind PROVE OfKind(new, k) = OfKind(ledger, k)
  BY <1>1, <1>2, <1>4 DEF OfKind
<1>5. QED
  BY <1>1, <1>2, <1>3, <1>4 DEF new

LEMMA LedgerFinite ==
  ASSUME NEW ledger \in Seq(Event), NEW k
  PROVE  /\ IsFiniteSet(OfKind(ledger, k))
         /\ \A i \in OfKind(ledger, k) :
              ledger[i].at \in Nat /\ ledger[i].quantity \in Nat /\ ledger[i].ebay \in Nat
         /\ EbayOf(ledger, k) \in Nat
<1>1. DOMAIN ledger = 1..Len(ledger) /\ Len(ledger) \in Nat
  OBVIOUS
<1>2. IsFiniteSet(DOMAIN ledger)
  BY <1>1, FS_Interval
<1>3. IsFiniteSet(OfKind(ledger, k))
  BY <1>2, FS_Subset DEF OfKind
<1>4. ASSUME NEW i \in OfKind(ledger, k)
      PROVE  ledger[i].at \in Nat /\ ledger[i].quantity \in Nat /\ ledger[i].ebay \in Nat
  <2>1. ledger[i] \in Event
    BY <1>1 DEF OfKind
  <2>2. QED
    BY <2>1 DEF Event
<1>5. [i \in OfKind(ledger, k) |-> ledger[i].ebay] \in [OfKind(ledger, k) -> Nat]
  BY <1>4
<1>6. QED
  BY <1>3, <1>4, <1>5, UnitsFinite DEF EbayOf

LEMMA EntryUnits ==
  ASSUME NEW ledger \in Seq(Event), NEW e \in Event
  PROVE  /\ EbayOf(Append(ledger, e), e.kind) = EbayOf(ledger, e.kind) + e.ebay
         /\ \A k : k # e.kind => EbayOf(Append(ledger, e), k) = EbayOf(ledger, k)
<1> DEFINE new == Append(ledger, e)
           n == Len(ledger) + 1
           S == OfKind(ledger, e.kind)
           q == [i \in S |-> ledger[i].ebay]
           r == [i \in S \cup {n} |-> new[i].ebay]
<1>1. /\ DOMAIN new = DOMAIN ledger \cup {n} /\ n \notin DOMAIN ledger
      /\ \A i \in DOMAIN ledger : new[i] = ledger[i]
      /\ new[n] = e
      /\ OfKind(new, e.kind) = S \cup {n}
      /\ \A k : k # e.kind => OfKind(new, k) = OfKind(ledger, k)
  BY OneEntryMore
<1>2. S \subseteq DOMAIN ledger /\ n \notin S
  BY <1>1 DEF OfKind
<1>3. IsFiniteSet(S)
  BY LedgerFinite
<1>4. e.ebay \in Nat /\ \A i \in S : ledger[i].ebay \in Nat
  BY LedgerFinite DEF Event
<1> HIDE DEF new, n, S
<1>5. q \in [S -> Nat] /\ r \in [S \cup {n} -> Nat] /\ (\A i \in S : r[i] = q[i]) /\ r[n] = e.ebay
  BY <1>1, <1>2, <1>4
<1>6. UnitsOf(r) = UnitsOf(q) + r[n]
  <2>1. DOMAIN q = S
    OBVIOUS
  <2> HIDE DEF q, r
  <2>2. Adds(q, n, r)
    BY <1>2, <1>3, <1>5, <2>1 DEF Adds
  <2>3. QED
    BY <2>2, UnitsMore
<1> HIDE DEF q, r
<1>7. EbayOf(new, e.kind) = UnitsOf(r) /\ EbayOf(ledger, e.kind) = UnitsOf(q)
  BY <1>1 DEF EbayOf, q, r, S
<1>8. ASSUME NEW k, k # e.kind PROVE EbayOf(new, k) = EbayOf(ledger, k)
  <2>1. OfKind(new, k) = OfKind(ledger, k)
    BY <1>1, <1>8
  <2>2. [i \in OfKind(new, k) |-> new[i].ebay] = [i \in OfKind(ledger, k) |-> ledger[i].ebay]
    BY <1>1, <2>1 DEF OfKind
  <2>3. QED
    BY <2>2 DEF EbayOf
<1>9. QED
  BY <1>5, <1>6, <1>7, <1>8 DEF new

\* Polls between their two statements, and the units they took out of the row.
Recorders(locals) == {p \in Pollers : locals[p].pc = "event"}
HeldBy(locals) == UnitsOf([p \in Recorders(locals) |-> locals[p].seen.ebaySold])

PollMoves(locals, p, k, next) ==
  /\ locals \in [Pollers -> PollerLocals] /\ IsFiniteSet(Recorders(locals))
  /\ p \in Pollers /\ k \in PollerLocals
  /\ next = [locals EXCEPT ![p] = k]

LEMMA HeldUnits ==
  ASSUME NEW locals, NEW p, NEW k, NEW next, PollMoves(locals, p, k, next)
  PROVE  /\ HeldBy(locals) \in Nat
         /\ IsFiniteSet(Recorders(next))
         /\ locals[p].pc # "event" /\ k.pc # "event" =>
              Recorders(next) = Recorders(locals) /\ HeldBy(next) = HeldBy(locals)
         /\ locals[p].pc # "event" /\ k.pc = "event" =>
              /\ Recorders(next) = Recorders(locals) \cup {p}
              /\ HeldBy(next) = HeldBy(locals) + k.seen.ebaySold
         /\ locals[p].pc = "event" /\ k.pc # "event" =>
              /\ Recorders(next) = Recorders(locals) \ {p}
              /\ HeldBy(locals) = HeldBy(next) + locals[p].seen.ebaySold
<1> DEFINE R == Recorders(locals)
           N == Recorders(next)
           q == [o \in R |-> locals[o].seen.ebaySold]
           r == [o \in N |-> next[o].seen.ebaySold]
<1>1. next[p] = k /\ \A o \in Pollers : o # p => next[o] = locals[o]
  BY DEF PollMoves
<1>2. /\ locals \in [Pollers -> PollerLocals] /\ next \in [Pollers -> PollerLocals]
      /\ p \in Pollers /\ IsFiniteSet(R)
  BY DEF PollMoves
<1>3. /\ \A o \in Pollers : locals[o].seen.ebaySold \in Nat
      /\ \A o \in Pollers : next[o].seen.ebaySold \in Nat
  BY <1>2 DEF PollerLocals, Row
<1>4. R \subseteq Pollers /\ N \subseteq Pollers
  BY DEF Recorders
<1>5. q \in [R -> Nat] /\ r \in [N -> Nat]
  BY <1>3, <1>4
<1>6. N \subseteq R \cup {p}
  BY <1>1 DEF Recorders
<1>7. IsFiniteSet(N) /\ IsFiniteSet(R)
  BY <1>2, <1>6, FS_AddElement, FS_Subset
<1>8. HeldBy(locals) = UnitsOf(q) /\ HeldBy(next) = UnitsOf(r) /\ UnitsOf(q) \in Nat
  BY <1>5, <1>7, UnitsFinite DEF HeldBy
<1>9. ASSUME locals[p].pc # "event", k.pc # "event" PROVE N = R /\ HeldBy(next) = HeldBy(locals)
  <2>1. N = R /\ p \notin R
    BY <1>1, <1>2, <1>9 DEF Recorders
  <2>2. q = r
    BY <1>1, <1>4, <2>1
  <2>3. QED
    BY <1>8, <2>1, <2>2
<1>10. ASSUME locals[p].pc # "event", k.pc = "event"
       PROVE  N = R \cup {p} /\ HeldBy(next) = HeldBy(locals) + k.seen.ebaySold
  <2>1. N = R \cup {p} /\ p \notin R
    BY <1>1, <1>2, <1>10 DEF Recorders
  <2>2. r[p] = k.seen.ebaySold /\ (\A o \in R : r[o] = q[o]) /\ DOMAIN q = R
    BY <1>1, <1>4, <2>1
  <2> HIDE DEF R, N, q, r
  <2>3. Adds(q, p, r)
    BY <1>5, <1>7, <2>1, <2>2 DEF Adds
  <2>4. UnitsOf(r) = UnitsOf(q) + r[p]
    BY <2>3, UnitsMore
  <2>5. QED
    BY <1>8, <2>1, <2>2, <2>4
<1>11. ASSUME locals[p].pc = "event", k.pc # "event"
       PROVE  N = R \ {p} /\ HeldBy(locals) = HeldBy(next) + locals[p].seen.ebaySold
  <2>1. R = N \cup {p} /\ p \notin N /\ N = R \ {p}
    BY <1>1, <1>2, <1>11 DEF Recorders
  <2>2. q[p] = locals[p].seen.ebaySold /\ (\A o \in N : q[o] = r[o]) /\ DOMAIN r = N
    BY <1>1, <1>4, <2>1
  <2> HIDE DEF R, N, q, r
  <2>3. Adds(r, p, q)
    BY <1>5, <1>7, <2>1, <2>2 DEF Adds
  <2>4. UnitsOf(q) = UnitsOf(r) + q[p]
    BY <2>3, UnitsMore
  <2>5. QED
    BY <1>8, <2>1, <2>2, <2>4
<1>12. QED
  BY <1>7, <1>8, <1>9, <1>10, <1>11

------------------------------------------------------------------------------
(***************************************************************************)
(* What a step does to the row, the ledger and the polls that owe it an    *)
(* entry. No poll dies here: one that does between its two statements      *)
(* takes the eBay units it holds, and its entry, with it.                  *)
(***************************************************************************)

NoPollDies == "crash" \notin Environment

Arrived(l) == AtLeastZero(l.item.stock - l.seen.ebaySold)

Elsewhere == UNCHANGED <<master, events, ordered, poller>>

PollOn(p) ==
  /\ UNCHANGED <<world, stage, master, events, ordered, worker>>
  /\ poller[p].pc # "event"
  /\ \E k \in PollerLocals :
       /\ poller' = [poller EXCEPT ![p] = k] /\ k.pc # "event"
       /\ \/ k.pc = "idle" \/ k.item = base
          \/ poller[p].pc # "idle" /\ k.item = poller[p].item

Applied(p) ==
  /\ UNCHANGED <<world, stage, events, worker>>
  /\ poller[p].pc = "cas" /\ poller[p].seen = master
  /\ master.baseSeq = 0 \/ poller[p].item.modified > master.baseSeq
  /\ master'.quantity = Arrived(poller[p])
  /\ master'.ebaySold = 0 /\ master'.baseSeq = poller[p].item.modified
  /\ InOrder(poller[p].item.modified)
  /\ \E k \in PollerLocals :
       /\ poller' = [poller EXCEPT ![p] = k]
       /\ k.pc = "event" /\ k.seen = master /\ k.item = poller[p].item

Recorded(p) ==
  /\ UNCHANGED <<world, stage, master, ordered, worker>>
  /\ poller[p].pc = "event"
  /\ \E e \in Event :
       /\ events' = Append(events, e)
       /\ e.kind = "report" /\ e.at = poller[p].item.modified
       /\ e.quantity = Arrived(poller[p]) /\ e.ebay = poller[p].seen.ebaySold
  /\ \E k \in PollerLocals : k.pc = "idle" /\ poller' = [poller EXCEPT ![p] = k]

Committed(w) ==
  /\ UNCHANGED <<world, poller>>
  /\ worker[w].pc = "cas" /\ worker[w].sale \in Sales
  /\ LET s == worker[w].sale IN
     /\ master'.quantity = AtLeastZero(master.quantity - Units[s])
     /\ master'.ebaySold = master.ebaySold + (IF SoldOn[s] = "ebay" THEN Units[s] ELSE 0)
     /\ master'.baseSeq = master.baseSeq
     /\ InOrder(placedAt[s])
     /\ \E e \in Event :
          /\ events' = Append(events, e)
          /\ e.kind = "sale" /\ e.at = placedAt[s] /\ e.quantity = Units[s]
          /\ e.ebay = IF SoldOn[s] = "ebay" THEN Units[s] ELSE 0
     /\ stage' = [stage EXCEPT ![s] = "decided"]
     /\ \E k \in WorkerLocals :
          /\ worker' = [worker EXCEPT ![w] = k]
          /\ k.pc = "idle" \/ (k.pc = "query" /\ k.sale = s)

Repaired ==
  /\ Fixers # {}
  /\ UNCHANGED <<events, ordered, poller>>
  /\ master'.ebaySold = master.ebaySold /\ master'.baseSeq = master.baseSeq

LEMMA PollOnSteps ==
  ASSUME Guarded, NEW p \in Pollers,
         FetchItem(p) \/ SkipReport(p) \/ ReadForReport(p) \/ ReportMismatch(p)
  PROVE  PollOn(p)
<1> DEFINE l == poller[p]
<1>1. /\ l \in PollerLocals /\ base \in Item /\ master \in Row
  BY DEF Guarded, Typed, TypeOK
<1>2. UNCHANGED <<world, stage, master, events, ordered, worker>>
  BY DEF FetchItem, SkipReport, ReadForReport, ReportMismatch
<1>3. l.pc # "event"
  BY DEF FetchItem, SkipReport, ReadForReport, ReportMismatch
<1>4. ASSUME NEW k \in PollerLocals, SetPoller(p, k), k.pc # "event",
             k.pc = "idle" \/ k.item = base \/ (l.pc # "idle" /\ k.item = l.item)
      PROVE  PollOn(p)
  BY <1>2, <1>3, <1>4 DEF PollOn, SetPoller
<1>5. IdlePoller \in PollerLocals /\ IdlePoller.pc = "idle"
  BY IdleTypes DEF IdlePoller
<1>6. CASE FetchItem(p)
  <2> DEFINE k == [IdlePoller EXCEPT !.pc = "read", !.item = base]
  <2>1. k \in PollerLocals
    BY <1>1, PollerUpdate
  <2>2. k.pc = "read" /\ k.item = base
    BY DEF IdlePoller
  <2>3. SetPoller(p, k)
    BY <1>6 DEF FetchItem
  <2> HIDE DEF k
  <2>4. QED
    BY <1>4, <2>1, <2>2, <2>3
<1>7. CASE SkipReport(p)
  BY <1>4, <1>5, <1>7 DEF SkipReport
<1>8. CASE ReadForReport(p)
  <2> DEFINE k == [l EXCEPT !.pc = "cas", !.seen = master]
  <2>1. k \in PollerLocals
    BY <1>1, PollerUpdate
  <2>2. k.pc = "cas" /\ k.item = l.item
    BY <1>1 DEF PollerLocals
  <2>3. SetPoller(p, k) /\ l.pc # "idle"
    BY <1>8 DEF ReadForReport
  <2> HIDE DEF k
  <2>4. QED
    BY <1>4, <2>1, <2>2, <2>3
<1>9. CASE ReportMismatch(p)
  <2> DEFINE k == [l EXCEPT !.pc = "read", !.attempt = l.attempt + 1]
  <2>1. k \in PollerLocals
    BY <1>1, PollerUpdate
  <2>2. k.pc = "read" /\ k.item = l.item
    BY <1>1 DEF PollerLocals
  <2>3. (SetPoller(p, k) \/ SetPoller(p, IdlePoller)) /\ l.pc # "idle"
    BY <1>9 DEF ReportMismatch
  <2> HIDE DEF k
  <2>4. QED
    BY <1>4, <1>5, <2>1, <2>2, <2>3
<1>10. QED
  BY <1>6, <1>7, <1>8, <1>9

LEMMA AppliedStep ==
  ASSUME Guarded, NEW p \in Pollers, ApplyReport(p)
  PROVE  Applied(p)
<1> DEFINE l == poller[p]
           k == [l EXCEPT !.pc = "event"]
<1>1. l \in PollerLocals /\ master \in Row
  BY DEF Guarded, Typed, TypeOK
<1>2. l.pc = "cas" /\ l.seen = master /\ ~StaleReport(master, l.item.modified)
  BY DEF ApplyReport, Guarded, VersionNamesRow, Checked
<1>3. /\ l.item.stock \in Nat /\ l.item.modified \in Nat /\ master.baseSeq \in Nat
  BY <1>1 DEF PollerLocals, Item, Row
<1>4. master' = AfterBaseReport(master, l.item.stock, l.item.modified)
  BY <1>2 DEF ApplyReport
<1>5. /\ master'.quantity = Arrived(l) /\ master'.ebaySold = 0
      /\ master'.baseSeq = l.item.modified
  <2>1. /\ master'.quantity = AtLeastZero(l.item.stock - master.ebaySold)
        /\ master'.ebaySold = 0 /\ master'.baseSeq = l.item.modified
    BY <1>1, <1>3, <1>4, ReportRow
  <2>2. QED
    BY <1>2, <2>1 DEF Arrived
<1>6. k \in PollerLocals /\ k.pc = "event" /\ k.seen = l.seen /\ k.item = l.item
  <2>1. k \in PollerLocals
    BY <1>1, PollerUpdate
  <2>2. k.pc = "event" /\ k.seen = l.seen /\ k.item = l.item
    BY <1>1 DEF PollerLocals
  <2>3. QED
    BY <2>1, <2>2
<1>7. poller' = [poller EXCEPT ![p] = k]
  BY DEF ApplyReport, SetPoller
<1>8. InOrder(l.item.modified) /\ UNCHANGED <<world, stage, events, worker>>
  BY DEF ApplyReport
<1>9. master.baseSeq = 0 \/ l.item.modified > master.baseSeq
  BY <1>2, <1>3 DEF StaleReport
<1> HIDE DEF k
<1>10. QED
  BY <1>2, <1>5, <1>6, <1>7, <1>8, <1>9 DEF Applied

LEMMA RecordedStep ==
  ASSUME Guarded, NEW p \in Pollers, RecordReport(p)
  PROVE  Recorded(p)
<1> DEFINE l == poller[p]
           row == AfterBaseReport(l.seen, l.item.stock, l.item.modified)
           e == [kind |-> "report", at |-> l.item.modified, quantity |-> row.quantity,
                 ebay |-> l.seen.ebaySold]
<1>1. l \in PollerLocals
  BY DEF Guarded, Typed, TypeOK
<1>2. /\ l.item.stock \in Nat /\ l.item.modified \in Nat /\ l.seen \in Row
      /\ l.seen.ebaySold \in Nat
  BY <1>1 DEF PollerLocals, Item, Row
<1>3. row.quantity = Arrived(l) /\ row.quantity \in Nat
  <2>1. row \in Row /\ row.quantity = AtLeastZero(l.item.stock - l.seen.ebaySold)
    BY <1>2, ReportRow
  <2>2. QED
    BY <2>1 DEF Arrived, Row
<1> HIDE DEF row
<1>4. e \in Event
  BY <1>2, <1>3 DEF Event
<1>5. events' = Append(events, e) /\ poller' = [poller EXCEPT ![p] = IdlePoller]
  BY DEF RecordReport, SetPoller, row
<1>6. UNCHANGED <<world, stage, master, ordered, worker>> /\ l.pc = "event"
  BY DEF RecordReport
<1>7. /\ e.kind = "report" /\ e.at = l.item.modified /\ e.quantity = Arrived(l)
      /\ e.ebay = l.seen.ebaySold
  BY <1>3
<1> HIDE DEF e
<1>8. IdlePoller \in PollerLocals /\ IdlePoller.pc = "idle"
  BY IdleTypes DEF IdlePoller
<1>9. QED
  BY <1>4, <1>5, <1>6, <1>7, <1>8 DEF Recorded

LEMMA CommittedStep ==
  ASSUME Guarded, NEW w \in Workers, CommitSale(w)
  PROVE  Committed(w)
<1> DEFINE l == worker[w]
           s == l.sale
           n == IF SoldOn[s] = "ebay" THEN Units[s] ELSE 0
           row == AfterSale(l.seen, SoldOn[s], Units[s])
           e == [kind |-> "sale", at |-> placedAt[s], quantity |-> Units[s], ebay |-> n]
           k == [IdleWorker EXCEPT !.pc = "query", !.sale = s, !.seen = row]
<1>1. l.pc = "cas" /\ l.seen = master /\ master \in Row /\ l \in WorkerLocals
  BY DEF CommitSale, Guarded, VersionNamesRow, Typed, TypeOK
<1>2. s \in Sales /\ Units[s] \in Nat /\ placedAt[s] \in Nat /\ n \in Nat
  BY <1>1, StockReportsAssumption DEF Guarded, Typed, TypeOK, Busy
<1>3. master' = AfterSale(master, SoldOn[s], Units[s])
  BY <1>1 DEF CommitSale
<1>4. row \in Row /\ master.ebaySold \in Nat
  BY <1>1, <1>2, SaleRow DEF Row
<1>5. /\ master'.quantity = AtLeastZero(master.quantity - Units[s])
      /\ master'.ebaySold = master.ebaySold + n
      /\ master'.baseSeq = master.baseSeq
  BY <1>1, <1>2, <1>3, <1>4, SaleRow
<1> HIDE DEF row
<1>6. k \in WorkerLocals /\ k.pc = "query" /\ k.sale = s
  <2>1. k \in WorkerLocals
    BY <1>1, <1>2, <1>4, WorkerUpdate
  <2>2. QED
    BY <2>1 DEF IdleWorker
<1>7. IdleWorker \in WorkerLocals /\ IdleWorker.pc = "idle"
  BY IdleTypes DEF IdleWorker
<1>8. worker' = [worker EXCEPT ![w] = k] \/ worker' = [worker EXCEPT ![w] = IdleWorker]
  BY DEF CommitSale, SetWorker, row
<1>9. /\ events' = Append(events, e) /\ InOrder(placedAt[s])
      /\ stage' = [stage EXCEPT ![s] = "decided"] /\ UNCHANGED <<world, poller>>
  BY DEF CommitSale
<1>10. e \in Event
  BY <1>2 DEF Event
<1>11. /\ e.kind = "sale" /\ e.at = placedAt[s] /\ e.quantity = Units[s] /\ e.ebay = n
  OBVIOUS
<1> HIDE DEF e, k
<1>12. \E j \in WorkerLocals : /\ worker' = [worker EXCEPT ![w] = j]
                               /\ j.pc = "idle" \/ (j.pc = "query" /\ j.sale = s)
  BY <1>6, <1>7, <1>8
<1>13. QED
  BY <1>1, <1>2, <1>5, <1>9, <1>10, <1>11, <1>12, Zenon DEF Committed

LEMMA LedgerSteps ==
  ASSUME NoPollDies, Guarded, [Next]_vars
  PROVE  \/ Elsewhere
         \/ \E p \in Pollers : PollOn(p) \/ Applied(p) \/ Recorded(p)
         \/ \E w \in Workers : Committed(w)
         \/ Repaired
<1>1. CASE UNCHANGED vars
  BY <1>1 DEF vars, Elsewhere
<1>2. CASE EditItem \/ \E s \in Sales : EbaySale(s) \/ BaseSale(s) \/ RefuseSale(s)
  BY <1>2 DEF EditItem, EbaySale, BaseSale, RefuseSale, Place, Elsewhere
<1>3. ASSUME NEW p \in Pollers,
             \/ FetchItem(p) \/ SkipReport(p) \/ ReadForReport(p) \/ ApplyReport(p)
             \/ ReportMismatch(p) \/ RecordReport(p)
      PROVE  PollOn(p) \/ Applied(p) \/ Recorded(p)
  BY <1>3, PollOnSteps, AppliedStep, RecordedStep
<1>4. ASSUME NEW w \in Workers,
             \/ \E s \in Sales : ReadForSale(w, s)
             \/ SaleMismatch(w) \/ ReadForBase(w) \/ TellBase(w) \/ DoNotTell(w)
      PROVE  Elsewhere
  BY <1>4 DEF ReadForSale, SaleMismatch, ReadForBase, TellBase, DoNotTell, Elsewhere
<1>5. ASSUME NEW f \in Fixers, ReadCounter(f) \/ ReadLedger(f) \/ ReadVersion(f) \/ RepairMismatch(f)
      PROVE  Elsewhere
  BY <1>5 DEF ReadCounter, ReadLedger, ReadVersion, RepairMismatch, Elsewhere
<1>6. ASSUME NEW f \in Fixers, WriteRepair(f) PROVE Repaired
  <2>1. master \in Row /\ fixer[f].target \in Nat
    BY DEF Guarded, Typed, TypeOK, FixerLocals
  <2>2. QED
    BY <1>6, <2>1, RepairRow DEF WriteRepair, Repaired
<1>7. SwitchedOn("crash") = {}
  BY DEF NoPollDies, SwitchedOn
<1>8. CASE Next
  BY <1>2, <1>3, <1>4, <1>5, <1>6, <1>7, <1>8, CommittedStep, Zenon DEF Next, SalesOn
<1>9. QED
  BY <1>1, <1>8

------------------------------------------------------------------------------
(***************************************************************************)
(* Every eBay unit is consumed once                                        *)
(***************************************************************************)

Books ==
  /\ IsFiniteSet(Recorders(poller))
  /\ EbayOf(events, "sale") =
       EbayOf(events, "report") + master.ebaySold + HeldBy(poller)

LEMMA InitBooks == Init => Books
<1> SUFFICES ASSUME Init PROVE Books
  OBVIOUS
<1>1. Recorders(poller) = {}
  BY DEF Init, Recorders, IdlePoller
<1>2. HeldBy(poller) = 0
  BY <1>1, UnitsNone DEF HeldBy
<1>3. OfKind(events, "sale") = {} /\ OfKind(events, "report") = {}
  BY DEF Init, OfKind
<1>4. EbayOf(events, "sale") = 0 /\ EbayOf(events, "report") = 0
  BY <1>3, UnitsNone DEF EbayOf
<1>5. master.ebaySold = 0
  BY DEF Init, NoRow
<1>6. QED
  BY <1>1, <1>2, <1>4, <1>5, FS_EmptySet DEF Books

LEMMA NextBooks ==
  ASSUME NoPollDies, Guarded, Books, [Next]_vars
  PROVE  Books'
<1>1. /\ events \in Seq(Event) /\ master.ebaySold \in Nat
      /\ poller \in [Pollers -> PollerLocals] /\ IsFiniteSet(Recorders(poller))
  BY DEF Guarded, Typed, TypeOK, Row, Books
<1>2. /\ EbayOf(events, "sale") \in Nat /\ EbayOf(events, "report") \in Nat
      /\ EbayOf(events, "sale") = EbayOf(events, "report") + master.ebaySold + HeldBy(poller)
  BY <1>1, LedgerFinite DEF Books
<1>3. CASE Elsewhere \/ Repaired
  BY <1>3 DEF Elsewhere, Repaired, Books
<1>4. ASSUME NEW p \in Pollers, PollOn(p) PROVE Books'
  <2>1. PICK k \in PollerLocals : poller' = [poller EXCEPT ![p] = k] /\ k.pc # "event"
    BY <1>4 DEF PollOn
  <2>2. IsFiniteSet(Recorders(poller')) /\ HeldBy(poller') = HeldBy(poller)
    <3>1. poller[p].pc # "event"
      BY <1>4 DEF PollOn
    <3>2. PollMoves(poller, p, k, poller')
      BY <1>1, <2>1 DEF PollMoves
    <3>3. QED
      BY <2>1, <3>1, <3>2, HeldUnits
  <2>3. QED
    BY <1>2, <1>4, <2>2 DEF PollOn, Books
<1>5. ASSUME NEW p \in Pollers, Applied(p) PROVE Books'
  <2>1. PICK k \in PollerLocals :
          poller' = [poller EXCEPT ![p] = k] /\ k.pc = "event" /\ k.seen = master
    BY <1>5 DEF Applied
  <2>2. /\ IsFiniteSet(Recorders(poller')) /\ HeldBy(poller) \in Nat
        /\ HeldBy(poller') = HeldBy(poller) + master.ebaySold
    <3>1. poller[p].pc # "event"
      BY <1>5 DEF Applied
    <3>2. PollMoves(poller, p, k, poller')
      BY <1>1, <2>1 DEF PollMoves
    <3>3. QED
      BY <2>1, <3>1, <3>2, HeldUnits
  <2>3. master'.ebaySold = 0 /\ events' = events
    BY <1>5 DEF Applied
  <2>4. QED
    BY <1>1, <1>2, <2>2, <2>3 DEF Books
<1>6. ASSUME NEW p \in Pollers, Recorded(p) PROVE Books'
  <2>1. PICK k \in PollerLocals : k.pc = "idle" /\ poller' = [poller EXCEPT ![p] = k]
    BY <1>6 DEF Recorded
  <2>2. PICK e \in Event : /\ events' = Append(events, e) /\ e.kind = "report"
                           /\ e.ebay = poller[p].seen.ebaySold
    BY <1>6 DEF Recorded
  <2>3. poller[p].pc = "event" /\ master' = master
    BY <1>6 DEF Recorded
  <2>4. poller' \in [Pollers -> PollerLocals]
    BY <1>1, <2>1
  <2>5. /\ IsFiniteSet(Recorders(poller'))
        /\ HeldBy(poller) = HeldBy(poller') + e.ebay
    <3>1. PollMoves(poller, p, k, poller')
      BY <1>1, <2>1 DEF PollMoves
    <3>2. QED
      BY <2>1, <2>2, <2>3, <3>1, HeldUnits
  <2>6. HeldBy(poller') \in Nat
    <3>1. [o \in Recorders(poller') |-> (poller')[o].seen.ebaySold] \in [Recorders(poller') -> Nat]
      BY <2>4 DEF Recorders, PollerLocals, Row
    <3>2. QED
      BY <2>5, <3>1, UnitsFinite DEF HeldBy
  <2>7. /\ EbayOf(events', "report") = EbayOf(events, "report") + e.ebay
        /\ EbayOf(events', "sale") = EbayOf(events, "sale")
    BY <1>1, <2>2, EntryUnits
  <2>8. e.ebay \in Nat
    BY DEF Event
  <2>9. QED
    BY <1>1, <1>2, <2>3, <2>5, <2>6, <2>7, <2>8 DEF Books
<1>7. ASSUME NEW w \in Workers, Committed(w) PROVE Books'
  <2>1. PICK e \in Event : /\ events' = Append(events, e) /\ e.kind = "sale"
                           /\ master'.ebaySold = master.ebaySold + e.ebay
    BY <1>7 DEF Committed
  <2>2. poller' = poller
    BY <1>7 DEF Committed
  <2>3. /\ EbayOf(events', "sale") = EbayOf(events, "sale") + e.ebay
        /\ EbayOf(events', "report") = EbayOf(events, "report")
    BY <1>1, <2>1, EntryUnits
  <2>4. e.ebay \in Nat /\ HeldBy(poller) \in Nat
    <3>1. [p \in Recorders(poller) |-> poller[p].seen.ebaySold] \in [Recorders(poller) -> Nat]
      BY <1>1 DEF Recorders, PollerLocals, Row
    <3>2. QED
      BY <1>1, <3>1, UnitsFinite DEF HeldBy, Event
  <2>5. QED
    BY <1>1, <1>2, <2>1, <2>2, <2>3, <2>4 DEF Books
<1>8. QED
  BY <1>3, <1>4, <1>5, <1>6, <1>7, LedgerSteps

\* While no poll dies, every eBay unit sold is taken out of exactly one BASE report or
\* still waits for the next, however reports, sales and repairs meet (the accumulator
\* ebaySoldSinceBaseSync of applySale and applyBaseStockReport).
THEOREM EbayUnitsConsumedOnceHolds ==
  ASSUME NoPollDies
  PROVE  Spec => []EbayUnitsConsumedOnce
<1>1. Init => Guarded /\ Books
  BY InitGuarded, InitBooks
<1>2. Guarded /\ Books /\ [Next]_vars => Guarded' /\ Books'
  BY NextGuarded, NextBooks
<1>3. Books => EbayUnitsConsumedOnce
  BY DEF Books, EbayUnitsConsumedOnce, EbayUnits, EventsOf, EbayOf, OfKind, HeldBy, Recorders,
         Recording
<1>4. QED
  BY <1>1, <1>2, <1>3, PTL DEF Spec

------------------------------------------------------------------------------
(***************************************************************************)
(* The reports come in BASE's order: no two have one time, none is newer   *)
(* than the row, and the newest is in the ledger or about to be.           *)
(***************************************************************************)

Reports == OfKind(events, "report")
ReportTime(p) == poller[p].item.modified

Newest(t) == \/ \E i \in Reports : events[i].at = t
             \/ \E p \in Recorders(poller) : ReportTime(p) = t

ReportOrder ==
  /\ master.baseSeq >= 1
  /\ \A i, j \in Reports : events[i].at = events[j].at => i = j
  /\ \A p \in Recorders(poller), i \in Reports : events[i].at # ReportTime(p)
  /\ \A p, q \in Recorders(poller) : ReportTime(p) = ReportTime(q) => p = q
  /\ \A i \in Reports : events[i].at <= master.baseSeq
  /\ \A p \in Recorders(poller) : ReportTime(p) <= master.baseSeq
  /\ Reports # {} \/ Recorders(poller) # {} => Newest(master.baseSeq)

LEMMA Times ==
  ASSUME Guarded
  PROVE  /\ master.baseSeq \in Nat /\ master.quantity \in Nat /\ master.ebaySold \in Nat
         /\ \A p \in Pollers : ReportTime(p) \in Nat
         /\ \A p \in Pollers : Arrived(poller[p]) \in Nat
         /\ \A i \in DOMAIN events :
              events[i].at \in Nat /\ events[i].quantity \in Nat /\ events[i].ebay \in Nat
         /\ events \in Seq(Event) /\ poller \in [Pollers -> PollerLocals]
         /\ Reports \subseteq DOMAIN events /\ Recorders(poller) \subseteq Pollers
<1>1. events \in Seq(Event) /\ poller \in [Pollers -> PollerLocals] /\ master \in Row
  BY DEF Guarded, Typed, TypeOK
<1>2. \A i \in DOMAIN events : events[i] \in Event
  BY <1>1
<1>3. QED
  BY <1>1, <1>2, ClampType
     DEF Row, PollerLocals, Item, Event, ReportTime, Arrived, Reports, OfKind, Recorders

\* The polls that owe an entry, after each kind of step.
LEMMA RecordersStep ==
  ASSUME Guarded, NEW p \in Pollers, NEW k \in PollerLocals, poller' = [poller EXCEPT ![p] = k]
  PROVE  /\ \A q \in Pollers \ {p} : poller'[q] = poller[q]
         /\ poller'[p] = k
         /\ Recorders(poller)' = IF k.pc = "event" THEN Recorders(poller) \cup {p}
                                                   ELSE Recorders(poller) \ {p}
<1>1. poller \in [Pollers -> PollerLocals]
  BY Times
<1>2. poller'[p] = k /\ \A q \in Pollers \ {p} : poller'[q] = poller[q]
  BY <1>1
<1>3. QED
  BY <1>2 DEF Recorders

LEMMA InitReportOrder == Init => ReportOrder
BY DEF Init, ReportOrder, Reports, OfKind, Recorders, IdlePoller, NoRow

LEMMA NextReportOrder ==
  ASSUME NoPollDies, Guarded, ReportOrder, [Next]_vars
  PROVE  ReportOrder'
<1>1. CASE Elsewhere \/ Repaired
  BY <1>1 DEF Elsewhere, Repaired, ReportOrder, Reports, ReportTime, Newest
<1>2. ASSUME NEW p \in Pollers, PollOn(p) PROVE ReportOrder'
  <2>1. PICK k \in PollerLocals : poller' = [poller EXCEPT ![p] = k] /\ k.pc # "event"
    BY <1>2 DEF PollOn
  <2>2. p \notin Recorders(poller) /\ UNCHANGED <<master, events>>
    BY <1>2 DEF PollOn, Recorders
  <2>3. /\ Recorders(poller)' = Recorders(poller)
        /\ \A q \in Recorders(poller) : ReportTime(q)' = ReportTime(q)
    <3>1. /\ \A q \in Pollers \ {p} : poller'[q] = poller[q]
          /\ Recorders(poller)' = Recorders(poller) \ {p}
      BY <2>1, RecordersStep
    <3>2. QED
      BY <2>2, <3>1 DEF ReportTime, Recorders
  <2>4. Reports' = Reports
    BY <2>2 DEF Reports
  <2>5. QED
    BY <2>2, <2>3, <2>4 DEF ReportOrder, Newest
<1>3. ASSUME NEW p \in Pollers, Applied(p) PROVE ReportOrder'
  <2>1. PICK k \in PollerLocals :
          poller' = [poller EXCEPT ![p] = k] /\ k.pc = "event" /\ k.item = poller[p].item
    BY <1>3 DEF Applied
  <2> DEFINE t == ReportTime(p)
  <2>2. p \notin Recorders(poller) /\ events' = events /\ master'.baseSeq = t
    BY <1>3 DEF Applied, Recorders, ReportTime
  <2>3. t \in Nat /\ master.baseSeq \in Nat /\ t > master.baseSeq
    BY <1>3, Times DEF Applied, ReportOrder, ReportTime
  <2>4. /\ Recorders(poller)' = Recorders(poller) \cup {p}
        /\ \A q \in Recorders(poller) : ReportTime(q)' = ReportTime(q)
        /\ ReportTime(p)' = t
    BY <2>1, <2>2, RecordersStep, Times DEF ReportTime
  <2>5. Reports' = Reports
    BY <2>2 DEF Reports
  <2>6. /\ \A q \in Recorders(poller) : ReportTime(q) \in Nat /\ ReportTime(q) <= master.baseSeq
        /\ \A i \in Reports : events[i].at \in Nat /\ events[i].at <= master.baseSeq
    BY Times DEF ReportOrder
  <2> HIDE DEF t
  <2>7. /\ \A q \in Recorders(poller) : ReportTime(q) < t
        /\ \A i \in Reports : events[i].at < t
        /\ \A q \in Recorders(poller) : ReportTime(q) # t /\ ReportTime(q) <= t
        /\ \A i \in Reports : events[i].at # t /\ events[i].at <= t
    BY <2>3, <2>6
  <2>8. t >= 1 /\ t <= t
    BY <2>3
  <2>9. QED
    BY <2>2, <2>4, <2>5, <2>7, <2>8 DEF ReportOrder, Newest
<1>4. ASSUME NEW p \in Pollers, Recorded(p) PROVE ReportOrder'
  <2>1. PICK k \in PollerLocals : k.pc = "idle" /\ poller' = [poller EXCEPT ![p] = k]
    BY <1>4 DEF Recorded
  <2>2. PICK e \in Event : /\ events' = Append(events, e) /\ e.kind = "report"
                           /\ e.at = ReportTime(p)
    BY <1>4 DEF Recorded, ReportTime
  <2>3. p \in Recorders(poller) /\ master' = master
    BY <1>4 DEF Recorded, Recorders
  <2>4. /\ Recorders(poller)' = Recorders(poller) \ {p}
        /\ \A q \in Recorders(poller) \ {p} : ReportTime(q)' = ReportTime(q)
    BY <2>1, RecordersStep, Times DEF ReportTime
  <2> DEFINE n == Len(events) + 1
  <2>5. /\ Reports' = Reports \cup {n} /\ n \notin Reports
        /\ events'[n].at = ReportTime(p)
        /\ \A i \in Reports : events'[i] = events[i]
    <3>1. events \in Seq(Event) /\ Reports \subseteq DOMAIN events
      BY Times
    <3>2. /\ n \notin DOMAIN events /\ events'[n] = e
          /\ \A i \in DOMAIN events : events'[i] = events[i]
          /\ OfKind(events', "report") = OfKind(events, "report") \cup {n}
      BY <2>2, <3>1, OneEntryMore
    <3>3. QED
      BY <2>2, <3>1, <3>2 DEF Reports
  <2> HIDE DEF n
  <2>6. QED
    BY <2>3, <2>4, <2>5 DEF ReportOrder, Newest
<1>5. ASSUME NEW w \in Workers, Committed(w) PROVE ReportOrder'
  <2>1. PICK e \in Event : events' = Append(events, e) /\ e.kind = "sale"
    BY <1>5 DEF Committed
  <2>2. poller' = poller /\ master'.baseSeq = master.baseSeq
    BY <1>5 DEF Committed
  <2>3. Reports' = Reports /\ \A i \in Reports : events'[i] = events[i]
    BY <2>1, OneEntryMore, Times DEF Reports
  <2>4. Recorders(poller)' = Recorders(poller) /\ \A q : ReportTime(q)' = ReportTime(q)
    BY <2>2 DEF ReportTime
  <2>5. QED
    BY <2>2, <2>3, <2>4 DEF ReportOrder, Newest
<1>6. QED
  BY <1>1, <1>2, <1>3, <1>4, <1>5, LedgerSteps

------------------------------------------------------------------------------
(***************************************************************************)
(* The ledger replays to the counter                                       *)
(***************************************************************************)

\* The sales of a ledger after a time, and their units.
After(ledger, t) == {i \in OfKind(ledger, "sale") : ledger[i].at > t}
SoldAfter(ledger, t) == UnitsOf([i \in After(ledger, t) |-> ledger[i].quantity])

LEMMA SoldAfterType ==
  ASSUME NEW ledger \in Seq(Event), NEW t
  PROVE  IsFiniteSet(After(ledger, t)) /\ SoldAfter(ledger, t) \in Nat
<1>1. IsFiniteSet(After(ledger, t)) /\ \A i \in After(ledger, t) : ledger[i].quantity \in Nat
  BY LedgerFinite, FS_Subset DEF After
<1>2. [i \in After(ledger, t) |-> ledger[i].quantity] \in [After(ledger, t) -> Nat]
  BY <1>1
<1>3. QED
  BY <1>1, <1>2, UnitsFinite DEF SoldAfter

LEMMA SoldAfterSale ==
  ASSUME NEW ledger \in Seq(Event), NEW e \in Event, NEW t, e.kind = "sale", e.at > t
  PROVE  SoldAfter(Append(ledger, e), t) = SoldAfter(ledger, t) + e.quantity
<1> DEFINE new == Append(ledger, e)
           n == Len(ledger) + 1
           S == After(ledger, t)
           q == [i \in S |-> ledger[i].quantity]
           r == [i \in S \cup {n} |-> new[i].quantity]
<1>1. /\ n \notin DOMAIN ledger
      /\ \A i \in DOMAIN ledger : new[i] = ledger[i]
      /\ new[n] = e
      /\ OfKind(new, "sale") = OfKind(ledger, "sale") \cup {n}
  BY OneEntryMore
<1>2. OfKind(ledger, "sale") \subseteq DOMAIN ledger
  BY DEF OfKind
<1>3. IsFiniteSet(S)
  BY SoldAfterType
<1>4. \A i \in S : ledger[i].quantity \in Nat
  BY LedgerFinite DEF After
<1> HIDE DEF new, n
<1>5. After(new, t) = S \cup {n} /\ n \notin S /\ \A i \in S : new[i] = ledger[i]
  BY <1>1, <1>2 DEF After
<1>6. e.quantity \in Nat
  BY DEF Event
<1> HIDE DEF S
<1>7. /\ q \in [S -> Nat] /\ r \in [S \cup {n} -> Nat] /\ r[n] = e.quantity
      /\ \A i \in S : r[i] = q[i]
  BY <1>1, <1>5, <1>6, <1>4
<1>8. UnitsOf(r) = UnitsOf(q) + r[n]
  <2>1. DOMAIN q = S
    OBVIOUS
  <2> HIDE DEF q, r
  <2>2. Adds(q, n, r)
    BY <1>3, <1>5, <1>7, <2>1 DEF Adds
  <2>3. QED
    BY <2>2, UnitsMore
<1> HIDE DEF q, r
<1>9. SoldAfter(new, t) = UnitsOf(r) /\ SoldAfter(ledger, t) = UnitsOf(q)
  BY <1>5 DEF SoldAfter, q, r, S
<1>10. QED
  BY <1>7, <1>8, <1>9 DEF new

LEMMA SoldAfterReport ==
  ASSUME NEW ledger \in Seq(Event), NEW e \in Event, NEW t, e.kind = "report"
  PROVE  SoldAfter(Append(ledger, e), t) = SoldAfter(ledger, t)
<1> DEFINE new == Append(ledger, e)
<1>1. /\ \A i \in DOMAIN ledger : new[i] = ledger[i]
      /\ OfKind(new, "sale") = OfKind(ledger, "sale")
  BY OneEntryMore
<1>2. OfKind(ledger, "sale") \subseteq DOMAIN ledger
  BY DEF OfKind
<1> HIDE DEF new
<1>3. After(new, t) = After(ledger, t) /\ \A i \in After(ledger, t) : new[i] = ledger[i]
  BY <1>1, <1>2 DEF After
<1>4. [i \in After(new, t) |-> new[i].quantity] = [i \in After(ledger, t) |-> ledger[i].quantity]
  BY <1>3
<1>5. QED
  BY <1>4 DEF SoldAfter, new

LEMMA SoldAfterNone ==
  ASSUME NEW ledger, NEW t, After(ledger, t) = {}
  PROVE  SoldAfter(ledger, t) = 0
BY UnitsNone DEF SoldAfter

\* As long as the writes came in the order of their times, the row is what the newest
\* report arrived at less the sales after it, and no sale has a report's time.
Orderly ==
  ordered =>
    /\ \A i \in OfKind(events, "sale") :
         /\ \A j \in Reports : events[i].at # events[j].at
         /\ \A p \in Recorders(poller) : events[i].at # ReportTime(p)
    /\ \A i \in Reports : events[i].at = master.baseSeq =>
         master.quantity = AtLeastZero(events[i].quantity - SoldAfter(events, master.baseSeq))
    /\ \A p \in Recorders(poller) : ReportTime(p) = master.baseSeq =>
         master.quantity = AtLeastZero(Arrived(poller[p]) - SoldAfter(events, master.baseSeq))

LEMMA InitOrderly == Init => Orderly
BY DEF Init, Orderly, Reports, OfKind, Recorders, IdlePoller

LEMMA Clamped ==
  /\ \A x \in Nat : AtLeastZero(x - 0) = x
  /\ \A x \in Nat, m, n \in Nat :
       AtLeastZero(AtLeastZero(x - m) - n) = AtLeastZero(x - (m + n))
BY DEF AtLeastZero

LEMMA NextOrderly ==
  ASSUME NoPollDies, Fixers = {}, Guarded, ReportOrder, Orderly, [Next]_vars
  PROVE  Orderly'
<1> DEFINE Sold == OfKind(events, "sale")
<1>1. /\ events \in Seq(Event) /\ Sold \subseteq DOMAIN events
      /\ SoldAfter(events, master.baseSeq) \in Nat
  BY Times, SoldAfterType DEF OfKind
<1>2. CASE Elsewhere
  BY <1>2 DEF Elsewhere, Orderly, Reports, ReportTime
<1>3. ASSUME NEW p \in Pollers, PollOn(p) PROVE Orderly'
  <2>1. PICK k \in PollerLocals : poller' = [poller EXCEPT ![p] = k] /\ k.pc # "event"
    BY <1>3 DEF PollOn
  <2>2. p \notin Recorders(poller) /\ UNCHANGED <<master, events, ordered>>
    BY <1>3 DEF PollOn, Recorders
  <2>3. /\ Recorders(poller)' = Recorders(poller)
        /\ \A q \in Recorders(poller) : poller'[q] = poller[q] /\ ReportTime(q)' = ReportTime(q)
    <3>1. /\ \A q \in Pollers \ {p} : poller'[q] = poller[q]
          /\ Recorders(poller)' = Recorders(poller) \ {p}
      BY <2>1, RecordersStep
    <3>2. QED
      BY <2>2, <3>1 DEF ReportTime, Recorders
  <2>4. Reports' = Reports
    BY <2>2 DEF Reports
  <2>5. QED
    BY <2>2, <2>3, <2>4 DEF Orderly
<1>4. ASSUME NEW p \in Pollers, Applied(p), ordered' PROVE Orderly'
  <2>1. PICK k \in PollerLocals :
          /\ poller' = [poller EXCEPT ![p] = k] /\ k.pc = "event"
          /\ k.seen = poller[p].seen /\ k.item = poller[p].item
    BY <1>4 DEF Applied
  <2> DEFINE t == ReportTime(p)
  <2>2. /\ p \notin Recorders(poller) /\ events' = events /\ master'.baseSeq = t
        /\ master'.quantity = Arrived(poller[p])
    BY <1>4 DEF Applied, Recorders, ReportTime
  <2>3. /\ Recorders(poller)' = Recorders(poller) \cup {p}
        /\ \A q \in Recorders(poller) : ReportTime(q)' = ReportTime(q)
        /\ ReportTime(p)' = t /\ Arrived(poller[p])' = Arrived(poller[p])
    BY <2>1, <2>2, RecordersStep, Times DEF ReportTime, Arrived
  <2>4. Reports' = Reports
    BY <2>2 DEF Reports
  <2>5. ordered /\ \A u \in Written : u < t
    BY <1>4 DEF Applied, InOrder, ReportTime
  <2>6. /\ \A i \in DOMAIN events : events[i].at < t /\ events[i].at \in Nat
        /\ \A q \in Recorders(poller) : ReportTime(q) < t /\ ReportTime(q) \in Nat
        /\ t \in Nat
    BY <2>5, Times DEF Written, Recorders, ReportTime
  <2> HIDE DEF t
  <2>7. After(events, t) = {}
    BY <1>1, <2>6 DEF After
  <2>8. SoldAfter(events, t) = 0
    BY <2>7, SoldAfterNone
  <2>9. Arrived(poller[p]) \in Nat
    BY Times
  <2>10. Arrived(poller[p]) = AtLeastZero(Arrived(poller[p]) - SoldAfter(events, t))
    BY <2>8, <2>9, Clamped
  <2>11. /\ \A i \in DOMAIN events : events[i].at # t
         /\ \A q \in Recorders(poller) : ReportTime(q) # t
    BY <2>6
  <2>12. Reports \subseteq DOMAIN events
    BY Times
  <2>13. \A i \in Sold : \A q \in Recorders(poller) \cup {p} : events[i].at # ReportTime(q)'
    BY <1>1, <2>3, <2>5, <2>11 DEF Orderly
  <2>14. \A q \in Recorders(poller) \cup {p} : ReportTime(q)' = t => q = p
    BY <2>3, <2>11
  <2>15. QED
    BY <2>2, <2>3, <2>4, <2>5, <2>10, <2>11, <2>12, <2>13, <2>14 DEF Orderly
<1>5. ASSUME NEW p \in Pollers, Recorded(p) PROVE Orderly'
  <2>1. PICK k \in PollerLocals : k.pc = "idle" /\ poller' = [poller EXCEPT ![p] = k]
    BY <1>5 DEF Recorded
  <2>2. PICK e \in Event : /\ events' = Append(events, e) /\ e.kind = "report"
                           /\ e.at = ReportTime(p) /\ e.quantity = Arrived(poller[p])
    BY <1>5 DEF Recorded, ReportTime
  <2>3. p \in Recorders(poller) /\ master' = master /\ ordered' = ordered
    BY <1>5 DEF Recorded, Recorders
  <2>4. /\ Recorders(poller)' = Recorders(poller) \ {p}
        /\ \A q \in Recorders(poller) \ {p} :
             poller'[q] = poller[q] /\ ReportTime(q)' = ReportTime(q)
    BY <2>1, RecordersStep, Times DEF ReportTime
  <2> DEFINE n == Len(events) + 1
  <2>5. /\ Reports' = Reports \cup {n}
        /\ events'[n].at = ReportTime(p) /\ events'[n].quantity = Arrived(poller[p])
        /\ \A i \in DOMAIN events : events'[i] = events[i]
        /\ OfKind(events, "sale")' = Sold
    <3>1. events \in Seq(Event)
      BY Times
    <3>2. /\ events'[n] = e
          /\ \A i \in DOMAIN events : events'[i] = events[i]
          /\ OfKind(events', "report") = OfKind(events, "report") \cup {n}
          /\ OfKind(events', "sale") = OfKind(events, "sale")
      BY <2>2, <3>1, OneEntryMore
    <3>3. QED
      BY <2>2, <3>2 DEF Reports
  <2>6. \A t : SoldAfter(events', t) = SoldAfter(events, t)
    BY <1>1, <2>2, SoldAfterReport
  <2>7. Reports \subseteq DOMAIN events
    BY Times
  <2> HIDE DEF n, Sold
  <2>8. QED
    BY <1>1, <2>3, <2>4, <2>5, <2>6, <2>7 DEF Orderly, Sold
<1>6. ASSUME NEW w \in Workers, Committed(w), ordered' PROVE Orderly'
  <2> DEFINE s == worker[w].sale
             t == placedAt[s]
  <2>1. PICK e \in Event : /\ events' = Append(events, e) /\ e.kind = "sale"
                           /\ e.at = t /\ e.quantity = Units[s]
    BY <1>6 DEF Committed
  <2>2. /\ poller' = poller /\ master'.baseSeq = master.baseSeq
        /\ master'.quantity = AtLeastZero(master.quantity - e.quantity)
        /\ ordered /\ \A u \in Written : u < t
    BY <1>6, <2>1 DEF Committed, InOrder
  <2> DEFINE n == Len(events) + 1
  <2>3. /\ Reports' = Reports
        /\ events'[n].at = e.at
        /\ \A i \in DOMAIN events : events'[i] = events[i]
        /\ OfKind(events, "sale")' = Sold \cup {n}
    <3>1. events \in Seq(Event)
      BY Times
    <3>2. /\ events'[n] = e
          /\ \A i \in DOMAIN events : events'[i] = events[i]
          /\ OfKind(events', "report") = OfKind(events, "report")
          /\ OfKind(events', "sale") = OfKind(events, "sale") \cup {n}
      BY <2>1, <3>1, OneEntryMore
    <3>3. QED
      BY <3>2 DEF Reports
  <2>4. Recorders(poller)' = Recorders(poller) /\ \A q : ReportTime(q)' = ReportTime(q)
    BY <2>2 DEF ReportTime
  <2>5. /\ \A i \in DOMAIN events : events[i].at < e.at /\ events[i].at \in Nat
        /\ \A q \in Recorders(poller) : ReportTime(q) < e.at /\ ReportTime(q) \in Nat
        /\ master.baseSeq < e.at /\ e.at \in Nat /\ master.baseSeq \in Nat
    BY <2>1, <2>2, Times DEF Written, Recorders, ReportTime, Event
  <2>6. /\ \A i \in DOMAIN events : events[i].at # e.at
        /\ \A q \in Recorders(poller) : ReportTime(q) # e.at
        /\ e.at > master.baseSeq
    BY <2>5
  <2>7. SoldAfter(events', master.baseSeq) = SoldAfter(events, master.baseSeq) + e.quantity
    BY <1>1, <2>1, <2>6, SoldAfterSale
  <2>8. e.quantity \in Nat
    BY DEF Event
  <2>9. ASSUME NEW x \in Nat,
               master.quantity = AtLeastZero(x - SoldAfter(events, master.baseSeq))
        PROVE  master'.quantity = AtLeastZero(x - SoldAfter(events', master.baseSeq))
    <3> DEFINE m == SoldAfter(events, master.baseSeq)
               u == e.quantity
    <3>1. m \in Nat /\ u \in Nat
      BY <1>1, <2>8
    <3>2. master'.quantity = AtLeastZero(AtLeastZero(x - m) - u)
      BY <2>2, <2>9
    <3>3. SoldAfter(events', master.baseSeq) = m + u
      BY <2>7
    <3> HIDE DEF m, u
    <3>4. AtLeastZero(AtLeastZero(x - m) - u) = AtLeastZero(x - (m + u))
      BY <3>1, Clamped
    <3>5. QED
      BY <3>2, <3>3, <3>4
  <2>10. /\ Reports \subseteq DOMAIN events
         /\ \A i \in Reports : events[i].quantity \in Nat
         /\ \A p \in Recorders(poller) : Arrived(poller[p]) \in Nat
    BY Times
  <2> HIDE DEF n, Sold, s, t
  <2>11. ASSUME NEW i \in Sold \cup {n}
         PROVE  /\ \A j \in Reports : events'[i].at # events'[j].at
                /\ \A p \in Recorders(poller) : events'[i].at # ReportTime(p)
    <3>1. CASE i \in Sold
      BY <1>1, <2>2, <2>3, <2>10, <3>1 DEF Orderly, Sold
    <3>2. CASE i = n
      BY <2>3, <2>6, <2>10, <3>2
    <3>3. QED
      BY <3>1, <3>2
  <2>12. ASSUME NEW i \in Reports, events'[i].at = master.baseSeq
         PROVE  master'.quantity = AtLeastZero(events'[i].quantity - SoldAfter(events', master.baseSeq))
    BY <2>2, <2>3, <2>9, <2>10, <2>12 DEF Orderly
  <2>13. ASSUME NEW p \in Recorders(poller), ReportTime(p) = master.baseSeq
         PROVE  master'.quantity = AtLeastZero(Arrived(poller[p]) - SoldAfter(events', master.baseSeq))
    BY <2>2, <2>9, <2>10, <2>13 DEF Orderly
  <2>14. QED
    BY <2>2, <2>3, <2>4, <2>11, <2>12, <2>13 DEF Orderly
<1>7. ~ordered' => Orderly'
  BY DEF Orderly
<1>8. ~Repaired
  BY DEF Repaired
<1>9. QED
  BY <1>2, <1>3, <1>4, <1>5, <1>6, <1>7, <1>8, LedgerSteps

\* The newest report is the one the replay starts from, and it takes off what came after.
LEMMA OrderlyReplays ==
  ASSUME Guarded, ReportOrder, Orderly
  PROVE  OrderedLedgerReplays
<1> SUFFICES ASSUME ordered, Recording = {}, EventsOf("report") # {}
             PROVE  Replay(events) = master.quantity
  BY DEF OrderedLedgerReplays
<1> DEFINE Before(i, j) == \/ events[i].at < events[j].at
                           \/ events[i].at = events[j].at /\ i < j
           last == CHOOSE i \in Reports : \A j \in Reports \ {i} : Before(j, i)
           later == {i \in DOMAIN events \ Reports : Reports = {} \/ Before(last, i)}
<1>1. /\ Reports # {} /\ Recorders(poller) = {}
      /\ Reports = {i \in DOMAIN events : events[i].kind = "report"}
  BY DEF Reports, OfKind, EventsOf, Recording, Recorders
<1>2. PICK o \in Reports : events[o].at = master.baseSeq
  BY <1>1 DEF ReportOrder, Newest
<1>3. ASSUME NEW j \in Reports, j # o PROVE events[j].at < events[o].at
  BY <1>2, <1>3, Times DEF ReportOrder
<1>4. ASSUME NEW i \in Reports, \A j \in Reports \ {i} : Before(j, i) PROVE i = o
  BY <1>2, <1>3, <1>4, Times
<1>5. \A j \in Reports \ {o} : Before(j, o)
  BY <1>3
<1>6. last = o
  BY <1>4, <1>5
<1>7. later = After(events, master.baseSeq)
  <2>1. ASSUME NEW i \in DOMAIN events
        PROVE  i \notin Reports <=> i \in OfKind(events, "sale")
    <3>1. events[i] \in Event
      BY Times
    <3>2. QED
      BY <1>1, <3>1 DEF Event, OfKind
  <2>2. ASSUME NEW i \in OfKind(events, "sale")
        PROVE  Before(o, i) <=> events[i].at > master.baseSeq
    <3>1. events[i].at # events[o].at /\ i \in DOMAIN events
      BY DEF Orderly, OfKind
    <3>2. events[i].at \in Nat /\ events[o].at \in Nat
      BY <3>1, Times
    <3>3. QED
      BY <1>2, <3>1, <3>2
  <2>3. OfKind(events, "sale") \subseteq DOMAIN events
    BY DEF OfKind
  <2> HIDE DEF Before, last
  <2>4. QED
    BY <1>1, <1>6, <2>1, <2>2, <2>3 DEF After
<1>8. Replay(events) =
        AtLeastZero(events[last].quantity - UnitsOf([i \in later |-> events[i].quantity]))
  BY <1>1 DEF Replay
<1> HIDE DEF last, later
<1>9. Replay(events) = AtLeastZero(events[o].quantity - SoldAfter(events, master.baseSeq))
  BY <1>6, <1>7, <1>8 DEF SoldAfter
<1>10. QED
  BY <1>2, <1>9 DEF Orderly

\* While no poll dies and nobody repairs, whatever else overlaps: as long as the writes
\* came in the order of the marketplaces' times, replaying the ledger gives the counter
\* (reconstructInventory's promise).
THEOREM OrderedLedgerReplaysHolds ==
  ASSUME NoPollDies, Fixers = {}
  PROVE  Spec => []OrderedLedgerReplays
<1> DEFINE Inv == Guarded /\ ReportOrder /\ Orderly
<1>1. Init => Inv
  BY InitGuarded, InitReportOrder, InitOrderly
<1>2. Inv /\ [Next]_vars => Inv'
  BY NextGuarded, NextReportOrder, NextOrderly
<1>3. Inv => OrderedLedgerReplays
  BY OrderlyReplays
<1> HIDE DEF Inv
<1>4. QED
  BY <1>1, <1>2, <1>3, PTL DEF Spec

------------------------------------------------------------------------------
(***************************************************************************)
(* What the counter is off by, when BASE never hears of the eBay sales     *)
(***************************************************************************)

\* BASE is isolated, its timestamps differ, no poll dies, nobody repairs, and every sale
\* is eBay's; the merchant edits and restocks at will.
EbayUnheard ==
  /\ Environment \cap {"told", "crash", "same_second"} = {}
  /\ Fixers = {}
  /\ \A s \in Sales : SoldOn[s] = "ebay"

Placed(st) == {s \in Sales : st[s] # "none"}
Decided(st) == {s \in Sales : st[s] = "decided"}
SoldUnits(set) == UnitsOf([s \in set |-> Units[s]])

\* Fewer sales have no more units.
LEMMA SoldSubset ==
  ASSUME NEW Y, Y \subseteq Sales, IsFiniteSet(Y), NEW X, X \subseteq Y
  PROVE  IsFiniteSet(X) /\ SoldUnits(X) \in Nat /\ SoldUnits(Y) \in Nat
         /\ SoldUnits(X) <= SoldUnits(Y)
<1> DEFINE A == UNION {{s} \X (1..Units[s]) : s \in X}
           B == UNION {{s} \X (1..Units[s]) : s \in Y}
           q == [s \in X |-> Units[s]]
           r == [s \in Y |-> Units[s]]
<1>1. IsFiniteSet(X)
  BY FS_Subset
<1>2. q \in [X -> Nat] /\ r \in [Y -> Nat]
  BY StockReportsAssumption
<1>3. A = UNION {{s} \X (1..q[s]) : s \in X} /\ B = UNION {{s} \X (1..r[s]) : s \in Y}
  OBVIOUS
<1>4. A \subseteq B
  OBVIOUS
<1> HIDE DEF q, r, A, B
<1>5. IsFiniteSet(A) /\ UnitsOf(q) = Cardinality(A) /\ UnitsOf(q) \in Nat
  BY <1>1, <1>2, <1>3, UnitsFinite
<1>6. IsFiniteSet(B) /\ UnitsOf(r) = Cardinality(B) /\ UnitsOf(r) \in Nat
  BY <1>2, <1>3, UnitsFinite
<1>7. Cardinality(A) <= Cardinality(B)
  BY <1>4, <1>6, FS_Subset
<1>8. SoldUnits(X) = UnitsOf(q) /\ SoldUnits(Y) = UnitsOf(r)
  BY DEF SoldUnits, q, r
<1>9. QED
  BY <1>1, <1>5, <1>6, <1>7, <1>8

\* A sale more has its units more.
LEMMA SoldMore ==
  ASSUME NEW X, X \subseteq Sales, IsFiniteSet(X), NEW s \in Sales, s \notin X
  PROVE  /\ IsFiniteSet(X \cup {s})
         /\ SoldUnits(X \cup {s}) = SoldUnits(X) + Units[s]
         /\ SoldUnits(X) \in Nat /\ Units[s] \in Nat
<1> DEFINE q == [o \in X |-> Units[o]]
           r == [o \in X \cup {s} |-> Units[o]]
<1>1. Adds(q, s, r) /\ Units[s] \in Nat /\ r[s] = Units[s] /\ q \in [X -> Nat]
  BY StockReportsAssumption DEF Adds
<1> HIDE DEF q, r
<1>2. UnitsOf(r) = UnitsOf(q) + r[s] /\ UnitsOf(q) \in Nat
  BY <1>1, UnitsMore, UnitsFinite
<1>3. IsFiniteSet(X \cup {s})
  BY FS_AddElement
<1>4. QED
  BY <1>1, <1>2, <1>3 DEF SoldUnits, q, r

Dropped(w) ==
  /\ worker' = [worker EXCEPT ![w] = IdleWorker]
  /\ UNCHANGED <<world, stage, master, events, ordered, poller>>

LEMMA UnheardSteps ==
  ASSUME EbayUnheard, Guarded, [Next]_vars
  PROVE  \/ UNCHANGED vars
         \/ EditItem
         \/ \E s \in Sales : EbaySale(s) \/ RefuseSale(s)
         \/ \E w \in Workers : Dropped(w) \/ Committed(w) \/ \E s \in Sales : ReadForSale(w, s)
         \/ \E p \in Pollers : PollOn(p) \/ Applied(p) \/ Recorded(p)
<1>1. SwitchedOn("crash") = {} /\ SwitchedOn("told") = {} /\ Fixers = {} /\ SalesOn("base") = {}
  BY DEF EbayUnheard, SwitchedOn, SalesOn
<1>2. ASSUME NEW p \in Pollers,
             \/ FetchItem(p) \/ SkipReport(p) \/ ReadForReport(p) \/ ApplyReport(p)
             \/ ReportMismatch(p) \/ RecordReport(p)
      PROVE  PollOn(p) \/ Applied(p) \/ Recorded(p)
  BY <1>2, PollOnSteps, AppliedStep, RecordedStep
<1>3. ASSUME NEW w \in Workers, SaleMismatch(w) \/ DoNotTell(w) PROVE Dropped(w)
  BY <1>3 DEF SaleMismatch, DoNotTell, SetWorker, Dropped
<1>4. CASE Next
  BY <1>1, <1>2, <1>3, <1>4, CommittedStep, Zenon DEF Next, SalesOn
<1>5. QED
  BY <1>4

\* BASE still has every unit sold; no more was booked as sold than decided.
Untold ==
  /\ IsFiniteSet(Placed(stage))
  /\ base.stock = shelf + SoldUnits(Placed(stage))
  /\ EbayOf(events, "sale") <= SoldUnits(Decided(stage))

\* BASE's timestamps tell its states apart, and nobody has one from the future.
Clocked ==
  /\ base.modified <= clock
  /\ master.baseSeq <= base.modified
  /\ \A p \in Pollers : poller[p].pc # "idle" =>
       /\ ReportTime(p) <= base.modified
       /\ ReportTime(p) = base.modified => poller[p].item = base

\* Once BASE's last change is in the row, the counter is BASE's stock less the eBay units
\* that report took out and those sold since.
Counter ==
  master.baseSeq = base.modified =>
    /\ \A i \in Reports : events[i].at = base.modified =>
         master.quantity = base.stock - events[i].ebay - master.ebaySold
    /\ \A p \in Recorders(poller) : ReportTime(p) = base.modified =>
         master.quantity = base.stock - poller[p].seen.ebaySold - master.ebaySold

LEMMA Stages ==
  ASSUME Guarded, IsFiniteSet(Placed(stage))
  PROVE  /\ Placed(stage) \subseteq Sales /\ Decided(stage) \subseteq Placed(stage)
         /\ IsFiniteSet(Decided(stage))
         /\ SoldUnits(Placed(stage)) \in Nat /\ SoldUnits(Decided(stage)) \in Nat
         /\ SoldUnits(Decided(stage)) <= SoldUnits(Placed(stage))
<1>1. Placed(stage) \subseteq Sales /\ Decided(stage) \subseteq Placed(stage)
  BY DEF Placed, Decided
<1>2. QED
  BY <1>1, SoldSubset

\* A decision takes a sale from the placed to the decided.
LEMMA Deciding ==
  ASSUME Guarded, IsFiniteSet(Placed(stage)), NEW s \in Sales, stage[s] = "placed"
  PROVE  /\ SoldUnits(Decided(stage)) + Units[s] <= SoldUnits(Placed(stage))
         /\ stage' = [stage EXCEPT ![s] = "decided"] =>
              /\ Placed(stage') = Placed(stage)
              /\ SoldUnits(Decided(stage')) = SoldUnits(Decided(stage)) + Units[s]
<1> DEFINE D == Decided(stage)
<1>1. /\ D \cup {s} \subseteq Placed(stage) /\ s \notin D /\ Placed(stage) \subseteq Sales
      /\ D \subseteq Sales
  BY DEF Placed, Decided
<1>2. IsFiniteSet(D)
  BY Stages
<1>3. SoldUnits(D \cup {s}) <= SoldUnits(Placed(stage))
  BY <1>1, SoldSubset
<1>4. SoldUnits(D \cup {s}) = SoldUnits(D) + Units[s]
  BY <1>1, <1>2, SoldMore
<1>5. ASSUME stage' = [stage EXCEPT ![s] = "decided"]
      PROVE  Placed(stage') = Placed(stage) /\ Decided(stage') = D \cup {s}
  <2>1. stage \in [Sales -> {"none", "placed", "decided"}]
    BY DEF Guarded, Typed, TypeOK
  <2>2. stage'[s] = "decided" /\ \A o \in Sales \ {s} : stage'[o] = stage[o]
    BY <1>5, <2>1
  <2>3. QED
    BY <2>2 DEF Placed, Decided
<1> HIDE DEF D
<1>6. QED
  BY <1>3, <1>4, <1>5 DEF D

LEMMA InitUnheard == Init => Untold /\ Clocked /\ Counter
<1> SUFFICES ASSUME Init PROVE Untold /\ Clocked /\ Counter
  OBVIOUS
<1>1. Placed(stage) = {} /\ Decided(stage) = {} /\ OfKind(events, "sale") = {}
      /\ Reports = {} /\ Recorders(poller) = {}
  BY DEF Init, Placed, Decided, OfKind, Reports, Recorders, IdlePoller
<1>2. SoldUnits(Placed(stage)) = 0 /\ SoldUnits(Decided(stage)) = 0 /\ EbayOf(events, "sale") = 0
  BY <1>1, UnitsNone DEF SoldUnits, EbayOf
<1>3. Untold
  <2>1. IsFiniteSet(Placed(stage))
    BY <1>1, FS_EmptySet
  <2>2. base.stock = shelf + 0
    BY StockReportsAssumption DEF Init
  <2>3. QED
    BY <1>2, <2>1, <2>2 DEF Untold
<1>4. Clocked
  BY DEF Init, Clocked, IdlePoller
<1>5. Counter
  BY <1>1 DEF Counter
<1>6. QED
  BY <1>3, <1>4, <1>5

LEMMA NextUntold ==
  ASSUME EbayUnheard, Guarded, OwnSale, Untold, [Next]_vars
  PROVE  Untold'
<1>1. /\ base \in Item /\ shelf \in Nat /\ base.stock \in Nat /\ events \in Seq(Event)
      /\ stage \in [Sales -> {"none", "placed", "decided"}]
      /\ IsFiniteSet(Placed(stage))
  BY DEF Guarded, Typed, TypeOK, Item, Untold
<1>2. EbayOf(events, "sale") \in Nat
  BY <1>1, LedgerFinite
<1>3. /\ SoldUnits(Placed(stage)) \in Nat /\ SoldUnits(Decided(stage)) \in Nat
      /\ Placed(stage) \subseteq Sales
  BY <1>1, Stages
<1>4. CASE UNCHANGED <<base, shelf, stage, events>>
  BY <1>4 DEF Untold
<1>5. CASE EditItem
  <2>1. PICK added \in {0, 1} : base'.stock = base.stock + added /\ shelf' = shelf + added
    BY <1>5 DEF EditItem
  <2>2. UNCHANGED <<stage, events>>
    BY <1>5 DEF EditItem
  <2>3. base'.stock = shelf' + SoldUnits(Placed(stage))
    BY <1>1, <1>3, <2>1 DEF Untold
  <2>4. QED
    BY <2>2, <2>3 DEF Untold
<1>6. ASSUME NEW s \in Sales, EbaySale(s) PROVE Untold'
  <2>1. /\ stage[s] = "none" /\ shelf >= Units[s] /\ shelf' = shelf - Units[s]
        /\ stage' = [stage EXCEPT ![s] = "placed"]
        /\ UNCHANGED <<base, events>>
    BY <1>6 DEF EbaySale, Place
  <2>2. stage'[s] = "placed" /\ \A o \in Sales \ {s} : stage'[o] = stage[o]
    BY <1>1, <2>1
  <2>3. /\ Placed(stage') = Placed(stage) \cup {s} /\ s \notin Placed(stage)
        /\ Decided(stage') = Decided(stage)
    BY <2>1, <2>2 DEF Placed, Decided
  <2>4. /\ IsFiniteSet(Placed(stage')) /\ Units[s] \in Nat
        /\ SoldUnits(Placed(stage')) = SoldUnits(Placed(stage)) + Units[s]
    BY <1>1, <1>3, <2>3, SoldMore
  <2>5. base.stock = shelf' + SoldUnits(Placed(stage'))
    BY <1>1, <1>3, <2>1, <2>4 DEF Untold
  <2>6. QED
    BY <2>1, <2>3, <2>4, <2>5 DEF Untold
<1>7. ASSUME NEW s \in Sales, RefuseSale(s) PROVE Untold'
  <2>1. /\ stage[s] = "placed" /\ stage' = [stage EXCEPT ![s] = "decided"]
        /\ UNCHANGED <<base, shelf, events>>
    BY <1>7 DEF RefuseSale, world
  <2>2. /\ Placed(stage') = Placed(stage)
        /\ SoldUnits(Decided(stage')) = SoldUnits(Decided(stage)) + Units[s]
    BY <1>1, <2>1, Deciding
  <2>3. Units[s] \in Nat
    BY StockReportsAssumption
  <2>4. EbayOf(events, "sale") <= SoldUnits(Decided(stage'))
    BY <1>2, <1>3, <2>2, <2>3 DEF Untold
  <2>5. QED
    BY <2>1, <2>2, <2>4 DEF Untold
<1>8. ASSUME NEW w \in Workers, Committed(w) PROVE Untold'
  <2> DEFINE s == worker[w].sale
  <2>1. /\ s \in Sales /\ stage[s] = "placed" /\ stage' = [stage EXCEPT ![s] = "decided"]
        /\ UNCHANGED <<base, shelf>>
    BY <1>8 DEF Committed, OwnSale, world
  <2>2. PICK e \in Event : events' = Append(events, e) /\ e.kind = "sale" /\ e.ebay = Units[s]
    BY <1>8 DEF Committed, EbayUnheard
  <2>3. /\ Placed(stage') = Placed(stage)
        /\ SoldUnits(Decided(stage')) = SoldUnits(Decided(stage)) + Units[s]
    BY <1>1, <2>1, Deciding
  <2>4. EbayOf(events', "sale") = EbayOf(events, "sale") + e.ebay
    BY <1>1, <2>2, EntryUnits
  <2>5. Units[s] \in Nat
    BY <2>1, StockReportsAssumption
  <2> HIDE DEF s
  <2>6. EbayOf(events', "sale") <= SoldUnits(Decided(stage'))
    BY <1>2, <1>3, <2>2, <2>3, <2>4, <2>5 DEF Untold
  <2>7. QED
    BY <2>1, <2>3, <2>6 DEF Untold
<1>9. ASSUME NEW p \in Pollers, Recorded(p) PROVE Untold'
  <2>1. PICK e \in Event : events' = Append(events, e) /\ e.kind = "report"
    BY <1>9 DEF Recorded
  <2>2. EbayOf(events', "sale") = EbayOf(events, "sale")
    BY <1>1, <2>1, EntryUnits
  <2>3. UNCHANGED <<base, shelf, stage>>
    BY <1>9 DEF Recorded, world
  <2>4. QED
    BY <2>2, <2>3 DEF Untold
<1>10. ASSUME NEW p \in Pollers, PollOn(p) \/ Applied(p) PROVE UNCHANGED <<base, shelf, stage, events>>
  BY <1>10 DEF PollOn, Applied, world
<1>11. ASSUME NEW w \in Workers, Dropped(w) \/ \E s \in Sales : ReadForSale(w, s)
       PROVE  UNCHANGED <<base, shelf, stage, events>>
  BY <1>11 DEF Dropped, ReadForSale, world
<1>12. CASE UNCHANGED vars
  BY <1>4, <1>12 DEF vars, world
<1>13. QED
  BY <1>4, <1>5, <1>6, <1>7, <1>8, <1>9, <1>10, <1>11, <1>12, UnheardSteps

LEMMA NextClocked ==
  ASSUME EbayUnheard, Guarded, Clocked, [Next]_vars
  PROVE  Clocked'
<1>1. /\ base \in Item /\ base.modified \in Nat /\ clock \in Nat /\ master.baseSeq \in Nat
      /\ \A p \in Pollers : ReportTime(p) \in Nat
      /\ Now = {clock + 1}
  BY Times DEF Guarded, Typed, TypeOK, Item, EbayUnheard, Now
<1>2. CASE UNCHANGED <<clock, base, master, poller>>
  BY <1>2 DEF Clocked, ReportTime
<1>3. CASE EditItem
  <2>1. base'.modified = clock + 1 /\ clock' = clock + 1 /\ UNCHANGED <<master, poller>>
    BY <1>1, <1>3 DEF EditItem
  <2>2. base.modified < clock + 1
    BY <1>1 DEF Clocked
  <2>3. /\ base'.modified <= clock' /\ master.baseSeq <= base'.modified
        /\ \A p \in Pollers : poller[p].pc # "idle" => ReportTime(p) < base'.modified
    BY <1>1, <2>1, <2>2 DEF Clocked
  <2>4. ASSUME NEW p \in Pollers, poller[p].pc # "idle"
        PROVE  ReportTime(p) <= base'.modified /\ ReportTime(p) # base'.modified
    BY <1>1, <2>1, <2>3, <2>4
  <2>5. QED
    BY <2>1, <2>3, <2>4 DEF Clocked, ReportTime
<1>4. ASSUME NEW s \in Sales, EbaySale(s) PROVE Clocked'
  <2>1. clock' = clock + 1 /\ UNCHANGED <<base, master, poller>>
    BY <1>1, <1>4 DEF EbaySale, Place
  <2>2. base.modified <= clock'
    BY <1>1, <2>1 DEF Clocked
  <2>3. QED
    BY <2>1, <2>2 DEF Clocked, ReportTime
<1>5. ASSUME NEW p \in Pollers, PollOn(p) PROVE Clocked'
  <2>1. PICK k \in PollerLocals :
          /\ poller' = [poller EXCEPT ![p] = k]
          /\ \/ k.pc = "idle" \/ k.item = base
             \/ poller[p].pc # "idle" /\ k.item = poller[p].item
    BY <1>5 DEF PollOn
  <2>2. UNCHANGED <<clock, base, master>>
    BY <1>5 DEF PollOn, world
  <2>3. poller'[p] = k /\ \A q \in Pollers \ {p} : poller'[q] = poller[q]
    BY <2>1, RecordersStep
  <2>4. ASSUME poller'[p].pc # "idle"
        PROVE  /\ ReportTime(p)' <= base.modified
               /\ ReportTime(p)' = base.modified => poller'[p].item = base
    BY <1>1, <2>1, <2>3, <2>4 DEF Clocked, ReportTime
  <2>5. QED
    BY <2>2, <2>3, <2>4 DEF Clocked, ReportTime
<1>6. ASSUME NEW p \in Pollers, Applied(p) PROVE Clocked'
  <2>1. PICK k \in PollerLocals : poller' = [poller EXCEPT ![p] = k] /\ k.item = poller[p].item
    BY <1>6 DEF Applied
  <2>2. /\ UNCHANGED <<clock, base>> /\ poller[p].pc # "idle"
        /\ master'.baseSeq = ReportTime(p)
    BY <1>6 DEF Applied, world, ReportTime
  <2>3. poller'[p].item = poller[p].item /\ \A q \in Pollers \ {p} : poller'[q] = poller[q]
    BY <2>1, RecordersStep
  <2>4. QED
    BY <2>2, <2>3 DEF Clocked, ReportTime
<1>7. ASSUME NEW p \in Pollers, Recorded(p) PROVE Clocked'
  <2>1. PICK k \in PollerLocals : k.pc = "idle" /\ poller' = [poller EXCEPT ![p] = k]
    BY <1>7 DEF Recorded
  <2>2. UNCHANGED <<clock, base, master>>
    BY <1>7 DEF Recorded, world
  <2>3. poller'[p].pc = "idle" /\ \A q \in Pollers \ {p} : poller'[q] = poller[q]
    BY <2>1, RecordersStep
  <2>4. QED
    BY <2>2, <2>3 DEF Clocked, ReportTime
<1>8. ASSUME NEW w \in Workers, Committed(w) PROVE Clocked'
  <2>1. UNCHANGED <<clock, base, poller>> /\ master'.baseSeq = master.baseSeq
    BY <1>8 DEF Committed, world
  <2>2. QED
    BY <2>1 DEF Clocked, ReportTime
<1>9. ASSUME NEW w \in Workers, Dropped(w) \/ \E s \in Sales : ReadForSale(w, s)
      PROVE  UNCHANGED <<clock, base, master, poller>>
  BY <1>9 DEF Dropped, ReadForSale, world
<1>10. ASSUME NEW s \in Sales, RefuseSale(s) PROVE UNCHANGED <<clock, base, master, poller>>
  BY <1>10 DEF RefuseSale, world
<1>11. CASE UNCHANGED vars
  BY <1>2, <1>11 DEF vars, world
<1>12. QED
  BY <1>2, <1>3, <1>4, <1>5, <1>6, <1>7, <1>8, <1>9, <1>10, <1>11, UnheardSteps

\* One report's units, or one poll's, are among all.
LEMMA OneOfTheReports ==
  ASSUME Guarded, Books
  PROVE  /\ \A i \in Reports :
              /\ events[i].ebay \in Nat /\ events[i].ebay <= EbayOf(events, "report")
              /\ EbayUnits(Reports \ {i}) = EbayOf(events, "report") - events[i].ebay
         /\ \A p \in Recorders(poller) :
              poller[p].seen.ebaySold \in Nat /\ poller[p].seen.ebaySold <= HeldBy(poller)
         /\ EbayOf(events, "sale") \in Nat /\ EbayOf(events, "report") \in Nat
         /\ HeldBy(poller) \in Nat
<1>1. /\ events \in Seq(Event) /\ poller \in [Pollers -> PollerLocals]
      /\ IsFiniteSet(Recorders(poller))
  BY DEF Guarded, Typed, TypeOK, Books
<1>2. /\ IsFiniteSet(Reports) /\ \A i \in Reports : events[i].ebay \in Nat
      /\ EbayOf(events, "sale") \in Nat /\ EbayOf(events, "report") \in Nat
  BY <1>1, LedgerFinite DEF Reports
<1>3. ASSUME NEW i \in Reports
      PROVE  /\ events[i].ebay <= EbayOf(events, "report")
             /\ EbayUnits(Reports \ {i}) = EbayOf(events, "report") - events[i].ebay
  <2> DEFINE q == [j \in Reports |-> events[j].ebay]
  <2>1. q \in [Reports -> Nat] /\ q[i] = events[i].ebay
    BY <1>2
  <2>2. [j \in Reports \ {i} |-> q[j]] = [j \in Reports \ {i} |-> events[j].ebay]
    OBVIOUS
  <2>3. UnitsOf(q) = EbayOf(events, "report")
    BY DEF EbayOf, Reports
  <2> HIDE DEF q
  <2>4. /\ UnitsOf(q) = UnitsOf([j \in Reports \ {i} |-> q[j]]) + q[i]
        /\ UnitsOf([j \in Reports \ {i} |-> q[j]]) \in Nat
        /\ q[i] <= UnitsOf(q)
    BY <1>2, <2>1, UnitsLess
  <2>5. UnitsOf([j \in Reports \ {i} |-> q[j]]) = EbayUnits(Reports \ {i})
    BY <2>2 DEF EbayUnits
  <2>6. QED
    BY <1>2, <2>1, <2>3, <2>4, <2>5
<1>4. \A p \in Recorders(poller) : poller[p].seen.ebaySold \in Nat
  BY <1>1 DEF Recorders, PollerLocals, Row
<1> DEFINE h == [p \in Recorders(poller) |-> poller[p].seen.ebaySold]
<1>5. h \in [Recorders(poller) -> Nat] /\ HeldBy(poller) = UnitsOf(h)
  BY <1>4 DEF HeldBy
<1>6. HeldBy(poller) \in Nat
  BY <1>1, <1>5, UnitsFinite
<1>7. ASSUME NEW p \in Recorders(poller) PROVE poller[p].seen.ebaySold <= HeldBy(poller)
  <2>1. h[p] = poller[p].seen.ebaySold
    OBVIOUS
  <2> HIDE DEF h
  <2>2. h[p] <= UnitsOf(h)
    BY <1>1, <1>5, UnitsLess
  <2>3. QED
    BY <1>5, <2>1, <2>2
<1> HIDE DEF h
<1>8. QED
  BY <1>2, <1>3, <1>4, <1>6, <1>7

\* BASE's stock covers the eBay units the row still holds, and a sale about to be taken.
LEMMA Covered ==
  ASSUME Guarded, Books, Untold
  PROVE  /\ base.stock \in Nat /\ master.ebaySold \in Nat /\ master.quantity \in Nat
         /\ master.ebaySold <= base.stock
         /\ \A s \in Sales : stage[s] = "placed" =>
              /\ Units[s] \in Nat
              /\ \A i \in Reports : events[i].ebay + master.ebaySold + Units[s] <= base.stock
              /\ \A p \in Recorders(poller) :
                   poller[p].seen.ebaySold + master.ebaySold + Units[s] <= base.stock
<1>1. base.stock \in Nat /\ shelf \in Nat
  BY DEF Guarded, Typed, TypeOK, Item
<1>2. master.ebaySold \in Nat /\ master.quantity \in Nat
  BY Times
<1>3. /\ SoldUnits(Placed(stage)) \in Nat /\ SoldUnits(Decided(stage)) \in Nat
      /\ SoldUnits(Decided(stage)) <= SoldUnits(Placed(stage))
  BY Stages DEF Untold
<1>4. /\ EbayOf(events, "sale") \in Nat /\ EbayOf(events, "report") \in Nat
      /\ HeldBy(poller) \in Nat
      /\ EbayOf(events, "sale") = EbayOf(events, "report") + master.ebaySold + HeldBy(poller)
  BY OneOfTheReports DEF Books
<1>5. /\ base.stock = shelf + SoldUnits(Placed(stage))
      /\ EbayOf(events, "sale") <= SoldUnits(Decided(stage))
  BY DEF Untold
<1>6. master.ebaySold <= base.stock
  BY <1>1, <1>2, <1>3, <1>4, <1>5
<1>7. ASSUME NEW s \in Sales, stage[s] = "placed"
      PROVE  /\ Units[s] \in Nat
             /\ EbayOf(events, "report") + master.ebaySold + HeldBy(poller) + Units[s] <= base.stock
  <2>1. SoldUnits(Decided(stage)) + Units[s] <= SoldUnits(Placed(stage))
    BY <1>7, Deciding DEF Untold
  <2>2. Units[s] \in Nat
    BY StockReportsAssumption
  <2>3. QED
    BY <1>1, <1>2, <1>3, <1>4, <1>5, <2>1, <2>2
<1>8. ASSUME NEW s \in Sales, stage[s] = "placed", NEW i \in Reports
      PROVE  events[i].ebay + master.ebaySold + Units[s] <= base.stock
  <2>1. events[i].ebay \in Nat /\ events[i].ebay <= EbayOf(events, "report")
    BY OneOfTheReports
  <2>2. QED
    BY <1>1, <1>2, <1>4, <1>7, <1>8, <2>1
<1>9. ASSUME NEW s \in Sales, stage[s] = "placed", NEW p \in Recorders(poller)
      PROVE  poller[p].seen.ebaySold + master.ebaySold + Units[s] <= base.stock
  <2>1. poller[p].seen.ebaySold \in Nat /\ poller[p].seen.ebaySold <= HeldBy(poller)
    BY OneOfTheReports
  <2>2. QED
    BY <1>1, <1>2, <1>4, <1>7, <1>9, <2>1
<1>10. QED
  BY <1>1, <1>2, <1>6, <1>7, <1>8, <1>9

LEMMA NextCounter ==
  ASSUME EbayUnheard, Guarded, Books, ReportOrder, Untold, Clocked, OwnSale, Counter, [Next]_vars
  PROVE  Counter'
<1>1. /\ base.modified \in Nat /\ clock \in Nat /\ master.baseSeq \in Nat
      /\ Now = {clock + 1}
  BY Times DEF Guarded, Typed, TypeOK, Item, EbayUnheard, Now
<1>2. CASE UNCHANGED <<base, master, events, poller>>
  BY <1>2 DEF Counter, Reports, ReportTime
<1>3. CASE EditItem
  <2>1. base'.modified = clock + 1 /\ master' = master
    BY <1>1, <1>3 DEF EditItem
  <2>2. master'.baseSeq # base'.modified
    BY <1>1, <2>1 DEF Clocked
  <2>3. QED
    BY <2>2 DEF Counter
<1>4. ASSUME NEW p \in Pollers, PollOn(p) PROVE Counter'
  <2>1. PICK k \in PollerLocals : poller' = [poller EXCEPT ![p] = k] /\ k.pc # "event"
    BY <1>4 DEF PollOn
  <2>2. p \notin Recorders(poller) /\ UNCHANGED <<base, master, events>>
    BY <1>4 DEF PollOn, Recorders, world
  <2>3. /\ Recorders(poller)' = Recorders(poller)
        /\ \A q \in Recorders(poller) : poller'[q] = poller[q]
    <3>1. /\ \A q \in Pollers \ {p} : poller'[q] = poller[q]
          /\ Recorders(poller)' = Recorders(poller) \ {p}
      BY <2>1, RecordersStep
    <3>2. QED
      BY <2>2, <3>1 DEF Recorders
  <2>4. QED
    BY <2>2, <2>3 DEF Counter, Reports, ReportTime
<1>5. ASSUME NEW p \in Pollers, Applied(p) PROVE Counter'
  <2>1. PICK k \in PollerLocals :
          /\ poller' = [poller EXCEPT ![p] = k] /\ k.pc = "event"
          /\ k.seen = master /\ k.item = poller[p].item
    BY <1>5 DEF Applied
  <2>2. /\ UNCHANGED <<base, events>> /\ poller[p].pc # "idle" /\ poller[p].seen = master
        /\ master'.baseSeq = ReportTime(p) /\ master'.ebaySold = 0
        /\ master'.quantity = Arrived(poller[p])
        /\ master.baseSeq < ReportTime(p)
    BY <1>5, Times DEF Applied, world, ReportTime, ReportOrder
  <2>3. /\ poller'[p] = k /\ Recorders(poller)' = Recorders(poller) \cup {p}
        /\ \A q \in Recorders(poller) \ {p} : poller'[q] = poller[q]
    <3>1. /\ poller'[p] = k /\ Recorders(poller)' = Recorders(poller) \cup {p}
          /\ \A q \in Pollers \ {p} : poller'[q] = poller[q]
      BY <2>1, RecordersStep
    <3>2. QED
      BY <3>1 DEF Recorders
  <2>4. ASSUME ReportTime(p) = base.modified
        PROVE  master'.quantity = base.stock - master.ebaySold - 0
    <3>1. poller[p].item.stock = base.stock
      BY <2>2, <2>4 DEF Clocked
    <3>2. base.stock \in Nat /\ master.ebaySold \in Nat /\ master.ebaySold <= base.stock
      BY Covered
    <3>3. master'.quantity = AtLeastZero(base.stock - master.ebaySold)
      BY <2>2, <3>1 DEF Arrived
    <3>4. QED
      BY <3>2, <3>3 DEF AtLeastZero
  <2>5. /\ \A i \in Reports : events[i].at # ReportTime(p)
        /\ \A q \in Recorders(poller) : ReportTime(q) # ReportTime(p)
    <3>1. /\ \A i \in Reports : events[i].at \in Nat /\ events[i].at <= master.baseSeq
          /\ \A q \in Recorders(poller) : ReportTime(q) \in Nat /\ ReportTime(q) <= master.baseSeq
          /\ ReportTime(p) \in Nat /\ master.baseSeq \in Nat
      BY Times DEF ReportOrder
    <3>2. QED
      BY <2>2, <3>1
  <2>6. SUFFICES ASSUME ReportTime(p) = base.modified PROVE Counter'
    BY <2>2 DEF Counter
  <2>7. Reports' = Reports
    BY <2>2 DEF Reports
  <2>8. \A i \in Reports' : events'[i].at # base'.modified
    BY <2>2, <2>5, <2>6, <2>7
  <2>9. \A q \in Recorders(poller)' : ReportTime(q)' = base'.modified => q = p
    BY <2>2, <2>3, <2>5, <2>6 DEF ReportTime
  <2>10. poller'[p].seen = master
    BY <2>1, <2>3
  <2>11. master'.quantity = base'.stock - poller'[p].seen.ebaySold - master'.ebaySold
    BY <2>2, <2>4, <2>6, <2>10
  <2>12. QED
    BY <2>8, <2>9, <2>11 DEF Counter
<1>6. ASSUME NEW p \in Pollers, Recorded(p) PROVE Counter'
  <2>1. PICK k \in PollerLocals : k.pc = "idle" /\ poller' = [poller EXCEPT ![p] = k]
    BY <1>6 DEF Recorded
  <2>2. PICK e \in Event : /\ events' = Append(events, e) /\ e.kind = "report"
                           /\ e.at = ReportTime(p) /\ e.ebay = poller[p].seen.ebaySold
    BY <1>6 DEF Recorded, ReportTime
  <2>3. p \in Recorders(poller) /\ UNCHANGED <<base, master>>
    BY <1>6 DEF Recorded, Recorders, world
  <2>4. /\ Recorders(poller)' = Recorders(poller) \ {p}
        /\ \A q \in Recorders(poller) \ {p} : poller'[q] = poller[q]
    <3>1. /\ \A q \in Pollers \ {p} : poller'[q] = poller[q]
          /\ Recorders(poller)' = Recorders(poller) \ {p}
      BY <2>1, RecordersStep
    <3>2. QED
      BY <3>1 DEF Recorders
  <2> DEFINE n == Len(events) + 1
  <2>5. /\ Reports' = Reports \cup {n} /\ events'[n] = e
        /\ \A i \in Reports : events'[i] = events[i]
    <3>1. events \in Seq(Event) /\ Reports \subseteq DOMAIN events
      BY Times
    <3>2. /\ events'[n] = e
          /\ \A i \in DOMAIN events : events'[i] = events[i]
          /\ OfKind(events', "report") = OfKind(events, "report") \cup {n}
      BY <2>2, <3>1, OneEntryMore
    <3>3. QED
      BY <3>1, <3>2 DEF Reports
  <2> HIDE DEF n
  <2>6. SUFFICES ASSUME master.baseSeq = base.modified PROVE Counter'
    BY <2>3 DEF Counter
  <2>7. ASSUME NEW i \in Reports \cup {n}, events'[i].at = base.modified
        PROVE  master.quantity = base.stock - events'[i].ebay - master.ebaySold
    <3>1. CASE i \in Reports
      BY <2>5, <2>6, <2>7, <3>1 DEF Counter
    <3>2. CASE i = n
      BY <2>2, <2>3, <2>5, <2>6, <2>7, <3>2 DEF Counter
    <3>3. QED
      BY <3>1, <3>2
  <2>8. ASSUME NEW q \in Recorders(poller) \ {p}, ReportTime(q) = base.modified
        PROVE  master.quantity = base.stock - poller[q].seen.ebaySold - master.ebaySold
    BY <2>6, <2>8 DEF Counter
  <2>9. QED
    BY <2>3, <2>4, <2>5, <2>7, <2>8 DEF Counter, ReportTime
<1>7. ASSUME NEW w \in Workers, Committed(w) PROVE Counter'
  <2> DEFINE s == worker[w].sale
  <2>1. /\ s \in Sales /\ stage[s] = "placed" /\ UNCHANGED <<base, poller>>
        /\ master'.quantity = AtLeastZero(master.quantity - Units[s])
        /\ master'.ebaySold = master.ebaySold + Units[s]
        /\ master'.baseSeq = master.baseSeq
    BY <1>7 DEF Committed, OwnSale, EbayUnheard, world
  <2>2. PICK e \in Event : events' = Append(events, e) /\ e.kind = "sale"
    BY <1>7 DEF Committed
  <2>3. Reports' = Reports /\ \A i \in Reports : events'[i] = events[i]
    <3>1. events \in Seq(Event) /\ Reports \subseteq DOMAIN events
      BY Times
    <3>2. QED
      BY <2>2, <3>1, OneEntryMore DEF Reports
  <2>4. /\ Units[s] \in Nat /\ base.stock \in Nat /\ master.ebaySold \in Nat
        /\ \A i \in Reports : events[i].ebay + master.ebaySold + Units[s] <= base.stock
        /\ \A p \in Recorders(poller) :
             poller[p].seen.ebaySold + master.ebaySold + Units[s] <= base.stock
    BY <2>1, Covered
  <2> HIDE DEF s
  <2>5. ASSUME NEW x \in Nat, x + master.ebaySold + Units[s] <= base.stock,
               master.quantity = base.stock - x - master.ebaySold
        PROVE  master'.quantity = base'.stock - x - master'.ebaySold
    <3>1. master.quantity - Units[s] \in Nat
      BY <2>4, <2>5
    <3>2. master'.quantity = master.quantity - Units[s]
      BY <2>1, <3>1 DEF AtLeastZero
    <3>3. QED
      BY <2>1, <2>4, <2>5, <3>2
  <2>6. /\ \A i \in Reports : events[i].ebay \in Nat
        /\ \A p \in Recorders(poller) : poller[p].seen.ebaySold \in Nat
    BY OneOfTheReports
  <2>7. SUFFICES ASSUME master.baseSeq = base.modified PROVE Counter'
    BY <2>1 DEF Counter
  <2>8. ASSUME NEW i \in Reports, events'[i].at = base.modified
        PROVE  master'.quantity = base'.stock - events'[i].ebay - master'.ebaySold
    BY <2>3, <2>4, <2>5, <2>6, <2>7, <2>8 DEF Counter
  <2>9. ASSUME NEW p \in Recorders(poller), ReportTime(p) = base.modified
        PROVE  master'.quantity = base'.stock - poller[p].seen.ebaySold - master'.ebaySold
    BY <2>4, <2>5, <2>6, <2>7, <2>9 DEF Counter
  <2>10. QED
    BY <2>1, <2>3, <2>8, <2>9 DEF Counter, ReportTime
<1>8. ASSUME NEW w \in Workers, Dropped(w) \/ \E s \in Sales : ReadForSale(w, s)
      PROVE  UNCHANGED <<base, master, events, poller>>
  BY <1>8 DEF Dropped, ReadForSale, world
<1>9. ASSUME NEW s \in Sales, EbaySale(s) \/ RefuseSale(s)
      PROVE  UNCHANGED <<base, master, events, poller>>
  BY <1>9 DEF EbaySale, RefuseSale, Place, world
<1>10. CASE UNCHANGED vars
  BY <1>2, <1>10 DEF vars, world
<1>11. QED
  BY <1>2, <1>3, <1>4, <1>5, <1>6, <1>7, <1>8, <1>9, <1>10, UnheardSteps

LEMMA CounterError ==
  ASSUME Guarded, Books, ReportOrder, Untold, Clocked, Counter
  PROVE  ErrorIsConsumed
<1> SUFFICES ASSUME Quiet, Reports # {} PROVE
      master.quantity = shelf
        + EbayUnits(Reports \ {CHOOSE i \in Reports : \A j \in Reports : events[j].at <= events[i].at})
        + Refused
  BY DEF ErrorIsConsumed, Reports, OfKind, EventsOf
<1> DEFINE last == CHOOSE i \in Reports : \A j \in Reports : events[j].at <= events[i].at
<1>1. Recorders(poller) = {} /\ master.baseSeq = base.modified
  BY DEF Quiet, Recorders
<1>2. PICK o \in Reports : events[o].at = base.modified
  BY <1>1 DEF ReportOrder, Newest
<1>3. \A j \in Reports : events[j].at <= events[o].at
  BY <1>1, <1>2 DEF ReportOrder
<1>4. ASSUME NEW i \in Reports, \A j \in Reports : events[j].at <= events[i].at PROVE i = o
  <2>1. events[o].at <= events[i].at /\ events[i].at <= events[o].at
    BY <1>3, <1>4
  <2>2. events[o].at \in Nat /\ events[i].at \in Nat
    BY Times
  <2>3. events[o].at = events[i].at
    BY <2>1, <2>2
  <2>4. QED
    BY <2>3 DEF ReportOrder
<1>5. last = o
  BY <1>3, <1>4
<1> HIDE DEF last
<1>6. master.quantity = base.stock - events[o].ebay - master.ebaySold
  BY <1>1, <1>2 DEF Counter
<1>7. HeldBy(poller) = 0
  BY <1>1, UnitsNone DEF HeldBy
<1>8. /\ events[o].ebay \in Nat /\ EbayOf(events, "report") \in Nat /\ EbayOf(events, "sale") \in Nat
      /\ EbayUnits(Reports \ {o}) = EbayOf(events, "report") - events[o].ebay
  BY OneOfTheReports
<1>9. Placed(stage) = Decided(stage)
  BY DEF Quiet, Placed, Decided, Guarded, Typed, TypeOK
<1>10. /\ SoldUnits(Decided(stage)) \in Nat
       /\ base.stock = shelf + SoldUnits(Decided(stage))
  BY <1>9, Stages DEF Untold
<1>11. Refused = SoldUnits(Decided(stage)) - EbayOf(events, "sale")
  BY DEF Refused, SoldUnits, Decided, EbayUnits, EventsOf, EbayOf, OfKind
<1>12. base.stock \in Nat /\ shelf \in Nat /\ master.ebaySold \in Nat
  BY Times DEF Guarded, Typed, TypeOK, Item
<1>13. EbayOf(events, "sale") = EbayOf(events, "report") + master.ebaySold
  BY <1>7, <1>8, <1>12 DEF Books
<1>14. master.quantity = shelf + EbayUnits(Reports \ {o}) + Refused
  BY <1>6, <1>8, <1>10, <1>11, <1>12, <1>13
<1>15. QED
  BY <1>5, <1>14 DEF last

\* When BASE never hears of the eBay sales, however polls, sales and the merchant's edits
\* overlap: at rest the counter is too high by exactly the eBay units that reports before
\* the last one took out and the sales it refused (the reset of ebaySoldSinceBaseSync in
\* applyBaseStockReport).
THEOREM ErrorIsConsumedHolds ==
  ASSUME EbayUnheard
  PROVE  Spec => []ErrorIsConsumed
<1> DEFINE Inv == Guarded /\ Books /\ ReportOrder /\ Untold /\ Clocked /\ Waiting /\ Counter
<1>1. NoPollDies
  BY DEF EbayUnheard, NoPollDies
<1>2. Init => Inv
  BY InitGuarded, InitBooks, InitReportOrder, InitUnheard, InitWaiting
<1>3. Inv /\ [Next]_vars => Inv'
  BY <1>1, NextGuarded, NextBooks, NextReportOrder, NextUntold, NextClocked, NextWaiting,
     NextCounter DEF Guarded, Waiting
<1>4. Inv => ErrorIsConsumed
  BY CounterError
<1> HIDE DEF Inv
<1>5. QED
  BY <1>2, <1>3, <1>4, PTL DEF Spec

==============================================================================
