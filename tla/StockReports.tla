---------------------------- MODULE StockReports ----------------------------
(***************************************************************************)
(* The three writers of one product's inventory_master row meet:           *)
(*                                                                         *)
(*   - product-fetch polls BASE and reconciles BASE's own stock number     *)
(*     into the row (applyBaseStockReport);                                *)
(*   - inventory-sync-worker takes sales off it (applySale) and tells BASE *)
(*     the new quantity after an eBay sale (dispatchToChannel);            *)
(*   - a repair recomputes it from the ledger (reconstructInventory,       *)
(*     applyReconstructedInventory).                                       *)
(*                                                                         *)
(* Each database statement is a step. Time is the marketplaces' clock, the *)
(* sequenceAt by which the code orders reports and sales. A sale is taken  *)
(* once here: when the code takes one twice is in SaleSync.                *)
(***************************************************************************)
EXTENDS Integers, Sequences, FiniteSets, InventoryMaster

CONSTANTS
  Pollers,          \* overlapping executions of product-fetch
  Workers,          \* executions of inventory-sync-worker
  Fixers,           \* runs of applyReconstructedInventory
  Sales,            \* the sales of this product
  SoldOn,           \* the channel of each, "base" or "ebay"
  Units,            \* and its units
  InitialQuantity,  \* the stock the product was onboarded with
  MaxAttempts,      \* applyBaseStockReport's maxRetries
  MaxEdits,         \* bound on the merchant's edits of the BASE item
  Environment       \* what the outside world does

(***************************************************************************)
(* The outside world, switched on by name:                                 *)
(*   restock      the merchant adds a unit on BASE                         *)
(*   touch        the merchant edits the item and leaves its stock alone   *)
(*   same_second  two changes share a timestamp: BASE's has whole seconds  *)
(*   told         BASE is told the quantity after an eBay sale             *)
(*   untold       BASE is isolated and is not told                         *)
(*   crash        a poll dies after any statement                          *)
(***************************************************************************)
Happenings == {"restock", "touch", "same_second", "told", "untold", "crash"}

\* What the environment does only where it is switched on.
SwitchedOn(name) == Environment \cap {name}

ASSUME StockReportsAssumption ==
  /\ SoldOn \in [Sales -> {"base", "ebay"}]
  /\ Units \in [Sales -> Nat \ {0}]
  /\ InitialQuantity \in Nat \ {0}
  /\ MaxAttempts \in Nat \ {0}
  /\ MaxEdits \in Nat
  /\ Environment \subseteq Happenings

VARIABLES
  clock,    \* the latest timestamp a marketplace has given
  base,     \* BASE's item: its stock and when it was last modified
  shelf,    \* units really left, which no part of the system can read
  edits,    \* edits the merchant has made
  stage,    \* per sale: not placed, placed, or decided by a worker
  placedAt, \* per sale, its occurredAt
  master,   \* the inventory_master row
  events,   \* the applied rows of inventory_events, as inserted
  ordered,  \* history: every write so far was newer than those before it
  poller, worker, fixer   \* program counters and locals

world == <<clock, base, shelf, edits, placedAt>>
vars == <<world, stage, master, events, ordered, poller, worker, fixer>>

------------------------------------------------------------------------------
Item == [stock : Nat, modified : Nat]

\* A sale's quantity is the units it took, a report's the stock it arrived at.
\* ebay: the eBay units a sale added to the accumulator, a report took out.
Event == [kind : {"sale", "report"}, at : Nat, quantity : Nat, ebay : Nat]

NoRow == [quantity |-> 0, soldOut |-> FALSE, version |-> 0, ebaySold |-> 0,
          baseSeq |-> 0]

PollerLocals == [pc : {"idle", "read", "cas", "event"}, item : Item,
                 seen : Row, attempt : Nat]
WorkerLocals == [pc : {"idle", "cas", "query", "push"},
                 sale : Sales \cup {"none"}, seen : Row, pushing : Nat]
FixerLocals  == [pc : {"idle", "ledger", "reread", "write"}, counter : Nat,
                 target : Nat, version : Nat]

IdlePoller == [pc |-> "idle", item |-> [stock |-> 0, modified |-> 0],
               seen |-> NoRow, attempt |-> 0]
IdleWorker == [pc |-> "idle", sale |-> "none", seen |-> NoRow, pushing |-> 0]
IdleFixer  == [pc |-> "idle", counter |-> 0, target |-> 0, version |-> 0]

TypeOK ==
  /\ clock \in Nat /\ base \in Item /\ shelf \in Nat /\ edits \in 0..MaxEdits
  /\ stage \in [Sales -> {"none", "placed", "decided"}]
  /\ placedAt \in [Sales -> Nat]
  /\ master \in Row
  /\ events \in Seq(Event)
  /\ ordered \in BOOLEAN
  /\ poller \in [Pollers -> PollerLocals]
  /\ worker \in [Workers -> WorkerLocals]
  /\ fixer \in [Fixers -> FixerLocals]

Init ==
  /\ clock = 1
  /\ base = [stock |-> InitialQuantity, modified |-> 1]
  /\ shelf = InitialQuantity
  /\ edits = 0
  /\ stage = [s \in Sales |-> "none"]
  /\ placedAt = [s \in Sales |-> 0]
  /\ master = [NoRow EXCEPT !.quantity = InitialQuantity, !.baseSeq = 1]
  /\ events = <<>>
  /\ ordered = TRUE
  /\ poller = [p \in Pollers |-> IdlePoller]
  /\ worker = [w \in Workers |-> IdleWorker]
  /\ fixer = [f \in Fixers |-> IdleFixer]

------------------------------------------------------------------------------
(***************************************************************************)
(* The marketplaces. An operator named Bug... is a definition as a         *)
(* plausible mistake would have it; it stands before the one it would      *)
(* replace and no specification uses it.                                   *)
(***************************************************************************)

Now == IF "same_second" \in Environment THEN {clock, clock + 1} ELSE {clock + 1}

SalesOn(channel) == {s \in Sales : SoldOn[s] = channel}

Place(s, t) ==
  /\ stage[s] = "none"
  /\ shelf >= Units[s]
  /\ shelf' = shelf - Units[s]
  /\ stage' = [stage EXCEPT ![s] = "placed"]
  /\ placedAt' = [placedAt EXCEPT ![s] = t]
  /\ clock' = t
  /\ UNCHANGED <<edits, master, events, ordered, poller, worker, fixer>>

\* A buyer on eBay: BASE knows nothing of it.
EbaySale(s) ==
  \E t \in Now :
    /\ Place(s, t)
    /\ UNCHANGED base

\* A buyer on BASE: BASE takes the units off its own stock.
BaseSale(s) ==
  \E t \in Now :
    /\ base.stock >= Units[s]
    /\ Place(s, t)
    /\ base' = [stock |-> base.stock - Units[s], modified |-> t]

\* The merchant adds a unit on BASE, or edits something else there.
EditItem ==
  /\ edits < MaxEdits
  /\ edits' = edits + 1
  /\ \E t \in Now, added \in {0, 1} :
       /\ IF added = 1 THEN "restock" \in Environment ELSE "touch" \in Environment
       /\ base' = [stock |-> base.stock + added, modified |-> t]
       /\ shelf' = shelf + added
       /\ clock' = t
  /\ UNCHANGED <<stage, placedAt, master, events, ordered, poller, worker,
                 fixer>>

------------------------------------------------------------------------------
(***************************************************************************)
(* product-fetch: applyBaseStockReport                                     *)
(***************************************************************************)

SetPoller(p, locals) == poller' = [poller EXCEPT ![p] = locals]

\* The timestamps of what has been written to the row, recorded or about to be.
Written ==
  {master.baseSeq} \cup {events[i].at : i \in DOMAIN events}
    \cup {poller[p].item.modified : p \in {q \in Pollers : poller[q].pc = "event"}}

InOrder(t) == ordered' = (ordered /\ \A u \in Written : u < t)

\* getProduct fetches the item; what happens on BASE from now on is not seen.
FetchItem(p) ==
  /\ poller[p].pc = "idle"
  /\ SetPoller(p, [IdlePoller EXCEPT !.pc = "read", !.item = base])
  /\ UNCHANGED <<world, stage, master, events, ordered, worker, fixer>>

\* The report is not newer than the last applied one: it is recorded as
\* skipped, which no reader of the ledger looks at.
SkipReport(p) ==
  /\ poller[p].pc = "read"
  /\ StaleReport(master, poller[p].item.modified)
  /\ SetPoller(p, IdlePoller)
  /\ UNCHANGED <<world, stage, master, events, ordered, worker, fixer>>

ReadForReport(p) ==
  /\ poller[p].pc = "read"
  /\ ~StaleReport(master, poller[p].item.modified)
  /\ SetPoller(p, [poller[p] EXCEPT !.pc = "cas", !.seen = master])
  /\ UNCHANGED <<world, stage, master, events, ordered, worker, fixer>>

\* The update without its WHERE version.
BugApplyReport(p) ==
  LET item == poller[p].item IN
  /\ poller[p].pc = "cas"
  /\ master' = AfterBaseReport(poller[p].seen, item.stock, item.modified)
  /\ InOrder(item.modified)
  /\ SetPoller(p, [poller[p] EXCEPT !.pc = "event"])
  /\ UNCHANGED <<world, stage, events, worker, fixer>>

\* The compare-and-swap commits on its own.
ApplyReport(p) ==
  LET item == poller[p].item IN
  /\ poller[p].pc = "cas"
  /\ master.version = poller[p].seen.version
  /\ master' = AfterBaseReport(poller[p].seen, item.stock, item.modified)
  /\ InOrder(item.modified)
  /\ SetPoller(p, [poller[p] EXCEPT !.pc = "event"])
  /\ UNCHANGED <<world, stage, events, worker, fixer>>

\* Another writer came first: loop, or give the report up.
ReportMismatch(p) ==
  /\ poller[p].pc = "cas"
  /\ master.version # poller[p].seen.version
  /\ IF poller[p].attempt + 1 < MaxAttempts
       THEN SetPoller(p, [poller[p] EXCEPT !.pc = "read", !.attempt = @ + 1])
       ELSE SetPoller(p, IdlePoller)
  /\ UNCHANGED <<world, stage, master, events, ordered, worker, fixer>>

\* The ledger keeps BASE's number instead of the stock it led to.
BugRecordReport(p) ==
  LET row == poller[p].seen
      item == poller[p].item
  IN
  /\ poller[p].pc = "event"
  /\ events' = Append(events, [kind |-> "report", at |-> item.modified,
                 quantity |-> item.stock, ebay |-> row.ebaySold])
  /\ SetPoller(p, IdlePoller)
  /\ UNCHANGED <<world, stage, master, ordered, worker, fixer>>

\* A second statement inserts the report into the ledger.
RecordReport(p) ==
  LET row == poller[p].seen
      item == poller[p].item
  IN
  /\ poller[p].pc = "event"
  /\ events' = Append(events, [kind |-> "report", at |-> item.modified,
                 quantity |-> AfterBaseReport(row, item.stock, item.modified).quantity,
                 ebay |-> row.ebaySold])
  /\ SetPoller(p, IdlePoller)
  /\ UNCHANGED <<world, stage, master, ordered, worker, fixer>>

\* The poll dies; the next one starts afresh.
PollDies(p) ==
  /\ poller[p].pc # "idle"
  /\ SetPoller(p, IdlePoller)
  /\ UNCHANGED <<world, stage, master, events, ordered, worker, fixer>>

------------------------------------------------------------------------------
(***************************************************************************)
(* inventory-sync-worker: applySaleWithOutbox, then the push to BASE       *)
(***************************************************************************)

SetWorker(w, locals) == worker' = [worker EXCEPT ![w] = locals]

Taken(s) == \E w \in Workers : worker[w].pc # "idle" /\ worker[w].sale = s

\* applySale finds no stock and writes nothing.
RefuseSale(s) ==
  /\ stage[s] = "placed" /\ ~Taken(s)
  /\ AlreadyZero(master)
  /\ stage' = [stage EXCEPT ![s] = "decided"]
  /\ UNCHANGED <<world, master, events, ordered, poller, worker, fixer>>

ReadForSale(w, s) ==
  /\ worker[w].pc = "idle"
  /\ stage[s] = "placed" /\ ~Taken(s)
  /\ ~AlreadyZero(master)
  /\ SetWorker(w, [IdleWorker EXCEPT !.pc = "cas", !.sale = s, !.seen = master])
  /\ UNCHANGED <<world, stage, master, events, ordered, poller, fixer>>

\* One transaction: the row and its ledger entry. An eBay sale has BASE to tell.
CommitSale(w) ==
  LET s == worker[w].sale
      row == AfterSale(worker[w].seen, SoldOn[s], Units[s])
  IN
  /\ worker[w].pc = "cas"
  /\ master.version = worker[w].seen.version
  /\ master' = row
  /\ events' = Append(events, [kind |-> "sale", at |-> placedAt[s],
                 quantity |-> Units[s],
                 ebay |-> IF SoldOn[s] = "ebay" THEN Units[s] ELSE 0])
  /\ InOrder(placedAt[s])
  /\ stage' = [stage EXCEPT ![s] = "decided"]
  /\ SetWorker(w, IF SoldOn[s] = "ebay"
                    THEN [IdleWorker EXCEPT !.pc = "query", !.sale = s, !.seen = row]
                    ELSE IdleWorker)
  /\ UNCHANGED <<world, poller, fixer>>

\* Another writer came first: applySale, or the redelivery, reads again.
SaleMismatch(w) ==
  /\ worker[w].pc = "cas"
  /\ master.version # worker[w].seen.version
  /\ SetWorker(w, IdleWorker)
  /\ UNCHANGED <<world, stage, master, events, ordered, poller, fixer>>

\* dispatchToChannel reads the live quantity, or takes zero if the sale
\* emptied the stock; BASE is the source channel and sees no buffer.
ReadForBase(w) ==
  /\ worker[w].pc = "query"
  /\ SetWorker(w, [worker[w] EXCEPT !.pc = "push",
       !.pushing = IF worker[w].seen.soldOut THEN 0 ELSE master.quantity])
  /\ UNCHANGED <<world, stage, master, events, ordered, poller, fixer>>

\* setInventory overwrites BASE's stock, which modifies the item.
TellBase(w) ==
  /\ worker[w].pc = "push"
  /\ \E t \in Now :
       /\ base' = [stock |-> worker[w].pushing, modified |-> t]
       /\ clock' = t
  /\ SetWorker(w, IdleWorker)
  /\ UNCHANGED <<shelf, edits, placedAt, stage, master, events, ordered,
                 poller, fixer>>

\* BASE is isolated: the job is skipped.
DoNotTell(w) ==
  /\ worker[w].pc = "query"
  /\ "untold" \in Environment
  /\ SetWorker(w, IdleWorker)
  /\ UNCHANGED <<world, stage, master, events, ordered, poller, fixer>>

------------------------------------------------------------------------------
(***************************************************************************)
(* The repair: reconstructInventory, applyReconstructedInventory           *)
(***************************************************************************)

SetFixer(f, locals) == fixer' = [fixer EXCEPT ![f] = locals]

\* All the units a function gives the members of its domain, counted one by one.
UnitsOf(units) == Cardinality(UNION {{x} \X (1..units[x]) : x \in DOMAIN units})

\* The quantity the ledger amounts to: the applied rows sorted by sequenceAt,
\* from the last report (or zero) with every later sale taken off. The sort is
\* stable, so rows of one timestamp stay as inserted.
Replay(ledger) ==
  LET Before(i, j) == \/ ledger[i].at < ledger[j].at
                      \/ ledger[i].at = ledger[j].at /\ i < j
      reports == {i \in DOMAIN ledger : ledger[i].kind = "report"}
      last == CHOOSE i \in reports : \A j \in reports \ {i} : Before(j, i)
      later == {i \in DOMAIN ledger \ reports : reports = {} \/ Before(last, i)}
  IN  AtLeastZero((IF reports = {} THEN 0 ELSE ledger[last].quantity)
                    - UnitsOf([i \in later |-> ledger[i].quantity]))

ReadCounter(f) ==
  /\ fixer[f].pc = "idle"
  /\ SetFixer(f, [IdleFixer EXCEPT !.pc = "ledger", !.counter = master.quantity])
  /\ UNCHANGED <<world, stage, master, events, ordered, poller, worker>>

\* No drift: nothing to do. Otherwise the replayed quantity is the target.
ReadLedger(f) ==
  /\ fixer[f].pc = "ledger"
  /\ SetFixer(f, IF Replay(events) = fixer[f].counter THEN IdleFixer
                 ELSE [fixer[f] EXCEPT !.pc = "reread", !.target = Replay(events)])
  /\ UNCHANGED <<world, stage, master, events, ordered, poller, worker>>

\* The version the write will be conditional on is read after the ledger.
ReadVersion(f) ==
  /\ fixer[f].pc = "reread"
  /\ SetFixer(f, [fixer[f] EXCEPT !.pc = "write", !.version = master.version])
  /\ UNCHANGED <<world, stage, master, events, ordered, poller, worker>>

WriteRepair(f) ==
  /\ fixer[f].pc = "write"
  /\ master.version = fixer[f].version
  /\ master' = AfterRepair(master, fixer[f].target)
  /\ SetFixer(f, IdleFixer)
  /\ UNCHANGED <<world, stage, events, ordered, poller, worker>>

\* Another writer came first: the loop starts over, or gives up.
RepairMismatch(f) ==
  /\ fixer[f].pc = "write"
  /\ master.version # fixer[f].version
  /\ SetFixer(f, IdleFixer)
  /\ UNCHANGED <<world, stage, master, events, ordered, poller, worker>>

------------------------------------------------------------------------------
Next ==
  \/ EditItem
  \/ \E s \in SalesOn("ebay") : EbaySale(s)
  \/ \E s \in SalesOn("base") : BaseSale(s)
  \/ \E s \in Sales : RefuseSale(s)
  \/ \E p \in Pollers :
       \/ FetchItem(p) \/ SkipReport(p) \/ ReadForReport(p) \/ ApplyReport(p)
       \/ ReportMismatch(p) \/ RecordReport(p)
       \/ \E on \in SwitchedOn("crash") : PollDies(p)
  \/ \E w \in Workers :
       \/ \E s \in Sales : ReadForSale(w, s)
       \/ CommitSale(w) \/ SaleMismatch(w)
       \/ \E on \in SwitchedOn("told") : ReadForBase(w) \/ TellBase(w)
       \/ DoNotTell(w)
  \/ \E f \in Fixers :
       \/ ReadCounter(f) \/ ReadLedger(f) \/ ReadVersion(f) \/ WriteRepair(f)
       \/ RepairMismatch(f)

Spec == Init /\ [][Next]_vars

------------------------------------------------------------------------------
(***************************************************************************)
(* Properties                                                              *)
(***************************************************************************)

EventsOf(kind) == {i \in DOMAIN events : events[i].kind = kind}
EbayUnits(set) == UnitsOf([i \in set |-> events[i].ebay])
Recording == {p \in Pollers : poller[p].pc = "event"}

\* Whoever is about to compare-and-swap holds the very row its version names:
\* no write hides behind an unchanged version (applySale, applyBaseStockReport).
VersionNamesRow ==
  /\ \A p \in Pollers : poller[p].pc = "cas" =>
       /\ poller[p].seen.version <= master.version
       /\ poller[p].seen.version = master.version => poller[p].seen = master
  /\ \A w \in Workers : worker[w].pc = "cas" =>
       /\ worker[w].seen.version <= master.version
       /\ worker[w].seen.version = master.version => worker[w].seen = master

\* However polls overlap, stall and retry, a BASE state never overwrites one
\* of the same age or a newer one (the lastBaseSeq watermark).
ReportsAdvance ==
  [][master'.baseSeq # master.baseSeq => master'.baseSeq > master.baseSeq]_vars

\* Every eBay unit sold is taken out of exactly one BASE report or still
\* waits for the next: none is consumed twice or dropped between writers.
EbayUnitsConsumedOnce ==
  EbayUnits(EventsOf("sale")) =
    EbayUnits(EventsOf("report")) + master.ebaySold
      + UnitsOf([p \in Recording |-> poller[p].seen.ebaySold])

\* Every sale decided, nobody writing, and BASE's last change has been polled.
Quiet ==
  /\ \A s \in Sales : stage[s] # "placed"
  /\ \A p \in Pollers : poller[p].pc = "idle"
  /\ \A w \in Workers : worker[w].pc = "idle"
  /\ \A f \in Fixers : fixer[f].pc = "idle"
  /\ master.baseSeq = base.modified

\* At rest the platform's counter is the stock that is really there: "the true
\* value is computed as reported - ebaySoldSinceBaseSync".
CounterIsStock == Quiet => master.quantity = shelf

\* The eBay units sold that found the counter at zero.
Refused ==
  UnitsOf([s \in {t \in Sales : stage[t] = "decided"} |-> Units[s]])
    - EbayUnits(EventsOf("sale"))

\* When BASE is never told of eBay sales, the counter overstates the stock by
\* exactly the eBay units that reports before the last one had consumed and
\* the sales that found it at zero.
ErrorIsConsumed ==
  LET last == CHOOSE i \in EventsOf("report") :
                \A j \in EventsOf("report") : events[j].at <= events[i].at
  IN  Quiet /\ EventsOf("report") # {} =>
        master.quantity = shelf + EbayUnits(EventsOf("report") \ {last}) + Refused

\* As long as everything was applied in the order of its timestamps, the
\* ledger replays to the counter: a repair would find no drift.
OrderedLedgerReplays ==
  ordered /\ Recording = {} /\ EventsOf("report") # {} =>
    Replay(events) = master.quantity

\* The row as its writers meant it: a sale is decided once it has been taken off
\* the row, and a poll carries what it fetched until it has reported it.
FirstRow  == [NoRow EXCEPT !.quantity = InitialQuantity, !.baseSeq = 1]
FirstItem == [stock |-> InitialQuantity, modified |-> 1]
DecidedSales == {s \in Sales : stage[s] = "decided"}
Fetched(p) ==
  IF poller[p].pc \in {"read", "cas"} THEN {poller[p].item} ELSE {}

AtomicRow == INSTANCE StockRow WITH
               row <- master, item <- base, decided <- DecidedSales,
               fetched <- [p \in Pollers |-> Fetched(p)]

\* Sales, stock reports and repairs interleave between their reads and their
\* writes, retry and die, and the row is as if each had been one step, a sale's
\* taken once: what the compare-and-swap on version is for.
ImplementsRow == AtomicRow!Spec

=============================================================================
