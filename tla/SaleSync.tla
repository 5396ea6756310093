------------------------------ MODULE SaleSync ------------------------------
(***************************************************************************)
(* How one product's sales travel from the marketplaces to the central     *)
(* stock and out again to the other marketplaces:                          *)
(*                                                                         *)
(*   - a buyer orders on a channel, a poller puts the sale on the SQS      *)
(*     queue, more than once because polls overlap;                        *)
(*   - inventory-sync-worker claims the sale's idempotency key, decrements *)
(*     inventory_master by compare-and-swap and, in the same transaction,  *)
(*     writes one outbox row (sync_jobs) per other listed channel          *)
(*     (Phase A), then pushes the quantity to those channels (Phase B);    *)
(*   - a delivery that fails returns to the queue, after MaxReceive        *)
(*     deliveries it is in the DLQ, and a schedule redrives the DLQ.       *)
(*                                                                         *)
(* Each database statement and each marketplace call is a step of its own, *)
(* so workers interleave between them and can die between them.            *)
(***************************************************************************)
EXTENDS Integers, FiniteSets, InventoryMaster

LOCAL INSTANCE FiniteSetsExt

CONSTANTS
  Workers,          \* concurrent Lambda executions of the worker
  Sales,            \* the sales of this product, one idempotency key each
  Messages,         \* every copy of a sale the pollers will put on the queue
  SaleOf,           \* the sale a message carries
  SoldOn,           \* the channel a sale happened on
  Units,            \* the units a sale takes
  Channels,         \* the channels this product is listed on
  InitialQuantity,  \* true stock when the model starts, all channels in step
  Buffer,           \* inventory_master.safety_stock_buffer
  MaxReceive,       \* SQS maxReceiveCount
  MaxAttempts,      \* applySale's maxRetries
  MaxCrashes,       \* bound on Lambdas that die or time out, anywhere
  MaxUnclaimed,     \* bound on the runs of a sale that hold no claim
  Environment       \* which failures and operations of the environment occur

(***************************************************************************)
(* What the environment may do besides crashes, each switched on by name:  *)
(*   tx          the Phase A transaction is rolled back                    *)
(*   order       upsertOrderReceived throws (Phase A swallows it)          *)
(*   postcommit  a statement between the commit and the recorded result    *)
(*               throws: recordSyncError or the store's complete()         *)
(*   store       the store's fail() throws                                 *)
(*   push        getValidAccessToken or setInventory throws                *)
(*   isolated    isChannelIsolated answers true                            *)
(*   account     no account is connected on the target channel             *)
(*   unlist      another worker takes a listing out of "published"         *)
(*   ttl         a claim's 24 hours run out                                *)
(*   redrive     the dlq-redrive schedule runs                             *)
(***************************************************************************)
Faults == {"tx", "order", "postcommit", "store", "push", "isolated",
           "account", "unlist", "ttl", "redrive"}

\* What the environment does only where it is switched on.
SwitchedOn(name) == Environment \cap {name}

ASSUME SaleSyncAssumption ==
  /\ SaleOf \in [Messages -> Sales]
  /\ Channels \subseteq {"base", "ebay", "shopify"}
  /\ SoldOn \in [Sales -> Channels]
  /\ Units \in [Sales -> Nat \ {0}]
  /\ InitialQuantity \in Nat \ {0}
  /\ Buffer \in Nat
  /\ MaxReceive \in Nat \ {0}
  /\ MaxAttempts \in Nat \ {0}
  /\ MaxCrashes \in Nat
  /\ MaxUnclaimed \in Nat
  /\ Environment \subseteq Faults

VARIABLES
  master,    \* the inventory_master row
  status,    \* product_master.status
  applied,   \* per sale, its "sale" rows in inventory_events
  jobs,      \* per sale and channel, the outbox row's status or "none"
  idem,      \* per sale, the idempotency_keys row
  orders,    \* the sales that have a row in orders
  flagged,   \* the sales recorded as possible_double_sale
  listed,    \* the channels whose listing is "published"
  remote,    \* per channel, the quantity the marketplace offers
  sold,      \* the sales that have happened on their marketplace
  queue,     \* per message, where SQS has it
  receives,  \* per message, its ApproximateReceiveCount
  worker,    \* per worker, its program counter and locals
  crashes,   \* Lambdas that have died
  unclaimed, \* history, per sale: runs of Phase A that held no claim
  unrecorded,\* history, per sale: runs that committed and recorded no result
  late       \* history: the channels whose last push was out of date as it landed

dbVars == <<master, status, applied, jobs, orders>>
history == <<unclaimed, unrecorded, late>>
\* What the worker's steps leave alone, but for those that say otherwise.
envVars == <<listed, sold, crashes, history>>
vars == <<master, status, applied, jobs, idem, orders, flagged, listed,
          remote, sold, queue, receives, worker, crashes, history>>

------------------------------------------------------------------------------
(***************************************************************************)
(* Types                                                                   *)
(***************************************************************************)

Result == [alreadyZero : BOOLEAN, soldOut : BOOLEAN, quantity : Nat,
           channels : SUBSET Channels]

NoRow == [quantity |-> 0, soldOut |-> FALSE, version |-> 0, ebaySold |-> 0,
          baseSeq |-> 0]

NoResult == [alreadyZero |-> FALSE, soldOut |-> FALSE, quantity |-> 0,
             channels |-> {}]

KeyStatus == {"absent", "in_progress", "completed", "failed"}
KeyRow    == [status : KeyStatus, expired : BOOLEAN, result : Result]
JobStatus == {"none", "pending", "completed", "failed"}
Places    == {"unsent", "visible", "inflight", "dlq", "deleted"}

\* The steps inside withIdempotency, between tryClaim and its outcome.
PhaseA  == {"read", "cas", "order", "complete", "fail"}
PhaseB  == {"dispatch", "push", "mark"}
Control == {"idle", "claim", "select"} \cup PhaseA \cup PhaseB

Locals == [pc : Control, msg : Messages \cup {"none"}, seen : Row,
           attempt : Nat, result : Result, todo : SUBSET Channels,
           target : Channels \cup {"none"}, pushing : Nat, failed : BOOLEAN]

Idle == [pc |-> "idle", msg |-> "none", seen |-> NoRow, attempt |-> 0,
         result |-> NoResult, todo |-> {}, target |-> "none",
         pushing |-> 0, failed |-> FALSE]

TypeOK ==
  /\ master \in Row
  /\ status \in {"active", "sold_out"}
  /\ applied \in [Sales -> Nat]
  /\ jobs \in [Sales -> [Channels -> JobStatus]]
  /\ idem \in [Sales -> KeyRow]
  /\ orders \subseteq Sales
  /\ flagged \subseteq Sales
  /\ listed \subseteq Channels
  /\ remote \in [Channels -> Nat]
  /\ sold \subseteq Sales
  /\ queue \in [Messages -> Places]
  /\ receives \in [Messages -> Nat]
  /\ worker \in [Workers -> Locals]
  /\ crashes \in 0..MaxCrashes
  /\ unclaimed \in [Sales -> 0..MaxUnclaimed]
  /\ unrecorded \in [Sales -> Nat]
  /\ late \subseteq Channels

------------------------------------------------------------------------------
(***************************************************************************)
(* Helpers                                                                 *)
(***************************************************************************)

At(w, label) == worker[w].pc = label
SaleAt(w) == SaleOf[worker[w].msg]

\* The sale whose Phase A worker w is running.
Holds(w, s) == worker[w].pc \in PhaseA /\ SaleAt(w) = s

Goto(w, locals) == worker' = [worker EXCEPT ![w] = locals]

\* otherChannels(): every channel but the one that sold.
OtherChannels(s) == Channels \ {SoldOn[s]}

Available(quantity, c) == AvailableQuantity(quantity, Buffer, c, "base")

\* The message leaves the worker unprocessed: SQS shows it again, or moves it
\* to the DLQ once it has been received MaxReceive times.
Returned(m) ==
  queue' = [queue EXCEPT ![m] = IF receives[m] >= MaxReceive THEN "dlq"
                                                              ELSE "visible"]

Nack(w) ==
  /\ Returned(worker[w].msg)
  /\ Goto(w, Idle)
  /\ UNCHANGED receives

Ack(w) ==
  /\ queue' = [queue EXCEPT ![worker[w].msg] = "deleted"]
  /\ Goto(w, Idle)
  /\ UNCHANGED receives

------------------------------------------------------------------------------
(***************************************************************************)
(* The marketplaces and the pollers                                        *)
(***************************************************************************)

Init ==
  /\ master = [NoRow EXCEPT !.quantity = InitialQuantity]
  /\ status = "active"
  /\ applied = [s \in Sales |-> 0]
  /\ jobs = [s \in Sales |-> [c \in Channels |-> "none"]]
  /\ idem = [s \in Sales |-> [status |-> "absent", expired |-> FALSE,
                              result |-> NoResult]]
  /\ orders = {}
  /\ flagged = {}
  /\ listed = Channels
  /\ remote = [c \in Channels |-> Available(InitialQuantity, c)]
  /\ sold = {}
  /\ queue = [m \in Messages |-> "unsent"]
  /\ receives = [m \in Messages |-> 0]
  /\ worker = [w \in Workers |-> Idle]
  /\ crashes = 0
  /\ unclaimed = [s \in Sales |-> 0]
  /\ unrecorded = [s \in Sales |-> 0]
  /\ late = {}

(***************************************************************************)
(* An operator named Bug... is an action or helper as a plausible mistake  *)
(* would have it. No specification uses one: each stands before the        *)
(* definition it would replace, and a property below rules it out.         *)
(***************************************************************************)

\* A buyer orders: the marketplace itself takes the units off its own offer.
BuyerOrders(s) ==
  LET c == SoldOn[s] IN
  /\ s \notin sold
  /\ remote[c] >= Units[s]
  /\ sold' = sold \cup {s}
  /\ remote' = [remote EXCEPT ![c] = @ - Units[s]]
  /\ UNCHANGED <<dbVars, idem, flagged, listed, queue, receives, worker,
                 crashes, history>>

\* pollChannelSales enqueues every line item of its lookback window; the
\* queue is not FIFO, so the dedupe id is not sent and copies accumulate.
EnqueueSale(m) ==
  /\ queue[m] = "unsent"
  /\ SaleOf[m] \in sold
  /\ queue' = [queue EXCEPT ![m] = "visible"]
  /\ UNCHANGED <<dbVars, idem, flagged, envVars, remote, receives, worker>>

\* Another worker's failed update sets a listing to "error"; a later success
\* sets it back to "published".
Unlist(c) ==
  /\ listed' = IF c \in listed THEN listed \ {c} ELSE listed \cup {c}
  /\ UNCHANGED <<dbVars, idem, flagged, sold, remote, queue, receives, worker,
                 crashes, history>>

\* redriveDlq moves the DLQ back; a moved message is a new message to SQS.
Redrive(m) ==
  /\ "redrive" \in Environment
  /\ queue[m] = "dlq"
  /\ queue' = [queue EXCEPT ![m] = "visible"]
  /\ receives' = [receives EXCEPT ![m] = 0]
  /\ UNCHANGED <<dbVars, idem, flagged, envVars, remote, worker>>

\* A TTL shorter than a Lambda's life.
BugClaimExpires(s) ==
  /\ "ttl" \in Environment
  /\ idem[s].status = "in_progress"
  /\ ~idem[s].expired
  /\ idem' = [idem EXCEPT ![s].expired = TRUE]
  /\ UNCHANGED <<dbVars, flagged, envVars, remote, queue, receives, worker>>

\* expiresAt passes. The TTL is 24 hours and a Lambda lives for two minutes,
\* so whoever made the claim is no longer running.
ClaimExpires(s) ==
  /\ "ttl" \in Environment
  /\ idem[s].status = "in_progress"
  /\ \A w \in Workers : ~Holds(w, s)
  /\ ~idem[s].expired
  /\ idem' = [idem EXCEPT ![s].expired = TRUE]
  /\ UNCHANGED <<dbVars, flagged, envVars, remote, queue, receives, worker>>

------------------------------------------------------------------------------
(***************************************************************************)
(* inventory-sync-worker: the delivery and the idempotency claim           *)
(***************************************************************************)

\* The Lambda is invoked with one message and finds the sale's listing.
Receive(w, m) ==
  /\ At(w, "idle")
  /\ queue[m] = "visible"
  /\ queue' = [queue EXCEPT ![m] = "inflight"]
  /\ receives' = [receives EXCEPT ![m] = @ + 1]
  /\ Goto(w, [Idle EXCEPT !.pc = "claim", !.msg = m])
  /\ UNCHANGED <<dbVars, idem, flagged, envVars, remote>>

\* Without the expiry clause; without the clause that spares a completed row.
BugClaimableNever(s) == idem[s].status \in {"absent", "failed"}
BugClaimableAgain(s) == idem[s].status # "in_progress" \/ idem[s].expired

\* tryClaim's WHERE clause: no row, a failed one, or an expired claim. A
\* completed row is never reclaimed.
Claimable(s) ==
  \/ idem[s].status \in {"absent", "failed"}
  \/ idem[s].status = "in_progress" /\ idem[s].expired

\* tryClaim's conditional upsert returns its row: the claim is won.
WinClaim(w) ==
  LET s == SaleAt(w) IN
  /\ At(w, "claim")
  /\ Claimable(s)
  /\ idem' = [idem EXCEPT ![s] = [status |-> "in_progress", expired |-> FALSE,
                                  result |-> NoResult]]
  /\ Goto(w, [worker[w] EXCEPT !.pc = "read"])
  /\ UNCHANGED <<dbVars, flagged, envVars, remote, queue, receives>>

\* The upsert returns nothing. Why, tryClaim asks with a statement of its own.
RefuseClaim(w) ==
  /\ At(w, "claim")
  /\ ~Claimable(SaleAt(w))
  /\ Goto(w, [worker[w] EXCEPT !.pc = "select"])
  /\ UNCHANGED <<dbVars, idem, flagged, envVars, remote, queue, receives>>

\* The select finds the key completed: its cached result is replayed and the
\* delivery goes on to Phase B.
ReplayResult(w) ==
  LET s == SaleAt(w) IN
  /\ At(w, "select")
  /\ idem[s].status = "completed"
  /\ Goto(w, [worker[w] EXCEPT !.pc = "dispatch", !.result = idem[s].result,
                               !.todo = idem[s].result.channels])
  /\ UNCHANGED <<dbVars, idem, flagged, envVars, remote, queue, receives>>

\* It finds the claim, run out or not: IdempotencyInProgressError, and the
\* message goes back without a sync_error.
LoseClaim(w) ==
  /\ At(w, "select")
  /\ idem[SaleAt(w)].status = "in_progress"
  /\ Nack(w)
  /\ UNCHANGED <<dbVars, idem, flagged, envVars, remote>>

\* The owner gave its key back between the two statements: withIdempotency
\* falls through to Phase A ("retry inline") and the key stays failed, for
\* another delivery to claim.
RunUnclaimed(w) ==
  LET s == SaleAt(w) IN
  /\ At(w, "select")
  /\ idem[s].status = "failed"
  /\ unclaimed[s] < MaxUnclaimed
  /\ unclaimed' = [unclaimed EXCEPT ![s] = @ + 1]
  /\ Goto(w, [worker[w] EXCEPT !.pc = "read"])
  /\ UNCHANGED <<dbVars, idem, flagged, listed, sold, crashes, unrecorded, late,
                 remote, queue, receives>>

------------------------------------------------------------------------------
(***************************************************************************)
(* Phase A: applySaleWithOutbox and the order record, under withIdempotency*)
(***************************************************************************)

\* applySale reads the row. Stock already gone ends the transaction here, with
\* the product flagged sold out and nothing to push.
ReadSoldOut(w) ==
  /\ At(w, "read")
  /\ AlreadyZero(master)
  /\ status' = "sold_out"
  /\ Goto(w, [worker[w] EXCEPT !.pc = "order",
                !.result = [NoResult EXCEPT !.alreadyZero = TRUE,
                                            !.soldOut = TRUE]])
  /\ UNCHANGED <<master, applied, jobs, idem, orders, flagged, envVars,
                 remote, queue, receives>>

ReadMaster(w) ==
  /\ At(w, "read")
  /\ ~AlreadyZero(master)
  /\ Goto(w, [worker[w] EXCEPT !.pc = "cas", !.seen = master])
  /\ UNCHANGED <<dbVars, idem, flagged, envVars, remote, queue, receives>>

\* Returns early on soldOut where the code asks for alreadyZero.
BugOutboxRows(s) ==
  [c \in Channels |->
     IF c \in OtherChannels(s) \cap listed /\ master.quantity > Units[s]
     THEN "pending" ELSE jobs[s][c]]

\* The outbox rows a committed sale leaves: one per other published channel,
\* kept as it is where the unique key already has a row.
OutboxRows(s) ==
  [c \in Channels |->
     IF c \in OtherChannels(s) \cap listed /\ jobs[s][c] = "none"
     THEN "pending" ELSE jobs[s][c]]

\* The version still matches: the row computed from the one that was read,
\* the ledger row, the product status and the outbox rows commit together.
CommitSale(w) ==
  LET s   == SaleAt(w)
      row == AfterSale(worker[w].seen, SoldOn[s], Units[s])
  IN
  /\ At(w, "cas")
  /\ master.version = worker[w].seen.version
  /\ master' = row
  /\ status' = IF row.soldOut THEN "sold_out" ELSE status
  /\ applied' = [applied EXCEPT ![s] = @ + 1]
  /\ jobs' = [jobs EXCEPT ![s] = OutboxRows(s)]
  /\ Goto(w, [worker[w] EXCEPT !.pc = "order",
                !.result = [alreadyZero |-> FALSE, soldOut |-> row.soldOut,
                            quantity |-> row.quantity,
                            channels |-> OtherChannels(s) \cap listed]])
  /\ UNCHANGED <<idem, orders, flagged, envVars, remote, queue, receives>>

\* Another writer came first: loop, or give up after MaxAttempts with
\* ConcurrentInventoryUpdateError.
CasMismatch(w) ==
  /\ At(w, "cas")
  /\ master.version # worker[w].seen.version
  /\ LET attempt == worker[w].attempt + 1
     IN  Goto(w, [worker[w] EXCEPT
                    !.attempt = attempt,
                    !.pc = IF attempt < MaxAttempts THEN "read" ELSE "fail"])
  /\ UNCHANGED <<dbVars, idem, flagged, envVars, remote, queue, receives>>

\* The transaction throws before its commit and leaves nothing behind.
TxAborts(w) ==
  /\ "tx" \in Environment
  /\ worker[w].pc \in {"read", "cas"}
  /\ Goto(w, [worker[w] EXCEPT !.pc = "fail"])
  /\ UNCHANGED <<dbVars, idem, flagged, envVars, remote, queue, receives>>

\* upsertOrderReceived: insert, or find the row already there.
RecordOrder(w) ==
  /\ At(w, "order")
  /\ orders' = orders \cup {SaleAt(w)}
  /\ Goto(w, [worker[w] EXCEPT !.pc = "complete"])
  /\ UNCHANGED <<master, status, applied, jobs, idem, flagged, envVars,
                 remote, queue, receives>>

\* It throws: a sync_error is written and Phase A carries on.
OrderNotRecorded(w) ==
  /\ "order" \in Environment
  /\ At(w, "order")
  /\ Goto(w, [worker[w] EXCEPT !.pc = "complete"])
  /\ UNCHANGED <<dbVars, idem, flagged, envVars, remote, queue, receives>>

Complete(w) ==
  LET s == SaleAt(w) IN
  /\ At(w, "complete")
  /\ idem' = [idem EXCEPT ![s].status = "completed",
                          ![s].result = worker[w].result]
  /\ Goto(w, [worker[w] EXCEPT !.pc = "dispatch",
                               !.todo = worker[w].result.channels])
  /\ UNCHANGED <<dbVars, flagged, envVars, remote, queue, receives>>

\* History: this run of Phase A ends here. If it has taken the sale's units off
\* the stock, nothing records that it has.
EndsUnrecorded(w) ==
  unrecorded' =
    IF worker[w].pc \in {"order", "complete"} /\ ~worker[w].result.alreadyZero
    THEN [unrecorded EXCEPT ![SaleAt(w)] = @ + 1] ELSE unrecorded

\* Everything withIdempotency's catch sees after the commit: the sync_error
\* of a failed order record, or the store's complete(), throws.
ThrowsAfterCommit(w) ==
  /\ worker[w].pc \in {"order", "complete"}
  /\ Goto(w, [worker[w] EXCEPT !.pc = "fail"])
  /\ EndsUnrecorded(w)
  /\ UNCHANGED <<dbVars, idem, flagged, listed, sold, crashes, unclaimed, late,
                 remote, queue, receives>>

\* withIdempotency's catch: mark the key failed and rethrow.
FailKey(w) ==
  /\ At(w, "fail")
  /\ idem' = [idem EXCEPT ![SaleAt(w)].status = "failed"]
  /\ Nack(w)
  /\ UNCHANGED <<dbVars, flagged, envVars, remote>>

\* The store's fail() throws as well: the key stays in_progress.
FailKeyThrows(w) ==
  /\ "store" \in Environment
  /\ At(w, "fail")
  /\ Nack(w)
  /\ UNCHANGED <<dbVars, idem, flagged, envVars, remote>>

------------------------------------------------------------------------------
(***************************************************************************)
(* Phase B: dispatchPhaseB and dispatchToChannel                           *)
(***************************************************************************)

\* The message is acknowledged without a word.
BugFlagDoubleSale(w) ==
  /\ At(w, "dispatch")
  /\ worker[w].result.alreadyZero
  /\ Ack(w)
  /\ UNCHANGED <<dbVars, flagged, idem, envVars, remote>>

\* The sale lost the race for the last unit: flag it for a human.
FlagDoubleSale(w) ==
  /\ At(w, "dispatch")
  /\ worker[w].result.alreadyZero
  /\ flagged' = flagged \cup {SaleAt(w)}
  /\ Ack(w)
  /\ UNCHANGED <<dbVars, idem, envVars, remote>>

Dispatching(w, c) ==
  /\ At(w, "dispatch")
  /\ ~worker[w].result.alreadyZero
  /\ c \in worker[w].todo

\* dispatchToChannel returned: the loop goes on with the other channels.
JobDone(w, c) ==
  Goto(w, [worker[w] EXCEPT !.pc = "dispatch", !.todo = @ \ {c},
                            !.target = "none", !.pushing = 0])

\* dispatchToChannel's catch: the job is failed, the loop goes on, and the
\* first error is thrown once the loop is over.
JobFails(w, c) ==
  /\ jobs' = [jobs EXCEPT ![SaleAt(w)][c] = "failed"]
  /\ Goto(w, [worker[w] EXCEPT !.pc = "dispatch", !.todo = @ \ {c},
                               !.target = "none", !.pushing = 0,
                               !.failed = TRUE])
  /\ UNCHANGED <<master, status, applied, idem, orders, flagged, listed, sold,
                 crashes, unclaimed, unrecorded, queue, receives>>

\* A failed job counts as attempted.
BugSkipJob(w, c) ==
  /\ Dispatching(w, c)
  /\ jobs[SaleAt(w)][c] # "pending" \/ c \notin listed
  /\ JobDone(w, c)
  /\ UNCHANGED <<dbVars, idem, flagged, envVars, remote, queue, receives>>

\* The returns that leave a job as it is: it is completed already, the
\* listing is no longer published, the channel is isolated, or no account is
\* connected and stock remains.
SkipJob(w, c) ==
  /\ Dispatching(w, c)
  /\ \/ jobs[SaleAt(w)][c] = "completed"
     \/ c \notin listed
     \/ "isolated" \in Environment
     \/ "account" \in Environment /\ ~worker[w].result.soldOut
  /\ JobDone(w, c)
  /\ UNCHANGED <<dbVars, idem, flagged, envVars, remote, queue, receives>>

\* No account to zero a sold-out product on, or the token cannot be had.
NoToken(w, c) ==
  /\ Dispatching(w, c)
  /\ jobs[SaleAt(w)][c] # "completed"
  /\ c \in listed
  /\ \/ "push" \in Environment
     \/ "account" \in Environment /\ worker[w].result.soldOut
  /\ JobFails(w, c)
  /\ UNCHANGED <<remote, late>>

\* Pushes what was left when this sale was decided, not what is left now.
BugReadQuantity(w, c) ==
  /\ Dispatching(w, c)
  /\ jobs[SaleAt(w)][c] # "completed"
  /\ c \in listed
  /\ Goto(w, [worker[w] EXCEPT !.pc = "push", !.target = c, !.seen = master,
                               !.pushing = Available(worker[w].result.quantity, c)])
  /\ UNCHANGED <<dbVars, idem, flagged, envVars, remote, queue, receives>>

\* The live quantity is read, or zero taken if this sale emptied the stock.
ReadQuantity(w, c) ==
  /\ Dispatching(w, c)
  /\ jobs[SaleAt(w)][c] # "completed"
  /\ c \in listed
  /\ Goto(w, [worker[w] EXCEPT
                !.pc = "push", !.target = c, !.seen = master,
                !.pushing = IF worker[w].result.soldOut THEN 0
                            ELSE Available(master.quantity, c)])
  /\ UNCHANGED <<dbVars, idem, flagged, envVars, remote, queue, receives>>

\* The number has been overtaken: another sale was decided since it was read,
\* or one of the channel's own still waits to be, whose units the marketplace
\* has taken off an offer that is now overwritten.
Overtaken(w) ==
  /\ worker[w].pushing > 0
  /\ \/ master.version # worker[w].seen.version
     \/ \E s \in sold : SoldOn[s] = worker[w].target /\ applied[s] = 0

\* setInventory overwrites the marketplace's quantity.
Lands(w) ==
  LET c == worker[w].target IN
  /\ remote' = [remote EXCEPT ![c] = worker[w].pushing]
  /\ late' = IF Overtaken(w) THEN late \cup {c} ELSE late \ {c}

Push(w) ==
  /\ At(w, "push")
  /\ Lands(w)
  /\ Goto(w, [worker[w] EXCEPT !.pc = "mark"])
  /\ UNCHANGED <<dbVars, idem, flagged, listed, sold, crashes, unclaimed,
                 unrecorded, queue, receives>>

\* setInventory throws, with or without having taken effect, or it succeeded
\* and an update that should record it throws.
PushFails(w) ==
  /\ "push" \in Environment
  /\ worker[w].pc \in {"push", "mark"}
  /\ \/ UNCHANGED <<remote, late>>
     \/ At(w, "push") /\ Lands(w)
  /\ JobFails(w, worker[w].target)

MarkPushed(w) ==
  LET c == worker[w].target IN
  /\ At(w, "mark")
  /\ jobs' = [jobs EXCEPT ![SaleAt(w)][c] = "completed"]
  /\ JobDone(w, c)
  /\ UNCHANGED <<master, status, applied, idem, orders, flagged, envVars,
                 remote, queue, receives>>

\* The first error is logged and not rethrown.
BugEndDispatch(w) ==
  /\ At(w, "dispatch")
  /\ ~worker[w].result.alreadyZero
  /\ worker[w].todo = {}
  /\ Ack(w)
  /\ UNCHANGED <<dbVars, idem, flagged, envVars, remote>>

\* Every channel attempted: acknowledge, or return the message if one failed.
EndDispatch(w) ==
  /\ At(w, "dispatch")
  /\ ~worker[w].result.alreadyZero
  /\ worker[w].todo = {}
  /\ IF worker[w].failed THEN Nack(w) ELSE Ack(w)
  /\ UNCHANGED <<dbVars, idem, flagged, envVars, remote>>

------------------------------------------------------------------------------
\* The Lambda dies or times out; the visibility timeout returns its message.
Crash(w) ==
  /\ crashes < MaxCrashes
  /\ ~At(w, "idle")
  /\ crashes' = crashes + 1
  /\ EndsUnrecorded(w)
  /\ Nack(w)
  /\ UNCHANGED <<dbVars, idem, flagged, listed, sold, unclaimed, late, remote>>

WorkerStep(w) ==
  \/ \E m \in Messages : Receive(w, m)
  \/ WinClaim(w) \/ RefuseClaim(w)
  \/ ReplayResult(w) \/ LoseClaim(w) \/ RunUnclaimed(w)
  \/ ReadSoldOut(w) \/ ReadMaster(w) \/ CommitSale(w) \/ CasMismatch(w)
  \/ RecordOrder(w) \/ Complete(w) \/ FailKey(w)
  \/ FlagDoubleSale(w)
  \/ \E c \in Channels : SkipJob(w, c) \/ ReadQuantity(w, c)
  \/ Push(w) \/ MarkPushed(w) \/ EndDispatch(w)

FaultStep(w) ==
  \/ TxAborts(w) \/ OrderNotRecorded(w) \/ FailKeyThrows(w)
  \/ \E on \in SwitchedOn("postcommit") : ThrowsAfterCommit(w)
  \/ \E c \in Channels : NoToken(w, c)
  \/ PushFails(w) \/ Crash(w)

Next ==
  \/ \E s \in Sales : BuyerOrders(s) \/ ClaimExpires(s)
  \/ \E m \in Messages : EnqueueSale(m) \/ Redrive(m)
  \/ \E on \in SwitchedOn("unlist"), c \in Channels : Unlist(c)
  \/ \E w \in Workers : WorkerStep(w) \/ FaultStep(w)

Spec == Init /\ [][Next]_vars

(***************************************************************************)
(* A Lambda that is invoked keeps running, SQS keeps delivering, the        *)
(* schedules keep firing. Buyers and failures owe nothing.                  *)
(***************************************************************************)
FairSpec ==
  /\ Spec
  /\ \A w \in Workers : WF_vars(WorkerStep(w))
  /\ \A m \in Messages : WF_vars(EnqueueSale(m)) /\ WF_vars(Redrive(m))
  /\ \A s \in Sales : WF_vars(ClaimExpires(s))

\* An outage ends: a channel's call tried again and again succeeds at last.
RecoverySpec ==
  /\ FairSpec
  /\ \A w \in Workers, c \in Channels :
       /\ SF_vars(ReadQuantity(w, c))
       /\ SF_vars(Push(w) /\ worker[w].target = c)
       /\ SF_vars(MarkPushed(w) /\ worker[w].target = c)

------------------------------------------------------------------------------
(***************************************************************************)
(* Properties                                                              *)
(***************************************************************************)

\* No run of the sale was unclaimed, none lost track of its commit: the two gaps
\* through which a sale can be worked on again.
NoGap(s) == unclaimed[s] = 0 /\ unrecorded[s] = 0

\* Duplicate deliveries of a sale that was never run unclaimed do not work on it
\* together: whoever is in Phase A holds a live claim and is alone (tryClaim).
OneClaimant ==
  \A w \in Workers :
    worker[w].pc \in PhaseA /\ unclaimed[SaleAt(w)] = 0 =>
      /\ idem[SaleAt(w)].status = "in_progress"
      /\ ~idem[SaleAt(w)].expired
      /\ \A v \in Workers \ {w} : ~Holds(v, SaleAt(w))

\* "At MOST once per real sale event, full stop": a sale takes its units off the
\* stock at most once, however often it is delivered (applySaleWithOutbox).
AtMostOnce == \A s \in Sales : applied[s] <= 1

\* What holds of that: every decrement beyond the first is paid for by one run that
\* entered Phase A unclaimed, or by one that committed and died or threw before
\* complete() recorded it. There is no third way (withIdempotency).
DecrementsAccounted ==
  \A s \in Sales : applied[s] <= 1 + unclaimed[s] + unrecorded[s]

\* Once the key of a sale that was never run unclaimed is completed, its cached
\* result stands and no delivery, redrive or expiry decrements for it again.
CompletedIsFinal ==
  [][\A s \in Sales : idem[s].status = "completed" /\ unclaimed[s] = 0 =>
       idem'[s] = idem[s] /\ applied'[s] = applied[s]]_vars

\* The outbox row and the decrement stand or fall together: a decremented sale
\* has a row for every other listed channel, and only such a sale has rows.
OutboxWithDecrement ==
  \A s \in Sales, c \in Channels :
    IF applied[s] > 0 /\ c # SoldOn[s] THEN jobs[s][c] # "none"
                                       ELSE jobs[s][c] = "none"

\* Every copy of a sale the pollers sent has been acknowledged.
Settled(s) ==
  /\ \E m \in Messages : SaleOf[m] = s /\ queue[m] = "deleted"
  /\ \A m \in Messages : SaleOf[m] = s => queue[m] \in {"unsent", "deleted"}

\* A sale's messages are not all acknowledged while its key is not completed, nor
\* while a channel still waits to be told, unless the sale has been flagged for a
\* human: "never decrement without also durably remembering".
NoPushForgotten ==
  \A s \in Sales : Settled(s) =>
    /\ idem[s].status = "completed"
    /\ \A c \in Channels : jobs[s][c] \in {"none", "completed"} \/ s \in flagged

\* A paid order that found the stock already gone is not acknowledged until it
\* has been flagged for a human; what is flagged met an empty stock, and took no
\* units itself unless a gap let it run again (dispatchPhaseB).
DoubleSaleFlagged ==
  \A s \in Sales :
    /\ Settled(s) /\ applied[s] = 0 => s \in flagged
    /\ s \in flagged => master.soldOut /\ (NoGap(s) => applied[s] = 0)

\* With every sale settled and none worked on through a gap, no channel offers
\* more than the platform believes is left, unless the last push it got was
\* overtaken, by another sale or by one of its own ("Recomputed fresh, live, right
\* before pushing").
NoOverOffer ==
  (\A s \in sold : Settled(s) /\ NoGap(s)) =>
    \A c \in Channels \ late : remote[c] <= Available(master.quantity, c)

\* A delivered sale is eventually decided, even if the worker that claimed it
\* died: its claim runs out and a redrive delivers the sale again.
SaleIsDecided ==
  \A s \in Sales :
    (\E m \in Messages : SaleOf[m] = s /\ queue[m] = "visible")
      ~> idem[s].status = "completed"

\* A pending outbox row is eventually dispatched.
PushIsDelivered ==
  \A s \in Sales, c \in Channels :
    jobs[s][c] = "pending" ~> jobs[s][c] = "completed"

\* What the pipeline promises about the stock, sale by sale. A sale may be taken
\* once, and once more for each gap it went through.
Ledger == INSTANCE SaleLedger WITH
            stock   <- master.quantity,
            taken   <- applied,
            allowed <- [s \in Sales |-> 1 + unclaimed[s] + unrecorded[s]]

ImplementsLedger == Ledger!Spec

\* The idempotency guard as a sale shows it: the guard's state of its key, and
\* the key a delivery is under while it runs Phase A.
KeyIs(s) ==
  IF idem[s].status = "completed" THEN "done"
  ELSE IF idem[s].status = "in_progress" /\ ~idem[s].expired
       THEN "claimed" ELSE "free"

Under(w) == IF worker[w].pc \in PhaseA THEN {SaleAt(w)} ELSE {}

Guard == INSTANCE IdempotencyGuard WITH
           Keys <- Sales, Runners <- Workers,
           key <- [s \in Sales |-> KeyIs(s)],
           under <- [w \in Workers |-> Under(w)]

\* Phase A is guarded: a delivery enters it by a claim of a free key, or finds it
\* free and leaves it so; a live claim and a recorded result keep every other out.
\* Only a run that is in Phase A changes them, or the TTL of a claim nobody in Phase A
\* is left to own, whatever dies, throws or is redriven (withIdempotency).
ImplementsGuard == Guard!Spec

=============================================================================
