---------------------------- MODULE OrderShipping ----------------------------
(***************************************************************************)
(* One order from its receipt to its end (packages/db/src/orders.ts), the  *)
(* two admin routes that write it (services/lambdas/admin-api), and the    *)
(* registration of its shipment with eBay, which the status route tries    *)
(* once and ebay-sync-worker tries again for every message an operator's   *)
(* retry puts on its queue. eBay registers a new fulfillment per call.     *)
(*                                                                         *)
(* Every profit-affecting amount is one number, fees, raised at each       *)
(* change; a finalized profit is named by the fees it was computed from.   *)
(***************************************************************************)
EXTENDS Naturals, FiniteSets

CONSTANTS
  Kinds,       \* of order: "base", "ebay", or "ddp", an eBay order that needs DDP
  Clerks,      \* admin requests under way at once
  Retries,     \* messages of type ebay_tracking_upload an operator's retries send
  MaxFees,     \* changes of a profit-affecting amount
  MaxDeliveries,   \* deliveries of a message before it is in the DLQ
  MaxShippingFaults

ASSUME ShippingAssumption ==
  /\ Kinds \subseteq {"base", "ebay", "ddp"}
  /\ IsFiniteSet(Clerks) /\ IsFiniteSet(Retries)
  /\ Clerks \cap Retries = {}
  /\ MaxFees \in Nat
  /\ MaxDeliveries \in Nat \ {0}
  /\ MaxShippingFaults \in Nat

OrderStatuses == {"ORDER_RECEIVED", "PAID", "ALLOCATED", "SHIPPED", "DELIVERED", "CANCELLED",
                  "RETURN_REQUESTED", "RETURNED", "REFUNDED"}

AllowedTransitions ==
  [s \in OrderStatuses |->
    CASE s = "ORDER_RECEIVED"   -> {"PAID", "CANCELLED"}
      [] s = "PAID"             -> {"ALLOCATED", "CANCELLED"}
      [] s = "ALLOCATED"        -> {"SHIPPED", "CANCELLED"}
      [] s = "SHIPPED"          -> {"DELIVERED", "RETURN_REQUESTED"}
      [] s = "DELIVERED"        -> {"RETURN_REQUESTED"}
      [] s = "RETURN_REQUESTED" -> {"RETURNED"}
      [] s = "RETURNED"         -> {"REFUNDED"}
      [] OTHER                  -> {}]

VARIABLES
  kind,       \* of the order; it decides what assessDdpRequirement finds
  record,     \* the row of orders
  clerk,      \* each admin request: step, target status, what it uses of the row it read
  upload,     \* each registration of the shipment: the step it is at
  deliveries, \* of each message
  job,        \* the sync_jobs row of the upload
  retryable,  \* whether a sync_errors row names that job
  shipments,  \* fulfillments eBay has for the order
  shippingFaults,
  mishaps     \* history: what the counts and snapshots below must allow for

orderVars == <<kind, record, clerk, upload, deliveries, job, retryable, shipments,
               shippingFaults, mishaps>>

Actors == Clerks \cup Retries
Fees == 0..MaxFees
Snapshots == {{}} \cup {{f} : f \in Fees}   \* finalized_net_profit_usd_cents, {} while null

Rows == [status : OrderStatuses \cup {"none"}, stamps : SUBSET OrderStatuses, fees : Fees,
         finalized : Snapshots, ddp : BOOLEAN, slip : BOOLEAN, synced : BOOLEAN]

Reads == [status : OrderStatuses \cup {"none"}, fees : Fees, final : BOOLEAN, ddp : BOOLEAN]

UploadSteps == {"idle", "queued", "job", "call", "mark", "close", "fail", "error", "dead"}

\* Calls eBay carried out and no statement recorded, and reads of an unmarked
\* order while another registration was under way.
OrderTypeOK ==
  /\ kind \in Kinds
  /\ record \in Rows
  /\ clerk \in [Clerks -> [pc : {"idle", "move", "profit"}, to : OrderStatuses, seen : Reads]]
  /\ upload \in [Actors -> UploadSteps]
  /\ deliveries \in [Retries -> 0..MaxDeliveries]
  /\ job \in {"none", "pending", "completed", "failed"}
  /\ retryable \in BOOLEAN
  /\ shipments \in Nat
  /\ shippingFaults \in 0..MaxShippingFaults
  /\ mishaps \in [unrecorded : Nat, blind : Nat, died : BOOLEAN, overlapped : BOOLEAN]

NoRecord == [status |-> "none", stamps |-> {}, fees |-> 0, finalized |-> {}, ddp |-> FALSE,
          slip |-> FALSE, synced |-> FALSE]
NoRead == [status |-> "none", fees |-> 0, final |-> FALSE, ddp |-> FALSE]
NoRequest == [pc |-> "idle", to |-> "PAID", seen |-> NoRead]

OrderInit ==
  /\ kind \in Kinds
  /\ record = NoRecord
  /\ clerk = [c \in Clerks |-> NoRequest]
  /\ upload = [a \in Actors |-> "idle"]
  /\ deliveries = [r \in Retries |-> 0]
  /\ job = "none"
  /\ retryable = FALSE
  /\ shipments = 0
  /\ shippingFaults = 0
  /\ mishaps = [unrecorded |-> 0, blind |-> 0, died |-> FALSE, overlapped |-> FALSE]

------------------------------------------------------------------------------
\* upsertOrderReceived: ON CONFLICT DO NOTHING leaves a row that is there alone.
OrderReceived ==
  /\ record.status = "none"
  /\ record' = [record EXCEPT !.status = "ORDER_RECEIVED"]
  /\ UNCHANGED <<kind, clerk, upload, deliveries, job, retryable, shipments, shippingFaults,
                 mishaps>>

\* transitionOrderStatus reads the row and throws at a transition that is not allowed.
ReadToMove(c, to) ==
  /\ clerk[c].pc = "idle"
  /\ upload[c] = "idle"
  /\ record.status # "none"
  /\ to \in AllowedTransitions[record.status]
  /\ clerk' = [clerk EXCEPT ![c] = 
       [pc |-> "move", to |-> to,
        seen |-> [NoRead EXCEPT !.status = record.status, !.ddp = record.ddp,
                                !.final = record.finalized # {}]]]
  /\ UNCHANGED <<kind, record, upload, deliveries, job, retryable, shipments,
                 shippingFaults, mishaps>>

\* finalizeOrderProfit reads the row.
ReadToFinalize(c) ==
  /\ clerk[c].pc = "idle"
  /\ upload[c] = "idle"
  /\ record.status # "none"
  /\ clerk' = [clerk EXCEPT ![c] = 
       [NoRequest EXCEPT !.pc = "profit", !.seen.fees = record.fees]]
  /\ UNCHANGED <<kind, record, upload, deliveries, job, retryable, shipments,
                 shippingFaults, mishaps>>

\* A required confirmation that the row does not have is the request's to give.
NeedsDdp(seen, to) == kind = "ddp" /\ to = "SHIPPED" /\ ~seen.ddp

\* The snapshot is cleared when an amount changes and the row read had one.
BugSnapshot(seen, raises) == record.finalized

Snapshot(seen, raises) ==
  IF raises /\ seen.final THEN {} ELSE record.finalized

\* The update's WHERE clause: the row is still at the status that was validated.
BugStillThere(seen) == record.status # "none"

StillThere(seen) == record.status = seen.status

\* A request that writes between another's read and write, where one of the
\* two finalizes and the other raises an amount.
Overlaps(c, raises) ==
  \E d \in Clerks \ {c} : /\ clerk[d].pc # "idle"
                          /\ raises \/ clerk[c].pc = "profit"

\* The update, with the amounts, the tracking number and the confirmation the
\* request carries; zero rows are a conflict, answered 409. An eBay order
\* shipped with a tracking number is then registered.
WriteMove(c, raises, slip) ==
  LET seen == clerk[c].seen
      to   == clerk[c].to
      tracked == record.slip \/ slip
  IN  /\ clerk[c].pc = "move"
      /\ StillThere(seen)
      /\ raises => record.fees < MaxFees
      /\ record' = [record EXCEPT
           !.status = to, !.stamps = @ \cup {to},
           !.fees = IF raises THEN @ + 1 ELSE @,
           !.finalized = Snapshot(seen, raises),
           !.ddp = @ \/ NeedsDdp(seen, to),
           !.slip = tracked]
      /\ clerk' = [clerk EXCEPT ![c] = NoRequest]
      /\ upload' = [upload EXCEPT ![c] =
           IF to = "SHIPPED" /\ kind # "base" /\ tracked /\ ~record.synced THEN "job" ELSE @]
      /\ mishaps' = [mishaps EXCEPT !.overlapped = @ \/ Overlaps(c, raises)]
      /\ UNCHANGED <<kind, deliveries, job, retryable, shipments, shippingFaults>>

\* InvalidOrderTransitionError aside: DdpConfirmationRequiredError, OrderStatusConflictError.
MoveRefused(c) ==
  /\ clerk[c].pc = "move"
  /\ \/ ~StillThere(clerk[c].seen)
     \/ NeedsDdp(clerk[c].seen, clerk[c].to)
  /\ clerk' = [clerk EXCEPT ![c] = NoRequest]
  /\ UNCHANGED <<kind, record, upload, deliveries, job, retryable, shipments,
                 shippingFaults, mishaps>>

\* The profit of the row that was read, written whatever the row is now.
WriteProfit(c) ==
  /\ clerk[c].pc = "profit"
  /\ record' = [record EXCEPT !.finalized = {clerk[c].seen.fees}]
  /\ clerk' = [clerk EXCEPT ![c] = NoRequest]
  /\ mishaps' = [mishaps EXCEPT !.overlapped = @ \/ Overlaps(c, FALSE)]
  /\ UNCHANGED <<kind, upload, deliveries, job, retryable, shipments, shippingFaults>>

------------------------------------------------------------------------------
Uploading == {a \in Actors : upload[a] \in {"call", "mark"}}

\* insertSyncJob: the key is the order's, a job that is there is returned.
InsertJob(c) ==
  /\ upload[c] = "job"
  /\ job' = IF job = "none" THEN "pending" ELSE job
  /\ upload' = [upload EXCEPT ![c] = "call"]
  /\ UNCHANGED <<kind, record, clerk, deliveries, retryable, shipments, shippingFaults,
                 mishaps>>

\* A delivery of a message reads the order; one marked as synced only closes the job.
BugAlreadySynced == FALSE

AlreadySynced == record.synced

Deliver(r) ==
  /\ upload[r] = "queued"
  /\ deliveries[r] < MaxDeliveries
  /\ deliveries' = [deliveries EXCEPT ![r] = @ + 1]
  /\ upload' = [upload EXCEPT ![r] = IF AlreadySynced THEN "close" ELSE "call"]
  /\ mishaps' = [mishaps EXCEPT !.blind =
       IF ~record.synced /\ Uploading # {} THEN @ + 1 ELSE @]
  /\ UNCHANGED <<kind, record, clerk, job, retryable, shipments, shippingFaults>>

\* createShippingFulfillment.
CallEbay(a) ==
  /\ upload[a] = "call"
  /\ shipments' = shipments + 1
  /\ upload' = [upload EXCEPT ![a] = "mark"]
  /\ UNCHANGED <<kind, record, clerk, deliveries, job, retryable, shippingFaults, mishaps>>

MarkSynced(a) ==
  /\ upload[a] = "mark"
  /\ record' = [record EXCEPT !.synced = TRUE]
  /\ upload' = [upload EXCEPT ![a] = "close"]
  /\ UNCHANGED <<kind, clerk, deliveries, job, retryable, shipments, shippingFaults, mishaps>>

CompleteJob(a) ==
  /\ upload[a] = "close"
  /\ job' = "completed"
  /\ upload' = [upload EXCEPT ![a] = "idle"]
  /\ UNCHANGED <<kind, record, clerk, deliveries, retryable, shipments, shippingFaults,
                 mishaps>>

\* No account, no token, an error of eBay or none in time, or a statement that fails.
UploadFails(a) ==
  /\ shippingFaults < MaxShippingFaults
  /\ shippingFaults' = shippingFaults + 1
  /\ \/ /\ upload[a] \in {"call", "close"}
        /\ UNCHANGED <<shipments, mishaps>>
     \/ /\ upload[a] = "call"
        /\ shipments' = shipments + 1
        /\ mishaps' = [mishaps EXCEPT !.unrecorded = @ + 1]
     \/ /\ upload[a] = "mark"
        /\ mishaps' = [mishaps EXCEPT !.unrecorded = @ + 1]
        /\ UNCHANGED shipments
  /\ upload' = [upload EXCEPT ![a] = "fail"]
  /\ UNCHANGED <<kind, record, clerk, deliveries, job, retryable>>

FailJob(a) ==
  /\ upload[a] = "fail"
  /\ job' = "failed"
  /\ upload' = [upload EXCEPT ![a] = "error"]
  /\ UNCHANGED <<kind, record, clerk, deliveries, retryable, shipments, shippingFaults,
                 mishaps>>

\* What becomes of a delivery that did not succeed.
Returned(a) == IF a \in Retries
               THEN (IF deliveries[a] < MaxDeliveries THEN "queued" ELSE "dead")
               ELSE "idle"

\* recordSyncError, with the job's id.
BugNamesJob(a) == retryable \/ a \in Retries

NamesJob(a) == TRUE

RecordError(a) ==
  /\ upload[a] = "error"
  /\ retryable' = NamesJob(a)
  /\ upload' = [upload EXCEPT ![a] = Returned(a)]
  /\ UNCHANGED <<kind, record, clerk, deliveries, job, shipments, shippingFaults, mishaps>>

\* The execution ends between two statements.
UploadDies(a) ==
  /\ upload[a] \in UploadSteps \ {"idle", "queued", "dead"}
  /\ shippingFaults < MaxShippingFaults
  /\ shippingFaults' = shippingFaults + 1
  /\ upload' = [upload EXCEPT ![a] = Returned(a)]
  /\ mishaps' = [mishaps EXCEPT !.unrecorded = IF upload[a] = "mark" THEN @ + 1 ELSE @,
                                !.died = @ \/ a \in Clerks]
  /\ UNCHANGED <<kind, record, clerk, deliveries, job, retryable, shipments>>

\* POST /admin/sync-errors/{id}/retry, the operator's twin of it, or a redrive
\* of the DLQ: neither looks at the job's or the order's state.
Retry(r) ==
  /\ retryable
  /\ upload[r] = "idle"
  /\ deliveries[r] = 0
  /\ upload' = [upload EXCEPT ![r] = "queued"]
  /\ UNCHANGED <<kind, record, clerk, deliveries, job, retryable, shipments, shippingFaults,
                 mishaps>>

Redrive(r) ==
  /\ upload[r] = "dead"
  /\ upload' = [upload EXCEPT ![r] = "queued"]
  /\ deliveries' = [deliveries EXCEPT ![r] = 0]
  /\ UNCHANGED <<kind, record, clerk, job, retryable, shipments, shippingFaults, mishaps>>

ClerkStep(c) ==
  \/ \E to \in OrderStatuses : ReadToMove(c, to)
  \/ \E raises, slip \in BOOLEAN : WriteMove(c, raises, slip)
  \/ MoveRefused(c)
  \/ ReadToFinalize(c)
  \/ WriteProfit(c)
  \/ InsertJob(c)

UploadStep(a) ==
  CallEbay(a) \/ MarkSynced(a) \/ CompleteJob(a) \/ FailJob(a) \/ RecordError(a)

OrderNext ==
  \/ OrderReceived
  \/ \E c \in Clerks : ClerkStep(c)
  \/ \E a \in Actors : UploadStep(a) \/ UploadFails(a) \/ UploadDies(a)
  \/ \E r \in Retries : Retry(r) \/ Deliver(r) \/ Redrive(r)

OrderSpec == OrderInit /\ [][OrderNext]_orderVars

------------------------------------------------------------------------------
\* Two clerks who act on one order at once never leave it both shipped and
\* cancelled, and nothing of a cancelled order is registered as shipped: the
\* update's WHERE clause lets one of them win (OrderStatusConflictError).
OneOutcome ==
  "CANCELLED" \in record.stamps =>
    /\ record.status = "CANCELLED"
    /\ "SHIPPED" \notin record.stamps
    /\ shipments = 0

\* However often the upload is retried, redriven and redelivered, eBay has one
\* fulfillment of the order, plus one for each call it carried out and no
\* statement recorded, plus one for each delivery that read the order while
\* another registration was under way (processTrackingUploadRetry's check of
\* ebayTrackingSyncedAt, which is no claim).
OneShipment == shipments <= 1 + mishaps.unrecorded + mishaps.blind

\* An order registered as shipped knows it, or its upload is under way or can
\* be asked for again, unless the admin API's own execution ended in its midst:
\* the job is made before the call, so a failure always has a job to name.
UploadRetryable ==
  (/\ kind # "base"
   /\ job # "none"
   /\ ~mishaps.died
   /\ ~record.synced) => (\/ retryable
                          \/ \E a \in Actors : upload[a] \notin {"idle", "dead"})

\* A finalized profit is that of the order's present amounts, whatever came
\* after it, unless a finalization and a change of an amount overlapped
\* (finalizeOrderProfit writes what it read; the update clears only a snapshot
\* that its own read saw).
ProfitIsCurrent == ~mishaps.overlapped => record.finalized \subseteq {record.fees}
==============================================================================
