------------------------- MODULE OrderShipping_proofs -------------------------
(***************************************************************************)
(* Proofs about OrderShipping for every number of clerks, retries, fees,   *)
(* deliveries and faults, and every kind of order.                         *)
(***************************************************************************)
EXTENDS OrderShipping, FiniteSetTheorems, TLAPS

------------------------------------------------------------------------------
(***************************************************************************)
(* How many registrations are at a step                                    *)
(***************************************************************************)

AtStep(s) == {a \in Actors : upload[a] = s}

N(s) == Cardinality(AtStep(s))

LEMMA Counted ==
  ASSUME NEW s
  PROVE  IsFiniteSet(AtStep(s)) /\ N(s) \in Nat /\ (AtStep(s) = {} => N(s) = 0)
<1>1. IsFiniteSet(Actors) /\ AtStep(s) \subseteq Actors
  BY ShippingAssumption, FS_Union DEF AtStep, Actors
<1>2. IsFiniteSet(AtStep(s))
  BY <1>1, FS_Subset
<1>3. QED
  BY <1>2, FS_CardinalityType, FS_EmptySet DEF N

\* One registration's step moves it from one count to another.
LEMMA Recounted ==
  ASSUME upload \in [Actors -> UploadSteps], NEW a \in Actors, NEW t, NEW s,
         upload' = [upload EXCEPT ![a] = t]
  PROVE  N(s)' = N(s) + (IF t = s THEN 1 ELSE 0) - (IF upload[a] = s THEN 1 ELSE 0)
<1>1. N(s)' = Cardinality(AtStep(s)') /\ N(s) = Cardinality(AtStep(s)) /\ N(s) \in Nat
  BY Counted DEF N
<1>2. CASE t = s /\ upload[a] # s
  <2>1. AtStep(s)' = AtStep(s) \cup {a} /\ a \notin AtStep(s)
    BY <1>2 DEF AtStep
  <2>2. QED
    BY <1>1, <1>2, <2>1, Counted, FS_AddElement
<1>3. CASE t # s /\ upload[a] = s
  <2>1. AtStep(s)' = AtStep(s) \ {a} /\ a \in AtStep(s)
    BY <1>3 DEF AtStep
  <2>2. QED
    BY <1>1, <1>3, <2>1, Counted, FS_RemoveElement
<1>4. CASE (t = s) = (upload[a] = s)
  <2>1. AtStep(s)' = AtStep(s)
    BY <1>4 DEF AtStep
  <2>2. QED
    BY <1>1, <1>4, <2>1
<1>5. QED
  BY <1>2, <1>3, <1>4

------------------------------------------------------------------------------
(***************************************************************************)
(* The invariant                                                           *)
(***************************************************************************)

\* What the status says of the timestamps: the machine has no way back.
Stamped ==
  /\ "CANCELLED" \in record.stamps => record.status = "CANCELLED"
  /\ "SHIPPED" \in record.stamps =>
       record.status \in {"SHIPPED", "DELIVERED", "RETURN_REQUESTED", "RETURNED", "REFUNDED"}

\* A request that is about to move the order has validated it against its read.
Validated ==
  \A c \in Clerks : clerk[c].pc = "move" =>
    /\ clerk[c].seen.status \in OrderStatuses
    /\ clerk[c].to \in AllowedTransitions[clerk[c].seen.status]

\* No registration without a shipped order.
Registered ==
  "SHIPPED" \notin record.stamps =>
    shipments = 0 /\ ~retryable /\ \A a \in Actors : upload[a] = "idle"

\* The request that shipped the order makes the first registration.
FirstUpload ==
  \A c \in Actors : upload[c] = "job" =>
    shipments = 0 /\ ~retryable /\ \A a \in Actors \ {c} : upload[a] = "idle"

\* Calls made and to be made; as long as the order is unmarked, every call
\* made is one whose mark is under way or one that nothing recorded.
Fulfilled ==
  /\ shipments + N("call") =< 1 + mishaps.unrecorded + mishaps.blind
  /\ ~record.synced => shipments =< mishaps.unrecorded + N("mark")

\* Without overlaps every request still sees the amounts and the snapshot there are.
Current ==
  ~mishaps.overlapped =>
    /\ record.finalized \subseteq {record.fees}
    /\ \A c \in Clerks :
         /\ clerk[c].pc = "profit" => clerk[c].seen.fees = record.fees
         /\ clerk[c].pc = "move" => (clerk[c].seen.final <=> record.finalized # {})

\* A message comes from an error that names the job, and only a registration
\* that is marked is closed.
Askable ==
  /\ \A a \in Actors : upload[a] = "close" => record.synced
  /\ \A r \in Retries : upload[r] # "idle" => retryable
  /\ UploadRetryable

OrderInv ==
  /\ OrderTypeOK /\ Stamped /\ Validated /\ Registered /\ FirstUpload
  /\ Fulfilled /\ Current /\ Askable

OrderRequests == [pc : {"idle", "move", "profit"}, to : OrderStatuses, seen : Reads]
Mishaps == [unrecorded : Nat, blind : Nat, died : BOOLEAN, overlapped : BOOLEAN]

\* What the type invariant says, by variable.
LEMMA OrderAmounts ==
  ASSUME OrderTypeOK
  PROVE  /\ record \in Rows /\ clerk \in [Clerks -> OrderRequests]
         /\ upload \in [Actors -> UploadSteps] /\ deliveries \in [Retries -> 0..MaxDeliveries]
         /\ retryable \in BOOLEAN /\ shipments \in Nat /\ mishaps \in Mishaps
         /\ \A s : N(s) \in Nat
BY Counted DEF OrderTypeOK, OrderRequests, Mishaps

LEMMA InitOrder == OrderInit => OrderInv
<1> SUFFICES ASSUME OrderInit PROVE OrderInv
  OBVIOUS
<1> USE DEF OrderInit
<1>1. NoRead \in Reads /\ NoRecord \in Rows
  BY ShippingAssumption DEF NoRead, Reads, NoRecord, Rows, Fees, Snapshots
<1>2. NoRequest \in OrderRequests /\ NoRequest.pc = "idle"
  BY <1>1 DEF NoRequest, OrderRequests, OrderStatuses
<1>3. OrderTypeOK
  <2>1. clerk \in [Clerks -> OrderRequests] /\ upload \in [Actors -> UploadSteps]
    BY <1>2 DEF UploadSteps
  <2>2. deliveries \in [Retries -> 0..MaxDeliveries] /\ shippingFaults \in 0..MaxShippingFaults
    BY ShippingAssumption
  <2>3. mishaps \in Mishaps
    BY DEF Mishaps
  <2>4. QED
    BY <1>1, <2>1, <2>2, <2>3 DEF OrderTypeOK, OrderRequests, Mishaps
<1>4. N("call") = 0 /\ N("mark") = 0
  <2>1. AtStep("call") = {} /\ AtStep("mark") = {}
    BY DEF AtStep
  <2>2. QED
    BY <2>1, Counted
<1>5. Stamped /\ Registered /\ FirstUpload
  BY DEF Stamped, Registered, FirstUpload, NoRecord
<1>6. Validated /\ Current
  BY <1>2 DEF Validated, Current, NoRecord
<1>7. Fulfilled
  BY <1>4 DEF Fulfilled
<1>8. Askable
  BY DEF Askable, UploadRetryable, Actors
<1>9. QED
  BY <1>3, <1>5, <1>6, <1>7, <1>8 DEF OrderInv

------------------------------------------------------------------------------
(***************************************************************************)
(* Frames                                                                  *)
(***************************************************************************)

\* Steps of a request that leave the registrations alone.
LEMMA UploadsKept ==
  ASSUME OrderInv,
         UNCHANGED <<kind, upload, job, retryable, shipments>>,
         record'.synced = record.synced, record'.stamps = record.stamps,
         mishaps'.unrecorded = mishaps.unrecorded, mishaps'.blind = mishaps.blind,
         mishaps'.died = mishaps.died
  PROVE  Registered' /\ FirstUpload' /\ Fulfilled' /\ Askable'
<1>1. N("call")' = N("call") /\ N("mark")' = N("mark")
  BY DEF N, AtStep
<1>2. Fulfilled'
  BY <1>1 DEF OrderInv, Fulfilled
<1>3. Registered' /\ FirstUpload'
  BY DEF OrderInv, Registered, FirstUpload
<1>4. Askable'
  BY DEF OrderInv, Askable, UploadRetryable
<1>5. QED
  BY <1>2, <1>3, <1>4

\* A step of one registration leaves the requests and the order's history alone.
LEMMA OrderKept ==
  ASSUME OrderInv, NEW a \in Actors, NEW t \in UploadSteps, t # "job",
         upload[a] # "idle" \/ retryable,
         upload' = [upload EXCEPT ![a] = t], UNCHANGED <<kind, clerk>>,
         record'.status = record.status, record'.stamps = record.stamps,
         record'.fees = record.fees, record'.finalized = record.finalized,
         mishaps'.overlapped = mishaps.overlapped
  PROVE  Stamped' /\ Validated' /\ Registered' /\ FirstUpload' /\ Current'
<1>1. upload \in [Actors -> UploadSteps]
  BY OrderAmounts DEF OrderInv
<1>2. "SHIPPED" \in record.stamps
  BY DEF OrderInv, Registered
<1>3. \A c \in Actors : upload'[c] # "job"
  <2> SUFFICES ASSUME NEW c \in Actors, upload'[c] = "job" PROVE FALSE
    OBVIOUS
  <2>1. c # a /\ upload[c] = "job"
    BY <1>1
  <2>2. upload[a] = "idle" /\ ~retryable
    BY <2>1 DEF OrderInv, FirstUpload
  <2>3. QED
    BY <2>2
<1>4. Stamped' /\ Registered' /\ FirstUpload'
  BY <1>2, <1>3 DEF OrderInv, Stamped, Registered, FirstUpload
<1>5. Validated' /\ Current'
  BY DEF OrderInv, Validated, Current
<1>6. QED
  BY <1>4, <1>5

\* Its effect on the counts.
LEMMA Recount ==
  ASSUME OrderInv, NEW a \in Actors, NEW t, upload' = [upload EXCEPT ![a] = t]
  PROVE  /\ N("call")' = N("call") + (IF t = "call" THEN 1 ELSE 0)
                          - (IF upload[a] = "call" THEN 1 ELSE 0)
         /\ N("mark")' = N("mark") + (IF t = "mark" THEN 1 ELSE 0)
                          - (IF upload[a] = "mark" THEN 1 ELSE 0)
         /\ upload[a] = t \/ upload'[a] = t
         /\ \A b \in Actors : b # a => upload'[b] = upload[b]
BY OrderAmounts, Recounted DEF OrderInv

------------------------------------------------------------------------------
(***************************************************************************)
(* Requests                                                                *)
(***************************************************************************)

LEMMA OrderReceivedStep == ASSUME OrderInv, OrderReceived PROVE OrderInv'
<1>1. /\ record' = [record EXCEPT !.status = "ORDER_RECEIVED"] /\ record.status = "none"
      /\ UNCHANGED <<kind, clerk, upload, deliveries, job, retryable, shipments,
                     shippingFaults, mishaps>>
  BY DEF OrderReceived
<1>2. record \in Rows
  BY OrderAmounts DEF OrderInv
<1>3. record' \in Rows /\ record'.stamps = record.stamps /\ record'.synced = record.synced
      /\ record'.fees = record.fees /\ record'.finalized = record.finalized
      /\ record'.status = "ORDER_RECEIVED"
  BY <1>1, <1>2 DEF Rows, OrderStatuses
<1>4. OrderTypeOK'
  BY <1>1, <1>3 DEF OrderInv, OrderTypeOK
<1>5. Stamped' /\ Validated' /\ Current'
  BY <1>1, <1>3 DEF OrderInv, Stamped, Validated, Current
<1>6. Registered' /\ FirstUpload' /\ Fulfilled' /\ Askable'
  BY <1>1, <1>3, UploadsKept
<1>7. QED
  BY <1>4, <1>5, <1>6 DEF OrderInv

\* Reads and refusals: only the request's own variables change.
LEMMA RequestFrame ==
  ASSUME OrderInv, NEW c \in Clerks, NEW r \in OrderRequests, clerk' = [clerk EXCEPT ![c] = r],
         UNCHANGED <<kind, record, upload, deliveries, job, retryable, shipments,
                     shippingFaults, mishaps>>,
         r.pc = "move" => /\ r.seen.status \in OrderStatuses
                          /\ r.to \in AllowedTransitions[r.seen.status]
                          /\ r.seen.final <=> record.finalized # {},
         r.pc = "profit" => r.seen.fees = record.fees
  PROVE  OrderInv'
<1>1. clerk \in [Clerks -> OrderRequests]
  BY OrderAmounts DEF OrderInv
<1>2. /\ clerk' \in [Clerks -> OrderRequests] /\ clerk'[c] = r
      /\ \A d \in Clerks : d # c => clerk'[d] = clerk[d]
  BY <1>1
<1>3. OrderTypeOK'
  BY <1>2 DEF OrderInv, OrderTypeOK, OrderRequests
<1>4. Stamped' /\ Validated' /\ Current'
  BY <1>2 DEF OrderInv, Stamped, Validated, Current
<1>5. Registered' /\ FirstUpload' /\ Fulfilled' /\ Askable'
  BY UploadsKept
<1>6. QED
  BY <1>3, <1>4, <1>5 DEF OrderInv

LEMMA NoReads == NoRead \in Reads /\ NoRequest \in OrderRequests /\ NoRequest.pc = "idle"
BY ShippingAssumption DEF NoRead, Reads, NoRequest, OrderRequests, OrderStatuses, Fees

LEMMA ReadToMoveStep ==
  ASSUME OrderInv, NEW c \in Clerks, NEW to \in OrderStatuses, ReadToMove(c, to)
  PROVE  OrderInv'
<1> DEFINE seen == [NoRead EXCEPT !.status = record.status, !.ddp = record.ddp,
                                  !.final = record.finalized # {}]
           r == [pc |-> "move", to |-> to, seen |-> seen]
<1>1. record \in Rows
  BY OrderAmounts DEF OrderInv
<1>2. /\ seen \in Reads /\ seen.status = record.status
      /\ seen.final <=> record.finalized # {}
  BY <1>1, NoReads DEF Reads, Rows, NoRead
<1>3. r \in OrderRequests
  BY <1>2 DEF OrderRequests
<1>4. /\ record.status \in OrderStatuses /\ to \in AllowedTransitions[record.status]
      /\ clerk' = [clerk EXCEPT ![c] = r]
      /\ UNCHANGED <<kind, record, upload, deliveries, job, retryable, shipments,
                     shippingFaults, mishaps>>
  BY <1>1 DEF ReadToMove, Rows
<1>5. r.pc = "move" /\ r.to = to /\ r.seen = seen
  OBVIOUS
<1> HIDE DEF r, seen
<1>6. QED
  BY <1>2, <1>3, <1>4, <1>5, RequestFrame

LEMMA ReadToFinalizeStep ==
  ASSUME OrderInv, NEW c \in Clerks, ReadToFinalize(c)
  PROVE  OrderInv'
<1> DEFINE r == [NoRequest EXCEPT !.pc = "profit", !.seen.fees = record.fees]
<1>1. record.fees \in Fees
  BY OrderAmounts DEF OrderInv, Rows
<1>2. r \in OrderRequests /\ r.pc = "profit" /\ r.seen.fees = record.fees
  BY <1>1, NoReads DEF OrderRequests, NoRequest, Reads, NoRead
<1>3. /\ clerk' = [clerk EXCEPT ![c] = r]
      /\ UNCHANGED <<kind, record, upload, deliveries, job, retryable, shipments,
                     shippingFaults, mishaps>>
  BY DEF ReadToFinalize
<1> HIDE DEF r
<1>4. QED
  BY <1>2, <1>3, RequestFrame

LEMMA MoveRefusedStep ==
  ASSUME OrderInv, NEW c \in Clerks, MoveRefused(c)
  PROVE  OrderInv'
<1>1. /\ clerk' = [clerk EXCEPT ![c] = NoRequest]
      /\ UNCHANGED <<kind, record, upload, deliveries, job, retryable, shipments,
                     shippingFaults, mishaps>>
  BY DEF MoveRefused
<1>2. QED
  BY <1>1, NoReads, RequestFrame

\* A finalization: if nothing overlapped, nobody else had read the order.
LEMMA WriteProfitStep ==
  ASSUME OrderInv, NEW c \in Clerks, WriteProfit(c)
  PROVE  OrderInv'
<1>1. /\ clerk[c].pc = "profit" /\ clerk' = [clerk EXCEPT ![c] = NoRequest]
      /\ record' = [record EXCEPT !.finalized = {clerk[c].seen.fees}]
      /\ mishaps' = [mishaps EXCEPT !.overlapped = @ \/ Overlaps(c, FALSE)]
      /\ UNCHANGED <<kind, upload, deliveries, job, retryable, shipments, shippingFaults>>
  BY DEF WriteProfit
<1>2. /\ clerk \in [Clerks -> OrderRequests] /\ record \in Rows /\ mishaps \in Mishaps
      /\ OrderTypeOK
  BY OrderAmounts DEF OrderInv
<1>3. clerk[c].seen.fees \in Fees
  BY <1>2 DEF OrderRequests, Reads
<1>4. /\ record' \in Rows /\ record'.finalized = {clerk[c].seen.fees}
      /\ record'.fees = record.fees /\ record'.stamps = record.stamps
      /\ record'.status = record.status /\ record'.synced = record.synced
  BY <1>1, <1>2, <1>3 DEF Rows, Snapshots
<1>5. /\ mishaps' \in Mishaps /\ mishaps'.unrecorded = mishaps.unrecorded
      /\ mishaps'.blind = mishaps.blind /\ mishaps'.died = mishaps.died
      /\ mishaps'.overlapped = (mishaps.overlapped \/ Overlaps(c, FALSE))
  BY <1>1, <1>2 DEF Mishaps
<1>6. /\ clerk' \in [Clerks -> OrderRequests] /\ clerk'[c] = NoRequest
      /\ \A d \in Clerks : d # c => clerk'[d] = clerk[d]
  BY <1>1, <1>2, NoReads
<1>7. OrderTypeOK'
  BY <1>1, <1>2, <1>4, <1>5, <1>6 DEF OrderTypeOK, OrderRequests, Mishaps
<1>8. Stamped' /\ Validated'
  BY <1>4, <1>6, NoReads DEF OrderInv, Stamped, Validated
<1>9. Current'
  <2> SUFFICES ASSUME ~mishaps.overlapped, ~Overlaps(c, FALSE) PROVE Current'
    BY <1>5 DEF Current
  <2>1. \A d \in Clerks : clerk'[d].pc = "idle"
    BY <1>1, <1>6, NoReads DEF Overlaps
  <2>2. clerk[c].seen.fees = record.fees
    BY <1>1 DEF OrderInv, Current
  <2>3. QED
    BY <1>4, <2>1, <2>2 DEF Current
<1>10. Registered' /\ FirstUpload' /\ Fulfilled' /\ Askable'
  BY <1>1, <1>4, <1>5, UploadsKept
<1>11. QED
  BY <1>7, <1>8, <1>9, <1>10 DEF OrderInv

\* What the table of transitions says of the two outcomes.
LEMMA Transitions ==
  ASSUME NEW from \in OrderStatuses, NEW to \in AllowedTransitions[from]
  PROVE  /\ to \in OrderStatuses
         /\ to = "SHIPPED" => from = "ALLOCATED"
         /\ to = "CANCELLED" => from \in {"ORDER_RECEIVED", "PAID", "ALLOCATED"}
         /\ from # "CANCELLED"
         /\ from \in {"SHIPPED", "DELIVERED", "RETURN_REQUESTED", "RETURNED", "REFUNDED"}
              => to \in {"DELIVERED", "RETURN_REQUESTED", "RETURNED", "REFUNDED"}
BY DEF OrderStatuses, AllowedTransitions

\* The update: the row is at the status the request validated, so a move never
\* leaves a cancelled order, and an order that is shipped now was not before.
LEMMA WriteMoveStep ==
  ASSUME OrderInv, NEW c \in Clerks, NEW raises \in BOOLEAN, NEW slip \in BOOLEAN,
         WriteMove(c, raises, slip)
  PROVE  OrderInv'
<1> DEFINE seen == clerk[c].seen
           to == clerk[c].to
           starts == to = "SHIPPED" /\ kind # "base" /\ (record.slip \/ slip) /\ ~record.synced
<1>1. /\ clerk[c].pc = "move" /\ record.status = seen.status
      /\ raises => record.fees < MaxFees
      /\ record' = [record EXCEPT
           !.status = to, !.stamps = @ \cup {to},
           !.fees = IF raises THEN @ + 1 ELSE @,
           !.finalized = Snapshot(seen, raises),
           !.ddp = @ \/ NeedsDdp(seen, to),
           !.slip = record.slip \/ slip]
      /\ clerk' = [clerk EXCEPT ![c] = NoRequest]
      /\ upload' = [upload EXCEPT ![c] = IF starts THEN "job" ELSE @]
      /\ mishaps' = [mishaps EXCEPT !.overlapped = @ \/ Overlaps(c, raises)]
      /\ UNCHANGED <<kind, deliveries, job, retryable, shipments, shippingFaults>>
  BY DEF WriteMove, StillThere
<1>2. /\ clerk \in [Clerks -> OrderRequests] /\ record \in Rows /\ mishaps \in Mishaps
      /\ upload \in [Actors -> UploadSteps] /\ OrderTypeOK /\ c \in Actors
  BY OrderAmounts DEF OrderInv, Actors
<1>3. /\ seen.status \in OrderStatuses /\ to \in AllowedTransitions[seen.status]
  BY <1>1 DEF OrderInv, Validated
<1>4. /\ to \in OrderStatuses
      /\ to = "SHIPPED" => record.status = "ALLOCATED"
      /\ record.status # "CANCELLED"
      /\ record.status \in {"SHIPPED", "DELIVERED", "RETURN_REQUESTED", "RETURNED", "REFUNDED"}
           => to \in {"DELIVERED", "RETURN_REQUESTED", "RETURNED", "REFUNDED"}
  BY <1>1, <1>3, Transitions
<1>5. to = "SHIPPED" =>
        /\ "SHIPPED" \notin record.stamps
        /\ shipments = 0 /\ ~retryable /\ \A a \in Actors : upload[a] = "idle"
  BY <1>4 DEF OrderInv, Stamped, Registered
<1>6. /\ record'.status = to /\ record'.stamps = record.stamps \cup {to}
      /\ record'.fees = IF raises THEN record.fees + 1 ELSE record.fees
      /\ record'.finalized = Snapshot(seen, raises)
      /\ record'.synced = record.synced
      /\ record' \in Rows
  <2>1. Snapshot(seen, raises) \in Snapshots
    BY <1>2 DEF Snapshot, Snapshots, Rows
  <2>2. (IF raises THEN record.fees + 1 ELSE record.fees) \in Fees
    BY <1>1, <1>2, ShippingAssumption DEF Rows, Fees
  <2>3. (record.ddp \/ NeedsDdp(seen, to)) \in BOOLEAN /\ (record.slip \/ slip) \in BOOLEAN
    OBVIOUS
  <2>4. record.stamps \cup {to} \in SUBSET OrderStatuses
    BY <1>2, <1>4 DEF Rows
  <2> HIDE DEF seen, to
  <2>5. QED
    BY <1>1, <1>2, <1>4, <2>1, <2>2, <2>3, <2>4 DEF Rows
<1>7. /\ mishaps' \in Mishaps /\ mishaps'.unrecorded = mishaps.unrecorded
      /\ mishaps'.blind = mishaps.blind /\ mishaps'.died = mishaps.died
      /\ mishaps'.overlapped = (mishaps.overlapped \/ Overlaps(c, raises))
  BY <1>1, <1>2 DEF Mishaps
<1>8. /\ clerk' \in [Clerks -> OrderRequests] /\ clerk'[c] = NoRequest
      /\ \A d \in Clerks : d # c => clerk'[d] = clerk[d]
  BY <1>1, <1>2, NoReads
<1>9. /\ upload' \in [Actors -> UploadSteps]
      /\ upload'[c] = IF starts THEN "job" ELSE upload[c]
      /\ \A a \in Actors : a # c => upload'[a] = upload[a]
  BY <1>1, <1>2 DEF UploadSteps
<1>10. OrderTypeOK'
  BY <1>1, <1>2, <1>6, <1>7, <1>8, <1>9 DEF OrderTypeOK, OrderRequests, Mishaps
<1>11. Stamped'
  <2>1. "CANCELLED" \in record'.stamps => record'.status = "CANCELLED"
    BY <1>4, <1>6 DEF OrderInv, Stamped
  <2>2. "SHIPPED" \in record'.stamps => record'.status \in
          {"SHIPPED", "DELIVERED", "RETURN_REQUESTED", "RETURNED", "REFUNDED"}
    BY <1>4, <1>6 DEF OrderInv, Stamped
  <2>3. QED
    BY <2>1, <2>2 DEF Stamped
<1>12. Validated'
  BY <1>8, NoReads DEF OrderInv, Validated
<1>13. Registered'
  BY <1>1, <1>6, <1>9 DEF OrderInv, Registered
<1>14. FirstUpload'
  <2>1. CASE starts
    BY <1>1, <1>5, <1>9, <2>1 DEF FirstUpload
  <2>2. CASE ~starts
    BY <1>1, <1>9, <2>2 DEF OrderInv, FirstUpload
  <2>3. QED
    BY <2>1, <2>2
<1>15. Fulfilled'
  <2>1. N("call")' = N("call") /\ N("mark")' = N("mark")
    <3>1. \A a \in Actors : /\ upload'[a] = "call" <=> upload[a] = "call"
                            /\ upload'[a] = "mark" <=> upload[a] = "mark"
      BY <1>5, <1>9
    <3>2. AtStep("call")' = AtStep("call") /\ AtStep("mark")' = AtStep("mark")
      BY <3>1 DEF AtStep
    <3>3. QED
      BY <3>2 DEF N
  <2>2. QED
    BY <1>1, <1>6, <1>7, <2>1 DEF OrderInv, Fulfilled
<1>16. Current'
  <2> SUFFICES ASSUME ~mishaps.overlapped, ~Overlaps(c, raises) PROVE Current'
    BY <1>7 DEF Current
  <2>1. record.finalized \subseteq {record.fees} /\ (seen.final <=> record.finalized # {})
    BY <1>1 DEF OrderInv, Current
  <2>2. CASE raises
    <3>1. \A d \in Clerks : clerk'[d].pc = "idle"
      BY <1>8, <2>2, NoReads DEF Overlaps
    <3>2. record'.finalized = {}
      BY <1>6, <2>1, <2>2 DEF Snapshot
    <3>3. QED
      BY <3>1, <3>2 DEF Current
  <2>3. CASE ~raises
    <3>1. record'.finalized = record.finalized /\ record'.fees = record.fees
      BY <1>6, <2>3 DEF Snapshot
    <3>2. QED
      BY <1>8, <2>1, <3>1, NoReads DEF OrderInv, Current
  <2>4. QED
    BY <2>2, <2>3
<1>17. Askable'
  <2>1. \A a \in Actors : upload'[a] = "close" => record'.synced
    BY <1>6, <1>9 DEF OrderInv, Askable
  <2>2. \A r \in Retries : upload'[r] # "idle" => retryable'
    BY <1>1, <1>9, ShippingAssumption DEF OrderInv, Askable, Actors
  <2>3. UploadRetryable'
    <3>1. (\E a \in Actors : upload[a] \notin {"idle", "dead"})
            => \E a \in Actors : upload'[a] \notin {"idle", "dead"}
      BY <1>9
    <3>2. QED
      BY <1>1, <1>6, <1>7, <3>1 DEF OrderInv, Askable, UploadRetryable
  <2>4. QED
    BY <2>1, <2>2, <2>3 DEF Askable
<1>18. QED
  BY <1>10, <1>11, <1>12, <1>13, <1>14, <1>15, <1>16, <1>17 DEF OrderInv

------------------------------------------------------------------------------
(***************************************************************************)
(* Registrations                                                           *)
(***************************************************************************)

\* What is left to show of a step of a registration.
LEMMA UploadFrame ==
  ASSUME OrderInv, NEW a \in Actors, NEW t \in UploadSteps, t # "job",
         upload[a] # "idle" \/ retryable,
         upload' = [upload EXCEPT ![a] = t], UNCHANGED <<kind, clerk>>,
         record' = record \/ record' = [record EXCEPT !.synced = TRUE],
         mishaps' \in Mishaps, mishaps'.overlapped = mishaps.overlapped,
         deliveries' \in [Retries -> 0..MaxDeliveries],
         job' \in {"none", "pending", "completed", "failed"},
         retryable' \in BOOLEAN, shipments' \in Nat,
         shippingFaults' \in 0..MaxShippingFaults,
         Fulfilled', Askable'
  PROVE  OrderInv'
<1>1. record \in Rows /\ clerk \in [Clerks -> OrderRequests] /\ upload \in [Actors -> UploadSteps]
  BY OrderAmounts DEF OrderInv
<1>2. /\ record' \in Rows /\ record'.status = record.status /\ record'.stamps = record.stamps
      /\ record'.fees = record.fees /\ record'.finalized = record.finalized
  BY <1>1 DEF Rows
<1>3. upload' \in [Actors -> UploadSteps]
  BY <1>1
<1>4. OrderTypeOK'
  BY <1>1, <1>2, <1>3 DEF OrderInv, OrderTypeOK, Mishaps
<1>5. Stamped' /\ Validated' /\ Registered' /\ FirstUpload' /\ Current'
  BY <1>2, OrderKept
<1>6. QED
  BY <1>4, <1>5 DEF OrderInv

LEMMA InsertJobStep == ASSUME OrderInv, NEW a \in Clerks, InsertJob(a) PROVE OrderInv'
<1>1. /\ upload[a] = "job" /\ upload' = [upload EXCEPT ![a] = "call"]
      /\ job' = IF job = "none" THEN "pending" ELSE job
      /\ UNCHANGED <<kind, record, clerk, deliveries, retryable, shipments, shippingFaults,
                     mishaps>>
  BY DEF InsertJob
<1>2. a \in Actors /\ OrderTypeOK /\ upload \in [Actors -> UploadSteps]
      /\ mishaps \in Mishaps
  BY OrderAmounts DEF OrderInv, Actors
<1>3. shipments = 0 /\ \A b \in Actors \ {a} : upload[b] = "idle"
  BY <1>1, <1>2 DEF OrderInv, FirstUpload
<1>4. Fulfilled'
  <2>1. N("call") = 0 /\ N("mark") = 0
    <3>1. AtStep("call") = {} /\ AtStep("mark") = {}
      BY <1>1, <1>3 DEF AtStep
    <3>2. QED
      BY <3>1, Counted
  <2>2. N("call")' = 1 /\ N("mark")' = 0
    <3>1. /\ N("call")' = N("call") + 1 - 0
          /\ N("mark")' = N("mark") + 0 - 0
      <4>1. upload' = [upload EXCEPT ![a] = "call"] /\ a \in Actors /\ upload[a] = "job"
        BY <1>1, <1>2
      <4>2. QED
        BY <4>1, Recount
    <3>2. QED
      BY <2>1, <3>1
  <2>3. QED
    BY <1>1, <1>2, <1>3, <2>2 DEF Fulfilled, Mishaps
<1>5. Askable'
  <2>1. upload'[a] = "call" /\ \A b \in Actors : b # a => upload'[b] = upload[b]
    BY <1>1, <1>2
  <2>2. \A r \in Retries : r \in Actors /\ r # a
    BY ShippingAssumption DEF Actors
  <2>3. QED
    BY <1>1, <1>2, <2>1, <2>2 DEF OrderInv, Askable, UploadRetryable
<1>6. QED
  BY <1>1, <1>2, <1>4, <1>5, UploadFrame DEF OrderTypeOK, UploadSteps

\* A delivery that finds the order unmarked and no call under way finds every
\* fulfillment unrecorded.
LEMMA DeliverStep == ASSUME OrderInv, NEW a \in Retries, Deliver(a) PROVE OrderInv'
<1> DEFINE t == IF record.synced THEN "close" ELSE "call"
           b == IF ~record.synced /\ Uploading # {} THEN mishaps.blind + 1 ELSE mishaps.blind
<1>1. /\ upload[a] = "queued" /\ deliveries[a] < MaxDeliveries
      /\ deliveries' = [deliveries EXCEPT ![a] = @ + 1]
      /\ upload' = [upload EXCEPT ![a] = t]
      /\ mishaps' = [mishaps EXCEPT !.blind = b]
      /\ UNCHANGED <<kind, record, clerk, job, retryable, shipments, shippingFaults>>
  BY DEF Deliver, AlreadySynced
<1>2. /\ a \in Actors /\ OrderTypeOK /\ upload \in [Actors -> UploadSteps]
      /\ mishaps \in Mishaps /\ deliveries \in [Retries -> 0..MaxDeliveries]
      /\ shipments \in Nat /\ N("call") \in Nat /\ N("mark") \in Nat
  BY OrderAmounts DEF OrderInv, Actors
<1>3. /\ mishaps' \in Mishaps /\ mishaps'.blind = b
      /\ mishaps'.unrecorded = mishaps.unrecorded /\ mishaps'.died = mishaps.died
      /\ mishaps'.overlapped = mishaps.overlapped
      /\ b \in Nat /\ mishaps.blind \in Nat /\ mishaps.unrecorded \in Nat
  BY <1>1, <1>2 DEF Mishaps
<1>4. /\ N("call")' = N("call") + (IF t = "call" THEN 1 ELSE 0) /\ N("mark")' = N("mark")
      /\ upload'[a] = t /\ \A d \in Actors : d # a => upload'[d] = upload[d]
  <2>1. upload' = [upload EXCEPT ![a] = t] /\ a \in Actors /\ upload[a] = "queued"
        /\ t # "mark" /\ upload \in [Actors -> UploadSteps]
    BY <1>1, <1>2
  <2> HIDE DEF t, b
  <2>2. /\ N("call")' = N("call") + (IF t = "call" THEN 1 ELSE 0) - 0
        /\ N("mark")' = N("mark") + 0 - 0
    BY <2>1, Recount
  <2>3. N("call") + (IF t = "call" THEN 1 ELSE 0) - 0 = N("call") + (IF t = "call" THEN 1 ELSE 0)
        /\ N("mark") + 0 - 0 = N("mark")
    BY <1>2
  <2>4. QED
    BY <2>1, <2>2, <2>3
<1>5. Uploading = {} => N("mark") = 0
  <2>1. Uploading = {} => AtStep("mark") = {}
    BY DEF Uploading, AtStep
  <2>2. QED
    BY <2>1, Counted
<1>6. Fulfilled'
  <2>1. /\ shipments + N("call") =< 1 + mishaps.unrecorded + mishaps.blind
        /\ ~record.synced => shipments =< mishaps.unrecorded + N("mark")
    BY DEF OrderInv, Fulfilled
  <2>2. N("call") = 0 \/ Uploading # {}
    <3>1. Uploading = {} => AtStep("call") = {}
      BY DEF Uploading, AtStep
    <3>2. QED
      BY <3>1, Counted
  <2>3. CASE record.synced
    BY <1>1, <1>2, <1>3, <1>4, <2>1, <2>3 DEF Fulfilled
  <2>4. CASE ~record.synced /\ Uploading # {}
    BY <1>1, <1>2, <1>3, <1>4, <2>1, <2>4 DEF Fulfilled
  <2>5. CASE ~record.synced /\ Uploading = {}
    BY <1>1, <1>2, <1>3, <1>4, <1>5, <2>1, <2>2, <2>5 DEF Fulfilled
  <2>6. QED
    BY <2>3, <2>4, <2>5
<1>7. Askable'
  <2>1. \A d \in Actors : upload'[d] = "close" => record'.synced
    BY <1>1, <1>4 DEF OrderInv, Askable
  <2>2. retryable
    BY <1>1 DEF OrderInv, Askable
  <2>3. QED
    BY <1>1, <2>1, <2>2 DEF Askable, UploadRetryable
<1>8. deliveries' \in [Retries -> 0..MaxDeliveries]
  BY <1>1, <1>2, ShippingAssumption
<1>9. t \in UploadSteps /\ t # "job"
  BY DEF UploadSteps
<1> HIDE DEF t, b
<1>10. QED
  BY <1>1, <1>2, <1>3, <1>6, <1>7, <1>8, <1>9, UploadFrame DEF OrderTypeOK

\* A registration that stays under way can still be asked for.
LEMMA StillAskable ==
  ASSUME OrderInv, NEW a \in Actors, NEW t \in {"mark", "close", "fail", "error"},
         upload[a] # "idle", upload' = [upload EXCEPT ![a] = t], retryable' = retryable,
         record' = record \/ record'.synced, t = "close" => record'.synced
  PROVE  Askable'
<1>1. upload \in [Actors -> UploadSteps]
  BY OrderAmounts DEF OrderInv
<1>2. upload'[a] = t /\ \A b \in Actors : b # a => upload'[b] = upload[b]
  BY <1>1
<1>3. \A r \in Retries : r \in Actors
  BY DEF Actors
<1>4. \A b \in Actors : upload'[b] = "close" => record'.synced
  BY <1>2 DEF OrderInv, Askable
<1>5. \A r \in Retries : upload'[r] # "idle" => retryable'
  BY <1>2, <1>3 DEF OrderInv, Askable
<1>6. UploadRetryable'
  BY <1>2 DEF UploadRetryable
<1>7. QED
  BY <1>4, <1>5, <1>6 DEF Askable

LEMMA CallEbayStep == ASSUME OrderInv, NEW a \in Actors, CallEbay(a) PROVE OrderInv'
<1>1. /\ upload[a] = "call" /\ upload' = [upload EXCEPT ![a] = "mark"]
      /\ shipments' = shipments + 1
      /\ UNCHANGED <<kind, record, clerk, deliveries, job, retryable, shippingFaults, mishaps>>
  BY DEF CallEbay
<1>2. OrderTypeOK /\ mishaps \in Mishaps /\ shipments \in Nat
      /\ N("call") \in Nat /\ N("mark") \in Nat
  BY OrderAmounts DEF OrderInv
<1>3. N("call")' = N("call") + 0 - 1 /\ N("mark")' = N("mark") + 1 - 0
  BY <1>1, Recount
<1>4. Fulfilled'
  BY <1>1, <1>2, <1>3 DEF OrderInv, Fulfilled, Mishaps
<1>5. /\ record' = record /\ kind' = kind /\ clerk' = clerk /\ deliveries' = deliveries
      /\ job' = job /\ retryable' = retryable /\ mishaps' = mishaps
      /\ shippingFaults' = shippingFaults /\ shipments' \in Nat
  BY <1>1, <1>2
<1>6. Askable'
  BY <1>1, <1>5, StillAskable
<1>7. /\ deliveries' \in [Retries -> 0..MaxDeliveries]
      /\ job' \in {"none", "pending", "completed", "failed"}
      /\ retryable' \in BOOLEAN /\ shippingFaults' \in 0..MaxShippingFaults
  BY <1>2, <1>5 DEF OrderTypeOK
<1>8. QED
  BY <1>1, <1>2, <1>4, <1>5, <1>6, <1>7, UploadFrame DEF UploadSteps


LEMMA MarkSyncedStep == ASSUME OrderInv, NEW a \in Actors, MarkSynced(a) PROVE OrderInv'
<1>1. /\ upload[a] = "mark" /\ upload' = [upload EXCEPT ![a] = "close"]
      /\ record' = [record EXCEPT !.synced = TRUE]
      /\ UNCHANGED <<kind, clerk, deliveries, job, retryable, shipments, shippingFaults, mishaps>>
  BY DEF MarkSynced
<1>2. OrderTypeOK /\ mishaps \in Mishaps /\ shipments \in Nat /\ record \in Rows
      /\ N("call") \in Nat /\ N("mark") \in Nat
  BY OrderAmounts DEF OrderInv
<1>3. record'.synced
  BY <1>1, <1>2 DEF Rows
<1>4. N("call")' = N("call") + 0 - 0
  BY <1>1, Recount
<1>5. Fulfilled'
  BY <1>1, <1>2, <1>3, <1>4 DEF OrderInv, Fulfilled
<1>6. Askable'
  <2>1. /\ kind' = kind /\ job' = job /\ retryable' = retryable /\ mishaps' = mishaps
    BY <1>1
  <2>2. QED
    BY <1>1, <1>3, <2>1, StillAskable
<1>7. QED
  BY <1>1, <1>2, <1>5, <1>6, UploadFrame DEF OrderTypeOK, UploadSteps

\* A registration that leaves the table for good, or waits for its message, is
\* marked, is a retry, or was the route's own and died.
LEMMA CompleteJobStep == ASSUME OrderInv, NEW a \in Actors, CompleteJob(a) PROVE OrderInv'
<1>1. /\ upload[a] = "close" /\ upload' = [upload EXCEPT ![a] = "idle"]
      /\ job' = "completed"
      /\ UNCHANGED <<kind, record, clerk, deliveries, retryable, shipments, shippingFaults,
                     mishaps>>
  BY DEF CompleteJob
<1>2. OrderTypeOK /\ mishaps \in Mishaps /\ shipments \in Nat
      /\ N("call") \in Nat /\ N("mark") \in Nat /\ upload \in [Actors -> UploadSteps]
  BY OrderAmounts DEF OrderInv
<1>3. record.synced
  BY <1>1 DEF OrderInv, Askable
<1>4. N("call")' = N("call") + 0 - 0
  BY <1>1, Recount
<1>5. Fulfilled'
  BY <1>1, <1>2, <1>3, <1>4 DEF OrderInv, Fulfilled
<1>6. upload'[a] = "idle" /\ \A b \in Actors : b # a => upload'[b] = upload[b]
  BY <1>1, <1>2
<1>7. Askable'
  <2>1. \A r \in Retries : r \in Actors
    BY DEF Actors
  <2>2. QED
    BY <1>1, <1>3, <1>6, <2>1 DEF OrderInv, Askable, UploadRetryable
<1>8. QED
  BY <1>1, <1>2, <1>5, <1>7, UploadFrame DEF OrderTypeOK, UploadSteps

\* What eBay may have carried out is counted where nothing will record it.
LEMMA UploadFailsStep == ASSUME OrderInv, NEW a \in Actors, UploadFails(a) PROVE OrderInv'
<1>1. /\ upload' = [upload EXCEPT ![a] = "fail"] /\ upload[a] \in {"call", "mark", "close"}
      /\ shippingFaults' = shippingFaults + 1 /\ shippingFaults < MaxShippingFaults
      /\ UNCHANGED <<kind, record, clerk, deliveries, job, retryable>>
  BY DEF UploadFails
<1>2. /\ OrderTypeOK /\ mishaps \in Mishaps /\ shipments \in Nat
      /\ N("call") \in Nat /\ N("mark") \in Nat
      /\ mishaps.unrecorded \in Nat /\ mishaps.blind \in Nat
  BY OrderAmounts DEF OrderInv, Mishaps
<1>3. /\ N("call")' = N("call") + 0 - (IF upload[a] = "call" THEN 1 ELSE 0)
      /\ N("mark")' = N("mark") + 0 - (IF upload[a] = "mark" THEN 1 ELSE 0)
  BY <1>1, Recount
<1>4. \/ upload[a] \in {"call", "close"} /\ UNCHANGED <<shipments, mishaps>>
      \/ /\ upload[a] = "call" /\ shipments' = shipments + 1
         /\ mishaps' = [mishaps EXCEPT !.unrecorded = @ + 1]
      \/ /\ upload[a] = "mark" /\ UNCHANGED shipments
         /\ mishaps' = [mishaps EXCEPT !.unrecorded = @ + 1]
  BY DEF UploadFails
<1>5. /\ mishaps' \in Mishaps /\ mishaps'.blind = mishaps.blind /\ shipments' \in Nat
      /\ mishaps'.died = mishaps.died /\ mishaps'.overlapped = mishaps.overlapped
  BY <1>2, <1>4 DEF Mishaps
<1>6. Fulfilled'
  <2>1. /\ shipments + N("call") =< 1 + mishaps.unrecorded + mishaps.blind
        /\ ~record.synced => shipments =< mishaps.unrecorded + N("mark")
    BY DEF OrderInv, Fulfilled
  <2>2. CASE upload[a] \in {"call", "close"} /\ UNCHANGED <<shipments, mishaps>>
    BY <1>1, <1>2, <1>3, <2>1, <2>2 DEF Fulfilled
  <2>3. CASE /\ upload[a] = "call" /\ shipments' = shipments + 1
             /\ mishaps' = [mishaps EXCEPT !.unrecorded = @ + 1]
    <3>1. mishaps'.unrecorded = mishaps.unrecorded + 1 /\ mishaps'.blind = mishaps.blind
      BY <1>2, <2>3 DEF Mishaps
    <3>2. QED
      BY <1>1, <1>2, <1>3, <2>1, <2>3, <3>1 DEF Fulfilled
  <2>4. CASE /\ upload[a] = "mark" /\ UNCHANGED shipments
             /\ mishaps' = [mishaps EXCEPT !.unrecorded = @ + 1]
    <3>1. mishaps'.unrecorded = mishaps.unrecorded + 1 /\ mishaps'.blind = mishaps.blind
      BY <1>2, <2>4 DEF Mishaps
    <3>2. QED
      BY <1>1, <1>2, <1>3, <2>1, <2>4, <3>1 DEF Fulfilled
  <2>5. QED
    BY <1>4, <2>2, <2>3, <2>4
<1>7. Askable'
  <2>1. /\ kind' = kind /\ job' = job /\ retryable' = retryable /\ record' = record
        /\ mishaps'.died = mishaps.died /\ upload[a] # "idle"
    BY <1>1, <1>5
  <2>2. QED
    BY <1>1, <2>1, StillAskable
<1>8. shippingFaults' \in 0..MaxShippingFaults
  BY <1>1, <1>2, ShippingAssumption DEF OrderTypeOK
<1>9. QED
  BY <1>1, <1>2, <1>5, <1>6, <1>7, <1>8, UploadFrame DEF OrderTypeOK, UploadSteps

LEMMA FailJobStep == ASSUME OrderInv, NEW a \in Actors, FailJob(a) PROVE OrderInv'
<1>1. /\ upload[a] = "fail" /\ upload' = [upload EXCEPT ![a] = "error"]
      /\ job' = "failed"
      /\ UNCHANGED <<kind, record, clerk, deliveries, retryable, shipments, shippingFaults,
                     mishaps>>
  BY DEF FailJob
<1>2. OrderTypeOK /\ mishaps \in Mishaps /\ N("call") \in Nat /\ N("mark") \in Nat
  BY OrderAmounts DEF OrderInv
<1>3. N("call")' = N("call") + 0 - 0 /\ N("mark")' = N("mark") + 0 - 0
  BY <1>1, Recount
<1>4. Fulfilled'
  BY <1>1, <1>2, <1>3 DEF OrderInv, Fulfilled
<1>5. upload' = [upload EXCEPT ![a] = "error"] /\ (job' = "none" => job = "none")
  BY <1>1
<1>6. QED
  <2>1. Askable'
    <3>1. UploadRetryable'
      <4>1. upload'[a] = "error"
        BY <1>1, OrderAmounts DEF OrderInv
      <4>2. QED
        BY <4>1 DEF UploadRetryable
    <3>2. \A b \in Actors : b # a => upload'[b] = upload[b]
      BY <1>1, Recount
    <3>3. upload'[a] = "error" /\ \A r \in Retries : r \in Actors
      BY <1>1, OrderAmounts DEF OrderInv, Actors
    <3>4. QED
      BY <1>1, <3>1, <3>2, <3>3 DEF OrderInv, Askable
  <2>2. QED
    BY <1>1, <1>2, <1>4, <2>1, UploadFrame DEF OrderTypeOK, UploadSteps

\* Where a registration goes that did not succeed.
LEMMA Returns ==
  ASSUME NEW a \in Actors
  PROVE  /\ Returned(a) \in {"idle", "queued", "dead"}
         /\ a \in Clerks => Returned(a) = "idle"
         /\ a \in Retries \/ a \in Clerks
BY ShippingAssumption DEF Returned, Actors

LEMMA RecordErrorStep == ASSUME OrderInv, NEW a \in Actors, RecordError(a) PROVE OrderInv'
<1> DEFINE t == Returned(a)
<1>1. /\ upload[a] = "error" /\ upload' = [upload EXCEPT ![a] = t]
      /\ retryable' = TRUE
      /\ UNCHANGED <<kind, record, clerk, deliveries, job, shipments, shippingFaults, mishaps>>
  BY DEF RecordError, NamesJob
<1>2. OrderTypeOK /\ mishaps \in Mishaps /\ N("call") \in Nat /\ N("mark") \in Nat
      /\ upload \in [Actors -> UploadSteps]
  BY OrderAmounts DEF OrderInv
<1>3. t \in {"idle", "queued", "dead"}
  BY Returns
<1> HIDE DEF t
<1>4. N("call")' = N("call") + 0 - 0 /\ N("mark")' = N("mark") + 0 - 0
  BY <1>1, <1>3, Recount
<1>5. Fulfilled'
  BY <1>1, <1>2, <1>4 DEF OrderInv, Fulfilled
<1>6. upload'[a] = t /\ \A b \in Actors : b # a => upload'[b] = upload[b]
  BY <1>1, <1>2
<1>7. Askable'
  BY <1>1, <1>3, <1>6 DEF OrderInv, Askable, UploadRetryable
<1>8. QED
  BY <1>1, <1>2, <1>3, <1>5, <1>7, UploadFrame DEF OrderTypeOK, UploadSteps

LEMMA UploadDiesStep == ASSUME OrderInv, NEW a \in Actors, UploadDies(a) PROVE OrderInv'
<1> DEFINE t == Returned(a)
<1>1. /\ upload[a] \in UploadSteps \ {"idle", "queued", "dead"}
      /\ upload' = [upload EXCEPT ![a] = t]
      /\ shippingFaults' = shippingFaults + 1 /\ shippingFaults < MaxShippingFaults
      /\ mishaps' = [mishaps EXCEPT !.unrecorded = IF upload[a] = "mark" THEN @ + 1 ELSE @,
                                    !.died = @ \/ a \in Clerks]
      /\ UNCHANGED <<kind, record, clerk, deliveries, job, retryable, shipments>>
  BY DEF UploadDies
<1>2. OrderTypeOK /\ mishaps \in Mishaps /\ N("call") \in Nat /\ N("mark") \in Nat
      /\ upload \in [Actors -> UploadSteps] /\ shipments \in Nat
      /\ mishaps.unrecorded \in Nat /\ mishaps.blind \in Nat
  BY OrderAmounts DEF OrderInv, Mishaps
<1>3. t \in {"idle", "queued", "dead"} /\ (a \in Retries \/ a \in Clerks)
  BY Returns
<1> HIDE DEF t
<1>4. /\ N("call")' = N("call") + 0 - (IF upload[a] = "call" THEN 1 ELSE 0)
      /\ N("mark")' = N("mark") + 0 - (IF upload[a] = "mark" THEN 1 ELSE 0)
  BY <1>1, <1>3, Recount
<1>5. /\ mishaps' \in Mishaps /\ mishaps'.blind = mishaps.blind
      /\ mishaps'.unrecorded
           = IF upload[a] = "mark" THEN mishaps.unrecorded + 1 ELSE mishaps.unrecorded
      /\ mishaps'.died = (mishaps.died \/ a \in Clerks)
      /\ mishaps'.overlapped = mishaps.overlapped
  <2>1. (IF upload[a] = "mark" THEN mishaps.unrecorded + 1 ELSE mishaps.unrecorded) \in Nat
    BY <1>2
  <2>2. (mishaps.died \/ a \in Clerks) \in BOOLEAN
    OBVIOUS
  <2>3. QED
    BY <1>1, <1>2, <2>1, <2>2 DEF Mishaps
<1>6. Fulfilled'
  <2>1. /\ shipments + N("call") =< 1 + mishaps.unrecorded + mishaps.blind
        /\ ~record.synced => shipments =< mishaps.unrecorded + N("mark")
    BY DEF OrderInv, Fulfilled
  <2>2. QED
    BY <1>1, <1>2, <1>4, <1>5, <2>1 DEF Fulfilled
<1>7. upload'[a] = t /\ \A b \in Actors : b # a => upload'[b] = upload[b]
  BY <1>1, <1>2
<1>8. Askable'
  <2>1. \A b \in Actors : upload'[b] = "close" => record'.synced
    BY <1>1, <1>3, <1>7 DEF OrderInv, Askable
  <2>2. \A r \in Retries : upload'[r] # "idle" => retryable'
    <3>1. \A r \in Retries : r \in Actors /\ (upload[r] # "idle" => retryable)
      BY DEF OrderInv, Askable, Actors
    <3>2. a \in Retries => retryable
      BY <1>1, <3>1
    <3>3. QED
      BY <1>1, <1>7, <3>1, <3>2
  <2>3. UploadRetryable'
    <3>1. CASE a \in Clerks
      BY <1>5, <3>1 DEF UploadRetryable
    <3>2. CASE a \in Retries
      BY <1>1, <3>2 DEF OrderInv, Askable, UploadRetryable
    <3>3. QED
      BY <1>3, <3>1, <3>2
  <2>4. QED
    BY <2>1, <2>2, <2>3 DEF Askable
<1>9. shippingFaults' \in 0..MaxShippingFaults
  BY <1>1, <1>2, ShippingAssumption DEF OrderTypeOK
<1>10. QED
  BY <1>1, <1>2, <1>3, <1>5, <1>6, <1>8, <1>9, UploadFrame DEF OrderTypeOK, UploadSteps

\* A message goes onto the queue, or back onto it from the DLQ.
LEMMA QueuedStep ==
  ASSUME OrderInv, NEW a \in Retries, Retry(a) \/ Redrive(a)
  PROVE  OrderInv'
<1>1. /\ upload[a] \in {"idle", "dead"} /\ upload' = [upload EXCEPT ![a] = "queued"]
      /\ UNCHANGED <<kind, record, clerk, job, retryable, shipments, shippingFaults, mishaps>>
      /\ deliveries' = deliveries \/ deliveries' = [deliveries EXCEPT ![a] = 0]
  BY DEF Retry, Redrive
<1>2. /\ OrderTypeOK /\ mishaps \in Mishaps /\ N("call") \in Nat /\ N("mark") \in Nat
      /\ upload \in [Actors -> UploadSteps] /\ a \in Actors
      /\ deliveries \in [Retries -> 0..MaxDeliveries]
  BY OrderAmounts DEF OrderInv, Actors
<1>3. retryable
  BY DEF Retry, Redrive, OrderInv, Askable
<1>4. /\ N("call")' = N("call") + 0 - 0 /\ N("mark")' = N("mark") + 0 - 0
  BY <1>1, <1>2, Recount
<1>5. Fulfilled'
  BY <1>1, <1>2, <1>4 DEF OrderInv, Fulfilled
<1>6. upload'[a] = "queued" /\ \A b \in Actors : b # a => upload'[b] = upload[b]
  BY <1>1, <1>2
<1>7. Askable'
  BY <1>1, <1>3, <1>6 DEF OrderInv, Askable, UploadRetryable
<1>8. deliveries' \in [Retries -> 0..MaxDeliveries]
  BY <1>1, <1>2, ShippingAssumption
<1>9. QED
  BY <1>1, <1>2, <1>3, <1>5, <1>7, <1>8, UploadFrame DEF OrderTypeOK, UploadSteps

LEMMA NextOrder == OrderInv /\ [OrderNext]_orderVars => OrderInv'
<1> SUFFICES ASSUME OrderInv, [OrderNext]_orderVars PROVE OrderInv'
  OBVIOUS
<1>1. CASE OrderReceived
  BY <1>1, OrderReceivedStep
<1>2. ASSUME NEW c \in Clerks, ClerkStep(c) PROVE OrderInv'
  BY <1>2, ReadToMoveStep, WriteMoveStep, MoveRefusedStep, ReadToFinalizeStep,
     WriteProfitStep, InsertJobStep DEF ClerkStep
<1>3. ASSUME NEW a \in Actors, UploadStep(a) \/ UploadFails(a) \/ UploadDies(a)
      PROVE  OrderInv'
  BY <1>3, CallEbayStep, MarkSyncedStep, CompleteJobStep, FailJobStep, RecordErrorStep,
     UploadFailsStep, UploadDiesStep DEF UploadStep
<1>4. ASSUME NEW r \in Retries, Retry(r) \/ Deliver(r) \/ Redrive(r)
      PROVE  OrderInv'
  BY <1>4, QueuedStep, DeliverStep
<1>5. CASE UNCHANGED orderVars
  <2>1. UNCHANGED <<kind, record, clerk, upload, deliveries, job, retryable, shipments,
                    shippingFaults, mishaps>>
    BY <1>5 DEF orderVars
  <2>2. Registered' /\ FirstUpload' /\ Fulfilled' /\ Askable'
    BY <2>1, UploadsKept
  <2>3. OrderTypeOK' /\ Stamped' /\ Validated' /\ Current'
    BY <2>1 DEF OrderInv, OrderTypeOK, Stamped, Validated, Current
  <2>4. QED
    BY <2>2, <2>3 DEF OrderInv
<1>6. QED
  BY <1>1, <1>2, <1>3, <1>4, <1>5 DEF OrderNext

------------------------------------------------------------------------------
(***************************************************************************)
(* Theorems                                                                *)
(***************************************************************************)

\* The invariant holds in every state of every behaviour of the order.
THEOREM OrderInductive == OrderSpec => []OrderInv
BY InitOrder, NextOrder, PTL DEF OrderSpec

\* The row, the requests and the registrations keep their types.
THEOREM OrderTypeCorrect == OrderSpec => []OrderTypeOK
<1>1. OrderInv => OrderTypeOK
  BY DEF OrderInv
<1>2. QED
  BY <1>1, OrderInductive, PTL

\* However many clerks act on one order, it is not both shipped and cancelled,
\* and a cancelled order has no fulfillment (updateOrderStatus's WHERE clause).
THEOREM OneOutcomeHolds == OrderSpec => []OneOutcome
<1>1. ASSUME OrderInv PROVE OneOutcome
  BY <1>1 DEF OrderInv, Stamped, Registered, OneOutcome
<1>2. QED
  BY <1>1, OrderInductive, PTL

\* However many retries, redrives and redeliveries an upload has, eBay has one
\* fulfillment and one more for each call that nothing recorded and each
\* delivery that overlapped another registration (processTrackingUploadRetry).
THEOREM OneShipmentHolds == OrderSpec => []OneShipment
<1>1. ASSUME OrderInv PROVE OneShipment
  <2>1. /\ shipments \in Nat /\ N("call") \in Nat
        /\ mishaps.unrecorded \in Nat /\ mishaps.blind \in Nat
    BY <1>1, OrderAmounts DEF OrderInv, Mishaps
  <2>2. QED
    BY <1>1, <2>1 DEF OrderInv, Fulfilled, OneShipment
<1>2. QED
  BY <1>1, OrderInductive, PTL

\* An unmarked order whose job was made can be asked for again, unless the
\* route's own execution died (insertSyncJob before the call).
THEOREM UploadRetryableHolds == OrderSpec => []UploadRetryable
<1>1. OrderInv => UploadRetryable
  BY DEF OrderInv, Askable
<1>2. QED
  BY <1>1, OrderInductive, PTL

\* A finalized profit is of the present amounts unless a finalization and a
\* change overlapped, for any number of clerks (finalizeOrderProfit).
THEOREM ProfitIsCurrentHolds == OrderSpec => []ProfitIsCurrent
<1>1. OrderInv => ProfitIsCurrent
  BY DEF OrderInv, Current, ProfitIsCurrent
<1>2. QED
  BY <1>1, OrderInductive, PTL
==============================================================================
