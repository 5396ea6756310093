---------------------------- MODULE Billing_proofs ----------------------------
(***************************************************************************)
(* Proofs about what a tenant pays for: the events of its subscription     *)
(* (TenantBilling), for every number of events, executions and faults, and *)
(* the quota of its plan (UsageQuota), for every number of calls, imports, *)
(* plans and months. They share no variable.                               *)
(***************************************************************************)
EXTENDS TenantBilling, UsageQuota, FiniteSetTheorems, TLAPS

------------------------------------------------------------------------------
(***************************************************************************)
(* TenantBilling: the invariant                                            *)
(***************************************************************************)

\* An execution that is not idle has an event, and one that Stripe created.
Engaged == \A h \in Hooks : hook[h].pc # "idle" => hook[h].event \in Created

\* Stripe's clock never goes back.
Clock == \A e, f \in Created : e =< f => billed[e].created =< billed[f].created

\* What is recorded as done has been committed.
Committed ==
  /\ applied \subseteq Created
  /\ \A e \in Events : inbox[e] = "completed" => e \in applied
  /\ \A h \in Hooks : hook[h].pc = "reply" => hook[h].event \in applied

\* While no two executions were inside their transactions together, the row has
\* the time and the status of a newest event applied, and what an execution found
\* in isStale is still so.
Watermark ==
  "webhooks" \notin races /\ tenant.exists =>
    /\ applied = {} => tenant.last = 0
    /\ \A e \in applied : billed[e].created =< tenant.last
    /\ applied # {} => \E f \in applied : /\ billed[f].created = tenant.last
                                          /\ tenant.status = StatusFor[billed[f].kind]
    /\ \A h \in Hooks : hook[h].pc = "checked" => hook[h].stale = Stale(hook[h].event)

\* As long as no payment met the operator's route, a tenant it works on is pending
\* and a user it took away is that tenant's.
OperatorKnows ==
  /\ ~tenant.exists => tenant.status = "pending_payment"
  /\ tenant.exists /\ "operator" \notin races =>
       /\ operator # "idle" => tenant.status = "pending_payment"
       /\ account \/ operator = "row"

BillingInv ==
  /\ BillingTypeOK /\ Engaged /\ Clock
  /\ NoEventLost /\ Committed /\ Watermark /\ OperatorKnows

LEMMA InitBilling == BillingInit => BillingInv
<1> SUFFICES ASSUME BillingInit PROVE BillingInv
  OBVIOUS
<1> USE BillingAssumption DEF BillingInit
<1>1. BillingTypeOK
  BY DEF BillingTypeOK, Event, Row, Events, Instant, Kinds, Status, InboxStatus,
         HookSteps, NoHook, NoEvent
<1>2. Created = {}
  BY DEF Created
<1>3. Engaged /\ Clock
  BY <1>2 DEF Engaged, Clock, NoHook, Events
<1>4. NoEventLost /\ Committed
  BY <1>2 DEF NoEventLost, Committed, NoHook
<1>5. Watermark /\ OperatorKnows
  BY DEF Watermark, OperatorKnows, NoHook
<1>6. QED
  BY <1>1, <1>3, <1>4, <1>5 DEF BillingInv

------------------------------------------------------------------------------
(***************************************************************************)
(* Stripe creates an event                                                 *)
(***************************************************************************)

\* The clock shows the time of the last event created.
LEMMA NowIsLast ==
  ASSUME BillingTypeOK, Clock, NEW n \in Events, Created = 1..n
  PROVE  Now = billed[n].created
<1>1. n \in Created /\ Created # {}
  BY DEF Events
<1>2. billed[n].created \in Instant
  BY DEF BillingTypeOK, Event
<1>3. \A e \in Created : e \in Events /\ e =< n /\ billed[e].created \in Instant
  BY DEF BillingTypeOK, Event, Created, Events
<1>4. \A e \in Created : billed[e].created =< billed[n].created
  BY <1>1, <1>3 DEF Clock
<1> DEFINE Last(t) == /\ \E e \in Created : billed[e].created = t
                      /\ \A e \in Created : billed[e].created =< t
<1>5. Last(billed[n].created)
  BY <1>1, <1>4
<1>6. \A t \in Instant : Last(t) => t = billed[n].created
  <2> TAKE t \in Instant
  <2> HAVE Last(t)
  <2>1. billed[n].created =< t
    BY <1>1
  <2>2. t =< billed[n].created
    BY <1>4
  <2>3. QED
    BY <2>1, <2>2, <1>2 DEF Instant
<1> HIDE DEF Last
<1>7. (CHOOSE t \in Instant : Last(t)) = billed[n].created
  BY <1>2, <1>5, <1>6
<1>8. Now = CHOOSE t \in Instant : Last(t)
  BY <1>1 DEF Now, Last
<1>9. QED
  BY <1>7, <1>8

LEMMA BillStep == BillingInv /\ Bill => BillingInv'
<1> SUFFICES ASSUME BillingInv, Bill PROVE BillingInv'
  OBVIOUS
<1> USE BillingAssumption
<1>1. PICK e \in Events, k \in Kinds, t \in Instant :
        /\ Created = 1..(e - 1)
        /\ t \in {Now, Now + 1}
        /\ billed' = [billed EXCEPT ![e] = [kind |-> k, created |-> t]]
        /\ UNCHANGED <<answered, inbox, hook, tenant, account, operator, hookFaults,
                       applied, races>>
  BY DEF Bill
<1>2. e \in Nat /\ e >= 1 /\ t \in Nat
  BY DEF Events, Instant
<1>3. billed \in [Events -> Event]
  BY DEF BillingInv, BillingTypeOK
<1>4. \A f \in Events : f # e => billed'[f] = billed[f]
  BY <1>1, <1>3
<1>5. billed'[e] = [kind |-> k, created |-> t]
  BY <1>1, <1>3
<1>6. \A f \in Events : billed[f].created \in Nat
  BY <1>3 DEF Event, Instant
<1>7. t >= 1 /\ \A f \in Created : billed[f].created =< t
  <2>1. CASE e = 1
    <3>1. Created = {}
      BY <1>1, <2>1
    <3>2. Now = 1
      BY <3>1 DEF Now
    <3>3. QED
      BY <3>1, <1>1, <3>2
  <2>2. CASE e # 1
    <3>1. /\ e - 1 \in Events /\ Created = 1..(e - 1)
          /\ \A f \in Created : f =< e - 1 /\ f \in Events
          /\ e - 1 \in Created
      BY <1>1, <1>2, <2>2 DEF Events
    <3>2. Now = billed[e - 1].created
      BY <3>1, NowIsLast DEF BillingInv
    <3>3. \A f \in Created : billed[f].created =< billed[e - 1].created
      BY <3>1 DEF BillingInv, Clock
    <3>4. billed[e - 1].created > 0
      BY <3>1 DEF Created
    <3>5. QED
      BY <3>1, <3>2, <3>3, <3>4, <1>1, <1>2, <1>6
  <2>3. QED
    BY <2>1, <2>2
<1>8. e \notin Created /\ Created' = Created \cup {e}
  <2>1. e \notin Created
    BY <1>1, <1>2
  <2>2. \A f \in Events : f \in Created' <=> f \in Created \/ f = e
    BY <1>4, <1>5, <1>7, <1>2 DEF Created
  <2>3. QED
    BY <2>1, <2>2 DEF Created
<1>9. \A f \in Created : f \in Events /\ f # e /\ billed'[f] = billed[f] /\ f < e
  BY <1>1, <1>4, <1>8, <1>2 DEF Created
<1>10. BillingTypeOK'
  <2>1. billed' \in [Events -> Event]
    BY <1>1, <1>3 DEF Event
  <2>2. QED
    BY <2>1, <1>1 DEF BillingInv, BillingTypeOK
<1>11. Engaged'
  BY <1>1, <1>8 DEF BillingInv, Engaged
<1>12. Clock'
  <2>1. ASSUME NEW f \in Created', NEW g \in Created', f =< g
        PROVE  billed'[f].created =< billed'[g].created
    <3>1. CASE f \in Created /\ g \in Created
      BY <3>1, <2>1, <1>9 DEF BillingInv, Clock
    <3>2. CASE g = e /\ f \in Created
      BY <3>2, <1>5, <1>7, <1>9
    <3>3. CASE f = e /\ g \in Created
      BY <3>3, <1>9, <2>1, <1>2 DEF Events
    <3>4. CASE f = e /\ g = e
      BY <3>4, <1>5, <1>2
    <3>5. QED
      BY <3>1, <3>2, <3>3, <3>4, <1>8
  <2>2. QED
    BY <2>1 DEF Clock
<1>13. NoEventLost' /\ Committed'
  BY <1>1, <1>8 DEF BillingInv, NoEventLost, Committed
<1>14. Watermark'
  <2>1. \A f \in applied : billed'[f] = billed[f]
    BY <1>9 DEF BillingInv, Committed
  <2>2. \A h \in Hooks : hook[h].pc = "checked" =>
          billed'[hook[h].event] = billed[hook[h].event]
    BY <1>9 DEF BillingInv, Engaged
  <2>3. QED
    BY <1>1, <2>1, <2>2 DEF BillingInv, Watermark, Stale
<1>15. OperatorKnows'
  BY <1>1 DEF BillingInv, OperatorKnows
<1>16. QED
  BY <1>10, <1>11, <1>12, <1>13, <1>14, <1>15 DEF BillingInv

------------------------------------------------------------------------------
(***************************************************************************)
(* The webhook's steps                                                     *)
(***************************************************************************)

HookTypes == [pc : HookSteps, event : 0..MaxEvents, stale : BOOLEAN]

\* A step that leaves Stripe, the tenant and the operator alone and does not take
\* an execution into its transaction keeps what is known of the tenant.
LEMMA WatermarkFrame ==
  ASSUME Watermark, UNCHANGED <<billed, tenant, applied, races>>,
         \A h \in Hooks : hook'[h].pc = "checked" => hook'[h] = hook[h]
  PROVE  Watermark'
BY DEF Watermark, Stale

LEMMA ClaimStep ==
  ASSUME BillingInv, NEW h \in Hooks, NEW e \in Events, Claim(h, e)
  PROVE  BillingInv'
<1> USE BillingAssumption DEF BillingInv
<1>1. hook \in [Hooks -> HookTypes] /\ e \in 0..MaxEvents
  BY DEF BillingTypeOK, HookTypes, Events
<1>2. /\ hook' = [hook EXCEPT ![h] = [pc |-> "claimed", event |-> e, stale |-> FALSE]]
      /\ inbox' = [inbox EXCEPT ![e] = "processing"]
      /\ e \in Created
      /\ UNCHANGED <<billed, answered, tenant, account, operator, hookFaults, applied, races>>
  BY DEF Claim
<1>3. BillingTypeOK'
  <2>1. hook' \in [Hooks -> HookTypes]
    BY <1>1, <1>2 DEF HookTypes, HookSteps
  <2>2. inbox' \in [Events -> InboxStatus]
    BY <1>2 DEF BillingTypeOK, InboxStatus
  <2>3. QED
    BY <1>2, <2>1, <2>2 DEF BillingTypeOK, HookTypes
<1>4. Engaged' /\ Clock'
  BY <1>1, <1>2 DEF Engaged, Clock, Created
<1>5. NoEventLost' /\ Committed'
  BY <1>1, <1>2 DEF NoEventLost, Committed, Created, BillingTypeOK
<1>6. Watermark'
  BY <1>1, <1>2, WatermarkFrame
<1>7. OperatorKnows'
  BY <1>2 DEF OperatorKnows
<1>8. QED
  BY <1>3, <1>4, <1>5, <1>6, <1>7

LEMMA DuplicateStep ==
  ASSUME BillingInv, NEW h \in Hooks, NEW e \in Events, Duplicate(h, e)
  PROVE  BillingInv'
<1> USE DEF BillingInv, Duplicate
<1>1. BillingTypeOK'
  BY DEF BillingTypeOK
<1>2. Engaged' /\ Clock'
  BY DEF Engaged, Clock, Created
<1>3. NoEventLost' /\ Committed'
  BY DEF NoEventLost, Committed, Created
<1>4. Watermark'
  BY WatermarkFrame
<1>5. OperatorKnows'
  BY DEF OperatorKnows
<1>6. QED
  BY <1>1, <1>2, <1>3, <1>4, <1>5

LEMMA CheckStaleStep ==
  ASSUME BillingInv, NEW h \in Hooks, CheckStale(h)
  PROVE  BillingInv'
<1> USE DEF BillingInv
<1>1. hook \in [Hooks -> HookTypes]
  BY DEF BillingTypeOK, HookTypes
<1>2. /\ hook[h].pc = "claimed"
      /\ hook' = [hook EXCEPT ![h].pc = "checked", ![h].stale = Stale(hook[h].event)]
      /\ UNCHANGED <<billed, answered, inbox, tenant, account, operator, hookFaults,
                     applied, races>>
  BY DEF CheckStale
<1>3. Stale(hook[h].event) \in BOOLEAN
  BY DEF Stale
<1>4. /\ hook' \in [Hooks -> HookTypes]
      /\ \A g \in Hooks \ {h} : hook'[g] = hook[g]
      /\ hook'[h].pc = "checked" /\ hook'[h].event = hook[h].event
      /\ hook'[h].stale = Stale(hook[h].event)
  BY <1>1, <1>2, <1>3 DEF HookTypes, HookSteps
<1>5. BillingTypeOK'
  BY <1>2, <1>4 DEF BillingTypeOK, HookTypes
<1>6. Engaged' /\ Clock'
  BY <1>2, <1>4 DEF Engaged, Clock, Created
<1>7. NoEventLost' /\ Committed'
  BY <1>2, <1>4 DEF NoEventLost, Committed, Created
<1>8. Watermark'
  <2>1. ASSUME "webhooks" \notin races, tenant.exists, NEW g \in Hooks,
               hook'[g].pc = "checked"
        PROVE  hook'[g].stale = Stale(hook[g].event)
    <3>1. CASE g = h
      BY <3>1, <1>4
    <3>2. CASE g # h
      BY <3>2, <2>1, <1>4 DEF Watermark
    <3>3. QED
      BY <3>1, <3>2
  <2>2. \A g \in Hooks : hook'[g].event = hook[g].event
    BY <1>4
  <2>3. QED
    BY <1>2, <2>1, <2>2 DEF Watermark, Stale
<1>9. OperatorKnows'
  BY <1>2 DEF OperatorKnows
<1>10. QED
  BY <1>5, <1>6, <1>7, <1>8, <1>9

\* The commit, whatever becomes of its answer.
LEMMA CommitStep ==
  ASSUME BillingInv, NEW h \in Hooks, NEW step \in {"reply", "failing"},
         Commits(h), HookTo(h, step), hookFaults' \in 0..MaxHookFaults
  PROVE  BillingInv'
<1> USE DEF BillingInv
<1> DEFINE e == hook[h].event
<1>1. hook \in [Hooks -> HookTypes]
  BY DEF BillingTypeOK, HookTypes
<1>2. /\ hook[h].pc = "checked"
      /\ tenant' = IF Applies(h) THEN Marked(tenant, e) ELSE tenant
      /\ inbox' = [inbox EXCEPT ![e] = "completed"]
      /\ applied' = applied \cup {e}
      /\ races' = races \cup (IF InTransaction = {h} THEN {} ELSE {"webhooks"})
                        \cup (IF operator = "idle" THEN {} ELSE {"operator"})
      /\ UNCHANGED <<billed, answered, account, operator>>
      /\ hook' = [hook EXCEPT ![h].pc = step]
  BY DEF Commits, HookTo
<1>3. e \in Created /\ e \in Events
  BY <1>2 DEF Engaged, Created
<1>4. /\ hook' \in [Hooks -> HookTypes]
      /\ \A g \in Hooks \ {h} : hook'[g] = hook[g]
      /\ hook'[h].pc = step /\ hook'[h].event = e
  BY <1>1, <1>2 DEF HookTypes, HookSteps
<1>5. billed[e] \in Event /\ StatusFor[billed[e].kind] \in Status
      /\ StatusFor[billed[e].kind] # "pending_payment"
  BY <1>3 DEF BillingTypeOK, Event, Kinds, Status, StatusFor
<1>6. /\ tenant' \in Row
      /\ tenant'.exists = tenant.exists
      /\ Applies(h) => /\ tenant'.status = StatusFor[billed[e].kind]
                       /\ tenant'.last = billed[e].created
      /\ ~Applies(h) => tenant' = tenant
  BY <1>2, <1>5 DEF BillingTypeOK, Row, Event, Marked
<1>7. BillingTypeOK'
  <2>1. inbox' \in [Events -> InboxStatus]
    BY <1>2 DEF BillingTypeOK, InboxStatus
  <2>2. applied' \in SUBSET Events /\ races' \in SUBSET {"webhooks", "operator"}
    BY <1>2, <1>3 DEF BillingTypeOK
  <2>3. QED
    BY <1>2, <1>4, <1>6, <2>1, <2>2 DEF BillingTypeOK, HookTypes
<1>8. Engaged' /\ Clock'
  BY <1>2, <1>3, <1>4 DEF Engaged, Clock, Created
<1>9. NoEventLost' /\ Committed'
  <2>1. \A f \in Events : inbox'[f] = "completed" => f \in applied'
    BY <1>2 DEF Committed, BillingTypeOK
  <2>2. \A g \in Hooks : hook'[g].pc = "reply" => hook'[g].event \in applied'
    BY <1>2, <1>4 DEF Committed
  <2>3. QED
    BY <1>2, <1>3, <2>1, <2>2 DEF NoEventLost, Committed, Created
<1>10. Watermark'
  <2> SUFFICES ASSUME "webhooks" \notin races', tenant'.exists
               PROVE  /\ applied' = {} => tenant'.last = 0
                      /\ \A f \in applied' : billed[f].created =< tenant'.last
                      /\ applied' # {} =>
                           \E f \in applied' :
                             /\ billed[f].created = tenant'.last
                             /\ tenant'.status = StatusFor[billed[f].kind]
                      /\ \A g \in Hooks : hook'[g].pc = "checked" =>
                           hook'[g].stale = (tenant'.last > billed[hook'[g].event].created)
    BY <1>2 DEF Watermark, Stale
  <2>1. "webhooks" \notin races /\ InTransaction = {h} /\ tenant.exists
    BY <1>2, <1>6
  <2>2. /\ applied = {} => tenant.last = 0
        /\ \A f \in applied : billed[f].created =< tenant.last
        /\ applied # {} => \E f \in applied : /\ billed[f].created = tenant.last
                                              /\ tenant.status = StatusFor[billed[f].kind]
        /\ hook[h].stale = Stale(e)
    BY <1>2, <2>1 DEF Watermark
  <2>3. \A g \in Hooks : hook'[g].pc # "checked"
    BY <1>4, <2>1 DEF InTransaction
  <2>4. tenant.last \in Nat /\ \A f \in Events : billed[f].created \in Nat
    BY DEF BillingTypeOK, Row, Event, Instant
  <2>5. applied \subseteq Events
    BY DEF BillingTypeOK
  <2>6. CASE Stale(e)
    <3>1. tenant' = tenant /\ tenant.last > billed[e].created
      BY <2>6, <2>2, <1>6 DEF Applies, Stale
    <3>2. applied # {}
      BY <3>1, <2>2, <2>4, <1>3
    <3>3. QED
      BY <3>1, <3>2, <2>2, <2>3, <2>4, <1>2, <1>3
  <2>7. CASE ~Stale(e)
    <3>1. /\ tenant'.status = StatusFor[billed[e].kind]
          /\ tenant'.last = billed[e].created
          /\ tenant.last =< billed[e].created
      <4>1. Applies(h)
        BY <2>7, <2>1, <2>2 DEF Applies
      <4>2. tenant.last =< billed[e].created
        BY <2>7, <2>4, <1>3 DEF Stale
      <4>3. QED
        BY <4>1, <4>2, <1>6
    <3>2. \A f \in applied' : billed[f].created =< tenant'.last
      BY <3>1, <2>2, <2>4, <2>5, <1>2, <1>3
    <3>3. QED
      BY <3>1, <3>2, <2>3, <1>2
  <2>8. QED
    BY <2>6, <2>7
<1>11. OperatorKnows'
  BY <1>2, <1>6 DEF OperatorKnows, Applies
<1>12. QED
  BY <1>7, <1>8, <1>9, <1>10, <1>11

LEMMA ApplyStep ==
  ASSUME BillingInv, NEW h \in Hooks, Apply(h)
  PROVE  BillingInv'
<1>1. Commits(h) /\ HookTo(h, "reply") /\ UNCHANGED hookFaults
  BY DEF Apply
<1>2. hookFaults' \in 0..MaxHookFaults
  BY <1>1 DEF BillingInv, BillingTypeOK
<1>3. QED
  BY <1>1, <1>2, CommitStep

LEMMA FaultBound ==
  ASSUME BillingInv, HookFails
  PROVE  hookFaults' \in 0..MaxHookFaults
BY BillingAssumption DEF HookFails, BillingInv, BillingTypeOK

LEMMA CommitUnansweredStep ==
  ASSUME BillingInv, NEW h \in Hooks, CommitUnanswered(h)
  PROVE  BillingInv'
<1>1. Commits(h) /\ HookTo(h, "failing") /\ HookFails
  BY DEF CommitUnanswered
<1>2. QED
  BY <1>1, FaultBound, CommitStep

\* A step that changes nothing but an execution, which it takes out of its
\* transaction, and the count of faults.
LEMMA LeaveStep ==
  ASSUME BillingInv, NEW h \in Hooks, NEW to \in HookTypes,
         hook' = [hook EXCEPT ![h] = to],
         to.pc \notin {"checked", "reply"},
         to.pc # "idle" => to.event \in Created,
         hookFaults' \in 0..MaxHookFaults,
         UNCHANGED <<billed, tenant, account, operator, applied, races>>,
         inbox' \in [Events -> InboxStatus],
         \A e \in Events : inbox'[e] = "completed" => e \in applied,
         answered' \subseteq applied
  PROVE  BillingInv'
<1> USE DEF BillingInv
<1>1. hook \in [Hooks -> HookTypes]
  BY DEF BillingTypeOK, HookTypes
<1>2. hook' \in [Hooks -> HookTypes]
  BY <1>1
<1>3. applied \subseteq Events
  BY DEF BillingTypeOK
<1>4. BillingTypeOK'
  BY <1>2, <1>3 DEF BillingTypeOK, HookTypes
<1>5. Engaged' /\ Clock'
  BY <1>1 DEF Engaged, Clock, Created
<1>6. NoEventLost' /\ Committed'
  BY <1>1 DEF NoEventLost, Committed, Created
<1>7. Watermark'
  BY <1>1, WatermarkFrame
<1>8. OperatorKnows'
  BY DEF OperatorKnows
<1>9. QED
  BY <1>4, <1>5, <1>6, <1>7, <1>8

LEMMA AbortsStep ==
  ASSUME BillingInv, NEW h \in Hooks, Aborts(h)
  PROVE  BillingInv'
<1> DEFINE to == [hook[h] EXCEPT !.pc = "failing"]
<1>1. hook[h] \in HookTypes /\ hook[h].pc # "idle"
  BY DEF Aborts, BillingInv, BillingTypeOK, HookTypes
<1>2. /\ to \in HookTypes /\ to.pc = "failing" /\ to.event = hook[h].event
      /\ hook' = [hook EXCEPT ![h] = to]
  BY <1>1 DEF HookTypes, HookSteps, Aborts, HookTo
<1>3. to.event \in Created
  BY <1>1, <1>2 DEF BillingInv, Engaged
<1> HIDE DEF to
<1>4. QED
  BY <1>2, <1>3, FaultBound, LeaveStep
     DEF Aborts, BillingInv, BillingTypeOK, Committed, NoEventLost

LEMMA IdleHook == NoHook \in HookTypes /\ NoHook.pc = "idle"
BY BillingAssumption DEF NoHook, HookTypes, HookSteps, NoEvent

LEMMA FailEventStep ==
  ASSUME BillingInv, NEW h \in Hooks, FailEvent(h)
  PROVE  BillingInv'
<1>1. inbox \in [Events -> InboxStatus]
  BY DEF BillingInv, BillingTypeOK
<1>2. inbox' \in [Events -> InboxStatus]
  BY <1>1 DEF FailEvent, InboxStatus
<1>3. \A e \in Events : inbox'[e] = "completed" => e \in applied
  BY <1>1 DEF FailEvent, BillingInv, Committed
<1>4. QED
  BY <1>2, <1>3, IdleHook, LeaveStep
     DEF FailEvent, HookEnds, BillingInv, BillingTypeOK, NoEventLost

LEMMA ReplyStep ==
  ASSUME BillingInv, NEW h \in Hooks, Reply(h)
  PROVE  BillingInv'
<1>1. hook[h].event \in applied
  BY DEF Reply, BillingInv, Committed
<1>2. QED
  BY <1>1, IdleHook, LeaveStep
     DEF Reply, HookEnds, BillingInv, BillingTypeOK, Committed, NoEventLost

LEMMA HookDiesStep ==
  ASSUME BillingInv, NEW h \in Hooks, HookDies(h)
  PROVE  BillingInv'
BY IdleHook, FaultBound, LeaveStep
   DEF HookDies, HookEnds, BillingInv, BillingTypeOK, Committed, NoEventLost

------------------------------------------------------------------------------
(***************************************************************************)
(* The operator's steps                                                    *)
(***************************************************************************)

LEMMA OperatorKeeps ==
  ASSUME BillingInv, OperatorStep
  PROVE  BillingInv'
<1> USE DEF BillingInv
<1>1. UNCHANGED <<billed, answered, inbox, hook, applied>>
  BY DEF OperatorStep, OperatorReads, OperatorDeletesUser, OperatorDeletesRow, OperatorDies
<1>2. /\ tenant' \in Row
      /\ tenant' = tenant \/ (~tenant'.exists /\ tenant.status = "pending_payment"
                                              /\ tenant'.status = tenant.status)
  BY DEF OperatorStep, OperatorReads, OperatorDeletesUser, OperatorDeletesRow, OperatorDies,
         Deletable, BillingTypeOK, Row
<1>3. races \subseteq races' /\ races' \subseteq races \cup {"operator"}
  BY DEF OperatorStep, OperatorReads, OperatorDeletesUser, OperatorDeletesRow, OperatorDies
<1>4. BillingTypeOK'
  <2>1. hookFaults' \in 0..MaxHookFaults
    BY FaultBound DEF OperatorStep, OperatorReads, OperatorDeletesUser, OperatorDeletesRow,
       OperatorDies, BillingTypeOK
  <2>2. operator' \in {"idle", "user", "row"} /\ account' \in BOOLEAN
    BY DEF OperatorStep, OperatorReads, OperatorDeletesUser, OperatorDeletesRow, OperatorDies,
           BillingTypeOK
  <2>3. races' \in SUBSET {"webhooks", "operator"}
    BY <1>3 DEF BillingTypeOK
  <2>4. QED
    BY <1>1, <1>2, <2>1, <2>2, <2>3 DEF BillingTypeOK
<1>5. Engaged' /\ Clock'
  BY <1>1 DEF Engaged, Clock, Created
<1>6. NoEventLost' /\ Committed'
  BY <1>1 DEF NoEventLost, Committed, Created
<1>7. Watermark'
  <2>1. CASE tenant' = tenant
    BY <2>1, <1>1, <1>3 DEF Watermark, Stale
  <2>2. CASE ~tenant'.exists
    BY <2>2 DEF Watermark
  <2>3. QED
    BY <2>1, <2>2, <1>2
<1>8. OperatorKnows'
  <2>1. CASE OperatorReads
    BY <2>1 DEF OperatorReads, OperatorKnows
  <2>2. CASE OperatorDeletesUser
    BY <2>2 DEF OperatorDeletesUser, OperatorKnows
  <2>3. CASE OperatorDeletesRow
    <3>1. tenant' = [tenant EXCEPT !.exists = tenant.exists /\ ~Deletable]
      BY <2>3 DEF OperatorDeletesRow
    <3>2. tenant \in Row
      BY DEF BillingTypeOK
    <3>3. tenant'.exists = (tenant.exists /\ ~Deletable) /\ tenant'.status = tenant.status
      BY <3>1, <3>2 DEF Row
    <3>4. tenant'.exists /\ "operator" \notin races => FALSE
      BY <2>3, <3>3 DEF OperatorDeletesRow, OperatorKnows, Deletable
    <3>5. ~tenant'.exists => tenant'.status = "pending_payment"
      BY <3>3 DEF OperatorKnows, Deletable
    <3>6. races' = races
      BY <2>3 DEF OperatorDeletesRow
    <3>7. QED
      BY <3>4, <3>5, <3>6 DEF OperatorKnows
  <2>4. CASE OperatorDies
    BY <2>4 DEF OperatorDies, OperatorKnows
  <2>5. QED
    BY <2>1, <2>2, <2>3, <2>4 DEF OperatorStep
<1>9. QED
  BY <1>4, <1>5, <1>6, <1>7, <1>8

------------------------------------------------------------------------------
(***************************************************************************)
(* The theorems                                                            *)
(***************************************************************************)

LEMMA Stuttering ==
  ASSUME BillingInv, UNCHANGED billingVars
  PROVE  BillingInv'
BY DEF BillingInv, billingVars, BillingTypeOK, Engaged, Clock, Created, NoEventLost,
       Committed, Watermark, Stale, OperatorKnows

LEMMA NextBilling == BillingInv /\ [BillingNext]_billingVars => BillingInv'
<1> SUFFICES ASSUME BillingInv, [BillingNext]_billingVars PROVE BillingInv'
  OBVIOUS
<1>1. CASE Bill
  BY <1>1, BillStep
<1>2. ASSUME NEW h \in Hooks, HookStep(h)
      PROVE  BillingInv'
  BY <1>2, ClaimStep, DuplicateStep, CheckStaleStep, ApplyStep, FailEventStep, ReplyStep
     DEF HookStep
<1>3. ASSUME NEW h \in Hooks, HookFault(h)
      PROVE  BillingInv'
  BY <1>3, CommitUnansweredStep, AbortsStep, HookDiesStep DEF HookFault
<1>4. CASE OperatorStep
  BY <1>4, OperatorKeeps
<1>5. CASE UNCHANGED billingVars
  BY <1>5, Stuttering
<1>6. QED
  BY <1>1, <1>2, <1>3, <1>4, <1>5 DEF BillingNext

\* The invariant holds in every state of every behaviour of the billing.
THEOREM BillingInductive == BillingSpec => []BillingInv
BY InitBilling, NextBilling, PTL DEF BillingSpec

\* Every variable keeps its type, for any number of events, executions and faults.
THEOREM BillingTypeCorrect == BillingSpec => []BillingTypeOK
<1>1. BillingInv => BillingTypeOK
  BY DEF BillingInv
<1>2. QED
  BY <1>1, BillingInductive, PTL

\* stripe-webhook answers no event with a 2xx that was not committed.
THEOREM NoEventLostHolds == BillingSpec => []NoEventLost
<1>1. BillingInv => NoEventLost
  BY DEF BillingInv
<1>2. QED
  BY <1>1, BillingInductive, PTL

\* In whatever order Stripe's events arrive, a newest one decides, unless two
\* executions were inside their transactions together.
THEOREM NewestDecidesHolds == BillingSpec => []NewestDecides
<1>1. BillingInv => NewestDecides
  BY DEF BillingInv, Watermark, NewestDecides
<1>2. QED
  BY <1>1, BillingInductive, PTL

\* The operator's route deletes no tenant that has paid, and takes its user away
\* only if the payment arrived while the route ran.
THEOREM PayingTenantIsKeptHolds == BillingSpec => []PayingTenantIsKept
<1>1. BillingInv => PayingTenantIsKept
  BY DEF BillingInv, OperatorKnows, PayingTenantIsKept
<1>2. QED
  BY <1>1, BillingInductive, PTL

------------------------------------------------------------------------------
(***************************************************************************)
(* UsageQuota: the calls under way                                         *)
(***************************************************************************)

\* The calls that hold a reservation of month m.
Holders(m) == {c \in Callers : caller[c].pc = "call" /\ caller[c].month = m}

LEMMA HoldersFinite ==
  ASSUME NEW m
  PROVE  IsFiniteSet(Holders(m)) /\ InCall(m) \in Nat
<1>1. IsFiniteSet(Callers) /\ Holders(m) \subseteq Callers
  BY QuotaAssumption DEF Holders
<1>2. IsFiniteSet(Holders(m))
  BY <1>1, FS_Subset
<1>3. InCall(m) = Cardinality(Holders(m))
  BY DEF InCall, Holders
<1>4. QED
  BY <1>2, <1>3, FS_CardinalityType

\* A call that reserves counts in its month and in no other.
LEMMA OneMore ==
  ASSUME NEW c \in Callers, NEW m, NEW r, caller \in [Callers -> r],
         caller[c].pc # "call",
         caller'[c].pc = "call", caller'[c].month = m,
         \A d \in Callers \ {c} : caller'[d] = caller[d]
  PROVE  /\ InCall(m)' = InCall(m) + 1
         /\ \A n : n # m => InCall(n)' = InCall(n)
<1>1. \A n : /\ InCall(n) = Cardinality(Holders(n))
             /\ InCall(n)' = Cardinality(Holders(n)')
  BY DEF InCall, Holders
<1>2. Holders(m)' = Holders(m) \cup {c} /\ c \notin Holders(m)
  BY DEF Holders
<1>3. \A n : n # m => Holders(n)' = Holders(n)
  BY DEF Holders
<1>4. Cardinality(Holders(m) \cup {c}) = Cardinality(Holders(m)) + 1
  BY <1>2, HoldersFinite, FS_AddElement
<1>5. QED
  BY <1>1, <1>2, <1>3, <1>4

\* A call that ends no longer counts.
LEMMA OneLess ==
  ASSUME NEW c \in Callers, NEW m, caller[c].month = m,
         caller[c].pc = "call", caller'[c].pc # "call",
         \A d \in Callers \ {c} : caller'[d] = caller[d]
  PROVE  /\ InCall(m) >= 1
         /\ InCall(m)' = InCall(m) - 1
         /\ \A n : n # m => InCall(n)' = InCall(n)
<1>1. \A n : /\ InCall(n) = Cardinality(Holders(n))
             /\ InCall(n)' = Cardinality(Holders(n)')
  BY DEF InCall, Holders
<1>2. Holders(m)' = Holders(m) \ {c} /\ c \in Holders(m)
  BY DEF Holders
<1>3. \A n : n # m => Holders(n)' = Holders(n)
  BY DEF Holders
<1>4. Cardinality(Holders(m) \ {c}) = Cardinality(Holders(m)) - 1
  BY <1>2, HoldersFinite, FS_RemoveElement
<1>5. InCall(m) >= 1
  <2>1. Holders(m) # {} /\ InCall(m) \in Nat
    BY <1>2, HoldersFinite
  <2>2. InCall(m) # 0
    BY <1>1, <2>1, HoldersFinite, FS_EmptySet
  <2>3. QED
    BY <2>1, <2>2
<1>6. QED
  BY <1>1, <1>2, <1>3, <1>4, <1>5

------------------------------------------------------------------------------
(***************************************************************************)
(* The invariant                                                           *)
(***************************************************************************)

\* Every limit anyone has read or may read is at most the highest.
Limits ==
  /\ plan =< highest
  /\ \A c \in Callers : caller[c].limit =< highest
  /\ \A i \in Importers : importer[i].limit =< highest

\* A month's counter: within the highest limit, and what it is made of.
Booked ==
  \A m \in Months :
    /\ used[m] =< highest
    /\ used[m] + metered.strayed[m] = metered.succeeded[m] + InCall(m) + metered.leaked[m]

\* The advisory lock has one holder, whose count is still right.
Serialized ==
  /\ \A i \in Importers : importer[i].pc = "lock" => importer[i].count = products
  /\ \A i, j \in Importers : importer[i].pc = "lock" /\ importer[j].pc = "lock" => i = j
  /\ products =< highest

QuotaInv == QuotaTypeOK /\ Limits /\ Booked /\ Serialized

Calls == [pc : {"idle", "read", "call"}, limit : Plans \cup {0}, month : Months]
Imports == [pc : {"idle", "read", "lock"}, limit : Plans \cup {0}, count : Nat]

LEMMA Constants ==
  /\ Plans \subseteq Nat /\ \A p \in Plans : p >= 1
  /\ 0 \in Months /\ Months \subseteq Nat
  /\ NoCall \in Calls /\ NoImport \in Imports
BY QuotaAssumption DEF Months, NoCall, NoImport, Calls, Imports

LEMMA InitQuota == QuotaInit => QuotaInv
<1> SUFFICES ASSUME QuotaInit PROVE QuotaInv
  OBVIOUS
<1> USE Constants, QuotaAssumption DEF QuotaInit
<1>1. QuotaTypeOK
  BY DEF QuotaTypeOK, Calls, Imports
<1>2. \A m \in Months : InCall(m) = 0
  <2> TAKE m \in Months
  <2>1. {c \in Callers : caller[c].pc = "call" /\ caller[c].month = m} = {}
    BY DEF NoCall
  <2>2. QED
    BY <2>1, FS_EmptySet DEF InCall
<1>3. plan \in Nat /\ plan = highest
  OBVIOUS
<1>4. Limits
  BY <1>3 DEF Limits, NoCall, NoImport
<1>5. Booked
  <2>1. \A m \in Months : /\ used[m] = 0 /\ metered.strayed[m] = 0
                          /\ metered.succeeded[m] = 0 /\ metered.leaked[m] = 0
    OBVIOUS
  <2>2. QED
    BY <1>2, <1>3, <2>1 DEF Booked
<1>6. Serialized
  BY <1>3 DEF Serialized, NoImport
<1>7. QED
  BY <1>1, <1>4, <1>5, <1>6 DEF QuotaInv

------------------------------------------------------------------------------
(***************************************************************************)
(* Steps                                                                   *)
(***************************************************************************)

\* The shape of a step of one call: its locals and the month's books change.
LEMMA CallFrame ==
  ASSUME QuotaInv, NEW c \in Callers, NEW to \in Calls, to.limit =< highest,
         caller' = [caller EXCEPT ![c] = to],
         UNCHANGED <<month, plan, planChanges, importer, products, highest>>,
         used' \in [Months -> Nat],
         metered' \in [succeeded : [Months -> Nat], leaked : [Months -> Nat],
                       strayed : [Months -> Nat]],
         Booked'
  PROVE  QuotaInv'
<1> USE DEF QuotaInv
<1>1. caller \in [Callers -> Calls]
  BY DEF QuotaTypeOK, Calls
<1>2. caller' \in [Callers -> Calls] /\ \A d \in Callers : d # c => caller'[d] = caller[d]
  BY <1>1
<1>3. caller'[c] = to
  BY <1>1
<1>4. QuotaTypeOK'
  BY <1>2 DEF QuotaTypeOK, Calls
<1>5. Limits'
  BY <1>2, <1>3 DEF Limits
<1>6. Serialized'
  BY DEF Serialized
<1>7. QED
  BY <1>4, <1>5, <1>6

\* A call that was not under way and is not keeps the books.
LEMMA NotCalling ==
  ASSUME QuotaInv, NEW c \in Callers, NEW to \in Calls,
         caller[c].pc # "call", to.pc # "call",
         caller' = [caller EXCEPT ![c] = to], UNCHANGED <<used, metered, highest>>
  PROVE  Booked'
<1>1. caller \in [Callers -> Calls]
  BY DEF QuotaInv, QuotaTypeOK, Calls
<1>2. \A m \in Months : InCall(m)' = InCall(m)
  <2> TAKE m \in Months
  <2>1. {d \in Callers : caller'[d].pc = "call" /\ caller'[d].month = m}
          = {d \in Callers : caller[d].pc = "call" /\ caller[d].month = m}
    BY <1>1
  <2>2. QED
    BY <2>1 DEF InCall
<1>3. QED
  BY <1>2 DEF QuotaInv, Booked

LEMMA ReadLimitStep ==
  ASSUME QuotaInv, NEW c \in Callers, ReadLimit(c)
  PROVE  QuotaInv'
<1> DEFINE to == [NoCall EXCEPT !.pc = "read", !.limit = plan]
<1>1. plan \in Plans /\ plan =< highest
  BY DEF QuotaInv, QuotaTypeOK, Limits
<1>2. to \in Calls /\ to.pc # "call" /\ to.limit =< highest
  BY <1>1, Constants DEF NoCall, Calls
<1>3. /\ caller' = [caller EXCEPT ![c] = to] /\ caller[c].pc # "call"
      /\ UNCHANGED <<month, plan, planChanges, used, importer, products, highest, metered>>
  BY DEF ReadLimit
<1> HIDE DEF to
<1>4. Booked'
  BY <1>2, <1>3, NotCalling
<1>5. /\ used' \in [Months -> Nat]
      /\ metered' \in [succeeded : [Months -> Nat], leaked : [Months -> Nat],
                       strayed : [Months -> Nat]]
  BY <1>3 DEF QuotaInv, QuotaTypeOK
<1>6. QED
  BY <1>2, <1>3, <1>4, <1>5, CallFrame

LEMMA QuotaExceededStep ==
  ASSUME QuotaInv, NEW c \in Callers, QuotaExceeded(c)
  PROVE  QuotaInv'
<1>1. highest \in Nat
  BY Constants DEF QuotaInv, QuotaTypeOK
<1>2. NoCall \in Calls /\ NoCall.pc # "call" /\ NoCall.limit =< highest
  BY <1>1, Constants DEF NoCall
<1>3. /\ caller' = [caller EXCEPT ![c] = NoCall] /\ caller[c].pc # "call"
      /\ UNCHANGED <<month, plan, planChanges, used, importer, products, highest, metered>>
  BY DEF QuotaExceeded
<1>4. Booked'
  BY <1>2, <1>3, NotCalling
<1>5. /\ used' \in [Months -> Nat]
      /\ metered' \in [succeeded : [Months -> Nat], leaked : [Months -> Nat],
                       strayed : [Months -> Nat]]
  BY <1>3 DEF QuotaInv, QuotaTypeOK
<1>6. QED
  BY <1>2, <1>3, <1>4, <1>5, CallFrame

\* What every step of a call in progress knows of the counter and its books.
LEMMA Books ==
  ASSUME QuotaInv
  PROVE  /\ month \in Months /\ highest \in Nat /\ highest >= 1
         /\ caller \in [Callers -> Calls]
         /\ used \in [Months -> Nat]
         /\ metered \in [succeeded : [Months -> Nat], leaked : [Months -> Nat],
                         strayed : [Months -> Nat]]
         /\ \A m \in Months : InCall(m) \in Nat
BY Constants, HoldersFinite DEF QuotaInv, QuotaTypeOK, Calls

\* The reservation: below the limit, or the month's first.
LEMMA ReserveStep ==
  ASSUME QuotaInv, NEW c \in Callers, Reserve(c)
  PROVE  QuotaInv'
<1> DEFINE to == [caller[c] EXCEPT !.pc = "call", !.month = month]
<1>1. /\ month \in Months /\ highest \in Nat /\ highest >= 1
      /\ caller \in [Callers -> Calls] /\ used \in [Months -> Nat]
  BY Books
<1>2. to \in Calls /\ to.pc = "call" /\ to.month = month /\ to.limit = caller[c].limit
  BY <1>1 DEF Calls
<1>3. /\ caller' = [caller EXCEPT ![c] = to] /\ caller[c].pc # "call"
      /\ used' = [used EXCEPT ![month] = @ + 1]
      /\ UNCHANGED <<month, plan, planChanges, importer, products, highest, metered>>
  BY <1>1 DEF Reserve, Calls
<1>4. caller[c].limit =< highest /\ caller[c].limit \in Nat
  BY <1>1, Constants DEF QuotaInv, Limits, Calls
<1>5. used[month] + 1 =< highest
  BY <1>1, <1>4 DEF Reserve, UnderLimit
<1> HIDE DEF to
<1>6. /\ InCall(month)' = InCall(month) + 1
      /\ \A n : n # month => InCall(n)' = InCall(n)
  <2>1. caller'[c] = to /\ \A d \in Callers \ {c} : caller'[d] = caller[d]
    BY <1>1, <1>3
  <2>2. QED
    BY <1>1, <1>2, <1>3, <2>1, OneMore
<1>7. Booked'
  <2> SUFFICES ASSUME NEW m \in Months
               PROVE  /\ used'[m] =< highest'
                      /\ used'[m] + metered'.strayed[m]
                           = metered'.succeeded[m] + InCall(m)' + metered'.leaked[m]
    BY DEF Booked
  <2>1. /\ used[m] =< highest
        /\ used[m] + metered.strayed[m] = metered.succeeded[m] + InCall(m) + metered.leaked[m]
        /\ metered' = metered /\ highest' = highest
    BY <1>3 DEF QuotaInv, Booked
  <2>2. /\ used[m] \in Nat /\ metered.strayed[m] \in Nat /\ metered.succeeded[m] \in Nat
        /\ metered.leaked[m] \in Nat /\ InCall(m) \in Nat
    BY Books
  <2>3. CASE m = month
    <3>1. used'[m] = used[m] + 1 /\ InCall(m)' = InCall(m) + 1
      BY <1>1, <1>3, <1>6, <2>3
    <3>2. used'[m] =< highest'
      BY <1>5, <2>1, <2>3, <3>1
    <3>3. used'[m] + metered'.strayed[m]
            = metered'.succeeded[m] + (InCall(m) + 1) + metered'.leaked[m]
      BY <2>1, <2>2, <3>1
    <3>4. QED
      BY <3>1, <3>2, <3>3
  <2>4. CASE m # month
    <3>1. used'[m] = used[m] /\ InCall(m)' = InCall(m)
      BY <1>1, <1>3, <1>6, <2>4
    <3>2. QED
      BY <2>1, <3>1
  <2>5. QED
    BY <2>3, <2>4
<1>8. used' \in [Months -> Nat]
  BY <1>1, <1>3
<1>9. to.limit =< highest
  BY <1>2, <1>4
<1>10. metered' \in [succeeded : [Months -> Nat], leaked : [Months -> Nat],
                     strayed : [Months -> Nat]]
  BY <1>3, Books
<1>11. QED
  BY <1>2, <1>3, <1>7, <1>8, <1>9, <1>10, CallFrame

\* A call that ends: what it leaves in the books of each month decides.
LEMMA EndCall ==
  ASSUME QuotaInv, NEW c \in Callers, caller[c].pc = "call",
         caller' = [caller EXCEPT ![c] = NoCall],
         UNCHANGED <<month, plan, planChanges, importer, products, highest>>,
         used' \in [Months -> Nat],
         metered' \in [succeeded : [Months -> Nat], leaked : [Months -> Nat],
                       strayed : [Months -> Nat]],
         \A m \in Months : used'[m] =< used[m],
         \A m \in Months :
           (used'[m] - used[m]) + (metered'.strayed[m] - metered.strayed[m])
             = (metered'.succeeded[m] - metered.succeeded[m])
                 + (metered'.leaked[m] - metered.leaked[m])
                 - (IF m = caller[c].month THEN 1 ELSE 0)
  PROVE  QuotaInv'
<1>1. caller \in [Callers -> Calls] /\ highest \in Nat
  BY Books
<1>2. NoCall \in Calls /\ NoCall.pc # "call" /\ NoCall.limit =< highest
  BY <1>1, Constants DEF NoCall
<1>3. caller'[c].pc # "call" /\ \A d \in Callers \ {c} : caller'[d] = caller[d]
  BY <1>1, <1>2
<1>4. PICK r \in Months : r = caller[c].month
  BY <1>1 DEF Calls
<1>5. /\ InCall(r) >= 1 /\ InCall(r)' = InCall(r) - 1
      /\ \A n : n # r => InCall(n)' = InCall(n)
  BY <1>3, <1>4, OneLess
<1>6. Booked'
  <2> SUFFICES ASSUME NEW m \in Months
               PROVE  /\ used'[m] =< highest'
                      /\ used'[m] + metered'.strayed[m]
                           = metered'.succeeded[m] + InCall(m)' + metered'.leaked[m]
    BY DEF Booked
  <2> DEFINE u == used[m]
             s == metered.strayed[m]
             k == metered.succeeded[m]
             l == metered.leaked[m]
             one == IF m = r THEN 1 ELSE 0
  <2>1. u =< highest /\ u + s = k + InCall(m) + l
    BY DEF QuotaInv, Booked
  <2>2. u \in Nat /\ s \in Nat /\ k \in Nat /\ l \in Nat /\ InCall(m) \in Nat
    BY Books
  <2>3. /\ used'[m] \in Nat /\ metered'.strayed[m] \in Nat
        /\ metered'.succeeded[m] \in Nat /\ metered'.leaked[m] \in Nat
    OBVIOUS
  <2>4. /\ used'[m] =< u
        /\ (used'[m] - u) + (metered'.strayed[m] - s)
             = (metered'.succeeded[m] - k) + (metered'.leaked[m] - l) - one
    BY <1>4
  <2>5. InCall(m)' = InCall(m) - one
    BY <1>5, <2>2
  <2>6. one \in {0, 1}
    OBVIOUS
  <2> HIDE DEF u, s, k, l, one
  <2>7. used'[m] =< highest'
    BY <1>1, <2>1, <2>2, <2>3, <2>4
  <2>8. used'[m] + metered'.strayed[m]
          = metered'.succeeded[m] + (InCall(m) - one) + metered'.leaked[m]
    BY <2>1, <2>2, <2>3, <2>4, <2>6
  <2>9. QED
    BY <2>5, <2>7, <2>8
<1>7. QED
  BY <1>2, <1>6, CallFrame

LEMMA MeteredSucceedsStep ==
  ASSUME QuotaInv, NEW c \in Callers, MeteredSucceeds(c)
  PROVE  QuotaInv'
<1>1. PICK r \in Months : r = caller[c].month
  BY Books DEF Calls
<1>2. /\ metered' = [metered EXCEPT !.succeeded[r] = @ + 1]
      /\ UNCHANGED <<month, plan, planChanges, used, importer, products, highest>>
      /\ caller' = [caller EXCEPT ![c] = NoCall] /\ caller[c].pc = "call"
  BY <1>1 DEF MeteredSucceeds
<1>3. \A m \in Months :
        /\ metered'.succeeded[m] = metered.succeeded[m] + (IF m = r THEN 1 ELSE 0)
        /\ metered'.leaked[m] = metered.leaked[m]
        /\ metered'.strayed[m] = metered.strayed[m]
        /\ used'[m] = used[m]
  BY <1>2, Books
<1>4. \A m \in Months :
        /\ used[m] \in Nat /\ metered.strayed[m] \in Nat
        /\ metered.succeeded[m] \in Nat /\ metered.leaked[m] \in Nat
  BY Books
<1>5. metered' \in [succeeded : [Months -> Nat], leaked : [Months -> Nat],
                    strayed : [Months -> Nat]]
  BY <1>1, <1>2, Books
<1>6. \A m \in Months : used'[m] =< used[m]
  BY <1>3, <1>4
<1>7. \A m \in Months :
        (used'[m] - used[m]) + (metered'.strayed[m] - metered.strayed[m])
          = (metered'.succeeded[m] - metered.succeeded[m])
              + (metered'.leaked[m] - metered.leaked[m])
              - (IF m = r THEN 1 ELSE 0)
  BY <1>3, <1>4
<1>8. QED
  BY <1>1, <1>2, <1>5, <1>6, <1>7, Books, EndCall

LEMMA MeteredDiesStep ==
  ASSUME QuotaInv, NEW c \in Callers, MeteredDies(c)
  PROVE  QuotaInv'
<1>1. PICK r \in Months : r = caller[c].month
  BY Books DEF Calls
<1>2. /\ metered' = [metered EXCEPT !.leaked[r] = @ + 1]
      /\ UNCHANGED <<month, plan, planChanges, used, importer, products, highest>>
      /\ caller' = [caller EXCEPT ![c] = NoCall] /\ caller[c].pc = "call"
  BY <1>1 DEF MeteredDies
<1>3. \A m \in Months :
        /\ metered'.leaked[m] = metered.leaked[m] + (IF m = r THEN 1 ELSE 0)
        /\ metered'.succeeded[m] = metered.succeeded[m]
        /\ metered'.strayed[m] = metered.strayed[m]
        /\ used'[m] = used[m]
  BY <1>2, Books
<1>4. \A m \in Months :
        /\ used[m] \in Nat /\ metered.strayed[m] \in Nat
        /\ metered.succeeded[m] \in Nat /\ metered.leaked[m] \in Nat
  BY Books
<1>5. metered' \in [succeeded : [Months -> Nat], leaked : [Months -> Nat],
                    strayed : [Months -> Nat]]
  BY <1>1, <1>2, Books
<1>6. \A m \in Months : used'[m] =< used[m]
  BY <1>3, <1>4
<1>7. \A m \in Months :
        (used'[m] - used[m]) + (metered'.strayed[m] - metered.strayed[m])
          = (metered'.succeeded[m] - metered.succeeded[m])
              + (metered'.leaked[m] - metered.leaked[m])
              - (IF m = r THEN 1 ELSE 0)
  BY <1>3, <1>4
<1>8. QED
  BY <1>1, <1>2, <1>5, <1>6, <1>7, Books, EndCall

\* The release: with a counter at 0 in its own month, an earlier release has
\* strayed into the month; in another month, its reservation has leaked.
LEMMA MeteredFailsStep ==
  ASSUME QuotaInv, NEW c \in Callers, MeteredFails(c)
  PROVE  QuotaInv'
<1>1. PICK r \in Months : r = caller[c].month
  BY Books DEF Calls
<1>2. /\ UNCHANGED <<month, plan, planChanges, importer, products, highest>>
      /\ caller' = [caller EXCEPT ![c] = NoCall] /\ caller[c].pc = "call"
      /\ used' = [used EXCEPT ![month] = Released(@)]
      /\ metered' = IF r = month
                    THEN [metered EXCEPT !.strayed[month] = IF used[month] > 0 THEN @ ELSE @ - 1]
                    ELSE [metered EXCEPT !.leaked[r] = @ + 1,
                                         !.strayed[month] = IF used[month] > 0 THEN @ + 1 ELSE @]
  BY <1>1 DEF MeteredFails
<1>3. \A m \in Months :
        /\ used[m] \in Nat /\ metered.strayed[m] \in Nat
        /\ metered.succeeded[m] \in Nat /\ metered.leaked[m] \in Nat
  BY Books
<1>4. \A m \in Months :
        used'[m] = IF m = month /\ used[m] > 0 THEN used[m] - 1 ELSE used[m]
  BY <1>2, <1>3, Books DEF Released
<1>5. r = month /\ ~(used[month] > 0) => metered.strayed[month] >= 1
  <2> SUFFICES ASSUME r = month, ~(used[month] > 0) PROVE metered.strayed[month] >= 1
    OBVIOUS
  <2>1. InCall(r) >= 1
    <3>1. \A d \in Callers \ {c} : caller'[d] = caller[d]
      BY <1>2, Books
    <3>2. caller'[c].pc # "call"
      BY <1>2, Books DEF NoCall
    <3>3. QED
      BY <1>1, <1>2, <3>1, <3>2, OneLess
  <2>2. used[r] + metered.strayed[r] = metered.succeeded[r] + InCall(r) + metered.leaked[r]
    BY DEF QuotaInv, Booked
  <2>3. QED
    BY <1>3, <2>1, <2>2, Books
<1>6. used' \in [Months -> Nat]
  BY <1>2, <1>3, Books DEF Released
<1>7. metered' \in [succeeded : [Months -> Nat], leaked : [Months -> Nat],
                    strayed : [Months -> Nat]]
  <2>1. metered.strayed[month] \in Nat /\ metered.strayed[month] + 1 \in Nat
    BY <1>3, Books
  <2>2. r = month /\ ~(used[month] > 0) => metered.strayed[month] - 1 \in Nat
    BY <1>5, <2>1
  <2>3. CASE r = month
    BY <1>2, <2>1, <2>2, <2>3, Books
  <2>4. CASE r # month
    <3>1. metered.leaked[r] + 1 \in Nat
      BY <1>3
    <3>2. /\ metered' = [succeeded |-> metered.succeeded,
                         leaked    |-> [metered.leaked EXCEPT ![r] = @ + 1],
                         strayed   |-> [metered.strayed EXCEPT ![month] =
                                          IF used[month] > 0 THEN @ + 1 ELSE @]]
      BY <1>2, <2>4, Books
    <3>3. [metered.leaked EXCEPT ![r] = @ + 1] \in [Months -> Nat]
      BY <3>1, Books
    <3>4. [metered.strayed EXCEPT ![month] = IF used[month] > 0 THEN @ + 1 ELSE @]
            \in [Months -> Nat]
      BY <2>1, Books
    <3>5. QED
      BY <3>2, <3>3, <3>4, Books
  <2>5. QED
    BY <2>3, <2>4
<1>8. \A m \in Months :
        /\ metered'.succeeded[m] = metered.succeeded[m]
        /\ metered'.leaked[m] = metered.leaked[m] + (IF r # month /\ m = r THEN 1 ELSE 0)
        /\ metered'.strayed[m]
             = metered.strayed[m]
                 + (IF m # month THEN 0
                    ELSE IF r = month THEN (IF used[m] > 0 THEN 0 ELSE -1)
                    ELSE (IF used[m] > 0 THEN 1 ELSE 0))
  <2>1. CASE r = month
    BY <1>2, <1>3, <2>1, Books
  <2>2. CASE r # month
    BY <1>2, <1>3, <2>2, Books
  <2>3. QED
    BY <2>1, <2>2
<1>9. \A m \in Months : used'[m] =< used[m]
  BY <1>3, <1>4
<1>10. \A m \in Months :
        (used'[m] - used[m]) + (metered'.strayed[m] - metered.strayed[m])
          = (metered'.succeeded[m] - metered.succeeded[m])
              + (metered'.leaked[m] - metered.leaked[m])
              - (IF m = r THEN 1 ELSE 0)
  BY <1>3, <1>4, <1>8
<1>11. /\ caller[c].pc = "call" /\ caller' = [caller EXCEPT ![c] = NoCall]
       /\ UNCHANGED <<month, plan, planChanges, importer, products, highest>>
  BY <1>2
<1> HIDE <1>2
<1>12. QED
  BY <1>1, <1>6, <1>7, <1>9, <1>10, <1>11, EndCall

------------------------------------------------------------------------------
(***************************************************************************)
(* Imports, the plan and the clock                                         *)
(***************************************************************************)

\* Steps that leave the calls alone keep the books.
LEMMA BooksKept ==
  ASSUME QuotaInv, UNCHANGED <<caller, used, metered>>, highest' \in Nat, highest' >= highest
  PROVE  Booked'
<1>1. \A m \in Months : InCall(m)' = InCall(m)
  BY DEF InCall
<1>2. \A m \in Months : used[m] \in Nat /\ highest \in Nat
  BY Books
<1>3. QED
  BY <1>1, <1>2 DEF QuotaInv, Booked

LEMMA ImportSteps ==
  ASSUME QuotaInv, NEW i \in Importers,
         ReadProductLimit(i) \/ LockAndCount(i) \/ FinishImport(i)
  PROVE  QuotaInv'
<1>1. /\ importer \in [Importers -> Imports] /\ products \in Nat /\ highest \in Nat
      /\ plan \in Plans /\ plan =< highest /\ products =< highest
  BY Constants DEF QuotaInv, QuotaTypeOK, Imports, Limits, Serialized
<1>2. /\ UNCHANGED <<month, plan, planChanges, used, caller, highest, metered>>
  BY DEF ReadProductLimit, LockAndCount, FinishImport
<1>3. Booked'
  BY <1>1, <1>2, BooksKept
<1>4. importer' \in [Importers -> Imports] /\ products' \in Nat
  <2>1. CASE ReadProductLimit(i)
    BY <1>1, <2>1 DEF ReadProductLimit, NoImport, Imports
  <2>2. CASE LockAndCount(i)
    BY <1>1, <2>2 DEF LockAndCount, Imports
  <2>3. CASE FinishImport(i)
    BY <1>1, <2>3, Constants DEF FinishImport
  <2>4. QED
    BY <2>1, <2>2, <2>3
<1>5. QuotaTypeOK'
  BY <1>2, <1>4 DEF QuotaInv, QuotaTypeOK, Imports
<1>6. Limits'
  <2>1. importer'[i].limit =< highest
    <3>1. importer[i] \in Imports /\ importer[i].limit =< highest
      BY <1>1 DEF QuotaInv, Limits
    <3>2. CASE ReadProductLimit(i)
      BY <1>1, <3>2 DEF ReadProductLimit, NoImport
    <3>3. CASE LockAndCount(i)
      BY <1>1, <3>1, <3>3 DEF LockAndCount, Imports
    <3>4. CASE FinishImport(i)
      BY <1>1, <3>4 DEF FinishImport, NoImport
    <3>5. QED
      BY <3>2, <3>3, <3>4
  <2>2. \A j \in Importers : j # i => importer'[j] = importer[j]
    BY <1>1 DEF ReadProductLimit, LockAndCount, FinishImport
  <2>3. QED
    BY <1>2, <2>1, <2>2 DEF QuotaInv, Limits
<1>7. Serialized'
  <2>1. CASE ReadProductLimit(i)
    BY <1>1, <2>1 DEF ReadProductLimit, NoImport, QuotaInv, Serialized, Imports
  <2>2. CASE LockAndCount(i)
    BY <1>1, <2>2 DEF LockAndCount, LockFree, QuotaInv, Serialized, Imports
  <2>3. CASE FinishImport(i)
    <3>1. \A j \in Importers : j # i => importer'[j].pc # "lock"
      BY <1>1, <2>3 DEF FinishImport, QuotaInv, Serialized
    <3>2. importer'[i].pc # "lock"
      BY <1>1, <2>3 DEF FinishImport, NoImport
    <3>3. importer[i].count = products /\ importer[i].limit =< highest /\ importer[i].limit \in Nat
      BY <1>1, <2>3, Constants DEF FinishImport, QuotaInv, Serialized, Limits, Imports
    <3>4. products' =< highest'
      BY <1>1, <1>2, <2>3, <3>3 DEF FinishImport
    <3>5. QED
      BY <3>1, <3>2, <3>4 DEF Serialized
  <2>4. QED
    BY <2>1, <2>2, <2>3
<1>8. QED
  BY <1>3, <1>5, <1>6, <1>7 DEF QuotaInv

LEMMA ChangePlanStep ==
  ASSUME QuotaInv, NEW p \in Plans, ChangePlan(p)
  PROVE  QuotaInv'
<1>1. /\ highest \in Plans /\ highest \in Nat /\ p \in Nat /\ products \in Nat
      /\ planChanges \in 0..MaxPlanChanges
  BY Constants DEF QuotaInv, QuotaTypeOK
<1>2. /\ highest' \in Plans /\ highest' \in Nat /\ highest' >= highest /\ highest' >= p
      /\ plan' = p /\ UNCHANGED <<month, used, caller, importer, products, metered>>
  BY <1>1 DEF ChangePlan
<1>3. planChanges' \in 0..MaxPlanChanges
  BY <1>1, QuotaAssumption DEF ChangePlan
<1>4. QuotaTypeOK'
  BY <1>2, <1>3 DEF QuotaInv, QuotaTypeOK
<1>5. Limits'
  <2>1. /\ \A c \in Callers : caller[c].limit \in Nat
        /\ \A i \in Importers : importer[i].limit \in Nat
    BY Constants DEF QuotaInv, QuotaTypeOK
  <2>2. QED
    BY <1>1, <1>2, <2>1 DEF QuotaInv, Limits
<1>6. Booked'
  BY <1>2, BooksKept
<1>7. Serialized'
  BY <1>1, <1>2 DEF QuotaInv, Serialized
<1>8. QED
  BY <1>4, <1>5, <1>6, <1>7 DEF QuotaInv

LEMMA NextMonthStep ==
  ASSUME QuotaInv, NextMonth
  PROVE  QuotaInv'
<1>1. month' \in Months
  BY QuotaAssumption DEF NextMonth, QuotaInv, QuotaTypeOK, Months
<1>2. Booked'
  BY Books, BooksKept DEF NextMonth
<1>3. QuotaTypeOK'
  BY <1>1 DEF NextMonth, QuotaInv, QuotaTypeOK
<1>4. Limits' /\ Serialized'
  BY DEF NextMonth, QuotaInv, Limits, Serialized
<1>5. QED
  BY <1>2, <1>3, <1>4 DEF QuotaInv

LEMMA QuotaStutter ==
  ASSUME QuotaInv, UNCHANGED quotaVars
  PROVE  QuotaInv'
<1>1. Booked'
  BY Books, BooksKept DEF quotaVars
<1>2. QED
  BY <1>1 DEF quotaVars, QuotaInv, QuotaTypeOK, Limits, Serialized

LEMMA NextQuota == QuotaInv /\ [QuotaNext]_quotaVars => QuotaInv'
<1> SUFFICES ASSUME QuotaInv, [QuotaNext]_quotaVars PROVE QuotaInv'
  OBVIOUS
<1>1. ASSUME NEW c \in Callers, ReadLimit(c) PROVE QuotaInv'
  BY <1>1, ReadLimitStep
<1>2. ASSUME NEW c \in Callers, Reserve(c) PROVE QuotaInv'
  BY <1>2, ReserveStep
<1>3. ASSUME NEW c \in Callers, QuotaExceeded(c) PROVE QuotaInv'
  BY <1>3, QuotaExceededStep
<1>4. ASSUME NEW c \in Callers, MeteredSucceeds(c) PROVE QuotaInv'
  BY <1>4, MeteredSucceedsStep
<1>5. ASSUME NEW c \in Callers, MeteredFails(c) PROVE QuotaInv'
  BY <1>5, MeteredFailsStep
<1>6. ASSUME NEW c \in Callers, MeteredDies(c) PROVE QuotaInv'
  BY <1>6, MeteredDiesStep
<1>7. ASSUME NEW i \in Importers, ReadProductLimit(i) \/ LockAndCount(i) \/ FinishImport(i)
      PROVE  QuotaInv'
  BY <1>7, ImportSteps
<1>8. ASSUME NEW p \in Plans, ChangePlan(p) PROVE QuotaInv'
  BY <1>8, ChangePlanStep
<1>9. CASE NextMonth
  BY <1>9, NextMonthStep
<1>10. CASE UNCHANGED quotaVars
  BY <1>10, QuotaStutter
<1>11. QED
  BY <1>1, <1>2, <1>3, <1>4, <1>5, <1>6, <1>7, <1>8, <1>9, <1>10 DEF QuotaNext

------------------------------------------------------------------------------
(***************************************************************************)
(* Theorems                                                                *)
(***************************************************************************)

\* The invariant holds throughout: reservation and import keep the counters
\* of usage.ts within the limits that were read.
THEOREM QuotaInductive == QuotaSpec => []QuotaInv
<1>1. QuotaInit => QuotaInv
  BY InitQuota
<1>2. QuotaInv /\ [QuotaNext]_quotaVars => QuotaInv'
  BY NextQuota
<1>3. QED
  BY <1>1, <1>2, PTL DEF QuotaSpec

\* The counters, the callers' and the importers' locals keep their types: no
\* release takes usage_counters.count below zero.
THEOREM QuotaTypeCorrect == QuotaSpec => []QuotaTypeOK
<1>1. QuotaInv => QuotaTypeOK
  BY DEF QuotaInv
<1>2. QED
  BY <1>1, QuotaInductive, PTL

LEMMA QuotaSound == QuotaInv => QuotaHolds
<1> SUFFICES ASSUME QuotaInv PROVE QuotaHolds
  OBVIOUS
<1>1. \A m \in Months :
        /\ used[m] \in Nat /\ metered.strayed[m] \in Nat
        /\ metered.succeeded[m] \in Nat /\ metered.leaked[m] \in Nat
        /\ InCall(m) \in Nat /\ highest \in Nat
  BY Books
<1>2. QED
  BY <1>1 DEF QuotaInv, Booked, Serialized, QuotaHolds

\* However many calls overlap, fail and straddle months, a month's calls are
\* within the highest limit but for the releases that strayed into it, and no
\* poll imports a product past it (tryReserveMonthlyUsage, the advisory lock).
THEOREM QuotaAlwaysHolds == QuotaSpec => []QuotaHolds
BY QuotaSound, QuotaInductive, PTL

==============================================================================
