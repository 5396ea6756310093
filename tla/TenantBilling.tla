---------------------------- MODULE TenantBilling ----------------------------
(***************************************************************************)
(* The billing status of one tenant. Stripe's events reach stripe-webhook  *)
(* at least once and in any order; an inbox row per event                  *)
(* (packages/db/src/webhook-events.ts) separates "claimed" from "applied", *)
(* and packages/db/src/billing.ts ignores an event older than the last one *)
(* applied. The operator may delete a tenant that never paid.              *)
(*                                                                         *)
(* One action per database statement or remote call of a Lambda execution; *)
(* a transaction ends in the action that commits it.                       *)
(***************************************************************************)
EXTENDS Naturals, FiniteSets

CONSTANTS
  MaxEvents,       \* events Stripe creates
  Hooks,           \* executions of stripe-webhook at one time
  MaxHookFaults,   \* executions that die, commits that fail or are not answered
  OperatorActs     \* whether the operator uses the route that deletes pending tenants

ASSUME BillingAssumption ==
  /\ MaxEvents \in Nat
  /\ MaxHookFaults \in Nat
  /\ OperatorActs \in BOOLEAN

Events  == 1..MaxEvents
Kinds   == {"active", "past_due", "canceled"}
Status  == {"pending_payment", "active", "past_due", "canceled_grace"}
Instant == 0..MaxEvents    \* seconds of Stripe's clock; 0 is "never"

VARIABLES
  billed,      \* what Stripe says, in the order it created it
  answered,    \* events Stripe has a 2xx for: it sends them no more
  inbox,       \* processed_webhook_events.status, "none" without a row
  hook,        \* each execution: where it is and what it holds
  tenant,      \* the row of tenants; "exists" is FALSE once it is deleted
  account,     \* the tenant's Cognito user
  operator,    \* the route DELETE /admin/ops/tenants/{id}: the step it is at
  hookFaults,
  applied,     \* history: events whose transaction was committed
  races        \* history: which reads were overtaken by another writer

billingVars ==
  <<billed, answered, inbox, hook, tenant, account, operator, hookFaults, applied, races>>

InboxStatus == {"none", "processing", "completed", "failed"}
HookSteps   == {"idle", "claimed", "checked", "failing", "reply"}
NoEvent     == 0

Event == [kind : Kinds, created : Instant]

Row ==
  [exists : BOOLEAN, status : Status, last : Instant]

BillingTypeOK ==
  /\ billed \in [Events -> Event]
  /\ answered \in SUBSET Events
  /\ inbox \in [Events -> InboxStatus]
  /\ hook \in [Hooks -> [pc : HookSteps, event : 0..MaxEvents, stale : BOOLEAN]]
  /\ tenant \in Row
  /\ account \in BOOLEAN
  /\ operator \in {"idle", "user", "row"}
  /\ hookFaults \in 0..MaxHookFaults
  /\ applied \in SUBSET Events
  /\ races \in SUBSET {"webhooks", "operator"}

NoHook == [pc |-> "idle", event |-> NoEvent, stale |-> FALSE]

\* confirmSignup has left a Cognito user, a pending row with its Stripe customer
\* and an open checkout.
BillingInit ==
  /\ billed = [e \in Events |-> [kind |-> "active", created |-> 0]]
  /\ answered = {}
  /\ inbox = [e \in Events |-> "none"]
  /\ hook = [h \in Hooks |-> NoHook]
  /\ tenant = [exists |-> TRUE, status |-> "pending_payment", last |-> 0]
  /\ account = TRUE
  /\ operator = "idle"
  /\ hookFaults = 0
  /\ applied = {}
  /\ races = {}

------------------------------------------------------------------------------
Created  == {e \in Events : billed[e].created > 0}
Now      == IF Created = {} THEN 1
            ELSE CHOOSE t \in Instant :
                   /\ \E e \in Created : billed[e].created = t
                   /\ \A e \in Created : billed[e].created =< t

\* Stripe's clock counts seconds: two events may have the same one. The first
\* event of a customer is the paid checkout.
Bill ==
  \E e \in Events, k \in Kinds, t \in Instant :
    /\ Created = 1..(e - 1)
    /\ t \in {Now, Now + 1}
    /\ e = 1 => k = "active"
    /\ billed' = [billed EXCEPT ![e] = [kind |-> k, created |-> t]]
    /\ UNCHANGED <<answered, inbox, hook, tenant, account, operator, hookFaults,
                   applied, races>>

Holding(e) == {h \in Hooks : hook[h].event = e}

\* An execution ends within 30 seconds and a claim is stale after ten minutes: a
\* stale claim is one of an execution that is gone.
BugStuckProcessing(e) == FALSE

StuckProcessing(e) == inbox[e] = "processing" /\ Holding(e) = {}

Reclaimable(e) == inbox[e] \in {"none", "failed"} \/ StuckProcessing(e)

HookTo(h, step) == hook' = [hook EXCEPT ![h].pc = step]
HookEnds(h) == hook' = [hook EXCEPT ![h] = NoHook]

\* One row that says "seen" for both: the claim of the first inbox.
BugClaim(h, e) ==
  /\ hook[h].pc = "idle"
  /\ e \in Created \ answered
  /\ Reclaimable(e)
  /\ inbox' = [inbox EXCEPT ![e] = "completed"]
  /\ hook' = [hook EXCEPT ![h] = [pc |-> "claimed", event |-> e, stale |-> FALSE]]
  /\ UNCHANGED <<billed, answered, tenant, account, operator, hookFaults, applied, races>>

\* claimWebhookEvent: one conditional upsert.
Claim(h, e) ==
  /\ hook[h].pc = "idle"
  /\ e \in Created \ answered
  /\ Reclaimable(e)
  /\ inbox' = [inbox EXCEPT ![e] = "processing"]
  /\ hook' = [hook EXCEPT ![h] = [pc |-> "claimed", event |-> e, stale |-> FALSE]]
  /\ UNCHANGED <<billed, answered, tenant, account, operator, hookFaults, applied, races>>

\* A completed event is answered as a duplicate; one in progress gets a 409 and
\* comes back, which changes nothing.
Duplicate(h, e) ==
  /\ hook[h].pc = "idle"
  /\ e \in Created \ answered
  /\ ~Reclaimable(e)
  /\ inbox[e] = "completed"
  /\ answered' = answered \cup {e}
  /\ UNCHANGED <<billed, inbox, hook, tenant, account, operator, hookFaults, applied, races>>

BugStale(e) == FALSE

\* isStale: a select inside the transaction, without a lock.
Stale(e) == tenant.last > billed[e].created

CheckStale(h) ==
  /\ hook[h].pc = "claimed"
  /\ hook' = [hook EXCEPT ![h].pc = "checked", ![h].stale = Stale(hook[h].event)]
  /\ UNCHANGED <<billed, answered, inbox, tenant, account, operator, hookFaults, applied, races>>

StatusFor == [active |-> "active", past_due |-> "past_due", canceled |-> "canceled_grace"]

\* What markTenantActive, markTenantPastDue and markTenantCanceledWithGrace make
\* of the row. The plan, the ids and the end of the grace period are left out.
Marked(row, e) ==
  [row EXCEPT !.status = StatusFor[billed[e].kind], !.last = billed[e].created]

Applies(h) == tenant.exists /\ ~hook[h].stale

InTransaction == {h \in Hooks : hook[h].pc = "checked"}

\* The update and completeWebhookEvent commit together. The update names the
\* tenant only: whoever checked before this commit does not check again.
Commits(h) ==
  LET e == hook[h].event
  IN  /\ hook[h].pc = "checked"
      /\ tenant' = IF Applies(h) THEN Marked(tenant, e) ELSE tenant
      /\ inbox' = [inbox EXCEPT ![e] = "completed"]
      /\ applied' = applied \cup {e}
      /\ races' = races
           \cup (IF InTransaction = {h} THEN {} ELSE {"webhooks"})
           \cup (IF operator = "idle" THEN {} ELSE {"operator"})
      /\ UNCHANGED <<billed, answered, account, operator>>

\* A past_due or canceled_grace that was applied is mailed to the tenant before the
\* answer; a failure to is logged.
Apply(h) == Commits(h) /\ HookTo(h, "reply") /\ UNCHANGED hookFaults

HookFails == hookFaults < MaxHookFaults /\ hookFaults' = hookFaults + 1

\* The commit succeeds but its answer is lost: the handler believes it failed.
CommitUnanswered(h) == Commits(h) /\ HookFails /\ HookTo(h, "failing")

\* Stripe's retrieve or a statement throws and the transaction is rolled back.
Aborts(h) ==
  /\ hook[h].pc \in {"claimed", "checked"}
  /\ HookFails
  /\ HookTo(h, "failing")
  /\ UNCHANGED <<billed, answered, inbox, tenant, account, operator, applied, races>>

\* failWebhookEvent, and a 500 that makes Stripe send the event again.
FailEvent(h) ==
  /\ hook[h].pc = "failing"
  /\ inbox' = [inbox EXCEPT ![hook[h].event] = "failed"]
  /\ HookEnds(h)
  /\ UNCHANGED <<billed, answered, tenant, account, operator, hookFaults, applied, races>>

Reply(h) ==
  /\ hook[h].pc = "reply"
  /\ answered' = answered \cup {hook[h].event}
  /\ HookEnds(h)
  /\ UNCHANGED <<billed, inbox, tenant, account, operator, hookFaults, applied, races>>

HookDies(h) ==
  /\ hook[h].pc # "idle"
  /\ HookFails
  /\ HookEnds(h)
  /\ UNCHANGED <<billed, answered, inbox, tenant, account, operator, applied, races>>

------------------------------------------------------------------------------
\* DELETE /admin/ops/tenants/{id} of a tenant read as pending: the Cognito user
\* first, then the row, if it is still pending.
OperatorReads ==
  /\ OperatorActs
  /\ operator = "idle"
  /\ tenant.exists
  /\ tenant.status = "pending_payment"
  /\ operator' = "user"
  /\ UNCHANGED <<billed, answered, inbox, hook, tenant, account, hookFaults, applied, races>>

OperatorDeletesUser ==
  /\ operator = "user"
  /\ account' = FALSE
  /\ operator' = "row"
  /\ UNCHANGED <<billed, answered, inbox, hook, tenant, hookFaults, applied, races>>

BugDeletable == TRUE

Deletable == tenant.status = "pending_payment"

OperatorDeletesRow ==
  /\ operator = "row"
  /\ tenant' = [tenant EXCEPT !.exists = @ /\ ~Deletable]
  /\ operator' = "idle"
  /\ UNCHANGED <<billed, answered, inbox, hook, account, hookFaults, applied, races>>

\* The Cognito or the database call throws, or the Lambda dies: the route answers 500.
OperatorDies ==
  /\ operator # "idle"
  /\ HookFails
  /\ operator' = "idle"
  /\ races' = races \cup (IF operator = "row" THEN {"operator"} ELSE {})
  /\ UNCHANGED <<billed, answered, inbox, hook, tenant, account, applied>>

OperatorStep == OperatorReads \/ OperatorDeletesUser \/ OperatorDeletesRow \/ OperatorDies

HookStep(h) ==
  \/ \E e \in Events : Claim(h, e) \/ Duplicate(h, e)
  \/ CheckStale(h) \/ Apply(h) \/ FailEvent(h) \/ Reply(h)

HookFault(h) == CommitUnanswered(h) \/ Aborts(h) \/ HookDies(h)

BillingNext ==
  \/ Bill
  \/ \E h \in Hooks : HookStep(h) \/ HookFault(h)
  \/ OperatorStep

\* Stripe repeats an event for days, every invocation runs, and what fails fails for
\* a while only (hookFaults).
BillingFairness == WF_billingVars(\E h \in Hooks : HookStep(h))

BillingSpec == BillingInit /\ [][BillingNext]_billingVars /\ BillingFairness

------------------------------------------------------------------------------
\* An event Stripe has a 2xx for, and so never sends again, was committed, whatever
\* died or failed on the way (webhook-events.ts: claimed is not completed).
NoEventLost == answered \subseteq applied

\* As long as no two executions were inside their transactions together, the status
\* is the one of a newest event applied, in whatever order they arrived and however
\* often (billing.ts, isStale).
NewestDecides ==
  "webhooks" \notin races /\ tenant.exists /\ applied # {} =>
    \E f \in applied :
      /\ tenant.status = StatusFor[billed[f].kind]
      /\ \A e \in applied : billed[e].created =< billed[f].created

\* A tenant that has paid is never deleted, and can sign in unless its payment
\* arrived while the operator's route ran or after it had ended half-way: that route
\* takes the user away before it knows that the row is still pending.
PayingTenantIsKept ==
  /\ ~tenant.exists => tenant.status = "pending_payment"
  /\ tenant.exists /\ tenant.status # "pending_payment" /\ "operator" \notin races
       => account

\* Every event is answered with a 2xx in the end: a claim whose execution died is
\* taken over, and a failed one is tried again.
EveryEventAnswered == \A e \in Events : (e \in Created) ~> (e \in answered)

==============================================================================
