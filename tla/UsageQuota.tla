----------------------------- MODULE UsageQuota -----------------------------
(***************************************************************************)
(* A tenant's metered calls and its number of products                     *)
(* (packages/db/src/usage.ts, packages/core/src/plan-limits.ts): a monthly *)
(* counter is reserved in one conditional upsert before the call it meters *)
(* and released when the call fails; products are counted under a          *)
(* transaction's advisory lock (services/lambdas/product-fetch).           *)
(*                                                                         *)
(* One limit stands for each plan's: a plan is named by it.                *)
(***************************************************************************)
EXTENDS Integers, FiniteSets

CONSTANTS
  Callers,      \* metered calls under way at once
  Importers,    \* overlapping polls that import a new product
  Plans,        \* the limits of the plans
  MaxMonth,     \* months the clock goes through
  MaxPlanChanges,
  MaxLeaks      \* executions that die with a reservation

ASSUME QuotaAssumption ==
  /\ IsFiniteSet(Callers)
  /\ Plans \subseteq Nat \ {0}
  /\ Plans # {}
  /\ MaxMonth \in Nat
  /\ MaxPlanChanges \in Nat
  /\ MaxLeaks \in Nat

Months == 0..MaxMonth

VARIABLES
  month,     \* startOfMonthUtc(now)
  plan,      \* tenants.plan, by its limit
  planChanges,
  used,      \* usage_counters.count of each month, 0 without a row
  caller,    \* each metered call: the limit it read, then the month it reserved in
  importer,  \* each import: the limit it read, whether it holds the lock, what it counted
  products,  \* rows of product_master
  highest,   \* history: the highest limit a reservation or an import may have read
  metered    \* history, by month: calls that succeeded, reservations that were
             \* never released, releases of other months' that took the count down

quotaVars == <<month, plan, planChanges, used, caller, importer, products, highest, metered>>

NoCall   == [pc |-> "idle", limit |-> 0, month |-> 0]
NoImport == [pc |-> "idle", limit |-> 0, count |-> 0]

QuotaTypeOK ==
  /\ month \in Months
  /\ plan \in Plans
  /\ planChanges \in 0..MaxPlanChanges
  /\ used \in [Months -> Nat]
  /\ caller \in [Callers -> [pc : {"idle", "read", "call"}, limit : Plans \cup {0}, month : Months]]
  /\ importer \in [Importers -> [pc : {"idle", "read", "lock"}, limit : Plans \cup {0}, count : Nat]]
  /\ products \in Nat
  /\ highest \in Plans
  /\ metered \in [succeeded : [Months -> Nat], leaked : [Months -> Nat], strayed : [Months -> Nat]]

QuotaInit ==
  /\ month = 0
  /\ plan \in Plans
  /\ planChanges = 0
  /\ used = [m \in Months |-> 0]
  /\ caller = [c \in Callers |-> NoCall]
  /\ importer = [i \in Importers |-> NoImport]
  /\ products = 0
  /\ highest = plan
  /\ metered = [succeeded |-> used, leaked |-> used, strayed |-> used]

------------------------------------------------------------------------------
\* getTenantBillingStatus and getPlanLimits.
ReadLimit(c) ==
  /\ caller[c].pc = "idle"
  /\ caller' = [caller EXCEPT ![c] = [NoCall EXCEPT !.pc = "read", !.limit = plan]]
  /\ UNCHANGED <<month, plan, planChanges, used, importer, products, highest, metered>>

\* tryReserveMonthlyUsage: the insert, or the update its WHERE clause allows.
BugUnderLimit(count, limit) == count <= limit

UnderLimit(count, limit) == count < limit

Reserve(c) ==
  /\ caller[c].pc = "read"
  /\ used[month] = 0 \/ UnderLimit(used[month], caller[c].limit)
  /\ used' = [used EXCEPT ![month] = @ + 1]
  /\ caller' = [caller EXCEPT ![c].pc = "call", ![c].month = month]
  /\ UNCHANGED <<month, plan, planChanges, importer, products, highest, metered>>

\* EbaySyncQuotaExceededError, AiQuotaExceededError, 429: not retried.
QuotaExceeded(c) ==
  /\ caller[c].pc = "read"
  /\ used[month] # 0
  /\ ~UnderLimit(used[month], caller[c].limit)
  /\ caller' = [caller EXCEPT ![c] = NoCall]
  /\ UNCHANGED <<month, plan, planChanges, used, importer, products, highest, metered>>

MeteredSucceeds(c) ==
  /\ caller[c].pc = "call"
  /\ caller' = [caller EXCEPT ![c] = NoCall]
  /\ metered' = [metered EXCEPT !.succeeded[caller[c].month] = @ + 1]
  /\ UNCHANGED <<month, plan, planChanges, used, importer, products, highest>>

\* greatest(count - 1, 0).
Released(count) == IF count > 0 THEN count - 1 ELSE 0

\* releaseMonthlyUsageReservation takes the month of the release.
MeteredFails(c) ==
  LET reserved == caller[c].month
  IN  /\ caller[c].pc = "call"
      /\ used' = [used EXCEPT ![month] = Released(@)]
      /\ caller' = [caller EXCEPT ![c] = NoCall]
      /\ metered' = IF reserved = month
                    THEN [metered EXCEPT !.strayed[month] = IF used[month] > 0 THEN @ ELSE @ - 1]
                    ELSE [metered EXCEPT !.leaked[reserved] = @ + 1,
                                         !.strayed[month] = IF used[month] > 0 THEN @ + 1 ELSE @]
      /\ UNCHANGED <<month, plan, planChanges, importer, products, highest>>

MeteredDies(c) ==
  /\ caller[c].pc = "call"
  /\ \A m \in Months : metered.leaked[m] < MaxLeaks
  /\ caller' = [caller EXCEPT ![c] = NoCall]
  /\ metered' = [metered EXCEPT !.leaked[caller[c].month] = @ + 1]
  /\ UNCHANGED <<month, plan, planChanges, used, importer, products, highest>>

\* The limit is read before the transaction.
ReadProductLimit(i) ==
  /\ importer[i].pc = "idle"
  /\ importer' = [importer EXCEPT ![i] = [NoImport EXCEPT !.pc = "read", !.limit = plan]]
  /\ UNCHANGED <<month, plan, planChanges, used, caller, products, highest, metered>>

\* pg_advisory_xact_lock, then countProducts.
LockFree == \A i \in Importers : importer[i].pc # "lock"

LockAndCount(i) ==
  /\ importer[i].pc = "read"
  /\ LockFree
  /\ importer' = [importer EXCEPT ![i].pc = "lock", ![i].count = products]
  /\ UNCHANGED <<month, plan, planChanges, used, caller, products, highest, metered>>

\* The insert and the commit, or the answer that the quota is used up.
FinishImport(i) ==
  /\ importer[i].pc = "lock"
  /\ products' = IF importer[i].count < importer[i].limit THEN products + 1 ELSE products
  /\ importer' = [importer EXCEPT ![i] = NoImport]
  /\ UNCHANGED <<month, plan, planChanges, used, caller, highest, metered>>

\* POST /admin/billing/change-plan by way of Stripe, and the clock.
ChangePlan(p) ==
  /\ planChanges < MaxPlanChanges
  /\ p # plan
  /\ planChanges' = planChanges + 1
  /\ plan' = p
  /\ highest' = IF p > highest THEN p ELSE highest
  /\ UNCHANGED <<month, used, caller, importer, products, metered>>

NextMonth ==
  /\ month < MaxMonth
  /\ month' = month + 1
  /\ UNCHANGED <<plan, planChanges, used, caller, importer, products, highest, metered>>

QuotaNext ==
  \/ \E c \in Callers : \/ ReadLimit(c) \/ Reserve(c) \/ QuotaExceeded(c)
                        \/ MeteredSucceeds(c) \/ MeteredFails(c) \/ MeteredDies(c)
  \/ \E i \in Importers : ReadProductLimit(i) \/ LockAndCount(i) \/ FinishImport(i)
  \/ \E p \in Plans : ChangePlan(p)
  \/ NextMonth

QuotaSpec == QuotaInit /\ [][QuotaNext]_quotaVars

------------------------------------------------------------------------------
InCall(m) == Cardinality({c \in Callers : caller[c].pc = "call" /\ caller[c].month = m})

\* However calls overlap, fail and straddle the end of a month: a month's
\* calls, those under way among them, are at most the highest limit the tenant
\* has had, and one more for each release that belonged to an earlier month
\* (releaseMonthlyEbaySyncReservation dates the release by its own time); a
\* call that failed has used no quota, but for the reservations that were never
\* released in their month; and overlapping polls import no product past the limit.
QuotaHolds ==
  /\ \A m \in Months :
       /\ metered.succeeded[m] + InCall(m) <= highest + metered.strayed[m]
       /\ used[m] + metered.strayed[m] = metered.succeeded[m] + InCall(m) + metered.leaked[m]
  /\ products <= highest
==============================================================================
