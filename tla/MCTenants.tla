----------------------------- MODULE MCTenants -----------------------------
(***************************************************************************)
(* What a seller's account goes through, side by side for TLC: signup, the *)
(* connections to the marketplaces, its plan's quota, billing, offboarding *)
(* and the detection of sales share no variable, and a behaviour is one of *)
(* `which` alone, under its own fairness; the others stay where they begin.*)
(* Two parts of one model that do not read each other run apart: metered   *)
(* calls and imports of products; and an operator's clear of an isolation, *)
(* which no step of the code looks at, and eBay's notifications. Billing's *)
(* events run without the operator, who meets a tenant's first one         *)
(* ("deletion").                                                           *)
(***************************************************************************)
EXTENDS Signup, Connections, UsageQuota, TenantBilling, TenantOffboarding,
        SalesPolling

VARIABLE which

tenantsVars ==
  <<which, signupVars, connectionVars, quotaVars, billingVars, offboardingVars,
    pollVars>>

BothChannels == <<"base", "ebay">>
OneEbaySale  == {<<"ebay", 1>>}

TenantsTypeOK ==
  /\ SignupTypeOK /\ ConnectionTypeOK /\ QuotaTypeOK
  /\ BillingTypeOK /\ OffboardingTypeOK /\ PollingTypeOK

TenantsInit ==
  /\ which \in {"signup", "connections", "calls", "imports", "billing", "deletion",
                "offboarding", "notices", "clearing"}
  /\ SignupInit /\ ConnectionInit /\ QuotaInit
  /\ BillingInit /\ OffboardingInit /\ PollingInit
  /\ which = "connections" \/ rotates
  /\ which \in {"calls", "imports"} \/ plan = 1

TenantsNext ==
  \/ /\ which = "signup" /\ SignupNext
     /\ UNCHANGED <<which, connectionVars, quotaVars, billingVars, offboardingVars,
                     pollVars>>
  \/ /\ which = "connections" /\ ConnectionNext
     /\ UNCHANGED <<which, signupVars, quotaVars, billingVars, offboardingVars, pollVars>>
  \/ /\ which \in {"calls", "imports"} /\ QuotaNext
     /\ which = "calls" => UNCHANGED importer
     /\ which = "imports" => UNCHANGED caller
     /\ UNCHANGED <<which, signupVars, connectionVars, billingVars, offboardingVars,
                     pollVars>>
  \/ /\ which \in {"billing", "deletion"} /\ BillingNext
     /\ which = "billing" => UNCHANGED operator
     /\ which = "deletion" => Created' \subseteq {1}
     /\ UNCHANGED <<which, signupVars, connectionVars, quotaVars, offboardingVars, pollVars>>
  \/ /\ which = "offboarding" /\ OffboardingNext
     /\ UNCHANGED <<which, signupVars, connectionVars, quotaVars, billingVars, pollVars>>
  \/ /\ which \in {"notices", "clearing"} /\ PollingNext
     /\ which = "notices" => UNCHANGED cleared
     /\ which = "clearing" => UNCHANGED <<notices, claimed>>
     /\ UNCHANGED <<which, signupVars, connectionVars, quotaVars, billingVars, offboardingVars>>

\* BillingFairness, OffboardingFairness and PollingFairness, each where it runs.
TenantsFairness ==
  /\ WF_billingVars(which \in {"billing", "deletion"} /\ \E h \in Hooks : HookStep(h))
  /\ WF_offboardingVars(which = "offboarding" /\ PassStep)
  /\ \A c \in Channels : WF_offboardingVars(which = "offboarding" /\ PublishStep(c))
  /\ WF_pollVars(which \in {"notices", "clearing"} /\ Minute)
  /\ WF_pollVars(which \in {"notices", "clearing"} /\ PollerStep)

TenantsSpec == TenantsInit /\ [][TenantsNext]_tenantsVars /\ TenantsFairness
=============================================================================
