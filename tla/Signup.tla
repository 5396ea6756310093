-------------------------------- MODULE Signup --------------------------------
(***************************************************************************)
(* Public signup with one e-mail address. A code is issued and mailed;     *)
(* its confirmation consumes it and then creates, in this order, a         *)
(* Cognito user, a pending tenant and its audit row, and a Stripe          *)
(* checkout, taking back what it made when a step fails.                   *)
(*                                                                         *)
(* A code is a number; the row in signup_verifications holds the one       *)
(* issued last. A confirmation is named by its request, and so is the      *)
(* tenant id it draws.                                                     *)
(***************************************************************************)
EXTENDS Naturals, FiniteSets

CONSTANTS
  Issuers,          \* executions of start and resend
  Requests,         \* executions of confirm
  MaxCodes,         \* codes issued
  MaxAttempts,      \* OTP_MAX_ATTEMPTS
  MaxSignupFaults   \* calls that fail and executions that die

ASSUME SignupAssumption ==
  /\ MaxCodes \in Nat
  /\ MaxAttempts \in Nat
  /\ MaxSignupFaults \in Nat
  /\ "nobody" \notin Requests

Codes   == 1..MaxCodes
NoCode  == 0
Nobody  == "nobody"

VARIABLES
  verification,  \* the row: its code (NoCode without a row), attempts, expired, cooldown
  issuer,        \* each execution that issues a code
  confirm,       \* each confirmation
  issued,        \* codes drawn
  user,          \* the Cognito user: the tenant id it carries, password set for good
  pendingTenants,\* tenant ids with a row in tenants
  audited,       \* tenant ids with a row in audit_log
  signupFaults,
  consumed,      \* history: how often each code was consumed
  leftovers      \* history: tenant ids whose compensation failed or never ran

signupVars ==
  <<verification, issuer, confirm, issued, user, pendingTenants, audited, signupFaults,
    consumed, leftovers>>

IssuerSteps  == {"idle", "read", "upserted"}
ConfirmSteps == {"idle", "expired", "read", "wrong", "right", "claimed", "user", "password",
                 "tenant", "audited", "undoUser", "undoTenant", "done"}

SignupTypeOK ==
  /\ verification \in [code : 0..MaxCodes, attempts : Nat, expired : BOOLEAN,
                       cooldown : BOOLEAN]
  /\ issuer \in [Issuers -> IssuerSteps]
  /\ confirm \in [Requests -> [pc : ConfirmSteps, code : 0..MaxCodes]]
  /\ issued \in 0..MaxCodes
  /\ user \in [tenant : Requests \cup {Nobody}, ready : BOOLEAN]
  /\ pendingTenants \in SUBSET Requests
  /\ audited \in SUBSET Requests
  /\ signupFaults \in 0..MaxSignupFaults
  /\ consumed \in [Codes -> Nat]
  /\ leftovers \in SUBSET Requests

NoVerification == [code |-> NoCode, attempts |-> 0, expired |-> FALSE, cooldown |-> FALSE]
NoUser         == [tenant |-> Nobody, ready |-> FALSE]

SignupInit ==
  /\ verification = NoVerification
  /\ issuer = [i \in Issuers |-> "idle"]
  /\ confirm = [r \in Requests |-> [pc |-> "idle", code |-> NoCode]]
  /\ issued = 0
  /\ user = NoUser
  /\ pendingTenants = {}
  /\ audited = {}
  /\ signupFaults = 0
  /\ consumed = [c \in Codes |-> 0]
  /\ leftovers = {}

Started == verification.code # NoCode

------------------------------------------------------------------------------
\* Time: the code's ten minutes, and the minute before it may be sent again.
CodeExpires ==
  /\ Started
  /\ ~verification.expired
  /\ verification' = [verification EXCEPT !.expired = TRUE, !.cooldown = FALSE]
  /\ UNCHANGED <<issuer, confirm, issued, user, pendingTenants, audited, signupFaults,
                 consumed, leftovers>>

CooldownEnds ==
  /\ verification.cooldown
  /\ verification' = [verification EXCEPT !.cooldown = FALSE]
  /\ UNCHANGED <<issuer, confirm, issued, user, pendingTenants, audited, signupFaults,
                 consumed, leftovers>>

\* issueVerificationCode: expired rows are deleted, then the cooldown is read. A resend
\* first wants a row that has not expired, which a start does not.
ReadCooldown(i) ==
  /\ issuer[i] = "idle"
  /\ issued < MaxCodes
  /\ ~verification.cooldown
  /\ verification' = IF verification.expired THEN NoVerification ELSE verification
  /\ issuer' = [issuer EXCEPT ![i] = "read"]
  /\ UNCHANGED <<confirm, issued, user, pendingTenants, audited, signupFaults, consumed,
                 leftovers>>

\* upsertSignupVerification: the new code replaces the old one, attempts start again.
UpsertCode(i) ==
  /\ issuer[i] = "read"
  /\ issued < MaxCodes
  /\ issued' = issued + 1
  /\ verification' = [code |-> issued + 1, attempts |-> 0, expired |-> FALSE,
                      cooldown |-> TRUE]
  /\ issuer' = [issuer EXCEPT ![i] = "upserted"]
  /\ UNCHANGED <<confirm, user, pendingTenants, audited, signupFaults, consumed,
                 leftovers>>

MailCode(i) ==
  /\ issuer[i] = "upserted"
  /\ issuer' = [issuer EXCEPT ![i] = "idle"]
  /\ UNCHANGED <<verification, confirm, issued, user, pendingTenants, audited,
                 signupFaults, consumed, leftovers>>

SignupFails == signupFaults < MaxSignupFaults /\ signupFaults' = signupFaults + 1

\* The row is deleted by its e-mail address, whichever code it holds by now. Where the
\* delete fails too, nobody has the code and all is as in MailCode.
MailFails(i) ==
  /\ issuer[i] = "upserted"
  /\ SignupFails
  /\ verification' = NoVerification
  /\ issuer' = [issuer EXCEPT ![i] = "idle"]
  /\ UNCHANGED <<confirm, issued, user, pendingTenants, audited, consumed, leftovers>>

------------------------------------------------------------------------------
Goes(r, step) == confirm' = [confirm EXCEPT ![r].pc = step]

\* 429 confirmation_locked.
Locked == verification.attempts >= MaxAttempts

\* confirmSignup reads the row: its code and its attempts are used after the read.
ReadVerification(r) ==
  /\ confirm[r].pc = "idle"
  /\ Started
  /\ ~verification.expired
  /\ ~Locked
  /\ confirm' = [confirm EXCEPT ![r] = [pc |-> "read", code |-> verification.code]]
  /\ UNCHANGED <<verification, issuer, issued, user, pendingTenants, audited,
                 signupFaults, consumed, leftovers>>

ReadExpired(r) ==
  /\ confirm[r].pc = "idle"
  /\ Started
  /\ verification.expired
  /\ Goes(r, "expired")
  /\ UNCHANGED <<verification, issuer, issued, user, pendingTenants, audited,
                 signupFaults, consumed, leftovers>>

\* An expired row is deleted, again by its address, whichever code it holds by now.
DeleteExpired(r) ==
  /\ confirm[r].pc = "expired"
  /\ Goes(r, "idle")
  /\ verification' = NoVerification
  /\ UNCHANGED <<issuer, issued, user, pendingTenants, audited, signupFaults, consumed,
                 leftovers>>

\* The given code is compared with the one that was read.
CompareWrong(r) ==
  /\ confirm[r].pc = "read"
  /\ Goes(r, "wrong")
  /\ UNCHANGED <<verification, issuer, issued, user, pendingTenants, audited,
                 signupFaults, consumed, leftovers>>

CompareRight(r) ==
  /\ confirm[r].pc = "read"
  /\ Goes(r, "right")
  /\ UNCHANGED <<verification, issuer, issued, user, pendingTenants, audited,
                 signupFaults, consumed, leftovers>>

\* incrementSignupVerificationAttempt: attempts + 1 in SQL, on whichever row there is.
CountAttempt(r) ==
  /\ confirm[r].pc = "wrong"
  /\ verification' = [verification EXCEPT !.attempts = IF Started THEN @ + 1 ELSE @]
  /\ confirm' = [confirm EXCEPT ![r] = [pc |-> "idle", code |-> NoCode]]
  /\ UNCHANGED <<issuer, issued, user, pendingTenants, audited, signupFaults, consumed,
                 leftovers>>

BugConsumable(r) == ~verification.expired /\ verification.attempts < MaxAttempts

\* claimSignupVerification: one conditional DELETE ... RETURNING.
Consumable(r) ==
  /\ verification.code = confirm[r].code
  /\ ~verification.expired
  /\ verification.attempts < MaxAttempts

ConsumeCode(r) ==
  /\ confirm[r].pc = "right"
  /\ Consumable(r)
  /\ verification' = NoVerification
  /\ consumed' = [consumed EXCEPT ![confirm[r].code] = @ + 1]
  /\ Goes(r, "claimed")
  /\ UNCHANGED <<issuer, issued, user, pendingTenants, audited, signupFaults, leftovers>>

AlreadyUsed(r) ==
  /\ confirm[r].pc = "right"
  /\ ~Consumable(r)
  /\ confirm' = [confirm EXCEPT ![r] = [pc |-> "idle", code |-> NoCode]]
  /\ UNCHANGED <<verification, issuer, issued, user, pendingTenants, audited,
                 signupFaults, consumed, leftovers>>

------------------------------------------------------------------------------
\* AdminCreateUser with the tenant id of this request.
CreateUser(r) ==
  /\ confirm[r].pc = "claimed"
  /\ user = NoUser
  /\ user' = [tenant |-> r, ready |-> FALSE]
  /\ Goes(r, "user")
  /\ UNCHANGED <<verification, issuer, issued, pendingTenants, audited, signupFaults,
                 consumed, leftovers>>

\* UsernameExists: 409 already_registered. The code is gone all the same.
BugUserExists(r) ==
  /\ confirm[r].pc = "claimed"
  /\ user # NoUser
  /\ Goes(r, "undoUser")
  /\ UNCHANGED <<verification, issuer, issued, user, pendingTenants, audited,
                 signupFaults, consumed, leftovers>>

UserExists(r) ==
  /\ confirm[r].pc = "claimed"
  /\ user # NoUser
  /\ Goes(r, "done")
  /\ UNCHANGED <<verification, issuer, issued, user, pendingTenants, audited,
                 signupFaults, consumed, leftovers>>

SetPassword(r) ==
  /\ confirm[r].pc = "user"
  /\ user' = [user EXCEPT !.ready = TRUE]
  /\ Goes(r, "password")
  /\ UNCHANGED <<verification, issuer, issued, pendingTenants, audited, signupFaults,
                 consumed, leftovers>>

CreateTenant(r) ==
  /\ confirm[r].pc = "password"
  /\ pendingTenants' = pendingTenants \cup {r}
  /\ Goes(r, "tenant")
  /\ UNCHANGED <<verification, issuer, issued, user, audited, signupFaults, consumed,
                 leftovers>>

AuditTerms(r) ==
  /\ confirm[r].pc = "tenant"
  /\ audited' = audited \cup {r}
  /\ Goes(r, "audited")
  /\ UNCHANGED <<verification, issuer, issued, user, pendingTenants, signupFaults,
                 consumed, leftovers>>

\* The Stripe customer and the checkout session; when they fail the account stays, and
\* POST /admin/billing/checkout-session resumes.
Checkout(r) ==
  /\ confirm[r].pc = "audited"
  /\ Goes(r, "done")
  /\ UNCHANGED <<verification, issuer, issued, user, pendingTenants, audited,
                 signupFaults, consumed, leftovers>>

------------------------------------------------------------------------------
\* A call throws before or after it took effect. AdminCreateUser that throws is believed
\* to have made nothing.
CallFails(r) ==
  /\ SignupFails
  /\ \E done \in BOOLEAN :
       \/ /\ confirm[r].pc = "claimed"
          /\ user = NoUser
          /\ user' = IF done THEN [tenant |-> r, ready |-> FALSE] ELSE user
          /\ Goes(r, "done")
          /\ leftovers' = IF done THEN leftovers \cup {r} ELSE leftovers
          /\ UNCHANGED <<pendingTenants, audited>>
       \/ /\ confirm[r].pc = "user"
          /\ user' = [user EXCEPT !.ready = done]
          /\ Goes(r, "undoUser")
          /\ UNCHANGED <<pendingTenants, audited, leftovers>>
       \/ /\ confirm[r].pc = "password"
          /\ pendingTenants' = IF done THEN pendingTenants \cup {r} ELSE pendingTenants
          /\ Goes(r, "undoTenant")
          /\ UNCHANGED <<user, audited, leftovers>>
       \/ /\ confirm[r].pc = "tenant"
          /\ audited' = IF done THEN audited \cup {r} ELSE audited
          /\ Goes(r, "undoTenant")
          /\ UNCHANGED <<user, pendingTenants, leftovers>>
  /\ UNCHANGED <<verification, issuer, issued, consumed>>

\* deletePendingTenant, whose foreign key refuses a tenant with an audit row, and
\* whatever it says AdminDeleteUser by the address. The errors of both are swallowed.
UndoTenant(r) ==
  /\ confirm[r].pc = "undoTenant"
  /\ pendingTenants' = IF r \in audited THEN pendingTenants ELSE pendingTenants \ {r}
  /\ leftovers' = IF r \in audited THEN leftovers \cup {r} ELSE leftovers
  /\ Goes(r, "undoUser")
  /\ UNCHANGED <<verification, issuer, issued, user, audited, signupFaults, consumed>>

UndoUser(r) ==
  /\ confirm[r].pc = "undoUser"
  /\ user' = NoUser
  /\ Goes(r, "done")
  /\ UNCHANGED <<verification, issuer, issued, pendingTenants, audited, signupFaults,
                 consumed, leftovers>>

UndoFails(r) ==
  /\ confirm[r].pc \in {"undoTenant", "undoUser"}
  /\ SignupFails
  /\ leftovers' = leftovers \cup {r}
  /\ Goes(r, IF confirm[r].pc = "undoTenant" THEN "undoUser" ELSE "done")
  /\ UNCHANGED <<verification, issuer, issued, user, pendingTenants, audited, consumed>>

ConfirmDies(r) ==
  /\ confirm[r].pc \notin {"idle", "done"}
  /\ SignupFails
  /\ leftovers' = leftovers \cup {r}
  /\ Goes(r, "done")
  /\ UNCHANGED <<verification, issuer, issued, user, pendingTenants, audited, consumed>>

SignupNext ==
  \/ CodeExpires \/ CooldownEnds
  \/ \E i \in Issuers : ReadCooldown(i) \/ UpsertCode(i) \/ MailCode(i) \/ MailFails(i)
  \/ \E r \in Requests :
       \/ ReadVerification(r) \/ ReadExpired(r) \/ DeleteExpired(r)
       \/ CompareWrong(r) \/ CompareRight(r) \/ CountAttempt(r)
       \/ ConsumeCode(r) \/ AlreadyUsed(r) \/ CreateUser(r) \/ UserExists(r)
       \/ SetPassword(r) \/ CreateTenant(r) \/ AuditTerms(r) \/ Checkout(r)
       \/ CallFails(r) \/ UndoTenant(r) \/ UndoUser(r) \/ UndoFails(r) \/ ConfirmDies(r)

SignupSpec == SignupInit /\ [][SignupNext]_signupVars

------------------------------------------------------------------------------
\* A code makes at most one account, however often it is sent in and whatever is issued
\* meanwhile (signup-verifications.ts, claimSignupVerification).
CodeUsedOnce == \A c \in Codes : consumed[c] =< 1

Working(r) == confirm[r].pc \in {"user", "password", "tenant", "audited", "undoUser", "undoTenant"}

\* The user a confirmation goes on to work with, and deletes if it fails, is its own;
\* and once nobody works, a user that can sign in has its tenant, and a tenant its user,
\* but for what a failed or interrupted compensation left behind.
AccountIsWhole ==
  /\ \A r \in Requests : Working(r) => user.tenant = r
  /\ \A r \in Requests \ leftovers :
       ~Working(r) => (user.tenant = r <=> r \in pendingTenants)

==============================================================================
