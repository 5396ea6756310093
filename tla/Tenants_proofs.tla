---------------------------- MODULE Tenants_proofs ----------------------------
(***************************************************************************)
(* Proofs about the parts that concern one tenant and share no state: its  *)
(* sign-up (Signup), its marketplace connection (Connections), its         *)
(* offboarding (TenantOffboarding) and the polls of its sales              *)
(* (SalesPolling); and, with the proofs about its billing and its quota,   *)
(* that their composition, MCTenants, keeps what each keeps alone. Each is *)
(* proved for every value of its constants, and none needs the fairness of *)
(* its specification.                                                      *)
(***************************************************************************)
EXTENDS MCTenants, Billing_proofs, FiniteSetTheorems, SequenceTheorems, TLAPS

------------------------------------------------------------------------------
(***************************************************************************)
(* Signup: for every number of executions, codes, attempts and faults. Two *)
(* independent parts: what the row, the confirmations and the history say  *)
(* of the codes (Held, Fresh), and what a confirmation's step says of the  *)
(* user and the tenant it made (Owned).                                    *)
(***************************************************************************)

Verifications == [code : 0..MaxCodes, attempts : Nat, expired : BOOLEAN, cooldown : BOOLEAN]
Confirmations == [pc : ConfirmSteps, code : 0..MaxCodes]
Users         == [tenant : Requests \cup {Nobody}, ready : BOOLEAN]

------------------------------------------------------------------------------
(***************************************************************************)
(* The invariant                                                           *)
(***************************************************************************)

\* A confirmation that has read a code, and has not yet lost it, names one.
Held ==
  \A r \in Requests : confirm[r].pc \in {"read", "right"} => confirm[r].code \in Codes

\* The row holds a code that was drawn and never consumed; the ones to come were not.
Fresh ==
  /\ verification.code =< issued
  /\ \A c \in Codes :
       /\ consumed[c] =< 1
       /\ consumed[c] = 1 => c =< issued /\ c # verification.code

\* Before it has made anything, and when only its user is made, there is no tenant.
Untouched(r) == confirm[r].pc \in {"idle", "expired", "read", "wrong", "right", "claimed"}
Tenantless(r) == Untouched(r) \/ confirm[r].pc \in {"user", "password"}
HasTenant(r) == confirm[r].pc \in {"tenant", "audited"}

\* The tenant row of a request at each of its steps, and its user once it ended.
Owned ==
  \A r \in Requests :
    /\ Working(r) => user.tenant = r
    /\ Tenantless(r) => r \notin pendingTenants
    /\ Untouched(r) => user.tenant # r
    /\ HasTenant(r) => r \in pendingTenants
    /\ confirm[r].pc = "undoUser" /\ r \notin leftovers => r \notin pendingTenants
    /\ confirm[r].pc = "done" /\ r \notin leftovers =>
         (user.tenant = r <=> r \in pendingTenants)

\* A confirmation that goes on to a step.
LEMMA GoesType ==
  ASSUME SignupTypeOK, NEW r \in Requests, NEW s \in ConfirmSteps, Goes(r, s)
  PROVE  confirm' \in [Requests -> Confirmations]
<1> DEFINE q == [confirm[r] EXCEPT !.pc = s]
<1>1. confirm \in [Requests -> Confirmations]
  BY DEF SignupTypeOK, Confirmations
<1>2. q \in Confirmations
  BY ONLY <1>1, r \in Requests, s \in ConfirmSteps DEF Confirmations
<1>3. confirm' = [confirm EXCEPT ![r] = q]
  BY DEF Goes
<1> HIDE DEF q
<1>4. QED
  BY ONLY <1>1, <1>2, <1>3

SignupInv == SignupTypeOK /\ Held /\ Fresh /\ Owned
------------------------------------------------------------------------------
\* Every action keeps the types.
LEMMA SignupTypeStep ==
  ASSUME SignupTypeOK, Held, SignupNext
  PROVE  SignupTypeOK'
<1> USE SignupAssumption DEF SignupTypeOK, Held, Codes, NoCode, IssuerSteps, ConfirmSteps,
       Verifications, Confirmations, Users
<1>1. CASE CodeExpires
  BY <1>1 DEF CodeExpires, Started
<1>2. CASE CooldownEnds
  BY <1>2 DEF CooldownEnds
<1>3. ASSUME NEW i \in Issuers, ReadCooldown(i) PROVE SignupTypeOK'
  <2>1. verification' \in Verifications
    BY <1>3 DEF ReadCooldown, NoVerification
  <2>2. issuer' \in [Issuers -> IssuerSteps]
    BY <1>3 DEF ReadCooldown
  <2>3. UNCHANGED <<confirm, issued, user, pendingTenants, audited, signupFaults,
                  consumed, leftovers>>
    BY <1>3 DEF ReadCooldown
  <2>4. QED
    BY <2>1, <2>2, <2>3
<1>4. ASSUME NEW i \in Issuers, UpsertCode(i) PROVE SignupTypeOK'
  BY <1>4 DEF UpsertCode
<1>5. ASSUME NEW i \in Issuers, MailCode(i) PROVE SignupTypeOK'
  BY <1>5 DEF MailCode
<1>6. ASSUME NEW i \in Issuers, MailFails(i) PROVE SignupTypeOK'
  <2>1. verification' \in Verifications
    BY <1>6 DEF MailFails, NoVerification
  <2>2. issuer' \in [Issuers -> IssuerSteps]
    BY <1>6 DEF MailFails
  <2>3. signupFaults' \in 0..MaxSignupFaults
    BY <1>6 DEF MailFails, SignupFails
  <2>4. UNCHANGED <<confirm, issued, user, pendingTenants, audited, consumed, leftovers>>
    BY <1>6 DEF MailFails
  <2>5. QED
    BY <2>1, <2>2, <2>3, <2>4
<1>7. ASSUME NEW r \in Requests, ReadVerification(r) PROVE SignupTypeOK'
  BY <1>7 DEF ReadVerification, Started
<1>8. ASSUME NEW r \in Requests, ReadExpired(r) PROVE SignupTypeOK'
  BY <1>8 DEF ReadExpired, Goes
<1>9. ASSUME NEW r \in Requests, DeleteExpired(r) PROVE SignupTypeOK'
  <2>1. verification' \in Verifications
    BY <1>9 DEF DeleteExpired, NoVerification
  <2>2. confirm' \in [Requests -> Confirmations]
    BY <1>9 DEF DeleteExpired, Goes
  <2>3. UNCHANGED <<issuer, issued, user, pendingTenants, audited, signupFaults,
                  consumed, leftovers>>
    BY <1>9 DEF DeleteExpired
  <2>4. QED
    BY <2>1, <2>2, <2>3
<1>10. ASSUME NEW r \in Requests, CompareWrong(r) PROVE SignupTypeOK'
  BY <1>10 DEF CompareWrong, Goes
<1>11. ASSUME NEW r \in Requests, CompareRight(r) PROVE SignupTypeOK'
  BY <1>11 DEF CompareRight, Goes
<1>12. ASSUME NEW r \in Requests, CountAttempt(r) PROVE SignupTypeOK'
  <2>1. verification' \in Verifications
    <3>1. CASE Started
      <4>1. verification' = [verification EXCEPT !.attempts = verification.attempts + 1]
        BY <1>12, <3>1 DEF CountAttempt
      <4>2. verification \in Verifications /\ verification.attempts + 1 \in Nat
        OBVIOUS
      <4>3. QED
        BY ONLY <4>1, <4>2 DEF Verifications
    <3>2. CASE ~Started
      <4>1. verification' = [verification EXCEPT !.attempts = verification.attempts]
        BY <1>12, <3>2 DEF CountAttempt
      <4>2. QED
        BY <4>1
    <3>3. QED
      BY <3>1, <3>2
  <2>2. confirm' \in [Requests -> Confirmations]
    BY <1>12 DEF CountAttempt, NoCode
  <2>3. UNCHANGED <<issuer, issued, user, pendingTenants, audited, signupFaults,
                  consumed, leftovers>>
    BY <1>12 DEF CountAttempt
  <2>4. QED
    BY <2>1, <2>2, <2>3
<1>13. ASSUME NEW r \in Requests, ConsumeCode(r) PROVE SignupTypeOK'
  <2>1. verification' \in Verifications
    BY <1>13 DEF ConsumeCode, NoVerification
  <2>2. confirm' \in [Requests -> Confirmations]
    BY <1>13 DEF ConsumeCode, Goes
  <2>3. confirm[r].code \in Codes
    BY <1>13 DEF ConsumeCode
  <2>4. consumed' \in [Codes -> Nat]
    BY <1>13, <2>3 DEF ConsumeCode
  <2>5. UNCHANGED <<issuer, issued, user, pendingTenants, audited, signupFaults, leftovers>>
    BY <1>13 DEF ConsumeCode
  <2>6. QED
    BY <2>1, <2>2, <2>3, <2>4, <2>5
<1>14. ASSUME NEW r \in Requests, AlreadyUsed(r) PROVE SignupTypeOK'
  <2>1. confirm' \in [Requests -> Confirmations]
    BY <1>14 DEF AlreadyUsed, NoCode
  <2>2. UNCHANGED <<verification, issuer, issued, user, pendingTenants, audited, signupFaults,
                  consumed, leftovers>>
    BY <1>14 DEF AlreadyUsed
  <2>3. QED
    BY <2>1, <2>2
<1>15. ASSUME NEW r \in Requests, CreateUser(r) PROVE SignupTypeOK'
  <2>1. confirm' \in [Requests -> Confirmations]
    <3>1. Goes(r, "user") /\ "user" \in ConfirmSteps
      BY <1>15 DEF CreateUser
    <3>2. QED
      BY <3>1, GoesType
  <2>2. QED
    BY <1>15, <2>1 DEF CreateUser, NoUser
<1>16. ASSUME NEW r \in Requests, UserExists(r) PROVE SignupTypeOK'
  BY <1>16 DEF UserExists, Goes
<1>17. ASSUME NEW r \in Requests, SetPassword(r) PROVE SignupTypeOK'
  BY <1>17 DEF SetPassword, Goes
<1>18. ASSUME NEW r \in Requests, CreateTenant(r) PROVE SignupTypeOK'
  BY <1>18 DEF CreateTenant, Goes
<1>19. ASSUME NEW r \in Requests, AuditTerms(r) PROVE SignupTypeOK'
  BY <1>19 DEF AuditTerms, Goes
<1>20. ASSUME NEW r \in Requests, Checkout(r) PROVE SignupTypeOK'
  BY <1>20 DEF Checkout, Goes
<1>21. ASSUME NEW r \in Requests, CallFails(r) PROVE SignupTypeOK'
  <2>1. confirm' \in [Requests -> Confirmations]
    <3>1. PICK s \in {"done", "undoUser", "undoTenant"} : Goes(r, s)
      BY <1>21 DEF CallFails
    <3>2. s \in ConfirmSteps
      OBVIOUS
    <3>3. QED
      BY <3>1, <3>2, GoesType
  <2>2. user' \in Users
    <3>1. PICK done \in BOOLEAN :
            \/ user' = [tenant |-> r, ready |-> FALSE]
            \/ user' = user
            \/ user' = [user EXCEPT !.ready = done]
      BY <1>21 DEF CallFails
    <3>2. CASE user' = [tenant |-> r, ready |-> FALSE]
      BY <3>2
    <3>3. CASE user' = user
      BY <3>3
    <3>4. CASE user' = [user EXCEPT !.ready = done]
      BY <3>4
    <3>5. QED
      BY <3>1, <3>2, <3>3, <3>4
  <2>3. signupFaults' \in 0..MaxSignupFaults
    BY <1>21 DEF CallFails, SignupFails
  <2>4. /\ pendingTenants' \in SUBSET Requests /\ audited' \in SUBSET Requests
        /\ leftovers' \in SUBSET Requests
    BY <1>21 DEF CallFails
  <2>5. UNCHANGED <<verification, issuer, issued, consumed>>
    BY <1>21 DEF CallFails
  <2>6. QED
    BY <2>1, <2>2, <2>3, <2>4, <2>5
<1>22. ASSUME NEW r \in Requests, UndoTenant(r) PROVE SignupTypeOK'
  BY <1>22 DEF UndoTenant, Goes
<1>23. ASSUME NEW r \in Requests, UndoUser(r) PROVE SignupTypeOK'
  BY <1>23 DEF UndoUser, Goes, NoUser
<1>24. ASSUME NEW r \in Requests, UndoFails(r) PROVE SignupTypeOK'
  <2>1. confirm' \in [Requests -> Confirmations]
    <3>1. PICK s \in {"done", "undoUser"} : Goes(r, s)
      BY <1>24 DEF UndoFails
    <3>2. s \in ConfirmSteps
      OBVIOUS
    <3>3. QED
      BY <3>1, <3>2, GoesType
  <2>2. signupFaults' \in 0..MaxSignupFaults /\ leftovers' \in SUBSET Requests
    BY <1>24 DEF UndoFails, SignupFails
  <2>3. UNCHANGED <<verification, issuer, issued, user, pendingTenants, audited, consumed>>
    BY <1>24 DEF UndoFails
  <2>4. QED
    BY <2>1, <2>2, <2>3
<1>25. ASSUME NEW r \in Requests, ConfirmDies(r) PROVE SignupTypeOK'
  <2>1. confirm' \in [Requests -> Confirmations]
    <3>1. Goes(r, "done") /\ "done" \in ConfirmSteps
      BY <1>25 DEF ConfirmDies
    <3>2. QED
      BY <3>1, GoesType
  <2>2. signupFaults' \in 0..MaxSignupFaults /\ leftovers' \in SUBSET Requests
    BY <1>25 DEF ConfirmDies, SignupFails
  <2>3. UNCHANGED <<verification, issuer, issued, user, pendingTenants, audited, consumed>>
    BY <1>25 DEF ConfirmDies
  <2>4. QED
    BY <2>1, <2>2, <2>3
<1>26. QED
  BY ONLY SignupNext, <1>1, <1>2, <1>3, <1>4, <1>5, <1>6, <1>7, <1>8, <1>9, <1>10, <1>11,
          <1>12, <1>13, <1>14, <1>15, <1>16, <1>17, <1>18, <1>19, <1>20, <1>21, <1>22,
          <1>23, <1>24, <1>25 DEF SignupNext

\* A code is held from the read that found it on.
LEMMA HeldStep ==
  ASSUME SignupTypeOK, Held, SignupNext
  PROVE  Held'
<1> USE SignupAssumption DEF SignupTypeOK, Held, Codes, NoCode, ConfirmSteps
<1>1. CASE CodeExpires
  BY <1>1 DEF CodeExpires, Started
<1>2. CASE CooldownEnds
  BY <1>2 DEF CooldownEnds
<1>3. ASSUME NEW i \in Issuers, ReadCooldown(i) PROVE Held'
  BY <1>3 DEF ReadCooldown, NoVerification
<1>4. ASSUME NEW i \in Issuers, UpsertCode(i) PROVE Held'
  BY <1>4 DEF UpsertCode
<1>5. ASSUME NEW i \in Issuers, MailCode(i) PROVE Held'
  BY <1>5 DEF MailCode
<1>6. ASSUME NEW i \in Issuers, MailFails(i) PROVE Held'
  BY <1>6 DEF MailFails, SignupFails, NoVerification
<1>7. ASSUME NEW r \in Requests, ReadVerification(r) PROVE Held'
  BY <1>7 DEF ReadVerification, Started
<1>8. ASSUME NEW r \in Requests, ReadExpired(r) PROVE Held'
  BY <1>8 DEF ReadExpired, Goes
<1>9. ASSUME NEW r \in Requests, DeleteExpired(r) PROVE Held'
  BY <1>9 DEF DeleteExpired, Goes, NoVerification
<1>10. ASSUME NEW r \in Requests, CompareWrong(r) PROVE Held'
  BY <1>10 DEF CompareWrong, Goes
<1>11. ASSUME NEW r \in Requests, CompareRight(r) PROVE Held'
  BY <1>11 DEF CompareRight, Goes
<1>12. ASSUME NEW r \in Requests, CountAttempt(r) PROVE Held'
  BY <1>12 DEF CountAttempt, Started
<1>13. ASSUME NEW r \in Requests, ConsumeCode(r) PROVE Held'
  BY <1>13 DEF ConsumeCode, Goes, NoVerification
<1>14. ASSUME NEW r \in Requests, AlreadyUsed(r) PROVE Held'
  BY <1>14 DEF AlreadyUsed
<1>15. ASSUME NEW r \in Requests, CreateUser(r) PROVE Held'
  BY <1>15 DEF CreateUser, Goes, NoUser
<1>16. ASSUME NEW r \in Requests, UserExists(r) PROVE Held'
  BY <1>16 DEF UserExists, Goes
<1>17. ASSUME NEW r \in Requests, SetPassword(r) PROVE Held'
  BY <1>17 DEF SetPassword, Goes
<1>18. ASSUME NEW r \in Requests, CreateTenant(r) PROVE Held'
  BY <1>18 DEF CreateTenant, Goes
<1>19. ASSUME NEW r \in Requests, AuditTerms(r) PROVE Held'
  BY <1>19 DEF AuditTerms, Goes
<1>20. ASSUME NEW r \in Requests, Checkout(r) PROVE Held'
  BY <1>20 DEF Checkout, Goes
<1>21. ASSUME NEW r \in Requests, CallFails(r) PROVE Held'
  <2>1. PICK s \in {"done", "undoUser", "undoTenant"} : Goes(r, s)
    BY <1>21 DEF CallFails
  <2>2. QED
    BY <2>1 DEF Goes
<1>22. ASSUME NEW r \in Requests, UndoTenant(r) PROVE Held'
  BY <1>22 DEF UndoTenant, Goes
<1>23. ASSUME NEW r \in Requests, UndoUser(r) PROVE Held'
  BY <1>23 DEF UndoUser, Goes, NoUser
<1>24. ASSUME NEW r \in Requests, UndoFails(r) PROVE Held'
  BY <1>24 DEF UndoFails, Goes, SignupFails
<1>25. ASSUME NEW r \in Requests, ConfirmDies(r) PROVE Held'
  BY <1>25 DEF ConfirmDies, Goes, SignupFails
<1>26. QED
  BY ONLY SignupNext, <1>1, <1>2, <1>3, <1>4, <1>5, <1>6, <1>7, <1>8, <1>9, <1>10, <1>11,
          <1>12, <1>13, <1>14, <1>15, <1>16, <1>17, <1>18, <1>19, <1>20, <1>21, <1>22,
          <1>23, <1>24, <1>25 DEF SignupNext

\* Every write of the row draws a code or leaves the one it holds or none.
LEMMA FreshStep ==
  ASSUME SignupTypeOK, Held, Fresh, SignupNext
  PROVE  Fresh'
<1> USE SignupAssumption DEF SignupTypeOK, Held, Fresh, Codes, NoCode
<1>1. CASE CodeExpires
  BY <1>1 DEF CodeExpires, Started
<1>2. CASE CooldownEnds
  BY <1>2 DEF CooldownEnds
<1>3. ASSUME NEW i \in Issuers, ReadCooldown(i) PROVE Fresh'
  BY <1>3 DEF ReadCooldown, NoVerification
<1>4. ASSUME NEW i \in Issuers, UpsertCode(i) PROVE Fresh'
  BY <1>4 DEF UpsertCode
<1>5. ASSUME NEW i \in Issuers, MailCode(i) PROVE Fresh'
  BY <1>5 DEF MailCode
<1>6. ASSUME NEW i \in Issuers, MailFails(i) PROVE Fresh'
  BY <1>6 DEF MailFails, SignupFails, NoVerification
<1>7. ASSUME NEW r \in Requests, ReadVerification(r) PROVE Fresh'
  BY <1>7 DEF ReadVerification, Started
<1>8. ASSUME NEW r \in Requests, ReadExpired(r) PROVE Fresh'
  BY <1>8 DEF ReadExpired, Goes
<1>9. ASSUME NEW r \in Requests, DeleteExpired(r) PROVE Fresh'
  BY <1>9 DEF DeleteExpired, Goes, NoVerification
<1>10. ASSUME NEW r \in Requests, CompareWrong(r) PROVE Fresh'
  BY <1>10 DEF CompareWrong, Goes
<1>11. ASSUME NEW r \in Requests, CompareRight(r) PROVE Fresh'
  BY <1>11 DEF CompareRight, Goes
<1>12. ASSUME NEW r \in Requests, CountAttempt(r) PROVE Fresh'
  BY <1>12 DEF CountAttempt, Started
<1>13. ASSUME NEW r \in Requests, ConsumeCode(r) PROVE Fresh'
  <2>1. /\ confirm[r].code \in Codes /\ verification.code = confirm[r].code
        /\ verification'.code = 0
        /\ consumed' = [consumed EXCEPT ![confirm[r].code] = @ + 1]
        /\ issued' = issued
    BY <1>13 DEF ConsumeCode, Consumable, NoVerification, Held
  <2>2. consumed[confirm[r].code] = 0
    BY <2>1
  <2>3. QED
    BY <2>1, <2>2
<1>14. ASSUME NEW r \in Requests, AlreadyUsed(r) PROVE Fresh'
  BY <1>14 DEF AlreadyUsed
<1>15. ASSUME NEW r \in Requests, CreateUser(r) PROVE Fresh'
  BY <1>15 DEF CreateUser, Goes, NoUser
<1>16. ASSUME NEW r \in Requests, UserExists(r) PROVE Fresh'
  BY <1>16 DEF UserExists, Goes
<1>17. ASSUME NEW r \in Requests, SetPassword(r) PROVE Fresh'
  BY <1>17 DEF SetPassword, Goes
<1>18. ASSUME NEW r \in Requests, CreateTenant(r) PROVE Fresh'
  BY <1>18 DEF CreateTenant, Goes
<1>19. ASSUME NEW r \in Requests, AuditTerms(r) PROVE Fresh'
  BY <1>19 DEF AuditTerms, Goes
<1>20. ASSUME NEW r \in Requests, Checkout(r) PROVE Fresh'
  BY <1>20 DEF Checkout, Goes
<1>21. ASSUME NEW r \in Requests, CallFails(r) PROVE Fresh'
  BY <1>21 DEF CallFails, Goes, SignupFails, NoUser
<1>22. ASSUME NEW r \in Requests, UndoTenant(r) PROVE Fresh'
  BY <1>22 DEF UndoTenant, Goes
<1>23. ASSUME NEW r \in Requests, UndoUser(r) PROVE Fresh'
  BY <1>23 DEF UndoUser, Goes, NoUser
<1>24. ASSUME NEW r \in Requests, UndoFails(r) PROVE Fresh'
  BY <1>24 DEF UndoFails, Goes, SignupFails
<1>25. ASSUME NEW r \in Requests, ConfirmDies(r) PROVE Fresh'
  BY <1>25 DEF ConfirmDies, Goes, SignupFails
<1>26. QED
  BY ONLY SignupNext, <1>1, <1>2, <1>3, <1>4, <1>5, <1>6, <1>7, <1>8, <1>9, <1>10, <1>11,
          <1>12, <1>13, <1>14, <1>15, <1>16, <1>17, <1>18, <1>19, <1>20, <1>21, <1>22,
          <1>23, <1>24, <1>25 DEF SignupNext

\* What a request made is its own until it ends.
LEMMA OwnedStep ==
  ASSUME SignupTypeOK, Owned, SignupNext
  PROVE  Owned'
<1> USE SignupAssumption DEF SignupTypeOK, Owned, Working, Untouched, Tenantless, HasTenant,
       Nobody, ConfirmSteps
<1>1. CASE CodeExpires
  BY <1>1 DEF CodeExpires, Started
<1>2. CASE CooldownEnds
  BY <1>2 DEF CooldownEnds
<1>3. ASSUME NEW i \in Issuers, ReadCooldown(i) PROVE Owned'
  BY <1>3 DEF ReadCooldown, NoVerification
<1>4. ASSUME NEW i \in Issuers, UpsertCode(i) PROVE Owned'
  BY <1>4 DEF UpsertCode
<1>5. ASSUME NEW i \in Issuers, MailCode(i) PROVE Owned'
  BY <1>5 DEF MailCode
<1>6. ASSUME NEW i \in Issuers, MailFails(i) PROVE Owned'
  BY <1>6 DEF MailFails, SignupFails, NoVerification
<1>7. ASSUME NEW r \in Requests, ReadVerification(r) PROVE Owned'
  BY <1>7 DEF ReadVerification, Started
<1>8. ASSUME NEW r \in Requests, ReadExpired(r) PROVE Owned'
  BY <1>8 DEF ReadExpired, Goes
<1>9. ASSUME NEW r \in Requests, DeleteExpired(r) PROVE Owned'
  BY <1>9 DEF DeleteExpired, Goes, NoVerification
<1>10. ASSUME NEW r \in Requests, CompareWrong(r) PROVE Owned'
  BY <1>10 DEF CompareWrong, Goes
<1>11. ASSUME NEW r \in Requests, CompareRight(r) PROVE Owned'
  BY <1>11 DEF CompareRight, Goes
<1>12. ASSUME NEW r \in Requests, CountAttempt(r) PROVE Owned'
  BY <1>12 DEF CountAttempt, Started
<1>13. ASSUME NEW r \in Requests, ConsumeCode(r) PROVE Owned'
  BY <1>13 DEF ConsumeCode, Goes, NoVerification
<1>14. ASSUME NEW r \in Requests, AlreadyUsed(r) PROVE Owned'
  BY <1>14 DEF AlreadyUsed
<1>15. ASSUME NEW r \in Requests, CreateUser(r) PROVE Owned'
  BY <1>15 DEF CreateUser, Goes, NoUser
<1>16. ASSUME NEW r \in Requests, UserExists(r) PROVE Owned'
  BY <1>16 DEF UserExists, Goes
<1>17. ASSUME NEW r \in Requests, SetPassword(r) PROVE Owned'
  BY <1>17 DEF SetPassword, Goes
<1>18. ASSUME NEW r \in Requests, CreateTenant(r) PROVE Owned'
  BY <1>18 DEF CreateTenant, Goes
<1>19. ASSUME NEW r \in Requests, AuditTerms(r) PROVE Owned'
  BY <1>19 DEF AuditTerms, Goes
<1>20. ASSUME NEW r \in Requests, Checkout(r) PROVE Owned'
  BY <1>20 DEF Checkout, Goes
<1>21. ASSUME NEW r \in Requests, CallFails(r) PROVE Owned'
  BY <1>21 DEF CallFails, Goes, SignupFails, NoUser
<1>22. ASSUME NEW r \in Requests, UndoTenant(r) PROVE Owned'
  BY <1>22 DEF UndoTenant, Goes
<1>23. ASSUME NEW r \in Requests, UndoUser(r) PROVE Owned'
  BY <1>23 DEF UndoUser, Goes, NoUser
<1>24. ASSUME NEW r \in Requests, UndoFails(r) PROVE Owned'
  BY <1>24 DEF UndoFails, Goes, SignupFails
<1>25. ASSUME NEW r \in Requests, ConfirmDies(r) PROVE Owned'
  BY <1>25 DEF ConfirmDies, Goes, SignupFails
<1>26. QED
  BY ONLY SignupNext, <1>1, <1>2, <1>3, <1>4, <1>5, <1>6, <1>7, <1>8, <1>9, <1>10, <1>11,
          <1>12, <1>13, <1>14, <1>15, <1>16, <1>17, <1>18, <1>19, <1>20, <1>21, <1>22,
          <1>23, <1>24, <1>25 DEF SignupNext

------------------------------------------------------------------------------
\* The invariant holds at first.
LEMMA InitSignup == SignupInit => SignupInv
<1> SUFFICES ASSUME SignupInit PROVE SignupInv
  OBVIOUS
<1> USE SignupAssumption DEF SignupInit, Codes, NoCode, Nobody
<1>1. SignupTypeOK
  <2>1. verification \in Verifications /\ user \in Users
    BY DEF Verifications, Users, NoVerification, NoUser
  <2>2. confirm \in [Requests -> Confirmations] /\ issuer \in [Issuers -> IssuerSteps]
    BY DEF Confirmations, ConfirmSteps, IssuerSteps
  <2>3. QED
    BY <2>1, <2>2 DEF SignupTypeOK, Verifications, Users, Confirmations
<1>2. Held /\ Fresh
  BY DEF Held, Fresh, NoVerification
<1>3. Owned
  BY DEF Owned, Working, Untouched, Tenantless, HasTenant, NoUser
<1>4. QED
  BY <1>1, <1>2, <1>3 DEF SignupInv

\* The parts of the invariant are kept.
LEMMA NextSignup == SignupInv /\ [SignupNext]_signupVars => SignupInv'
<1> SUFFICES ASSUME SignupInv, [SignupNext]_signupVars PROVE SignupInv'
  OBVIOUS
<1>1. CASE SignupNext
  BY <1>1, SignupTypeStep, HeldStep, FreshStep, OwnedStep DEF SignupInv
<1>2. CASE UNCHANGED signupVars
  <2>1. SignupTypeOK'
    BY <1>2 DEF signupVars, SignupInv, SignupTypeOK
  <2>2. Held' /\ Fresh'
    BY <1>2 DEF signupVars, SignupInv, Held, Fresh
  <2>3. Owned'
    BY <1>2 DEF signupVars, SignupInv, Owned, Working, Untouched, Tenantless, HasTenant
  <2>4. QED
    BY <2>1, <2>2, <2>3 DEF SignupInv
<1>3. QED
  BY <1>1, <1>2

\* The three parts together are inductive: a code is consumed by the conditional delete of
\* the row that holds it (claimSignupVerification), a user is made only where there is
\* none, and each compensation undoes what its own request made.
THEOREM SignupInductive == SignupSpec => []SignupInv
<1>1. QED
  BY InitSignup, NextSignup, PTL DEF SignupSpec

\* The row, the executions, the user and the histories keep their types.
THEOREM SignupTypeCorrect == SignupSpec => []SignupTypeOK
<1>1. SignupInv => SignupTypeOK
  BY DEF SignupInv
<1>2. QED
  BY <1>1, SignupInductive, PTL

\* Of all the confirmations that send in one code, at most one goes on to make an
\* account (signup-verifications.ts, claimSignupVerification).
THEOREM CodeUsedOnceHolds == SignupSpec => []CodeUsedOnce
<1>1. SignupInv => CodeUsedOnce
  BY DEF SignupInv, Fresh, CodeUsedOnce
<1>2. QED
  BY <1>1, SignupInductive, PTL

LEMMA SignupWhole == SignupInv => AccountIsWhole
<1> SUFFICES ASSUME SignupInv PROVE AccountIsWhole
  OBVIOUS
<1>1. ASSUME NEW r \in Requests PROVE Untouched(r) \/ Working(r) \/ confirm[r].pc = "done"
  BY DEF SignupInv, SignupTypeOK, ConfirmSteps, Untouched, Working
<1>2. QED
  BY <1>1 DEF SignupInv, Owned, Untouched, Tenantless, Working, AccountIsWhole

\* A confirmation works with, and takes back, the user it made itself, and leaves a user
\* with its tenant or neither, unless it died or its compensation failed (signup's
\* handler.ts, confirmSignup).
THEOREM AccountIsWholeHolds == SignupSpec => []AccountIsWhole
BY SignupWhole, SignupInductive, PTL

------------------------------------------------------------------------------
(***************************************************************************)
(* Connections: for every set of saves, purges and refreshes. A token is   *)
(* drawn before its secret is made, so there are no more ARNs than tokens  *)
(* (Counted, Numbered); who is about to write the row names the secret     *)
(* (Named), a row names it or is about to be deleted (Dangling); and where *)
(* refreshes rotate, a token is used up by one execution that will store   *)
(* its successor (Private, Replaced).                                      *)
(***************************************************************************)

Secrets      == [arn : Numbers, refresh : Numbers]
SaverStates  == [pc : {"idle", "row", "read", "save", "create", "upsert"},
                 arn : Numbers, refresh : Numbers]
PurgerStates == [pc : {"idle", "secret", "row"}, arn : Numbers]

\* The savers that drew a token and have not yet put it: each may make one more ARN.
Storing == {s \in Savers : saver[s].pc \in {"save", "create"}}

Counted ==
  /\ IsFiniteSet(Storing)
  /\ Cardinality(Storing) + arns =< tokens

\* An ARN is given once.
Numbered ==
  /\ row =< arns
  /\ secret = NoSecret \/ secret.arn \in 1..arns
  /\ \A s \in Savers : saver[s].arn =< arns
  /\ \A p \in Purgers : purger[p].arn =< arns
  /\ \A p \in Purgers : purger[p].pc # "idle" => purger[p].arn # Nothing
  /\ \A p \in Purgers : purger[p].pc = "row" => purger[p].arn # secret.arn

\* Without a save that died or was overtaken, who is about to upsert names the secret.
Named ==
  lost \subseteq {"purger"} =>
    /\ \A s \in Saving : secret # NoSecret /\ saver[s].arn = secret.arn
    /\ secret # NoSecret => row = secret.arn \/ \E s \in Saving : saver[s].arn = secret.arn

\* A row that names no secret is one that a purge is about to delete.
Dangling ==
  lost = {} /\ row # Nothing =>
    row = secret.arn \/ \E p \in Purgers : purger[p].pc = "row" /\ purger[p].arn = row

\* A refresh token that is still to be stored is nobody else's where refreshes rotate, so
\* that no other refresh can invalidate it.
Private ==
  /\ secret.refresh =< tokens
  /\ \A s \in Savers : saver[s].refresh =< tokens
  /\ \A s \in Storing : saver[s].refresh \in valid
  /\ rotates => \A s \in Storing :
       /\ saver[s].refresh # secret.refresh
       /\ \A t \in Savers \ {s} :
            saver[t].pc \in {"read", "save", "create"} => saver[t].refresh # saver[s].refresh

\* A stored token that was used up is one that a save is about to replace.
Replaced ==
  lost = {} /\ secret # NoSecret =>
    secret.refresh \in valid \/ \E s \in Savers : saver[s].pc = "save"

ConnectionInv ==
  ConnectionTypeOK /\ Counted /\ Numbered /\ Named /\ Dangling /\ Private /\ Replaced

------------------------------------------------------------------------------
\* A save that begins to store a token it drew.
LEMMA StoringGrows ==
  ASSUME ConnectionTypeOK, Counted, NEW s, Storing' = Storing \cup {s},
         tokens' = tokens + 1, arns' = arns
  PROVE  Counted'
<1>1. /\ IsFiniteSet(Storing')
      /\ Cardinality(Storing') =< Cardinality(Storing) + 1
      /\ Cardinality(Storing) \in Nat /\ Cardinality(Storing') \in Nat
  BY FS_AddElement, FS_CardinalityType DEF Counted
<1>2. QED
  BY <1>1, ConnectionAssumption DEF Counted, ConnectionTypeOK, Numbers

\* A save that ends, or goes on to its row, without a new ARN.
LEMMA StoringShrinks ==
  ASSUME ConnectionTypeOK, Counted, Storing' \in SUBSET Storing,
         tokens' = tokens, arns' = arns
  PROVE  Counted'
<1>1. /\ IsFiniteSet(Storing')
      /\ Cardinality(Storing') =< Cardinality(Storing)
      /\ Cardinality(Storing) \in Nat /\ Cardinality(Storing') \in Nat
  BY FS_Subset, FS_CardinalityType DEF Counted
<1>2. QED
  BY <1>1, ConnectionAssumption DEF Counted, ConnectionTypeOK, Numbers

\* While a save is to come, fewer ARNs than tokens were made.
LEMMA ArnsLeft ==
  ASSUME ConnectionTypeOK, Counted, NEW s \in Storing
  PROVE  /\ IsFiniteSet(Storing \ {s})
         /\ Cardinality(Storing \ {s}) \in Nat
         /\ Cardinality(Storing \ {s}) + arns + 1 =< tokens
<1>1. /\ IsFiniteSet(Storing \ {s})
      /\ Cardinality(Storing \ {s}) = Cardinality(Storing) - 1
      /\ Cardinality(Storing) \in Nat /\ Cardinality(Storing \ {s}) \in Nat
  BY FS_RemoveElement, FS_CardinalityType DEF Counted
<1>2. QED
  BY <1>1, ConnectionAssumption DEF Counted, ConnectionTypeOK, Numbers

\* Every ARN is made for a token of its own, so that there are no more of them.
LEMMA ConnectionTypeStep ==
  ASSUME ConnectionTypeOK, Counted, Numbered, ConnectionNext
  PROVE  ConnectionTypeOK'
<1>0. /\ secret \in Secrets /\ saver \in [Savers -> SaverStates]
      /\ purger \in [Purgers -> PurgerStates] /\ Nothing \in Numbers
      /\ arns \in Numbers /\ tokens \in Numbers
  BY ConnectionAssumption
     DEF ConnectionTypeOK, Secrets, SaverStates, PurgerStates, Nothing, Numbers
<1> USE ConnectionAssumption DEF ConnectionTypeOK, Numbers, NoSecret, Nothing
<1>1. CASE TokenExpires
  BY <1>1 DEF TokenExpires
<1>2. ASSUME NEW s \in Savers, Authorize(s) PROVE ConnectionTypeOK'
  BY <1>2 DEF Authorize, Next1
<1>3. ASSUME NEW s \in Savers, ReadConnection(s) PROVE ConnectionTypeOK'
  BY <1>3 DEF ReadConnection
<1>4. ASSUME NEW s \in Savers, ReadSecret(s) PROVE ConnectionTypeOK'
  <2> DEFINE q == IF secret.arn = saver[s].arn /\ expiring
                   THEN [saver[s] EXCEPT !.pc = "read", !.refresh = secret.refresh]
                   ELSE NoSaver
  <2>0. q \in SaverStates
    BY ONLY <1>0 DEF NoSaver, SaverStates, Secrets
  <2>1. saver' \in [Savers -> SaverStates]
    <3>1. saver' = [saver EXCEPT ![s] = q]
      BY <1>4 DEF ReadSecret
    <3> HIDE DEF q
    <3>2. QED
      BY <2>0, <3>1 DEF SaverStates
  <2>2. QED
    BY <1>4, <2>1 DEF ReadSecret, SaverStates
<1>5. ASSUME NEW s \in Savers, Refresh(s) PROVE ConnectionTypeOK'
  <2>1. tokens' \in Numbers /\ valid' \in SUBSET (1..MaxTokens)
    <3>1. tokens' = tokens + 1 /\ tokens < MaxTokens
      BY ONLY <1>5 DEF Refresh, Next1
    <3>2. valid' \subseteq valid \cup {tokens + 1}
      BY ONLY <1>5 DEF Refresh, Next1
    <3>3. tokens \in Nat /\ MaxTokens \in Nat /\ valid \subseteq 1..MaxTokens
      BY ONLY ConnectionTypeOK, ConnectionAssumption
         DEF ConnectionTypeOK, ConnectionAssumption, Numbers
    <3>4. QED
      BY ONLY <3>1, <3>2, <3>3 DEF Numbers
  <2>2. saver' \in [Savers -> SaverStates]
    BY <1>5 DEF Refresh, Next1, Renewed, SaverStates
  <2>3. QED
    BY <1>5, <2>1, <2>2 DEF Refresh, SaverStates
<1>6. ASSUME NEW s \in Savers, RefreshRefused(s) PROVE ConnectionTypeOK'
  BY <1>6 DEF RefreshRefused, NoSaver
<1>7. ASSUME NEW s \in Savers, PutSecret(s) PROVE ConnectionTypeOK'
  <2>1. secret' \in Secrets /\ expiring' \in BOOLEAN
    BY <1>7 DEF PutSecret, Secrets
  <2>2. saver' \in [Savers -> SaverStates]
    BY ONLY <1>0, <1>7 DEF PutSecret, SaverStates, Secrets
  <2>3. QED
    BY <1>7, <2>1, <2>2 DEF PutSecret, Secrets, SaverStates
<1>8. ASSUME NEW s \in Savers, SecretNotFound(s) PROVE ConnectionTypeOK'
  BY <1>8 DEF SecretNotFound
<1>9. ASSUME NEW s \in Savers, CreateSecret(s) PROVE ConnectionTypeOK'
  <2>1. arns + 1 \in Numbers
    BY <1>9, ArnsLeft DEF CreateSecret, Storing
  <2>2. secret' \in Secrets
    BY <1>9, <2>1 DEF CreateSecret, Secrets
  <2>3. saver' \in [Savers -> SaverStates]
    BY ONLY <1>0, <1>9, <2>1 DEF CreateSecret, SaverStates
  <2>4. QED
    BY <1>9, <2>1, <2>2, <2>3 DEF CreateSecret, Secrets, SaverStates
<1>10. ASSUME NEW s \in Savers, CreateRefused(s) PROVE ConnectionTypeOK'
  BY <1>10 DEF CreateRefused, NoSaver
<1>11. ASSUME NEW s \in Savers, UpsertRow(s) PROVE ConnectionTypeOK'
  BY <1>11 DEF UpsertRow, NoSaver
<1>12. ASSUME NEW s \in Savers, SaverDies(s) PROVE ConnectionTypeOK'
  BY <1>12 DEF SaverDies, NoSaver, ConnectionFails
<1>13. ASSUME NEW p \in Purgers, ReadCandidate(p) PROVE ConnectionTypeOK'
  BY <1>13 DEF ReadCandidate
<1>14. ASSUME NEW p \in Purgers, DeleteSecret(p) PROVE ConnectionTypeOK'
  BY <1>14 DEF DeleteSecret
<1>15. ASSUME NEW p \in Purgers, DeleteRow(p) PROVE ConnectionTypeOK'
  BY <1>15 DEF DeleteRow, NoPurger, StillNamed
<1>16. ASSUME NEW p \in Purgers, PurgerDies(p) PROVE ConnectionTypeOK'
  BY <1>16 DEF PurgerDies, NoPurger, ConnectionFails
<1>17. QED
  BY ONLY ConnectionNext, <1>1, <1>2, <1>3, <1>4, <1>5, <1>6, <1>7, <1>8, <1>9, <1>10,
          <1>11, <1>12, <1>13, <1>14, <1>15, <1>16 DEF ConnectionNext

\* A save draws its token before it makes an ARN.
LEMMA CountedStep ==
  ASSUME ConnectionTypeOK, Counted, ConnectionNext
  PROVE  Counted'
<1> USE ConnectionAssumption DEF ConnectionTypeOK, Numbers, NoSecret, Nothing
<1>1. CASE TokenExpires
  <2>1. Storing' \in SUBSET Storing /\ tokens' = tokens /\ arns' = arns
    BY <1>1 DEF TokenExpires, Storing
  <2>2. QED
    BY <2>1, StoringShrinks
<1>2. ASSUME NEW s \in Savers, Authorize(s) PROVE Counted'
  <2>1. Storing' = Storing \cup {s} /\ tokens' = tokens + 1 /\ arns' = arns
    BY <1>2 DEF Authorize, Next1, Storing
  <2>2. QED
    BY <2>1, StoringGrows
<1>3. ASSUME NEW s \in Savers, ReadConnection(s) PROVE Counted'
  <2>1. Storing' \in SUBSET Storing /\ tokens' = tokens /\ arns' = arns
    BY <1>3 DEF ReadConnection, Storing
  <2>2. QED
    BY <2>1, StoringShrinks
<1>4. ASSUME NEW s \in Savers, ReadSecret(s) PROVE Counted'
  <2>1. Storing' \in SUBSET Storing /\ tokens' = tokens /\ arns' = arns
    BY <1>4 DEF ReadSecret, NoSaver, Storing
  <2>2. QED
    BY <2>1, StoringShrinks
<1>5. ASSUME NEW s \in Savers, Refresh(s) PROVE Counted'
  <2>1. Storing' = Storing \cup {s} /\ tokens' = tokens + 1 /\ arns' = arns
    BY <1>5 DEF Refresh, Next1, Renewed, Storing
  <2>2. QED
    BY <2>1, StoringGrows
<1>6. ASSUME NEW s \in Savers, RefreshRefused(s) PROVE Counted'
  <2>1. Storing' \in SUBSET Storing /\ tokens' = tokens /\ arns' = arns
    BY <1>6 DEF RefreshRefused, NoSaver, Storing
  <2>2. QED
    BY <2>1, StoringShrinks
<1>7. ASSUME NEW s \in Savers, PutSecret(s) PROVE Counted'
  <2>1. Storing' \in SUBSET Storing /\ tokens' = tokens /\ arns' = arns
    BY <1>7 DEF PutSecret, Storing
  <2>2. QED
    BY <2>1, StoringShrinks
<1>8. ASSUME NEW s \in Savers, SecretNotFound(s) PROVE Counted'
  <2>1. Storing' \in SUBSET Storing /\ tokens' = tokens /\ arns' = arns
    BY <1>8 DEF SecretNotFound, Storing
  <2>2. QED
    BY <2>1, StoringShrinks
<1>9. ASSUME NEW s \in Savers, CreateSecret(s) PROVE Counted'
  <2>1. s \in Storing /\ Storing' = Storing \ {s} /\ arns' = arns + 1 /\ tokens' = tokens
    BY <1>9 DEF CreateSecret, Storing
  <2>2. IsFiniteSet(Storing') /\ Cardinality(Storing') + arns + 1 =< tokens
    BY <2>1, ArnsLeft
  <2>3. Cardinality(Storing') \in Nat
    BY <2>2, FS_CardinalityType
  <2>4. QED
    BY <2>1, <2>2, <2>3 DEF Counted
<1>10. ASSUME NEW s \in Savers, CreateRefused(s) PROVE Counted'
  <2>1. Storing' \in SUBSET Storing /\ tokens' = tokens /\ arns' = arns
    BY <1>10 DEF CreateRefused, NoSaver, Storing
  <2>2. QED
    BY <2>1, StoringShrinks
<1>11. ASSUME NEW s \in Savers, UpsertRow(s) PROVE Counted'
  <2>1. Storing' \in SUBSET Storing /\ tokens' = tokens /\ arns' = arns
    BY <1>11 DEF UpsertRow, NoSaver, Storing
  <2>2. QED
    BY <2>1, StoringShrinks
<1>12. ASSUME NEW s \in Savers, SaverDies(s) PROVE Counted'
  <2>1. Storing' \in SUBSET Storing /\ tokens' = tokens /\ arns' = arns
    BY <1>12 DEF SaverDies, NoSaver, ConnectionFails, Storing
  <2>2. QED
    BY <2>1, StoringShrinks
<1>13. ASSUME NEW p \in Purgers, ReadCandidate(p) PROVE Counted'
  <2>1. Storing' \in SUBSET Storing /\ tokens' = tokens /\ arns' = arns
    BY <1>13 DEF ReadCandidate, Storing
  <2>2. QED
    BY <2>1, StoringShrinks
<1>14. ASSUME NEW p \in Purgers, DeleteSecret(p) PROVE Counted'
  <2>1. Storing' \in SUBSET Storing /\ tokens' = tokens /\ arns' = arns
    BY <1>14 DEF DeleteSecret, Storing
  <2>2. QED
    BY <2>1, StoringShrinks
<1>15. ASSUME NEW p \in Purgers, DeleteRow(p) PROVE Counted'
  <2>1. Storing' \in SUBSET Storing /\ tokens' = tokens /\ arns' = arns
    BY <1>15 DEF DeleteRow, NoPurger, StillNamed, Storing
  <2>2. QED
    BY <2>1, StoringShrinks
<1>16. ASSUME NEW p \in Purgers, PurgerDies(p) PROVE Counted'
  <2>1. Storing' \in SUBSET Storing /\ tokens' = tokens /\ arns' = arns
    BY <1>16 DEF PurgerDies, NoPurger, ConnectionFails, Storing
  <2>2. QED
    BY <2>1, StoringShrinks
<1>17. QED
  BY ONLY ConnectionNext, <1>1, <1>2, <1>3, <1>4, <1>5, <1>6, <1>7, <1>8, <1>9, <1>10,
          <1>11, <1>12, <1>13, <1>14, <1>15, <1>16 DEF ConnectionNext

\* A secret that was deleted does not come back under its ARN.
LEMMA NumberedStep ==
  ASSUME ConnectionTypeOK, Numbered, ConnectionNext
  PROVE  Numbered'
<1> USE ConnectionAssumption DEF ConnectionTypeOK, Numbered, Numbers, NoSecret, Nothing
<1>1. CASE TokenExpires
  BY <1>1 DEF TokenExpires
<1>2. ASSUME NEW s \in Savers, Authorize(s) PROVE Numbered'
  BY <1>2 DEF Authorize, Next1
<1>3. ASSUME NEW s \in Savers, ReadConnection(s) PROVE Numbered'
  BY <1>3 DEF ReadConnection
<1>4. ASSUME NEW s \in Savers, ReadSecret(s) PROVE Numbered'
  BY <1>4 DEF ReadSecret, NoSaver
<1>5. ASSUME NEW s \in Savers, Refresh(s) PROVE Numbered'
  BY <1>5 DEF Refresh, Next1, Renewed
<1>6. ASSUME NEW s \in Savers, RefreshRefused(s) PROVE Numbered'
  BY <1>6 DEF RefreshRefused, NoSaver
<1>7. ASSUME NEW s \in Savers, PutSecret(s) PROVE Numbered'
  BY <1>7 DEF PutSecret
<1>8. ASSUME NEW s \in Savers, SecretNotFound(s) PROVE Numbered'
  BY <1>8 DEF SecretNotFound
<1>9. ASSUME NEW s \in Savers, CreateSecret(s) PROVE Numbered'
  BY <1>9 DEF CreateSecret
<1>10. ASSUME NEW s \in Savers, CreateRefused(s) PROVE Numbered'
  BY <1>10 DEF CreateRefused, NoSaver
<1>11. ASSUME NEW s \in Savers, UpsertRow(s) PROVE Numbered'
  BY <1>11 DEF UpsertRow, NoSaver
<1>12. ASSUME NEW s \in Savers, SaverDies(s) PROVE Numbered'
  BY <1>12 DEF SaverDies, NoSaver, ConnectionFails
<1>13. ASSUME NEW p \in Purgers, ReadCandidate(p) PROVE Numbered'
  BY <1>13 DEF ReadCandidate
<1>14. ASSUME NEW p \in Purgers, DeleteSecret(p) PROVE Numbered'
  BY <1>14 DEF DeleteSecret
<1>15. ASSUME NEW p \in Purgers, DeleteRow(p) PROVE Numbered'
  BY <1>15 DEF DeleteRow, NoPurger, StillNamed
<1>16. ASSUME NEW p \in Purgers, PurgerDies(p) PROVE Numbered'
  BY <1>16 DEF PurgerDies, NoPurger, ConnectionFails
<1>17. QED
  BY ONLY ConnectionNext, <1>1, <1>2, <1>3, <1>4, <1>5, <1>6, <1>7, <1>8, <1>9, <1>10,
          <1>11, <1>12, <1>13, <1>14, <1>15, <1>16 DEF ConnectionNext

\* The secret goes only with a purge, which overtakes every save that is about to name it,
\* and a purge that deletes the row finds its own secret gone.
LEMMA NamedStep ==
  ASSUME ConnectionTypeOK, Numbered, Named, ConnectionNext
  PROVE  Named'
<1> USE ConnectionAssumption
    DEF ConnectionTypeOK, Numbered, Named, Saving, Numbers, NoSecret, Nothing
<1>1. CASE TokenExpires
  BY <1>1 DEF TokenExpires
<1>2. ASSUME NEW s \in Savers, Authorize(s) PROVE Named'
  BY <1>2 DEF Authorize, Next1
<1>3. ASSUME NEW s \in Savers, ReadConnection(s) PROVE Named'
  BY <1>3 DEF ReadConnection
<1>4. ASSUME NEW s \in Savers, ReadSecret(s) PROVE Named'
  BY <1>4 DEF ReadSecret, NoSaver
<1>5. ASSUME NEW s \in Savers, Refresh(s) PROVE Named'
  BY <1>5 DEF Refresh, Next1, Renewed
<1>6. ASSUME NEW s \in Savers, RefreshRefused(s) PROVE Named'
  BY <1>6 DEF RefreshRefused, NoSaver
<1>7. ASSUME NEW s \in Savers, PutSecret(s) PROVE Named'
  BY <1>7 DEF PutSecret
<1>8. ASSUME NEW s \in Savers, SecretNotFound(s) PROVE Named'
  BY <1>8 DEF SecretNotFound
<1>9. ASSUME NEW s \in Savers, CreateSecret(s) PROVE Named'
  BY <1>9 DEF CreateSecret
<1>10. ASSUME NEW s \in Savers, CreateRefused(s) PROVE Named'
  BY <1>10 DEF CreateRefused, NoSaver
<1>11. ASSUME NEW s \in Savers, UpsertRow(s) PROVE Named'
  BY <1>11 DEF UpsertRow, NoSaver
<1>12. ASSUME NEW s \in Savers, SaverDies(s) PROVE Named'
  BY <1>12 DEF SaverDies, NoSaver, ConnectionFails
<1>13. ASSUME NEW p \in Purgers, ReadCandidate(p) PROVE Named'
  BY <1>13 DEF ReadCandidate
<1>14. ASSUME NEW p \in Purgers, DeleteSecret(p) PROVE Named'
  BY <1>14 DEF DeleteSecret
<1>15. ASSUME NEW p \in Purgers, DeleteRow(p) PROVE Named'
  BY <1>15 DEF DeleteRow, NoPurger, StillNamed
<1>16. ASSUME NEW p \in Purgers, PurgerDies(p) PROVE Named'
  BY <1>16 DEF PurgerDies, NoPurger, ConnectionFails
<1>17. QED
  BY ONLY ConnectionNext, <1>1, <1>2, <1>3, <1>4, <1>5, <1>6, <1>7, <1>8, <1>9, <1>10,
          <1>11, <1>12, <1>13, <1>14, <1>15, <1>16 DEF ConnectionNext

\* Whoever deletes a secret goes on to the row that names it.
LEMMA DanglingStep ==
  ASSUME ConnectionTypeOK, Numbered, Named, Dangling, ConnectionNext
  PROVE  Dangling'
<1> USE ConnectionAssumption
    DEF ConnectionTypeOK, Numbered, Named, Dangling, Saving, Numbers, NoSecret, Nothing
<1>1. CASE TokenExpires
  BY <1>1 DEF TokenExpires
<1>2. ASSUME NEW s \in Savers, Authorize(s) PROVE Dangling'
  BY <1>2 DEF Authorize, Next1
<1>3. ASSUME NEW s \in Savers, ReadConnection(s) PROVE Dangling'
  BY <1>3 DEF ReadConnection
<1>4. ASSUME NEW s \in Savers, ReadSecret(s) PROVE Dangling'
  BY <1>4 DEF ReadSecret, NoSaver
<1>5. ASSUME NEW s \in Savers, Refresh(s) PROVE Dangling'
  BY <1>5 DEF Refresh, Next1, Renewed
<1>6. ASSUME NEW s \in Savers, RefreshRefused(s) PROVE Dangling'
  BY <1>6 DEF RefreshRefused, NoSaver
<1>7. ASSUME NEW s \in Savers, PutSecret(s) PROVE Dangling'
  BY <1>7 DEF PutSecret
<1>8. ASSUME NEW s \in Savers, SecretNotFound(s) PROVE Dangling'
  BY <1>8 DEF SecretNotFound
<1>9. ASSUME NEW s \in Savers, CreateSecret(s) PROVE Dangling'
  BY <1>9 DEF CreateSecret
<1>10. ASSUME NEW s \in Savers, CreateRefused(s) PROVE Dangling'
  BY <1>10 DEF CreateRefused, NoSaver
<1>11. ASSUME NEW s \in Savers, UpsertRow(s) PROVE Dangling'
  BY <1>11 DEF UpsertRow, NoSaver
<1>12. ASSUME NEW s \in Savers, SaverDies(s) PROVE Dangling'
  BY <1>12 DEF SaverDies, NoSaver, ConnectionFails
<1>13. ASSUME NEW p \in Purgers, ReadCandidate(p) PROVE Dangling'
  BY <1>13 DEF ReadCandidate
<1>14. ASSUME NEW p \in Purgers, DeleteSecret(p) PROVE Dangling'
  BY <1>14 DEF DeleteSecret
<1>15. ASSUME NEW p \in Purgers, DeleteRow(p) PROVE Dangling'
  BY <1>15 DEF DeleteRow, NoPurger, StillNamed
<1>16. ASSUME NEW p \in Purgers, PurgerDies(p) PROVE Dangling'
  BY <1>16 DEF PurgerDies, NoPurger, ConnectionFails
<1>17. QED
  BY ONLY ConnectionNext, <1>1, <1>2, <1>3, <1>4, <1>5, <1>6, <1>7, <1>8, <1>9, <1>10,
          <1>11, <1>12, <1>13, <1>14, <1>15, <1>16 DEF ConnectionNext

\* A token becomes readable only when its save has stored it.
LEMMA PrivateStep ==
  ASSUME ConnectionTypeOK, Private, ConnectionNext
  PROVE  Private'
<1> USE ConnectionAssumption
    DEF ConnectionTypeOK, Private, Storing, Numbers, NoSecret, Nothing
<1>1. CASE TokenExpires
  BY <1>1 DEF TokenExpires
<1>2. ASSUME NEW s \in Savers, Authorize(s) PROVE Private'
  BY <1>2 DEF Authorize, Next1
<1>3. ASSUME NEW s \in Savers, ReadConnection(s) PROVE Private'
  BY <1>3 DEF ReadConnection
<1>4. ASSUME NEW s \in Savers, ReadSecret(s) PROVE Private'
  BY <1>4 DEF ReadSecret, NoSaver
<1>5. ASSUME NEW s \in Savers, Refresh(s) PROVE Private'
  BY <1>5 DEF Refresh, Next1, Renewed
<1>6. ASSUME NEW s \in Savers, RefreshRefused(s) PROVE Private'
  BY <1>6 DEF RefreshRefused, NoSaver
<1>7. ASSUME NEW s \in Savers, PutSecret(s) PROVE Private'
  BY <1>7 DEF PutSecret
<1>8. ASSUME NEW s \in Savers, SecretNotFound(s) PROVE Private'
  BY <1>8 DEF SecretNotFound
<1>9. ASSUME NEW s \in Savers, CreateSecret(s) PROVE Private'
  BY <1>9 DEF CreateSecret
<1>10. ASSUME NEW s \in Savers, CreateRefused(s) PROVE Private'
  BY <1>10 DEF CreateRefused, NoSaver
<1>11. ASSUME NEW s \in Savers, UpsertRow(s) PROVE Private'
  BY <1>11 DEF UpsertRow, NoSaver
<1>12. ASSUME NEW s \in Savers, SaverDies(s) PROVE Private'
  BY <1>12 DEF SaverDies, NoSaver, ConnectionFails
<1>13. ASSUME NEW p \in Purgers, ReadCandidate(p) PROVE Private'
  BY <1>13 DEF ReadCandidate
<1>14. ASSUME NEW p \in Purgers, DeleteSecret(p) PROVE Private'
  BY <1>14 DEF DeleteSecret
<1>15. ASSUME NEW p \in Purgers, DeleteRow(p) PROVE Private'
  BY <1>15 DEF DeleteRow, NoPurger, StillNamed
<1>16. ASSUME NEW p \in Purgers, PurgerDies(p) PROVE Private'
  BY <1>16 DEF PurgerDies, NoPurger, ConnectionFails
<1>17. QED
  BY ONLY ConnectionNext, <1>1, <1>2, <1>3, <1>4, <1>5, <1>6, <1>7, <1>8, <1>9, <1>10,
          <1>11, <1>12, <1>13, <1>14, <1>15, <1>16 DEF ConnectionNext

\* A refresh that uses the stored token up goes on to a save, which stores a valid one.
LEMMA ReplacedStep ==
  ASSUME ConnectionTypeOK, Private, Replaced, ConnectionNext
  PROVE  Replaced'
<1> USE ConnectionAssumption
    DEF ConnectionTypeOK, Private, Replaced, Storing, Numbers, NoSecret, Nothing
<1>1. CASE TokenExpires
  BY <1>1 DEF TokenExpires
<1>2. ASSUME NEW s \in Savers, Authorize(s) PROVE Replaced'
  BY <1>2 DEF Authorize, Next1
<1>3. ASSUME NEW s \in Savers, ReadConnection(s) PROVE Replaced'
  BY <1>3 DEF ReadConnection
<1>4. ASSUME NEW s \in Savers, ReadSecret(s) PROVE Replaced'
  BY <1>4 DEF ReadSecret, NoSaver
<1>5. ASSUME NEW s \in Savers, Refresh(s) PROVE Replaced'
  BY <1>5 DEF Refresh, Next1, Renewed
<1>6. ASSUME NEW s \in Savers, RefreshRefused(s) PROVE Replaced'
  BY <1>6 DEF RefreshRefused, NoSaver
<1>7. ASSUME NEW s \in Savers, PutSecret(s) PROVE Replaced'
  BY <1>7 DEF PutSecret
<1>8. ASSUME NEW s \in Savers, SecretNotFound(s) PROVE Replaced'
  BY <1>8 DEF SecretNotFound
<1>9. ASSUME NEW s \in Savers, CreateSecret(s) PROVE Replaced'
  BY <1>9 DEF CreateSecret
<1>10. ASSUME NEW s \in Savers, CreateRefused(s) PROVE Replaced'
  BY <1>10 DEF CreateRefused, NoSaver
<1>11. ASSUME NEW s \in Savers, UpsertRow(s) PROVE Replaced'
  BY <1>11 DEF UpsertRow, NoSaver
<1>12. ASSUME NEW s \in Savers, SaverDies(s) PROVE Replaced'
  BY <1>12 DEF SaverDies, NoSaver, ConnectionFails
<1>13. ASSUME NEW p \in Purgers, ReadCandidate(p) PROVE Replaced'
  BY <1>13 DEF ReadCandidate
<1>14. ASSUME NEW p \in Purgers, DeleteSecret(p) PROVE Replaced'
  BY <1>14 DEF DeleteSecret
<1>15. ASSUME NEW p \in Purgers, DeleteRow(p) PROVE Replaced'
  BY <1>15 DEF DeleteRow, NoPurger, StillNamed
<1>16. ASSUME NEW p \in Purgers, PurgerDies(p) PROVE Replaced'
  BY <1>16 DEF PurgerDies, NoPurger, ConnectionFails
<1>17. QED
  BY ONLY ConnectionNext, <1>1, <1>2, <1>3, <1>4, <1>5, <1>6, <1>7, <1>8, <1>9, <1>10,
          <1>11, <1>12, <1>13, <1>14, <1>15, <1>16 DEF ConnectionNext

------------------------------------------------------------------------------
\* The invariant holds at first.
LEMMA InitConnection == ConnectionInit => ConnectionInv
<1> SUFFICES ASSUME ConnectionInit PROVE ConnectionInv
  OBVIOUS
<1> USE ConnectionAssumption DEF ConnectionInit, Nothing, Numbers, NoSecret, NoSaver, NoPurger
<1>1. ConnectionTypeOK
  <2>1. NoSaver \in SaverStates /\ NoPurger \in PurgerStates /\ secret \in Secrets
    BY DEF SaverStates, PurgerStates, Secrets
  <2>2. saver \in [Savers -> SaverStates] /\ purger \in [Purgers -> PurgerStates]
    BY <2>1 DEF SaverStates, PurgerStates
  <2>3. /\ expiring \in BOOLEAN /\ rotates \in BOOLEAN
        /\ valid \in SUBSET (1..MaxTokens)
        /\ lost \in SUBSET {"saver", "purger", "overlap"}
    BY ONLY ConnectionInit DEF ConnectionInit
  <2>4. /\ row \in Numbers /\ tokens \in Numbers /\ arns \in Numbers
        /\ purges \in 0..MaxPurges /\ connectionFaults \in 0..MaxConnectionFaults
    BY ONLY ConnectionInit, ConnectionAssumption
       DEF ConnectionInit, ConnectionAssumption, Nothing, Numbers
  <2>5. QED
    BY ONLY <2>1, <2>2, <2>3, <2>4 DEF ConnectionTypeOK, SaverStates, PurgerStates, Secrets
<1>2. Storing = {} /\ Saving = {}
  BY DEF Storing, Saving
<1>3. Counted
  BY <1>2, FS_EmptySet DEF Counted
<1>4. Numbered /\ Named /\ Dangling /\ Private /\ Replaced
  BY <1>2 DEF Numbered, Named, Dangling, Private, Replaced
<1>5. QED
  BY <1>1, <1>3, <1>4 DEF ConnectionInv

\* The parts of the invariant keep each other.
LEMMA NextConnection == ConnectionInv /\ [ConnectionNext]_connectionVars => ConnectionInv'
<1> SUFFICES ASSUME ConnectionInv, [ConnectionNext]_connectionVars PROVE ConnectionInv'
  OBVIOUS
<1>1. CASE ConnectionNext
  BY <1>1, ConnectionTypeStep, CountedStep, NumberedStep, NamedStep, DanglingStep,
     PrivateStep, ReplacedStep DEF ConnectionInv
<1>2. CASE UNCHANGED connectionVars
  <2>1. ConnectionTypeOK' /\ Counted' /\ Numbered'
    BY <1>2 DEF connectionVars, ConnectionInv, ConnectionTypeOK, Counted, Storing, Numbered
  <2>2. Named' /\ Dangling' /\ Private' /\ Replaced'
    BY <1>2 DEF connectionVars, ConnectionInv, Named, Saving, Dangling, Private, Storing,
                Replaced
  <2>3. QED
    BY <2>1, <2>2 DEF ConnectionInv
<1>3. QED
  BY <1>1, <1>2

\* The seven parts together are inductive.
THEOREM ConnectionInductive == ConnectionSpec => []ConnectionInv
<1>1. QED
  BY InitConnection, NextConnection, PTL DEF ConnectionSpec

\* The secret, the row and every execution keep their types; no more ARNs are made than
\* tokens are issued.
THEOREM ConnectionTypeCorrect == ConnectionSpec => []ConnectionTypeOK
<1>1. ConnectionInv => ConnectionTypeOK
  BY DEF ConnectionInv
<1>2. QED
  BY <1>1, ConnectionInductive, PTL

\* However many purges, refreshes and authorizations run at once and wherever a purge is
\* cut short, every secret is named by the row or by a save about to write the row
\* (shared/src/secrets.ts, deletion of the secret before its row).
THEOREM NoOrphanSecretHolds == ConnectionSpec => []NoOrphanSecret
<1>1. ConnectionInv => NoOrphanSecret
  BY DEF ConnectionInv, Named, NoOrphanSecret
<1>2. QED
  BY <1>1, ConnectionInductive, PTL

LEMMA ConnectionSound == ConnectionInv => ConnectionWorks
BY ConnectionAssumption
   DEF ConnectionInv, ConnectionTypeOK, Numbered, Dangling, Replaced, ConnectionWorks,
       Nothing, NoSecret, Numbers

\* When nobody died and no purge overtook a save, an idle connection's row names the
\* secret there is, and the marketplace accepts the refresh token in it: no interleaving
\* of refreshes stores a token that another one has used up (getValidAccessToken).
THEOREM ConnectionWorksHolds == ConnectionSpec => []ConnectionWorks
BY ConnectionSound, ConnectionInductive, PTL

------------------------------------------------------------------------------
(***************************************************************************)
(* TenantOffboarding: for every set of channels and every number of        *)
(* billing changes, approvals and faults. What a pass has still to do      *)
(* covers what is still live (ToDo), unless a publication has put it up    *)
(* out of the pass's sight.                                                *)
(***************************************************************************)

Listings == [status : ListingStatus, live : BOOLEAN]
Passes   == [pc : PassSteps, todo : SUBSET Channels, at : Channels \cup {None},
             allDelisted : BOOLEAN]

------------------------------------------------------------------------------
(***************************************************************************)
(* The invariant                                                           *)
(***************************************************************************)

\* A tenant is marked by the pass that chose it, and never chosen again.
OnePass == offboarded => pass.pc = "idle"

\* The listing whose delisting is to be recorded is still one of the pass, and is down
\* unless a publication under way has put it up again.
AtDelisted ==
  pass.pc = "delisted" =>
    /\ pass.at \in pass.todo
    /\ listing[pass.at].live => pass.at \in gap

\* As long as no delisting failed, what is live is still to be done, or out of sight.
ToDo ==
  pass.pc \in {"next", "delisted"} /\ pass.allDelisted =>
    \A c \in Channels : listing[c].live => c \in gap \cup pass.todo

\* What the pass revokes and marks, it has emptied of the listings it could see.
Emptied ==
  pass.pc \in {"revoke", "mark"} \/ offboarded =>
    \A c \in Channels : listing[c].live => c \in gap

Progress == OnePass /\ AtDelisted /\ ToDo /\ Emptied

OffboardingInv == OffboardingTypeOK /\ Progress

------------------------------------------------------------------------------
\* Every action keeps the types.
LEMMA OffboardingTypeStep ==
  ASSUME OffboardingTypeOK, AtDelisted, OffboardingNext
  PROVE  OffboardingTypeOK'
<1> USE OffboardingAssumption DEF OffboardingTypeOK, AtDelisted, PaidStatus, ListingStatus,
       PassSteps, None
<1>1. ASSUME NEW s \in PaidStatus, Mark(s) PROVE OffboardingTypeOK'
  BY <1>1 DEF Mark
<1>2. CASE ChooseTenant
  BY <1>2 DEF ChooseTenant, Pass, Candidate
<1>3. CASE ReadListings
  BY <1>3 DEF ReadListings, Live, StillPublished
<1>4. CASE RecordDelisted
  BY <1>4 DEF RecordDelisted, Done
<1>5. CASE EndListings
  BY <1>5 DEF EndListings, NoPass
<1>6. CASE MarkOffboarded
  BY <1>6 DEF MarkOffboarded, NoPass
<1>7. CASE PassDies
  BY <1>7 DEF PassDies, NoPass, PassFault
<1>8. ASSUME NEW c \in Channels, Disconnect(c) PROVE OffboardingTypeOK'
  BY <1>8 DEF Disconnect
<1>9. ASSUME NEW c \in Channels, Connect(c) PROVE OffboardingTypeOK'
  BY <1>9 DEF Connect
<1>10. ASSUME NEW c \in Channels, Approve(c) PROVE OffboardingTypeOK'
  BY <1>10 DEF Approve
<1>11. ASSUME NEW c \in Channels, TakeToken(c) PROVE OffboardingTypeOK'
  BY <1>11 DEF TakeToken
<1>12. ASSUME NEW c \in Channels, CallPublish(c) PROVE OffboardingTypeOK'
  BY <1>12 DEF CallPublish
<1>13. ASSUME NEW c \in Channels, RecordPublished(c) PROVE OffboardingTypeOK'
  BY <1>13 DEF RecordPublished
<1>14. ASSUME NEW c \in Channels, PublishFails(c) PROVE OffboardingTypeOK'
  BY <1>14 DEF PublishFails
<1>15. ASSUME NEW c \in Channels, UpdateFails(c) PROVE OffboardingTypeOK'
  BY <1>15 DEF UpdateFails
<1>16. ASSUME NEW c \in Channels, DelistFails(c) PROVE OffboardingTypeOK'
  <2>1. pass' \in Passes
    BY <1>16 DEF DelistFails, Done, Passes
  <2>2. passFaults' \in 0..MaxPassFaults
    BY <1>16 DEF DelistFails, PassFault
  <2>3. UNCHANGED <<status, offboarded, listing, connected, publishing, marks, approvals, gap>>
    BY <1>16 DEF DelistFails
  <2>4. QED
    BY <2>1, <2>2, <2>3 DEF Passes
<1>17. ASSUME NEW c \in Channels, SkipUnconnected(c) PROVE OffboardingTypeOK'
  BY <1>17 DEF SkipUnconnected, Done, Live
<1>18. ASSUME NEW c \in Channels, Delist(c) PROVE OffboardingTypeOK'
  BY <1>18 DEF Delist
<1>19. ASSUME NEW c \in Channels, Revoke(c) PROVE OffboardingTypeOK'
  BY <1>19 DEF Revoke
<1>20. QED
  BY ONLY OffboardingNext, <1>1, <1>2, <1>3, <1>4, <1>5, <1>6, <1>7, <1>8, <1>9, <1>10, <1>11,
          <1>12, <1>13, <1>14, <1>15, <1>16, <1>17, <1>18, <1>19
     DEF OffboardingNext, PassStep, PublishStep

\* The pass takes listings off its list one by one, and a failure is remembered.
LEMMA PassStepKeeps ==
  ASSUME OffboardingTypeOK, Progress, OffboardingNext
  PROVE  Progress'
<1> USE OffboardingAssumption DEF OffboardingTypeOK, Progress, OnePass, AtDelisted, ToDo,
Emptied,
       PaidStatus, ListingStatus, PassSteps
<1>1. ASSUME NEW s \in PaidStatus, Mark(s) PROVE Progress'
  BY <1>1 DEF Mark
<1>2. CASE ChooseTenant
  BY <1>2 DEF ChooseTenant, Pass, Candidate
<1>3. CASE ReadListings
  BY <1>3 DEF ReadListings, Live, StillPublished
<1>4. CASE RecordDelisted
  BY <1>4 DEF RecordDelisted, Done
<1>5. CASE EndListings
  BY <1>5 DEF EndListings, NoPass
<1>6. CASE MarkOffboarded
  BY <1>6 DEF MarkOffboarded, NoPass
<1>7. CASE PassDies
  BY <1>7 DEF PassDies, NoPass, PassFault
<1>8. ASSUME NEW c \in Channels, Disconnect(c) PROVE Progress'
  BY <1>8 DEF Disconnect
<1>9. ASSUME NEW c \in Channels, Connect(c) PROVE Progress'
  BY <1>9 DEF Connect
<1>10. ASSUME NEW c \in Channels, Approve(c) PROVE Progress'
  BY <1>10 DEF Approve
<1>11. ASSUME NEW c \in Channels, TakeToken(c) PROVE Progress'
  BY <1>11 DEF TakeToken
<1>12. ASSUME NEW c \in Channels, CallPublish(c) PROVE Progress'
  BY <1>12 DEF CallPublish
<1>13. ASSUME NEW c \in Channels, RecordPublished(c) PROVE Progress'
  BY <1>13 DEF RecordPublished
<1>14. ASSUME NEW c \in Channels, PublishFails(c) PROVE Progress'
  BY <1>14 DEF PublishFails
<1>15. ASSUME NEW c \in Channels, UpdateFails(c) PROVE Progress'
  BY <1>15 DEF UpdateFails
<1>16. ASSUME NEW c \in Channels, DelistFails(c) PROVE Progress'
  BY <1>16 DEF DelistFails, Done, PassFault
<1>17. ASSUME NEW c \in Channels, SkipUnconnected(c) PROVE Progress'
  BY <1>17 DEF SkipUnconnected, Done, Live
<1>18. ASSUME NEW c \in Channels, Delist(c) PROVE Progress'
  BY <1>18 DEF Delist
<1>19. ASSUME NEW c \in Channels, Revoke(c) PROVE Progress'
  BY <1>19 DEF Revoke
<1>20. QED
  BY ONLY OffboardingNext, <1>1, <1>2, <1>3, <1>4, <1>5, <1>6, <1>7, <1>8, <1>9, <1>10, <1>11,
          <1>12, <1>13, <1>14, <1>15, <1>16, <1>17, <1>18, <1>19
     DEF OffboardingNext, PassStep, PublishStep

\* The invariant holds at first.
LEMMA InitOffboarding == OffboardingInit => OffboardingInv
<1> SUFFICES ASSUME OffboardingInit PROVE OffboardingInv
  OBVIOUS
<1>1. OffboardingTypeOK
  <2>1. listing \in [Channels -> Listings] /\ pass \in Passes
    BY DEF OffboardingInit, Listings, Passes, NoPass, ListingStatus, PassSteps
  <2>2. publishing \in [Channels -> {"none", "queued", "running", "called"}]
    BY DEF OffboardingInit
  <2>3. marks \in 0..MaxMarks /\ approvals \in 0..MaxApprovals /\ passFaults \in 0..MaxPassFaults
    BY OffboardingAssumption DEF OffboardingInit
  <2>4. /\ status \in PaidStatus /\ offboarded \in BOOLEAN
        /\ connected \in SUBSET Channels /\ gap \in SUBSET Channels
    BY DEF OffboardingInit, PaidStatus
  <2>5. QED
    BY <2>1, <2>2, <2>3, <2>4 DEF OffboardingTypeOK, Listings, Passes
<1>2. Progress
  BY DEF OffboardingInit, NoPass, Progress, OnePass, AtDelisted, ToDo, Emptied
<1>3. QED
  BY <1>1, <1>2 DEF OffboardingInv

\* The parts of the invariant are kept.
LEMMA NextOffboarding ==
  OffboardingInv /\ [OffboardingNext]_offboardingVars => OffboardingInv'
<1> SUFFICES ASSUME OffboardingInv, [OffboardingNext]_offboardingVars PROVE OffboardingInv'
  OBVIOUS
<1>1. CASE OffboardingNext
  BY <1>1, OffboardingTypeStep, PassStepKeeps DEF OffboardingInv, Progress
<1>2. CASE UNCHANGED offboardingVars
  BY <1>2 DEF offboardingVars, OffboardingInv, OffboardingTypeOK, Progress, OnePass,
     AtDelisted, ToDo, Emptied
<1>3. QED
  BY <1>1, <1>2

\* OffboardingInductive: a pass goes on to the connections only where no delisting failed, with
\* nothing left to do (tenant-offboarding's handler.ts).
THEOREM OffboardingInductive == OffboardingSpec => []OffboardingInv
<1>1. QED
  BY InitOffboarding, NextOffboarding, PTL DEF OffboardingSpec

\* The tenant row, the listings, the publications and the pass keep their types.
THEOREM OffboardingTypeCorrect == OffboardingSpec => []OffboardingTypeOK
<1>1. OffboardingInv => OffboardingTypeOK
  BY DEF OffboardingInv
<1>2. QED
  BY <1>1, OffboardingInductive, PTL

\* However often a pass fails, dies or is overtaken by billing events, no tenant's tokens
\* are deleted while a listing it could see is live (tenant-offboarding's handler.ts).
THEOREM NothingAbandonedHolds == OffboardingSpec => []NothingAbandoned
<1>1. OffboardingInv => NothingAbandoned
  BY DEF OffboardingInv, Progress, Emptied, NothingAbandoned, Live
<1>2. QED
  BY <1>1, OffboardingInductive, PTL

------------------------------------------------------------------------------
(***************************************************************************)
(* SalesPolling: for every schedule of channels, lookback, breaker         *)
(* threshold and window. A sale that is placed and not sent is as old as   *)
(* the polls its channel missed in a row (Overdue); so when the lookback   *)
(* passes it by, all of them were missed.                                  *)
(***************************************************************************)

Schedules == {SubSeq(Order, i, Len(Order)) : i \in 1..Len(Order) + 1}
Windows   == [0..Window - 1 -> 0..Threshold]

\* PollingTypeOK by the names of its sets.
PollingTypes ==
  /\ mood \in [Polled -> Moods]
  /\ moods \in 0..MaxMoods
  /\ errors \in [Polled -> Windows]
  /\ cleared \in SUBSET Polled
  /\ toPoll \in Schedules
  /\ age \in [Sold -> 0..Gone]
  /\ sent \subseteq placed
  /\ placed \subseteq Sold
  /\ claimed \in BOOLEAN
  /\ notices \in 0..MaxReceives
  /\ blocked \in [Polled -> 0..Lookback]
  /\ pollFaults \in 0..MaxPollFaults

Still(c) == \E i \in 1..Len(toPoll) : toPoll[i] = c

\* A sale that is not placed has no age.
Unplaced == \A s \in Sold \ placed : age[s] = 0

\* An unsent sale is as old as the row of polls that its channel missed, not counting the
\* poll still to come in this minute.
Overdue ==
  \A s \in placed \ sent :
    age[s] =< Lookback =>
      \/ age[s] =< blocked[s[1]]
      \/ Still(s[1]) /\ age[s] =< blocked[s[1]] + 1

PollingInv == PollingTypes /\ Unplaced /\ Overdue

------------------------------------------------------------------------------
\* The types by their names are the types.
LEMMA PollingTypesNamed == PollingTypes <=> PollingTypeOK
  BY DEF PollingTypes, PollingTypeOK, Schedules, Windows

\* What an invocation still has to poll is the end of the schedule.
LEMMA ScheduleEnds ==
  /\ Order \in Schedules
  /\ <<>> \in Schedules
  /\ \A q \in Schedules : q \in Seq(Polled) /\ (q # <<>> => Tail(q) \in Schedules)
<1>0. Order \in Seq(Polled) /\ Len(Order) \in Nat
  BY PollingAssumption DEF PollingAssumption
<1>1. Order \in Schedules
  <2>1. 1 \in 1..Len(Order) + 1
    BY <1>0
  <2>2. SubSeq(Order, 1, Len(Order)) = Order
    BY <1>0, SubSeqFull
  <2>3. QED
    BY <2>1, <2>2 DEF Schedules
<1>2. <<>> \in Schedules
  <2>1. Len(Order) + 1 \in 1..Len(Order) + 1
    BY <1>0
  <2>2. SubSeq(Order, Len(Order) + 1, Len(Order)) = <<>>
    BY <1>0, SubSeqEmpty
  <2>3. QED
    BY <2>1, <2>2 DEF Schedules
<1>3. ASSUME NEW i \in 1..Len(Order) + 1
      PROVE  /\ SubSeq(Order, i, Len(Order)) \in Seq(Polled)
             /\ SubSeq(Order, i, Len(Order)) # <<>> =>
                  Tail(SubSeq(Order, i, Len(Order))) \in Schedules
  <2>1. \A j \in i..Len(Order) : Order[j] \in Polled
    BY <1>0
  <2>2. SubSeq(Order, i, Len(Order)) \in Seq(Polled)
    BY <1>0, <2>1, SubSeqProperties
  <2>3. CASE i = Len(Order) + 1
    BY <1>0, <2>2, <2>3, SubSeqEmpty
  <2>4. CASE i \in 1..Len(Order)
    <3>1. Tail(SubSeq(Order, i, Len(Order))) = SubSeq(Order, i + 1, Len(Order))
      BY <1>0, <2>4, HeadTailOfSubSeq
    <3>2. i + 1 \in 1..Len(Order) + 1
      BY <1>0, <2>4
    <3>3. QED
      BY ONLY <2>2, <3>1, <3>2 DEF Schedules
  <2>5. QED
    BY ONLY <1>0, <2>3, <2>4
<1>4. QED
  BY <1>1, <1>2, <1>3 DEF Schedules

\* After the first poll of the rest, the others still come.
LEMMA RestStill ==
  ASSUME toPoll \in Seq(Polled), toPoll # <<>>, toPoll' = Tail(toPoll),
         NEW c, Still(c), c # Head(toPoll)
  PROVE  Still(c)'
<1>1. PICK i \in 1..Len(toPoll) : toPoll[i] = c
  BY DEF Still
<1>2. i # 1 /\ i - 1 \in 1..Len(toPoll') /\ toPoll'[i - 1] = c
  BY <1>1
<1>3. QED
  BY <1>2 DEF Still

\* A missed poll is counted up to the lookback.
LEMMA BlockedType ==
  ASSUME PollingTypes, NEW c \in Polled
  PROVE  Blocked(c) \in [Polled -> 0..Lookback] /\ Blocked(c)[c] \in 0..Lookback
  BY ONLY PollingTypes, PollingAssumption DEF PollingTypes, PollingAssumption, Blocked

\* An error is counted up to the threshold, in the present minute.
LEMMA RecordType ==
  ASSUME PollingTypes, NEW c \in Polled, NEW m
  PROVE  Record(c, m) \in [Polled -> Windows]
<1>1. Threshold \in Nat \ {0} /\ 0 \in 0..Window - 1
  BY PollingAssumption DEF PollingAssumption
<1>2. Weight(m) \in Nat
  BY <1>1 DEF Weight
<1>3. errors[c] \in Windows
  BY DEF PollingTypes
<1>4. AtMostThreshold(errors[c][0] + Weight(m)) \in 0..Threshold
  <2>1. errors[c][0] \in 0..Threshold
    BY ONLY <1>1, <1>3 DEF Windows
  <2>2. errors[c][0] + Weight(m) \in Nat
    BY ONLY <1>1, <1>2, <2>1
  <2>3. QED
    BY ONLY <1>1, <2>2 DEF AtMostThreshold
<1>5. [errors[c] EXCEPT ![0] = AtMostThreshold(@ + Weight(m))] \in Windows
  BY ONLY <1>3, <1>4 DEF Windows
<1>6. Record(c,
m) = [errors EXCEPT ![c] = [errors[c] EXCEPT ![0] = AtMostThreshold(@ + Weight(m))]]
  BY ONLY PollingTypes DEF Record, PollingTypes
<1>7. QED
  BY ONLY PollingTypes, <1>5, <1>6 DEF PollingTypes

\* A fault is one of the bounded number.
LEMMA FaultType ==
  ASSUME PollingTypes, Fault
  PROVE  pollFaults' \in 0..MaxPollFaults
  BY ONLY PollingTypes, PollingAssumption, Fault DEF PollingTypes, PollingAssumption, Fault

\* What leaves polls and ages alone, and may send.
LEMMA UntouchedOverdue ==
  ASSUME Overdue, UNCHANGED <<toPoll, blocked, age, placed>>,
         sent \subseteq sent'
  PROVE  Overdue'
  BY DEF Overdue, Still

\* A poll that went well leaves no sale of its channel behind within the lookback.
LEMMA SentOverdue ==
  ASSUME PollingTypes, Overdue, toPoll # <<>>, toPoll' = Tail(toPoll),
         UNCHANGED <<age, placed>>, sent \subseteq sent',
         NEW c, c = Head(toPoll),
         \A d \in Polled \ {c} : blocked'[d] = blocked[d],
         \A s \in placed \ sent' : s[1] = c => age[s] > Lookback
  PROVE  Overdue'
<1> SUFFICES ASSUME NEW s \in placed \ sent', age[s] =< Lookback
             PROVE  age[s] =< blocked'[s[1]] \/ (Still(s[1])' /\ age[s] =< blocked'[s[1]] + 1)
  BY DEF Overdue
<1>1. /\ s[1] \in Polled /\ age[s] \in Nat /\ Lookback \in Nat
      /\ blocked[s[1]] \in 0..Lookback /\ toPoll \in Seq(Polled)
  BY ONLY PollingTypes, PollingAssumption, ScheduleEnds DEF PollingTypes, PollingAssumption,
          Gone
<1>2. s[1] # c
  BY <1>1
<1>3. Still(s[1]) => Still(s[1])'
  BY <1>1, <1>2, RestStill
<1>4. age[s] =< blocked[s[1]] \/ (Still(s[1]) /\ age[s] =< blocked[s[1]] + 1)
  BY DEF Overdue
<1>5. blocked'[s[1]] = blocked[s[1]]
  BY <1>1, <1>2
<1>6. QED
  BY ONLY <1>1, <1>3, <1>4, <1>5

\* A poll that did not go well counts against its channel.
LEMMA PolledOverdue ==
  ASSUME PollingTypes, Overdue, toPoll # <<>>, toPoll' = Tail(toPoll),
         UNCHANGED <<age, placed>>, sent \subseteq sent',
         NEW c \in Polled, c = Head(toPoll), blocked' = Blocked(c)
  PROVE  Overdue'
<1> SUFFICES ASSUME NEW s \in placed \ sent', age[s] =< Lookback
             PROVE  age[s] =< blocked'[s[1]] \/ (Still(s[1])' /\ age[s] =< blocked'[s[1]] + 1)
  BY DEF Overdue
<1>1. /\ s[1] \in Polled /\ age[s] \in Nat /\ Lookback \in Nat
      /\ blocked[s[1]] \in 0..Lookback /\ toPoll \in Seq(Polled)
  BY ONLY PollingTypes, PollingAssumption, ScheduleEnds DEF PollingTypes, PollingAssumption,
          Gone
<1>2. age[s] =< blocked[s[1]] \/ (Still(s[1]) /\ age[s] =< blocked[s[1]] + 1)
  BY DEF Overdue
<1>3. CASE s[1] = c
  <2>1. blocked'[s[1]] = IF blocked[s[1]] < Lookback THEN blocked[s[1]] + 1 ELSE blocked[s[1]]
    BY <1>3 DEF Blocked, PollingTypes
  <2>2. QED
    BY ONLY <1>1, <1>2, <2>1, age[s] =< Lookback
<1>4. CASE s[1] # c
  <2>1. Still(s[1]) => Still(s[1])'
    BY <1>1, <1>4, RestStill
  <2>2. blocked'[s[1]] = blocked[s[1]]
    BY <1>1, <1>4 DEF Blocked, PollingTypes
  <2>3. QED
    BY ONLY <1>1, <1>2, <2>1, <2>2
<1>5. QED
  BY <1>3, <1>4

\* Every action keeps the types.
LEMMA PollingTypeStep ==
  ASSUME PollingTypes, PollingNext
  PROVE  PollingTypes'
<1>0. PollingTypes
  OBVIOUS
<1>1. ASSUME NEW c \in Polled, SkipIsolated(c) PROVE PollingTypes'
  <2>1. toPoll' \in Schedules /\ errors' = errors
    BY ONLY <1>1, <1>0, ScheduleEnds DEF SkipIsolated, Skipped, PollingTypes
  <2>2. blocked' \in [Polled -> 0..Lookback]
    BY ONLY <1>1, <1>0, BlockedType DEF SkipIsolated, PollingTypes
  <2>3. QED
    BY ONLY <1>1, <1>0, <2>1, <2>2 DEF SkipIsolated, PollingTypes
<1>2. ASSUME NEW c \in Polled, Poll(c) PROVE PollingTypes'
  <2>1. toPoll' \in Schedules /\ sent' \subseteq placed
    BY ONLY <1>2, <1>0, ScheduleEnds DEF Poll, Visible, PollingTypes
  <2>2. blocked' \in [Polled -> 0..Lookback]
    BY ONLY <1>2, <1>0, PollingAssumption DEF Poll, PollingTypes, PollingAssumption
  <2>3. QED
    BY ONLY <1>2, <1>0, <2>1, <2>2 DEF Poll, PollingTypes
<1>3. ASSUME NEW c \in Polled, PollFails(c) PROVE PollingTypes'
  <2>1. toPoll' \in Schedules
    BY ONLY <1>3, <1>0, ScheduleEnds DEF PollFails, AfterFailure, PollingTypes
  <2>2. blocked' \in [Polled -> 0..Lookback]
    BY ONLY <1>3, <1>0, BlockedType DEF PollFails, PollingTypes
  <2>3. errors' \in [Polled -> Windows] /\ cleared' \in SUBSET Polled
    BY ONLY <1>3, <1>0, RecordType DEF PollFails, PollingTypes
  <2>4. QED
    BY ONLY <1>3, <1>0, <2>1, <2>2, <2>3 DEF PollFails, PollingTypes
<1>4. ASSUME NEW c \in Polled, SendFails(c) PROVE PollingTypes'
  <2>1. toPoll' \in Schedules /\ cleared' \in SUBSET Polled
    BY ONLY <1>4, <1>0, ScheduleEnds DEF SendFails, AfterFailure, PollingTypes
  <2>2. blocked' \in [Polled -> 0..Lookback]
    BY ONLY <1>4, <1>0, BlockedType DEF SendFails, PollingTypes
  <2>3. sent' \subseteq placed
    BY ONLY <1>4, <1>0 DEF SendFails, Visible, PollingTypes
  <2>4. pollFaults' \in 0..MaxPollFaults
    BY ONLY <1>4, <1>0, FaultType DEF SendFails
  <2>5. QED
    BY ONLY <1>4, <1>0, <2>1, <2>2, <2>3, <2>4 DEF SendFails, PollingTypes
<1>5. ASSUME NEW c \in Polled, WorkerFails(c) PROVE PollingTypes'
  <2>1. errors' \in [Polled -> Windows] /\ cleared' \in SUBSET Polled
    BY ONLY <1>5, <1>0, RecordType DEF WorkerFails, PollingTypes
  <2>2. QED
    BY ONLY <1>5, <1>0, <2>1 DEF WorkerFails, PollingTypes
<1>6. ASSUME NEW c \in Polled, ClearIsolation(c) PROVE PollingTypes'
  BY ONLY <1>6, <1>0 DEF ClearIsolation, PollingTypes
<1>7. ASSUME NEW c \in Polled, NEW m \in Moods, MoodChanges(c, m) PROVE PollingTypes'
  <2>1. moods' \in 0..MaxMoods
    BY ONLY <1>7, <1>0, PollingAssumption DEF MoodChanges, PollingTypes, PollingAssumption
  <2>2. QED
    BY ONLY <1>7, <1>0, <2>1 DEF MoodChanges, PollingTypes
<1>8. CASE InvocationDies
  <2>1. toPoll' \in Schedules /\ pollFaults' \in 0..MaxPollFaults
    BY ONLY <1>8, <1>0, ScheduleEnds, FaultType DEF InvocationDies
  <2>2. \A c \in Polled : Blocked(c)[c] \in 0..Lookback
    BY ONLY <1>0, BlockedType
  <2>3. blocked' \in [Polled -> 0..Lookback]
    BY ONLY <1>8, <1>0, <2>2 DEF InvocationDies, PollingTypes
  <2>4. QED
    BY ONLY <1>8, <1>0, <2>1, <2>3 DEF InvocationDies, PollingTypes
<1>9. CASE Minute
  <2>1. toPoll' \in Schedules
    BY ONLY <1>9, ScheduleEnds DEF Minute
  <2>2. age' \in [Sold -> 0..Gone]
    BY ONLY <1>9, <1>0, PollingAssumption DEF Minute, PollingTypes, PollingAssumption, Gone
  <2>3. errors' \in [Polled -> Windows]
    <3>1. \A c \in Polled, a \in 0..Window - 1 :
            (IF a = 0 THEN 0 ELSE errors[c][a - 1]) \in 0..Threshold
      BY ONLY <1>0, PollingAssumption DEF PollingTypes, PollingAssumption, Windows
    <3>2. QED
      BY ONLY <1>9, <3>1 DEF Minute, Windows
  <2>4. cleared' \in SUBSET Polled /\ claimed' \in BOOLEAN
    BY ONLY <1>9, <1>0 DEF Minute, PollingTypes
  <2>5. QED
    BY ONLY <1>9, <1>0, <2>1, <2>2, <2>3, <2>4 DEF Minute, PollingTypes
<1>10. ASSUME NEW s \in Sold, Place(s) PROVE PollingTypes'
  BY ONLY <1>10, <1>0 DEF Place, PollingTypes
<1>11. CASE Notify
  <2>1. notices' \in 0..MaxReceives /\ pollFaults' \in 0..MaxPollFaults
    BY ONLY <1>11, <1>0, FaultType, PollingAssumption
       DEF Notify, PollingTypes, PollingAssumption
  <2>2. claimed' \in BOOLEAN
    BY ONLY <1>11 DEF Notify
  <2>3. QED
    BY ONLY <1>11, <1>0, <2>1, <2>2 DEF Notify, PollingTypes
<1>12. CASE Dispatch
  <2>1. sent' \subseteq placed
    BY ONLY <1>12, <1>0 DEF Dispatch, Visible, PollingTypes
  <2>2. notices' \in 0..MaxReceives
    BY ONLY <1>12, PollingAssumption DEF Dispatch, PollingAssumption
  <2>3. QED
    BY ONLY <1>12, <1>0, <2>1, <2>2 DEF Dispatch, PollingTypes
<1>13. CASE DispatchFails
  <2>1. notices' \in 0..MaxReceives
    BY ONLY <1>13, <1>0, PollingAssumption
       DEF DispatchFails, ReceivedAgain, PollingTypes, PollingAssumption
  <2>2. QED
    BY ONLY <1>13, <1>0, <2>1 DEF DispatchFails, PollingTypes
<1>14. QED
  BY ONLY PollingNext, <1>1, <1>2, <1>3, <1>4, <1>5, <1>6, <1>7, <1>8, <1>9, <1>10, <1>11,
          <1>12, <1>13 DEF PollingNext

\* A sale ages once it is placed.
LEMMA UnplacedStep ==
  ASSUME PollingTypes, Unplaced, PollingNext
  PROVE  Unplaced'
<1>1. ASSUME NEW c \in Polled, SkipIsolated(c) PROVE Unplaced'
  BY ONLY <1>1, Unplaced DEF SkipIsolated, Unplaced
<1>2. ASSUME NEW c \in Polled, Poll(c) PROVE Unplaced'
  BY ONLY <1>2, Unplaced DEF Poll, Unplaced
<1>3. ASSUME NEW c \in Polled, PollFails(c) PROVE Unplaced'
  BY ONLY <1>3, Unplaced DEF PollFails, Unplaced
<1>4. ASSUME NEW c \in Polled, SendFails(c) PROVE Unplaced'
  BY ONLY <1>4, Unplaced DEF SendFails, Unplaced
<1>5. ASSUME NEW c \in Polled, WorkerFails(c) PROVE Unplaced'
  BY ONLY <1>5, Unplaced DEF WorkerFails, Unplaced
<1>6. ASSUME NEW c \in Polled, ClearIsolation(c) PROVE Unplaced'
  BY ONLY <1>6, Unplaced DEF ClearIsolation, Unplaced
<1>7. ASSUME NEW c \in Polled, NEW m \in Moods, MoodChanges(c, m) PROVE Unplaced'
  BY ONLY <1>7, Unplaced DEF MoodChanges, Unplaced
<1>8. CASE InvocationDies
  BY ONLY <1>8, Unplaced DEF InvocationDies, Unplaced
<1>9. CASE Minute
  BY ONLY <1>9, Unplaced, PollingTypes DEF Minute, Unplaced, PollingTypes
<1>10. ASSUME NEW s \in Sold, Place(s) PROVE Unplaced'
  BY ONLY <1>10, Unplaced DEF Place, Unplaced
<1>11. CASE Notify
  BY ONLY <1>11, Unplaced DEF Notify, Unplaced
<1>12. CASE Dispatch
  BY ONLY <1>12, Unplaced DEF Dispatch, Unplaced
<1>13. CASE DispatchFails
  BY ONLY <1>13, Unplaced DEF DispatchFails, Unplaced
<1>14. QED
  BY ONLY PollingNext, <1>1, <1>2, <1>3, <1>4, <1>5, <1>6, <1>7, <1>8, <1>9, <1>10, <1>11,
          <1>12, <1>13 DEF PollingNext

\* A poll of its channel that reaches back to a sale sends it; one that does not happen is
\* counted.
LEMMA OverdueStep ==
  ASSUME PollingTypes, Unplaced, Overdue, PollingNext
  PROVE  Overdue'
<1>1. ASSUME NEW c \in Polled, SkipIsolated(c) PROVE Overdue'
  BY ONLY <1>1, PolledOverdue, Overdue, PollingTypes DEF SkipIsolated
<1>2. ASSUME NEW c \in Polled, Poll(c) PROVE Overdue'
  <2>1. \A s \in placed \ sent' : s[1] = c => age[s] > Lookback
    BY ONLY <1>2, PollingTypes, PollingAssumption
       DEF Poll, Visible, PollingTypes, PollingAssumption, Gone
  <2>2. \A d \in Polled \ {c} : blocked'[d] = blocked[d]
    BY ONLY <1>2, PollingTypes DEF Poll, PollingTypes
  <2>3. sent \subseteq sent'
    BY ONLY <1>2 DEF Poll
  <2>4. QED
    BY ONLY <1>2, <2>1, <2>2, <2>3, SentOverdue, Overdue, PollingTypes DEF Poll
<1>3. ASSUME NEW c \in Polled, PollFails(c) PROVE Overdue'
  BY ONLY <1>3, PolledOverdue, Overdue, PollingTypes DEF PollFails, AfterFailure
<1>4. ASSUME NEW c \in Polled, SendFails(c) PROVE Overdue'
  <2>1. sent \subseteq sent'
    BY ONLY <1>4 DEF SendFails
  <2>2. QED
    BY ONLY <1>4, <2>1, PolledOverdue, Overdue, PollingTypes DEF SendFails, AfterFailure
<1>5. ASSUME NEW c \in Polled, WorkerFails(c) PROVE Overdue'
  BY ONLY <1>5, UntouchedOverdue, Overdue, PollingTypes DEF WorkerFails
<1>6. ASSUME NEW c \in Polled, ClearIsolation(c) PROVE Overdue'
  BY ONLY <1>6, UntouchedOverdue, Overdue, PollingTypes DEF ClearIsolation
<1>7. ASSUME NEW c \in Polled, NEW m \in Moods, MoodChanges(c, m) PROVE Overdue'
  BY ONLY <1>7, UntouchedOverdue, Overdue, PollingTypes DEF MoodChanges
<1>8. CASE InvocationDies
  <2>1. ASSUME NEW s \in placed \ sent, age[s] =< Lookback
        PROVE  age[s] =< blocked'[s[1]]
    <3>1. /\ s[1] \in Polled /\ age[s] \in Nat /\ Lookback \in Nat
          /\ blocked[s[1]] \in 0..Lookback
      BY ONLY s \in placed \ sent, PollingTypes, PollingAssumption
         DEF PollingTypes, PollingAssumption, Gone
    <3>2. blocked'[s[1]] = IF Still(s[1]) THEN Blocked(s[1])[s[1]] ELSE blocked[s[1]]
      BY ONLY <1>8, <3>1 DEF InvocationDies, Still
    <3>3. Blocked(s[1])[s[1]] = IF blocked[s[1]] < Lookback THEN blocked[s[1]] + 1
                                ELSE blocked[s[1]]
      BY ONLY <3>1, PollingTypes DEF Blocked, PollingTypes
    <3>4. age[s] =< blocked[s[1]] \/ (Still(s[1]) /\ age[s] =< blocked[s[1]] + 1)
      BY ONLY <2>1, Overdue DEF Overdue
    <3>5. QED
      BY ONLY <2>1, <3>1, <3>2, <3>3, <3>4
  <2>2. UNCHANGED <<age, placed, sent>>
    BY ONLY <1>8 DEF InvocationDies
  <2>3. QED
    BY ONLY <2>1, <2>2 DEF Overdue
<1>9. CASE Minute
  <2>1. ASSUME NEW s \in placed \ sent, age'[s] =< Lookback
        PROVE  Still(s[1])' /\ age'[s] =< blocked[s[1]] + 1
    <3>1. /\ s[1] \in Polled /\ age[s] \in Nat /\ Lookback \in Nat
          /\ blocked[s[1]] \in 0..Lookback
      BY ONLY s \in placed \ sent, PollingTypes, PollingAssumption
         DEF PollingTypes, PollingAssumption, Gone
    <3>2. age'[s] =< age[s] + 1 /\ age[s] =< age'[s] /\ age'[s] \in Nat
      BY ONLY <1>9, <3>1, s \in placed \ sent, PollingTypes DEF Minute, PollingTypes
    <3>3. Still(s[1])'
      BY ONLY <1>9, <3>1 DEF Minute, Still, Polled
    <3>4. ~Still(s[1])
      BY ONLY <1>9 DEF Minute, Still
    <3>5. age[s] =< Lookback
      BY ONLY <2>1, <3>1, <3>2
    <3>6. age[s] =< blocked[s[1]]
      BY ONLY Overdue, s \in placed \ sent, <3>4, <3>5 DEF Overdue
    <3>7. QED
      BY ONLY <3>1, <3>2, <3>3, <3>6
  <2>2. UNCHANGED <<blocked, placed, sent>>
    BY ONLY <1>9 DEF Minute
  <2>3. QED
    BY ONLY <2>1, <2>2 DEF Overdue
<1>10. ASSUME NEW s \in Sold, Place(s) PROVE Overdue'
  <2>1. ASSUME NEW t \in placed' \ sent', age'[t] =< Lookback
        PROVE  age'[t] =< blocked'[t[1]] \/ (Still(t[1])' /\ age'[t] =< blocked'[t[1]] + 1)
    <3>1. CASE t = s
      <4>1. age'[t] = 0 /\ t \in Sold
        BY ONLY <1>10, <3>1, Unplaced DEF Place, Unplaced
      <4>2. blocked'[t[1]] \in Nat
        BY ONLY <1>10, <4>1, PollingTypes, PollingAssumption
           DEF Place, PollingTypes, PollingAssumption
      <4>3. QED
        BY ONLY <4>1, <4>2
    <3>2. CASE t # s
      BY ONLY <1>10, <2>1, <3>2, Overdue DEF Place, Overdue, Still
    <3>3. QED
      BY ONLY <3>1, <3>2
  <2>2. QED
    BY ONLY <2>1 DEF Overdue
<1>11. CASE Notify
  BY ONLY <1>11, UntouchedOverdue, Overdue, PollingTypes DEF Notify
<1>12. CASE Dispatch
  BY ONLY <1>12, UntouchedOverdue, Overdue, PollingTypes DEF Dispatch
<1>13. CASE DispatchFails
  BY ONLY <1>13, UntouchedOverdue, Overdue, PollingTypes DEF DispatchFails
<1>14. QED
  BY ONLY PollingNext, <1>1, <1>2, <1>3, <1>4, <1>5, <1>6, <1>7, <1>8, <1>9, <1>10, <1>11,
          <1>12, <1>13 DEF PollingNext

------------------------------------------------------------------------------
\* The invariant holds at first.
LEMMA InitPolling == PollingInit => PollingInv
<1> SUFFICES ASSUME PollingInit PROVE PollingInv
  OBVIOUS
<1>1. mood \in [Polled -> Moods] /\ cleared \in SUBSET Polled /\ claimed \in BOOLEAN
  BY DEF PollingInit, Moods
<1>2. /\ moods \in 0..MaxMoods /\ notices \in 0..MaxReceives
      /\ pollFaults \in 0..MaxPollFaults
      /\ age \in [Sold -> 0..Gone] /\ blocked \in [Polled -> 0..Lookback]
  BY PollingAssumption DEF PollingInit, PollingAssumption, Gone
<1>3. errors \in [Polled -> Windows]
  BY PollingAssumption DEF PollingInit, PollingAssumption, NoErrors, Windows
<1>4. toPoll \in Schedules
  BY ScheduleEnds DEF PollingInit
<1>5. sent \subseteq placed /\ placed \subseteq Sold
  BY DEF PollingInit
<1>6. Unplaced /\ Overdue
  BY DEF PollingInit, Unplaced, Overdue
<1>7. QED
  BY ONLY <1>1, <1>2, <1>3, <1>4, <1>5, <1>6 DEF PollingInv, PollingTypes

\* The parts of the invariant keep each other.
LEMMA NextPolling == PollingInv /\ [PollingNext]_pollVars => PollingInv'
<1> SUFFICES ASSUME PollingInv, [PollingNext]_pollVars PROVE PollingInv'
  OBVIOUS
<1>1. CASE PollingNext
  BY <1>1, PollingTypeStep, UnplacedStep, OverdueStep DEF PollingInv
<1>2. CASE UNCHANGED pollVars
  BY <1>2 DEF pollVars, PollingInv, PollingTypes, Unplaced, Overdue, Still
<1>3. QED
  BY <1>1, <1>2

\* Of the specification's fairness, safety needs nothing.
THEOREM PollingInductive == PollingSpec => []PollingInv
<1>1. QED
  BY InitPolling, NextPolling, PTL DEF PollingSpec

\* The channels' errors, the invocation's rest and the sales keep their types.
THEOREM PollingTypeCorrect == PollingSpec => []PollingTypeOK
<1>1. PollingInv => PollingTypeOK
  BY PollingTypesNamed DEF PollingInv
<1>2. QED
  BY <1>1, PollingInductive, PTL

\* Only the clock ages a sale, between two invocations.
LEMMA MissedStep ==
  ASSUME PollingInv, [PollingNext]_pollVars,
         NEW s \in placed \ sent, age[s] = Lookback, age'[s] > Lookback
  PROVE  blocked[s[1]] = Lookback
<1>1. Lookback \in Nat
  BY PollingAssumption DEF PollingAssumption
<1>2. age' # age
  BY <1>1
<1>3. Minute
  BY ONLY PollingNext \/ UNCHANGED pollVars, <1>2
     DEF PollingNext, pollVars, SkipIsolated, Poll, PollFails, SendFails, WorkerFails,
         ClearIsolation, MoodChanges, InvocationDies, Place, Notify, Dispatch,
         DispatchFails
<1>4. ~Still(s[1])
  BY <1>3 DEF Minute, Still
<1>5. s[1] \in Polled /\ blocked[s[1]] \in 0..Lookback
  BY PollingAssumption DEF PollingInv, PollingTypes, PollingAssumption
<1>6. age[s] =< blocked[s[1]]
  BY ONLY PollingInv, <1>1, <1>4, <1>5, age[s] = Lookback DEF PollingInv, Overdue
<1>7. QED
  BY ONLY <1>1, <1>5, <1>6, age[s] = Lookback

\* A sale that leaves the lookback unforwarded was missed by as many polls in a row, each
\* skipped for, failed on or cut short before its own channel: no other channel's
\* failure, and no earlier success, hides one (sales-poller, pollChannelIfHealthy).
THEOREM MissedByOwnOutageHolds == PollingSpec => MissedByOwnOutage
<1>1. PollingInv /\ [PollingNext]_pollVars =>
        [\A s \in placed \ sent :
           age[s] = Lookback /\ age'[s] > Lookback => blocked[s[1]] = Lookback]_pollVars
  BY MissedStep
<1>2. QED
  BY <1>1, PollingInductive, PTL DEF PollingSpec, MissedByOwnOutage


------------------------------------------------------------------------------
(***************************************************************************)
(* The composition: the parts share no variable, so a step of one is a     *)
(* stutter of the others. What it restricts (which part runs, and what it  *)
(* leaves out of a part) only takes behaviours away.                       *)
(***************************************************************************)

LEMMA TenantsInitParts ==
  ASSUME TenantsInit
  PROVE  /\ SignupInit /\ ConnectionInit /\ QuotaInit
         /\ BillingInit /\ OffboardingInit /\ PollingInit
BY DEF TenantsInit

\* A step of the composition is a step or a stutter of each part.
LEMMA TenantsNextParts ==
  ASSUME [TenantsNext]_tenantsVars
  PROVE  /\ [SignupNext]_signupVars /\ [ConnectionNext]_connectionVars
         /\ [QuotaNext]_quotaVars /\ [BillingNext]_billingVars
         /\ [OffboardingNext]_offboardingVars /\ [PollingNext]_pollVars
BY DEF TenantsNext, tenantsVars

\* Everything proved of a part holds in the composition: one invariant of all of them.
TenantsInv ==
  /\ SignupInv /\ ConnectionInv /\ QuotaInv
  /\ BillingInv /\ OffboardingInv /\ PollingInv

THEOREM TenantsInductive == TenantsSpec => []TenantsInv
<1>1. TenantsInit => TenantsInv
  BY TenantsInitParts, InitSignup, InitConnection, InitQuota, InitBilling,
     InitOffboarding, InitPolling DEF TenantsInv
<1>2. TenantsInv /\ [TenantsNext]_tenantsVars => TenantsInv'
  BY TenantsNextParts, NextSignup, NextConnection, NextQuota, NextBilling,
     NextOffboarding, NextPolling DEF TenantsInv
<1>3. QED
  BY <1>1, <1>2, PTL DEF TenantsSpec

\* The composition the run checks keeps the types of all its parts.
THEOREM TenantsTypeCorrect == TenantsSpec => []TenantsTypeOK
<1>1. TenantsInv => TenantsTypeOK
  BY PollingTypesNamed
     DEF TenantsInv, SignupInv, ConnectionInv, QuotaInv, BillingInv, OffboardingInv,
         PollingInv, TenantsTypeOK
<1>2. QED
  BY <1>1, TenantsInductive, PTL

\* ... and what the parts promise: one account of a code, with its tenant; connections
\* that work and leave no secret behind; the plan's limits; no event of Stripe's lost, the
\* newest decides, a paying tenant stays; no listing abandoned.
THEOREM TenantsSafe ==
  TenantsSpec => [](/\ CodeUsedOnce /\ AccountIsWhole /\ NoOrphanSecret /\ ConnectionWorks
                    /\ QuotaHolds /\ NoEventLost /\ NewestDecides /\ PayingTenantIsKept
                    /\ NothingAbandoned)
<1>1. SignupInv => CodeUsedOnce /\ AccountIsWhole
  BY SignupWhole DEF SignupInv, Fresh, CodeUsedOnce
<1>2. ConnectionInv => NoOrphanSecret /\ ConnectionWorks
  BY ConnectionSound DEF ConnectionInv, Named, NoOrphanSecret
<1>3. BillingInv => NoEventLost /\ NewestDecides /\ PayingTenantIsKept
  BY DEF BillingInv, Watermark, NewestDecides, OperatorKnows, PayingTenantIsKept
<1>4. OffboardingInv => NothingAbandoned
  BY DEF OffboardingInv, Progress, Emptied, NothingAbandoned, Live
<1>5. QED
  BY <1>1, <1>2, <1>3, <1>4, QuotaSound, TenantsInductive, PTL DEF TenantsInv
==============================================================================
