----------------------------- MODULE Connections -----------------------------
(***************************************************************************)
(* One seller account's OAuth connection: its tokens are a secret in       *)
(* Secrets Manager, and the row in oauth_connections names that secret by  *)
(* its ARN (services/lambdas/shared/src/secrets.ts). Workers refresh an    *)
(* expiring token, a callback stores a new authorization, and disconnect,  *)
(* offboarding and eBay's account deletion purge both.                     *)
(*                                                                         *)
(* A secret is put by name: one created after a delete has the same name   *)
(* and another ARN. Tokens and ARNs are numbered as they are made.         *)
(***************************************************************************)
EXTENDS Naturals

CONSTANTS
  Savers,      \* executions that refresh or authorize
  Purgers,     \* executions that purge
  MaxTokens,   \* tokens the marketplace issues
  MaxPurges,   \* purges that begin
  MaxConnectionFaults

ASSUME ConnectionAssumption ==
  /\ MaxTokens \in Nat
  /\ MaxPurges \in Nat
  /\ MaxConnectionFaults \in Nat

Nothing == 0
Numbers == 0..MaxTokens

VARIABLES
  secret,     \* its ARN (Nothing without one) and the refresh token in it
  expiring,   \* the access token in it has less than five minutes
  row,        \* oauth_connections.secret_arn, Nothing without a row
  valid,      \* refresh tokens the marketplace accepts
  rotates,    \* whether a refresh replaces the refresh token: BASE's does, eBay's does not
  tokens, arns, purges, connectionFaults,   \* counters
  saver,      \* each refresh or callback: step, ARN, refresh token it holds
  purger,     \* each purge: step, ARN
  lost        \* history: what went wrong so far

connectionVars ==
  <<secret, expiring, row, valid, rotates, tokens, arns, purges, connectionFaults, saver, purger, lost>>

ConnectionTypeOK ==
  /\ secret \in [arn : Numbers, refresh : Numbers]
  /\ expiring \in BOOLEAN
  /\ row \in Numbers
  /\ valid \in SUBSET (1..MaxTokens)
  /\ rotates \in BOOLEAN
  /\ tokens \in Numbers
  /\ arns \in Numbers
  /\ purges \in 0..MaxPurges
  /\ connectionFaults \in 0..MaxConnectionFaults
  /\ saver \in [Savers -> [pc : {"idle", "row", "read", "save", "create", "upsert"},
                           arn : Numbers, refresh : Numbers]]
  /\ purger \in [Purgers -> [pc : {"idle", "secret", "row"}, arn : Numbers]]
  /\ lost \in SUBSET {"saver", "purger", "overlap"}

NoSecret == [arn |-> Nothing, refresh |-> Nothing]
NoSaver  == [pc |-> "idle", arn |-> Nothing, refresh |-> Nothing]
NoPurger == [pc |-> "idle", arn |-> Nothing]

ConnectionInit ==
  /\ secret = NoSecret
  /\ expiring = FALSE
  /\ row = Nothing
  /\ valid = {}
  /\ rotates \in BOOLEAN
  /\ tokens = 0
  /\ arns = 0
  /\ purges = 0
  /\ connectionFaults = 0
  /\ saver = [s \in Savers |-> NoSaver]
  /\ purger = [p \in Purgers |-> NoPurger]
  /\ lost = {}

------------------------------------------------------------------------------
Next1 == tokens + 1

\* The callback of an authorization: exchangeCodeForToken, and the shop's or user's id.
Authorize(s) ==
  /\ saver[s].pc = "idle"
  /\ tokens < MaxTokens
  /\ tokens' = Next1
  /\ valid' = valid \cup {Next1}
  /\ saver' = [saver EXCEPT ![s] = [pc |-> "save", arn |-> Nothing, refresh |-> Next1]]
  /\ UNCHANGED <<secret, expiring, row, rotates, arns, purges, connectionFaults, purger,
                 lost>>

TokenExpires ==
  /\ secret # NoSecret
  /\ ~expiring
  /\ expiring' = TRUE
  /\ UNCHANGED <<secret, row, valid, rotates, tokens, arns, purges, connectionFaults,
                 saver, purger, lost>>

\* getValidAccessToken reads the row, then the secret the row names.
ReadConnection(s) ==
  /\ saver[s].pc = "idle"
  /\ row # Nothing
  /\ saver' = [saver EXCEPT ![s] = [pc |-> "row", arn |-> row, refresh |-> Nothing]]
  /\ UNCHANGED <<secret, expiring, row, valid, rotates, tokens, arns, purges,
                 connectionFaults, purger, lost>>

\* A token that is good for five minutes is returned; a secret that is gone throws.
ReadSecret(s) ==
  /\ saver[s].pc = "row"
  /\ saver' = [saver EXCEPT ![s] =
       IF secret.arn = @.arn /\ expiring
       THEN [@ EXCEPT !.pc = "read", !.refresh = secret.refresh] ELSE NoSaver]
  /\ UNCHANGED <<secret, expiring, row, valid, rotates, tokens, arns, purges,
                 connectionFaults, purger, lost>>

\* eBay's answer to a refresh has no refresh token.
BugRenewed(old) == IF rotates THEN Next1 ELSE Nothing

Renewed(old) == IF rotates THEN Next1 ELSE old

Refresh(s) ==
  /\ saver[s].pc = "read"
  /\ saver[s].refresh \in valid
  /\ tokens < MaxTokens
  /\ tokens' = Next1
  /\ valid' = IF rotates THEN (valid \ {saver[s].refresh}) \cup {Next1} ELSE valid
  /\ saver' = [saver EXCEPT ![s] =
       [pc |-> "save", arn |-> Nothing, refresh |-> Renewed(@.refresh)]]
  /\ UNCHANGED <<secret, expiring, row, rotates, arns, purges, connectionFaults, purger,
                 lost>>

\* Another execution used the refresh token, or there is none: the call throws.
RefreshRefused(s) ==
  /\ saver[s].pc = "read"
  /\ saver[s].refresh \notin valid
  /\ saver' = [saver EXCEPT ![s] = NoSaver]
  /\ UNCHANGED <<secret, expiring, row, valid, rotates, tokens, arns, purges,
                 connectionFaults, purger, lost>>

\* saveOAuthToken: PutSecretValue by name.
PutSecret(s) ==
  /\ saver[s].pc = "save"
  /\ secret # NoSecret
  /\ secret' = [secret EXCEPT !.refresh = saver[s].refresh]
  /\ expiring' = FALSE
  /\ saver' = [saver EXCEPT ![s].pc = "upsert", ![s].arn = secret.arn]
  /\ UNCHANGED <<row, valid, rotates, tokens, arns, purges, connectionFaults, purger,
                 lost>>

SecretNotFound(s) ==
  /\ saver[s].pc = "save"
  /\ secret = NoSecret
  /\ saver' = [saver EXCEPT ![s].pc = "create"]
  /\ UNCHANGED <<secret, expiring, row, valid, rotates, tokens, arns, purges,
                 connectionFaults, purger, lost>>

CreateSecret(s) ==
  /\ saver[s].pc = "create"
  /\ secret = NoSecret
  /\ arns' = arns + 1
  /\ secret' = [arn |-> arns + 1, refresh |-> saver[s].refresh]
  /\ expiring' = FALSE
  /\ saver' = [saver EXCEPT ![s].pc = "upsert", ![s].arn = arns + 1]
  /\ UNCHANGED <<row, valid, rotates, tokens, purges, connectionFaults, purger, lost>>

\* Another execution created the name first: the call throws, its token is lost.
CreateRefused(s) ==
  /\ saver[s].pc = "create"
  /\ secret # NoSecret
  /\ saver' = [saver EXCEPT ![s] = NoSaver]
  /\ UNCHANGED <<secret, expiring, row, valid, rotates, tokens, arns, purges,
                 connectionFaults, purger, lost>>

UpsertRow(s) ==
  /\ saver[s].pc = "upsert"
  /\ row' = saver[s].arn
  /\ saver' = [saver EXCEPT ![s] = NoSaver]
  /\ UNCHANGED <<secret, expiring, valid, rotates, tokens, arns, purges,
                 connectionFaults, purger, lost>>

ConnectionFails ==
  connectionFaults < MaxConnectionFaults /\ connectionFaults' = connectionFaults + 1

SaverDies(s) ==
  /\ saver[s].pc # "idle"
  /\ ConnectionFails
  /\ saver' = [saver EXCEPT ![s] = NoSaver]
  /\ lost' = IF saver[s].pc \in {"save", "create", "upsert"} THEN lost \cup {"saver"} ELSE lost
  /\ UNCHANGED <<secret, expiring, row, valid, rotates, tokens, arns, purges, purger>>

------------------------------------------------------------------------------
\* purgeOAuthConnections: the secret first, then the row if it still names it.
ReadCandidate(p) ==
  /\ purger[p].pc = "idle"
  /\ purges < MaxPurges
  /\ row # Nothing
  /\ purges' = purges + 1
  /\ purger' = [purger EXCEPT ![p] = [pc |-> "secret", arn |-> row]]
  /\ UNCHANGED <<secret, expiring, row, valid, rotates, tokens, arns, connectionFaults,
                 saver, lost>>

\* A secret that is gone already is as good as deleted.
DeleteSecret(p) ==
  /\ purger[p].pc = "secret"
  /\ secret' = IF secret.arn = purger[p].arn THEN NoSecret ELSE secret
  /\ expiring' = (expiring /\ secret' # NoSecret)
  /\ purger' = [purger EXCEPT ![p].pc = "row"]
  /\ lost' = IF \E s \in Savers : saver[s].pc = "upsert" /\ saver[s].arn = purger[p].arn
             THEN lost \cup {"overlap"} ELSE lost
  /\ UNCHANGED <<row, valid, rotates, tokens, arns, purges, connectionFaults, saver>>

BugStillNamed(p) == TRUE

StillNamed(p) == row = purger[p].arn

DeleteRow(p) ==
  /\ purger[p].pc = "row"
  /\ row' = IF StillNamed(p) THEN Nothing ELSE row
  /\ purger' = [purger EXCEPT ![p] = NoPurger]
  /\ UNCHANGED <<secret, expiring, valid, rotates, tokens, arns, purges,
                 connectionFaults, saver, lost>>

\* The row is kept, so that a disconnect or notification sent again finds it.
PurgerDies(p) ==
  /\ purger[p].pc # "idle"
  /\ ConnectionFails
  /\ purger' = [purger EXCEPT ![p] = NoPurger]
  /\ lost' = lost \cup {"purger"}
  /\ UNCHANGED <<secret, expiring, row, valid, rotates, tokens, arns, purges, saver>>

ConnectionNext ==
  \/ TokenExpires
  \/ \E s \in Savers :
       \/ Authorize(s) \/ ReadConnection(s) \/ ReadSecret(s) \/ Refresh(s)
       \/ RefreshRefused(s) \/ PutSecret(s) \/ SecretNotFound(s) \/ CreateSecret(s)
       \/ CreateRefused(s) \/ UpsertRow(s) \/ SaverDies(s)
  \/ \E p \in Purgers :
       ReadCandidate(p) \/ DeleteSecret(p) \/ DeleteRow(p) \/ PurgerDies(p)

ConnectionSpec == ConnectionInit /\ [][ConnectionNext]_connectionVars

------------------------------------------------------------------------------
Saving == {s \in Savers : saver[s].pc = "upsert"}

\* No purge, and no purge cut short, leaves a secret that no row names: a deletion sent
\* again could not find it. A save does between its two writes, and one that dies there
\* or that a purge overtakes may for good.
NoOrphanSecret ==
  lost \subseteq {"purger"} /\ secret # NoSecret =>
    row = secret.arn \/ \E s \in Saving : saver[s].arn = secret.arn

\* When nobody is at work, a connection names a secret that exists and whose refresh
\* token the marketplace takes, however refreshes, authorizations and purges interleaved,
\* unless an execution died or a purge overtook a save.
ConnectionWorks ==
  (/\ lost = {}
   /\ row # Nothing
   /\ \A s \in Savers : saver[s].pc = "idle"
   /\ \A p \in Purgers : purger[p].pc = "idle")
     => row = secret.arn /\ secret.refresh \in valid

==============================================================================
