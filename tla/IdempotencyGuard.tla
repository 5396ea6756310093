-------------------------- MODULE IdempotencyGuard --------------------------
(***************************************************************************)
(* What withIdempotency and its store give the workers that put their work *)
(* under a key (packages/core/src/idempotency.ts,                          *)
(* packages/db/src/idempotency-store.ts). A live claim and a completed key *)
(* keep everybody else out. A key that is given back while a refused claim *)
(* asks for its status does not: whoever asks enters as well, and leaves   *)
(* the key free for the next. Rows, expiry times, cached results and what  *)
(* the workers do are invisible here.                                      *)
(***************************************************************************)
CONSTANTS
  Keys,     \* the idempotency keys
  Runners   \* executions that may claim one

VARIABLES
  key,      \* of each key: nobody's, somebody's, or the work is done
  under     \* of each execution: the key it is under, a set of one, or {}

vars == <<key, under>>

Init ==
  /\ key = [k \in Keys |-> "free"]
  /\ under = [r \in Runners |-> {}]

Enter(r, k) ==
  /\ under[r] = {}
  /\ under' = [under EXCEPT ![r] = {k}]
  /\ key[k] = "free"

\* tryClaim won.
Claim(r, k) ==
  /\ Enter(r, k)
  /\ key' = [key EXCEPT ![k] = "claimed"]

\* The claim was refused, but by now the key has failed: the work runs without one.
Slip(r, k) ==
  /\ Enter(r, k)
  /\ UNCHANGED key

\* The execution leaves its key: the result is stored, the work threw and the key is
\* given back, or the execution dies or the store throws and the key stays as it is.
Leave(r, k) ==
  /\ under' = [under EXCEPT ![r] = {}]
  /\ \E outcome \in {"done", "free", key[k]} :
       key' = [key EXCEPT ![k] = outcome]

\* A day later, an abandoned claim is nobody's.
Expire(k) ==
  /\ key[k] = "claimed"
  /\ \A r \in Runners : k \notin under[r]
  /\ key' = [key EXCEPT ![k] = "free"]
  /\ UNCHANGED under

Next ==
  \/ \E r \in Runners :
       \/ \E k \in Keys \cap under'[r] : Claim(r, k) \/ Slip(r, k)
       \/ \E k \in under[r] : Leave(r, k)
  \/ \E k \in Keys : Expire(k)

Spec == Init /\ [][Next]_vars

=============================================================================
