----------------------------- MODULE SaleLedger -----------------------------
(***************************************************************************)
(* What the sale pipeline promises about one product's stock: a sale is    *)
(* taken off the stock in one step, never below zero, never when the stock *)
(* is already gone, and no more often than it is allowed to: once, and     *)
(* once more each time the pipeline loses track of it. Queues, claims,     *)
(* retries and outbox rows are invisible here.                             *)
(***************************************************************************)
EXTENDS Integers

CONSTANTS Sales, Units, InitialQuantity

VARIABLES
  stock,    \* units left
  taken,    \* how often each sale has been taken off the stock
  allowed   \* and how often it may have been

vars == <<stock, taken, allowed>>

Init ==
  /\ stock = InitialQuantity
  /\ taken = [s \in Sales |-> 0]
  /\ allowed = [s \in Sales |-> 1]

Take(s) ==
  /\ taken[s] < allowed[s]
  /\ stock > 0
  /\ stock' = IF Units[s] > stock THEN 0 ELSE stock - Units[s]
  /\ taken' = [taken EXCEPT ![s] = @ + 1]
  /\ UNCHANGED allowed

LoseTrack(s) ==
  /\ allowed' = [allowed EXCEPT ![s] = @ + 1]
  /\ UNCHANGED <<stock, taken>>

Next == \E s \in Sales : Take(s) \/ LoseTrack(s)

Spec == Init /\ [][Next]_vars

=============================================================================
