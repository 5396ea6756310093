---------------------------- MODULE MCContentSync ----------------------------
(* ContentSync on a small instance. The .cfg says which executions there are;*)
(* the item has two contents, the second of which an edit brings up.         *)
EXTENDS ContentSync, TLC

MCContents == 1..2
MCFirstContent == 1

\* A state Init leads to: the first content has been generated and its draft waits for the
\* admin's approval; nothing is under way.
Drafted ==
  /\ base = [content |-> FirstContent, seq |-> 1]
  /\ product = FirstContent
  /\ master = [version |-> 0, seq |-> 1]
  /\ jobs = [k \in Jobs |-> IF k = AiJob THEN "completed" ELSE "none"]
  /\ draft = FirstContent
  /\ listing = "pending_approval"
  /\ offer = [images |-> NoContent, title |-> NoContent, stock |-> 0]
  /\ queue = [t \in Types |-> [r \in 0..MaxReceive |-> 0]]
  /\ idem = [k \in Keys |->
               IF k.op = "ai_generate" /\ k.content = FirstContent
                  /\ k.version = 0
               THEN "completed" ELSE "absent"]
  /\ told = {}
  /\ poller = [p \in Pollers |-> IdlePoller]
  /\ ai = [a \in AiWorkers |-> IdleAi]
  /\ ebay = [w \in EbayWorkers |-> IdleEbay]
  /\ failures = 0 /\ approvals = 0
  /\ owed = {} /\ unsaid = {}

\* FairSpec from there.
DraftedSpec ==
  /\ Drafted
  /\ [][Next]_vars
  /\ \A p \in Pollers : WF_vars(PollStep(p))
  /\ \A a \in AiWorkers : WF_vars(AiStep(a))
  /\ \A w \in EbayWorkers : WF_vars(EbayStep(w))
==============================================================================
