-------------------------- MODULE ContentSync_proofs --------------------------
(***************************************************************************)
(* Theorems about ContentSync, for every number of executions, contents,   *)
(* edits and failures.                                                     *)
(***************************************************************************)
EXTENDS ContentSync, TLAPS

------------------------------------------------------------------------------
(***************************************************************************)
(* Types                                                                   *)
(***************************************************************************)

Queues == [Types -> [0..MaxReceive -> Nat]]
Listings == {"none", "pending_approval", "published", "error"}
JobStatus == {"none", "pending", "completed", "failed"}

\* The variables of TypeOK, by who writes them. TypeOK bounds the inventory
\* version by the number of edits, which needs the version to stay behind the
\* sequence it was written with.
BaseTyped == base \in Item /\ approvals \in 0..MaxApprovals
FetchTyped ==
  /\ product \in Contents
  /\ master \in [version : Versions, seq : Seqs]
  /\ master.version < master.seq
  /\ jobs \in [Jobs -> JobStatus]
  /\ owed \subseteq Jobs /\ unsaid \subseteq Jobs
DraftTyped == draft \in Contents \cup {NoContent}
ListingTyped == listing \in Listings
OfferTyped ==
  offer \in [images : Contents \cup {NoContent},
             title : Contents \cup {NoContent}, stock : 0..(MaxEdits + 1)]
ToldTyped == told \subseteq {"ai_quota", "quota", "seller"}
QueueTyped == queue \in Queues
IdemTyped == idem \in [Keys -> KeyStatus]
PollerTyped == poller \in [Pollers -> PollerLocals]
AiTyped == ai \in [AiWorkers -> AiLocals]
EbayTyped == ebay \in [EbayWorkers -> EbayLocals]
FailuresTyped == failures \in 0..MaxFailures

Typed ==
  /\ BaseTyped /\ FetchTyped /\ DraftTyped /\ ListingTyped /\ OfferTyped
  /\ ToldTyped /\ QueueTyped /\ IdemTyped /\ PollerTyped /\ AiTyped
  /\ EbayTyped /\ FailuresTyped

LEMMA TypedIsTypeOK == Typed => TypeOK
  BY DEF Typed, TypeOK, BaseTyped, FetchTyped, DraftTyped, ListingTyped,
         OfferTyped, ToldTyped, QueueTyped, IdemTyped, PollerTyped, AiTyped,
         EbayTyped, FailuresTyped, Queues, Listings, JobStatus

LEMMA Idles ==
  IdlePoller \in PollerLocals /\ IdleAi \in AiLocals /\ IdleEbay \in EbayLocals
<1>1. 1 \in Seqs /\ 0 \in Versions /\ 0 \in 0..MaxReceive
  BY ContentSyncAssumption DEF Seqs, Versions
<1>2. FirstContent \in Contents /\ AiJob \in Jobs
  BY ContentSyncAssumption DEF Jobs
<1>3. IdlePoller \in PollerLocals
  BY <1>1, <1>2 DEF IdlePoller, PollerLocals, Item
<1>4. IdleAi \in AiLocals
  BY <1>1, <1>2 DEF IdleAi, AiLocals
<1>5. IdleEbay \in EbayLocals
  BY <1>1, <1>2 DEF IdleEbay, EbayLocals
<1> QED
  BY <1>3, <1>4, <1>5

LEMMA InitTyped == Init => Typed
<1> SUFFICES ASSUME Init PROVE Typed
  OBVIOUS
<1>1. BaseTyped /\ FetchTyped /\ FailuresTyped
  BY ContentSyncAssumption
     DEF Init, BaseTyped, FetchTyped, FailuresTyped, Item, Seqs, Versions,
         JobStatus
<1>2. DraftTyped /\ ListingTyped /\ OfferTyped /\ ToldTyped
  BY ContentSyncAssumption
     DEF Init, DraftTyped, ListingTyped, OfferTyped, ToldTyped, Listings
<1>3. QueueTyped /\ IdemTyped
  BY DEF Init, QueueTyped, IdemTyped, Queues, KeyStatus
<1>4. PollerTyped /\ AiTyped /\ EbayTyped
  BY Idles DEF Init, PollerTyped, AiTyped, EbayTyped
<1> QED
  BY <1>1, <1>2, <1>3, <1>4 DEF Typed

\* Sending, receiving and giving back keep a queue a count of messages.
LEMMA QueueSteps ==
  ASSUME QueueTyped
  PROVE  /\ \A t \in Types : Enqueued(t) \in Queues
         /\ \A t \in Types, r \in 0..MaxReceive : Returned(t, r) \in Queues
         /\ \A t \in Types, r \in 0..MaxReceive : Deliver(t, r) => QueueTyped'
<1> DEFINE Put(t, r, n) == [queue EXCEPT ![t] = [@ EXCEPT ![r] = n]]
<1>1. \A t \in Types, r \in 0..MaxReceive, n \in Nat : Put(t, r, n) \in Queues
  BY DEF QueueTyped, Queues
<1>2. \A t \in Types, r \in 0..MaxReceive : queue[t][r] \in Nat
  BY DEF QueueTyped, Queues
<1>3. 0 \in 0..MaxReceive
  BY ContentSyncAssumption
<1>4. \A t \in Types : Enqueued(t) = Put(t, 0, queue[t][0] + 1)
  BY Zenon DEF Enqueued
<1>5. \A t \in Types, r \in 0..MaxReceive :
        Returned(t, r) = Put(t, r, queue[t][r] + 1)
  BY Zenon DEF Returned
<1>6. \A t \in Types, r \in 0..MaxReceive :
        Deliver(t, r) => queue' = Put(t, r, queue[t][r] - 1) /\ queue[t][r] > 0
  BY Zenon DEF Deliver
<1> HIDE DEF Put
<1> QED
  BY <1>1, <1>2, <1>3, <1>4, <1>5, <1>6 DEF QueueTyped

LEMMA FailingTyped == FailuresTyped /\ Failing => FailuresTyped'
  BY ContentSyncAssumption DEF FailuresTyped, Failing

(***************************************************************************)
(* The executions' own variables                                           *)
(***************************************************************************)

LEMMA PollToTyped ==
  ASSUME PollerTyped, NEW p \in Pollers, NEW locals \in PollerLocals,
         PollTo(p, locals)
  PROVE  PollerTyped'
  BY DEF PollerTyped, PollTo

LEMMA DispatchingTyped ==
  ASSUME PollerTyped, NEW p \in Pollers, NEW todo \in SUBSET Jobs,
         Dispatching(p, todo)
  PROVE  PollerTyped'
<1>1. [IdlePoller EXCEPT !.pc = "send", !.todo = todo] \in PollerLocals
  BY Idles DEF PollerLocals
<1> QED
  BY <1>1, Idles, PollToTyped DEF Dispatching

LEMMA AiToTyped ==
  ASSUME AiTyped, NEW a \in AiWorkers, NEW locals \in AiLocals, AiTo(a, locals)
  PROVE  AiTyped'
  BY DEF AiTyped, AiTo

LEMMA EbayToTyped ==
  ASSUME EbayTyped, NEW w \in EbayWorkers, NEW locals \in EbayLocals,
         EbayTo(w, locals)
  PROVE  EbayTyped'
  BY DEF EbayTyped, EbayTo

LEMMA KeysTyped ==
  /\ AiTyped => \A a \in AiWorkers : AiKey(a) \in Keys
  /\ EbayTyped => \A w \in EbayWorkers : EbayKey(w) \in Keys
<1>1. 0 \in Versions
  BY ContentSyncAssumption DEF Versions
<1> QED
  BY <1>1 DEF AiTyped, EbayTyped, AiLocals, EbayLocals, AiKey, EbayKey, Keys,
              Types

\* A delivery is still within its receives when it is given back.
LEMMA NacksTyped ==
  ASSUME QueueTyped
  PROVE  /\ \A a \in AiWorkers : AiTyped /\ AiNack(a) => QueueTyped' /\ AiTyped'
         /\ \A w \in EbayWorkers :
              EbayTyped /\ EbayNack(w) => QueueTyped' /\ EbayTyped'
<1>1. ASSUME NEW a \in AiWorkers, AiTyped, AiNack(a)
      PROVE  QueueTyped' /\ AiTyped'
  <2>1. ai[a].receives \in 0..MaxReceive /\ "ai_generate" \in Types
    BY <1>1 DEF AiTyped, AiLocals, Types
  <2>2. QueueTyped'
    BY <1>1, <2>1, QueueSteps DEF AiNack, QueueTyped
  <2> QED
    BY <1>1, <2>2, Idles, AiToTyped DEF AiNack
<1>2. ASSUME NEW w \in EbayWorkers, EbayTyped, EbayNack(w)
      PROVE  QueueTyped' /\ EbayTyped'
  <2>1. ebay[w].receives \in 0..MaxReceive /\ ebay[w].type \in Types
    BY <1>2 DEF EbayTyped, EbayLocals, Types
  <2>2. QueueTyped'
    BY <1>2, <2>1, QueueSteps DEF EbayNack, QueueTyped
  <2> QED
    BY <1>2, <2>2, Idles, EbayToTyped DEF EbayNack
<1> QED
  BY <1>1, <1>2

------------------------------------------------------------------------------
(***************************************************************************)
(* A step of each execution keeps the types                                *)
(***************************************************************************)

LEMMA PollStepTyped ==
  ASSUME Typed, NEW p \in Pollers, PollStep(p) \/ PollDies(p)
  PROVE  Typed'
<1> DEFINE l == poller[p]
<1>0. l \in PollerLocals /\ PollerTyped
  BY DEF Typed, PollerTyped
<1>f. /\ UNCHANGED unpolled /\ FailuresTyped' /\ QueueTyped' /\ FetchTyped'
         /\ PollerTyped'
      => Typed'
  BY DEF Typed, unpolled, merchantVars, ebayVars, BaseTyped, DraftTyped,
         ListingTyped, OfferTyped, ToldTyped, IdemTyped, AiTyped, EbayTyped
<1>s. Typed /\ UNCHANGED fetchVars => FetchTyped'
  BY DEF Typed, fetchVars, FetchTyped
<1>q. Typed /\ UNCHANGED queue => QueueTyped'
  BY DEF Typed, QueueTyped
<1>x. Typed /\ UNCHANGED failures => FailuresTyped'
  BY DEF Typed, FailuresTyped
<1>o. \A k \in Jobs : Owed(k) \subseteq Jobs
  BY DEF Typed, FetchTyped, Owed
<1>j. ASSUME NEW k \in Jobs, jobs' = Outboxed(k), owed' \subseteq Jobs,
             product' \in Contents, UNCHANGED <<master, unsaid>>
      PROVE  FetchTyped'
  BY <1>j DEF Typed, FetchTyped, Outboxed, JobStatus
<1>m. ASSUME NEW k \in Jobs, NEW s \in JobStatus,
             jobs' = [jobs EXCEPT ![k] = s],
             UNCHANGED <<product, master, owed, unsaid>>
      PROVE  FetchTyped'
  BY <1>m DEF Typed, FetchTyped
<1>1. CASE Fetch(p)
  <2>1. [IdlePoller EXCEPT !.pc = "row", !.item = base] \in PollerLocals
    BY Idles DEF PollerLocals, Typed, BaseTyped
  <2>2. PollerTyped'
    BY <1>0, <1>1, <2>1, PollToTyped DEF Fetch
  <2> QED
    BY <1>1, <1>f, <1>s, <1>q, <1>x, <2>2 DEF Fetch
<1>2. CASE ReadRow(p)
  <2>1. [l EXCEPT !.pc = "report", !.seen = product] \in PollerLocals
    BY <1>0 DEF PollerLocals, Typed, FetchTyped
  <2>2. PollerTyped'
    BY <1>0, <1>2, <2>1, PollToTyped DEF ReadRow
  <2> QED
    BY <1>2, <1>f, <1>s, <1>q, <1>x, <2>2 DEF ReadRow
<1>3. CASE Report(p)
  <2>1. \A pc \in {"change", "propagate", "list"} :
          [l EXCEPT !.pc = pc] \in PollerLocals
    BY <1>0 DEF PollerLocals
  <2>2. PollerTyped'
    BY <1>0, <1>3, <2>1, PollToTyped DEF Report
  <2>3. l.item.seq \in Seqs /\ StockJob(l.item.seq) \in Jobs
    BY <1>0 DEF PollerLocals, Item, Jobs
  <2>6. owed' \subseteq Jobs
    BY <1>3, <1>o, <2>3 DEF Report, Typed, FetchTyped
  <2>4. CASE Newer(l.item)
    <3>1. master' = [version |-> master.version + 1, seq |-> l.item.seq]
      BY <1>3, <2>4 DEF Report
    <3>2. /\ master.version + 1 \in Versions
          /\ master.version + 1 < l.item.seq
      BY <2>3, <2>4, ContentSyncAssumption
         DEF Newer, Typed, FetchTyped, Versions, Seqs
    <3>3. FetchTyped'
      BY <1>3, <2>3, <2>6, <3>1, <3>2 DEF Report, Typed, FetchTyped
    <3> QED
      BY <1>3, <1>f, <1>q, <1>x, <2>2, <3>3 DEF Report
  <2>5. CASE ~Newer(l.item)
    <3>1. FetchTyped'
      BY <1>3, <2>5, <2>6 DEF Report, Typed, FetchTyped
    <3> QED
      BY <1>3, <1>f, <1>q, <1>x, <2>2, <3>1 DEF Report
  <2> QED
    BY <2>4, <2>5
<1>4. CASE Propagate(p)
  <2>1. [l EXCEPT !.pc = "list"] \in PollerLocals
    BY <1>0 DEF PollerLocals
  <2>2. StockJob(l.item.seq) \in Jobs
    BY <1>0 DEF PollerLocals, Item, Jobs
  <2>3. FetchTyped'
    BY <1>4, <1>j, <2>2 DEF Propagate, Typed, FetchTyped
  <2>4. PollerTyped'
    BY <1>0, <1>4, <2>1, PollToTyped DEF Propagate
  <2> QED
    BY <1>4, <1>f, <1>q, <1>x, <2>3, <2>4 DEF Propagate
<1>5. CASE Change(p)
  <2>1. [l EXCEPT !.pc = "list"] \in PollerLocals
    BY <1>0 DEF PollerLocals
  <2>2. ContentJob(l.item.content) \in Jobs /\ l.item.content \in Contents
    BY <1>0 DEF PollerLocals, Item, Jobs
  <2>3. FetchTyped'
    BY <1>5, <1>o, <1>j, <2>2 DEF Change
  <2>4. PollerTyped'
    BY <1>0, <1>5, <2>1, PollToTyped DEF Change
  <2> QED
    BY <1>5, <1>f, <1>q, <1>x, <2>3, <2>4 DEF Change
<1>6. CASE ListJobs(p)
  <2>1. PollerTyped'
    BY <1>0, <1>6, DispatchingTyped DEF ListJobs, Unsent
  <2> QED
    BY <1>6, <1>f, <1>s, <1>q, <1>x, <2>1 DEF ListJobs
<1>7. ASSUME NEW k \in Jobs, Send(p, k)
      PROVE  Typed'
  <2>1. [l EXCEPT !.pc = "mark", !.job = k] \in PollerLocals
    BY <1>0 DEF PollerLocals
  <2>2. PollerTyped'
    BY <1>0, <1>7, <2>1, PollToTyped DEF Send
  <2>3. QueueTyped'
    BY <1>7, QueueSteps DEF Send, JobType, Types, Typed, QueueTyped
  <2> QED
    BY <1>7, <1>f, <1>s, <1>x, <2>2, <2>3 DEF Send
<1>8. ASSUME NEW k \in Jobs, SendFails(p, k)
      PROVE  Typed'
  <2>1. l.todo \ {k} \in SUBSET Jobs
    BY <1>0 DEF PollerLocals
  <2>2. PollerTyped'
    BY <1>0, <1>8, <2>1, DispatchingTyped DEF SendFails
  <2>3. FetchTyped'
    BY <1>8, <1>m DEF SendFails, JobStatus
  <2>4. FailuresTyped'
    BY <1>8, FailingTyped DEF SendFails, Typed
  <2> QED
    BY <1>8, <1>f, <1>q, <2>2, <2>3, <2>4 DEF SendFails
<1>9. CASE MarkSent(p)
  <2>1. l.todo \ {l.job} \in SUBSET Jobs /\ l.job \in Jobs
    BY <1>0 DEF PollerLocals
  <2>2. PollerTyped'
    BY <1>0, <1>9, <2>1, DispatchingTyped DEF MarkSent
  <2>3. FetchTyped'
    BY <1>9, <1>m, <2>1 DEF MarkSent, JobStatus
  <2> QED
    BY <1>9, <1>f, <1>q, <1>x, <2>2, <2>3 DEF MarkSent
<1>10. CASE PollDies(p)
  <2>1. PollerTyped'
    BY <1>0, <1>10, Idles, PollToTyped DEF PollDies
  <2>2. FailuresTyped'
    BY <1>10, FailingTyped DEF PollDies, Typed
  <2>3. StockJob(l.item.seq) \in Jobs
    BY <1>0 DEF PollerLocals, Item, Jobs
  <2>4. FetchTyped'
    BY <1>10, <2>3 DEF PollDies, Typed, FetchTyped
  <2> QED
    BY <1>10, <1>f, <1>q, <2>1, <2>2, <2>4
       DEF PollDies, unpolled, merchantVars, ebayVars
<1> QED
  BY <1>1, <1>2, <1>3, <1>4, <1>5, <1>6, <1>7, <1>8, <1>9, <1>10 DEF PollStep

LEMMA AiStepTyped ==
  ASSUME Typed, NEW a \in AiWorkers, AiStep(a) \/ AiDies(a)
  PROVE  Typed'
<1> DEFINE l == ai[a]
<1>0. l \in AiLocals /\ AiTyped /\ AiKey(a) \in Keys
  BY KeysTyped DEF Typed, AiTyped
<1>f. /\ UNCHANGED <<merchantVars, fetchVars, offer, poller, ebay>>
      /\ DraftTyped' /\ ListingTyped' /\ ToldTyped' /\ QueueTyped' /\ IdemTyped'
      /\ AiTyped' /\ FailuresTyped'
      => Typed'
  BY DEF Typed, merchantVars, fetchVars, BaseTyped, FetchTyped, OfferTyped,
         PollerTyped, EbayTyped
<1>d. Typed /\ UNCHANGED draft => DraftTyped'
  BY DEF Typed, DraftTyped
<1>l. Typed /\ UNCHANGED listing => ListingTyped'
  BY DEF Typed, ListingTyped
<1>t. Typed /\ UNCHANGED told => ToldTyped'
  BY DEF Typed, ToldTyped
<1>q. Typed /\ UNCHANGED queue => QueueTyped'
  BY DEF Typed, QueueTyped
<1>i. Typed /\ UNCHANGED idem => IdemTyped'
  BY DEF Typed, IdemTyped
<1>x. Typed /\ UNCHANGED failures => FailuresTyped'
  BY DEF Typed, FailuresTyped
<1>y. Typed /\ Failing => FailuresTyped'
  BY FailingTyped DEF Typed
<1>n. AiNack(a) => QueueTyped' /\ AiTyped'
  BY NacksTyped DEF Typed
<1>a. AiAck(a) => QueueTyped' /\ AiTyped'
  BY <1>0, <1>q, Idles, AiToTyped DEF AiAck
<1>k. ASSUME NEW s \in KeyStatus, idem' = [idem EXCEPT ![AiKey(a)] = s]
      PROVE  IdemTyped'
  BY <1>0, <1>k DEF Typed, IdemTyped
<1>p. ASSUME NEW pc \in {"select", "generate", "row", "complete"},
             AiTo(a, [l EXCEPT !.pc = pc])
      PROVE  AiTyped'
  <2>1. [l EXCEPT !.pc = pc] \in AiLocals
    BY <1>0 DEF AiLocals
  <2> QED
    BY <1>0, <1>p, <2>1, AiToTyped
<1>1. ASSUME NEW r \in 0..(MaxReceive - 1), AiReceive(a, r)
      PROVE  Typed'
  <2>1. r \in 0..MaxReceive /\ r + 1 \in 0..MaxReceive
    BY ContentSyncAssumption
  <2>2. [pc |-> "claim", receives |-> r + 1, content |-> product] \in AiLocals
    BY <2>1 DEF AiLocals, Typed, FetchTyped
  <2>3. AiTyped'
    BY <1>0, <1>1, <2>2, AiToTyped DEF AiReceive
  <2>4. QueueTyped'
    BY <1>1, <2>1, QueueSteps DEF AiReceive, Typed, Types
  <2> QED
    BY <1>1, <1>f, <1>d, <1>l, <1>t, <1>i, <1>x, <2>3, <2>4
       DEF AiReceive, ungenerated
<1>2. CASE AiClaims(a)
  <2>1. IdemTyped' /\ AiTyped'
    BY <1>2, <1>k, <1>p DEF AiClaims, KeyStatus
  <2> QED
    BY <1>2, <1>f, <1>d, <1>l, <1>t, <1>q, <1>x, <2>1 DEF AiClaims, ungenerated
<1>10. CASE AiClaimRefused(a) \/ AiRunsUnclaimed(a)
  <2>1. AiTyped'
    BY <1>10, <1>p DEF AiClaimRefused, AiRunsUnclaimed
  <2> QED
    BY <1>10, <1>f, <1>d, <1>l, <1>t, <1>q, <1>i, <1>x, <2>1
       DEF AiClaimRefused, AiRunsUnclaimed, ungenerated
<1>3. CASE AiReplays(a) \/ AiBusy(a)
  BY <1>3, <1>f, <1>d, <1>l, <1>t, <1>i, <1>x, <1>n, <1>a
     DEF AiReplays, AiBusy, ungenerated
<1>4. CASE Generate(a)
  <2>1. DraftTyped' /\ AiTyped'
    BY <1>0, <1>4, <1>p DEF Generate, DraftTyped, AiLocals
  <2> QED
    BY <1>4, <1>f, <1>l, <1>t, <1>q, <1>i, <1>x, <2>1 DEF Generate, ungenerated
<1>5. CASE InsertListing(a)
  <2>1. ListingTyped' /\ AiTyped'
    BY <1>5, <1>p DEF InsertListing, Typed, ListingTyped, Listings
  <2> QED
    BY <1>5, <1>f, <1>d, <1>t, <1>q, <1>i, <1>x, <2>1 DEF InsertListing
<1>6. CASE AiCompletes(a)
  <2>1. IdemTyped'
    BY <1>6, <1>k DEF AiCompletes, KeyStatus
  <2> QED
    BY <1>6, <1>f, <1>d, <1>l, <1>t, <1>a, <1>x, <2>1
       DEF AiCompletes, ungenerated
<1>7. CASE AiThrows(a)
  <2>1. IdemTyped'
    BY <1>7, <1>k DEF AiThrows, KeyStatus
  <2> QED
    BY <1>7, <1>f, <1>d, <1>l, <1>t, <1>n, <1>y, <2>1 DEF AiThrows, ungenerated
<1>8. CASE AiRefused(a)
  <2>1. IdemTyped' /\ ToldTyped'
    BY <1>8, <1>k DEF AiRefused, KeyStatus, Typed, ToldTyped
  <2> QED
    BY <1>8, <1>f, <1>d, <1>l, <1>a, <1>y, <2>1 DEF AiRefused
<1>9. CASE AiDies(a)
  BY <1>9, <1>f, <1>d, <1>l, <1>t, <1>i, <1>n, <1>y DEF AiDies, ebayVars
<1> QED
  BY <1>1, <1>2, <1>3, <1>4, <1>5, <1>6, <1>7, <1>8, <1>9, <1>10 DEF AiStep, AiSelects

LEMMA EbayStepTyped ==
  ASSUME Typed, NEW w \in EbayWorkers, EbayStep(w) \/ EbayDies(w)
  PROVE  Typed'
<1> DEFINE l == ebay[w]
<1>0. l \in EbayLocals /\ EbayTyped /\ EbayKey(w) \in Keys
  BY KeysTyped DEF Typed, EbayTyped
<1>f. /\ UNCHANGED <<merchantVars, fetchVars, draft, poller, ai>>
      /\ ListingTyped' /\ OfferTyped' /\ ToldTyped' /\ QueueTyped' /\ IdemTyped'
      /\ EbayTyped' /\ FailuresTyped'
      => Typed'
  BY DEF Typed, merchantVars, fetchVars, BaseTyped, FetchTyped, DraftTyped,
         PollerTyped, AiTyped
<1>l. Typed /\ UNCHANGED listing => ListingTyped'
  BY DEF Typed, ListingTyped
<1>o. Typed /\ UNCHANGED offer => OfferTyped'
  BY DEF Typed, OfferTyped
<1>t. Typed /\ UNCHANGED told => ToldTyped'
  BY DEF Typed, ToldTyped
<1>q. Typed /\ UNCHANGED queue => QueueTyped'
  BY DEF Typed, QueueTyped
<1>i. Typed /\ UNCHANGED idem => IdemTyped'
  BY DEF Typed, IdemTyped
<1>x. Typed /\ UNCHANGED failures => FailuresTyped'
  BY DEF Typed, FailuresTyped
<1>y. Typed /\ Failing => FailuresTyped'
  BY FailingTyped DEF Typed
<1>n. EbayNack(w) => QueueTyped' /\ EbayTyped'
  BY NacksTyped DEF Typed
<1>a. EbayAck(w) => QueueTyped' /\ EbayTyped'
  BY <1>0, <1>q, Idles, EbayToTyped DEF EbayAck
<1>k. ASSUME NEW s \in KeyStatus, idem' = [idem EXCEPT ![EbayKey(w)] = s]
      PROVE  IdemTyped'
  BY <1>0, <1>k DEF Typed, IdemTyped
<1>p. ASSUME NEW pc \in {"select", "product", "complete"}, Step(w, pc)
      PROVE  EbayTyped'
  <2>1. [l EXCEPT !.pc = pc] \in EbayLocals
    BY <1>0 DEF EbayLocals
  <2> QED
    BY <1>0, <1>p, <2>1, EbayToTyped DEF Step
<1>z. FirstContent \in Contents /\ 1 \in Seqs /\ 0 \in Versions
  BY ContentSyncAssumption DEF Seqs, Versions
<1>g. ASSUME NEW pc \in {"record", "fail"},
             NEW error \in {"none", "failed", "quota", "seller"},
             Forget(w, pc, error)
      PROVE  EbayTyped'
  <2>1. [l EXCEPT !.pc = pc, !.error = error, !.images = FirstContent,
                  !.title = FirstContent, !.stock = 1] \in EbayLocals
    BY <1>0, <1>z DEF EbayLocals
  <2> QED
    BY <1>0, <1>g, <2>1, EbayToTyped DEF Forget
<1>1. ASSUME NEW type \in {"ebay_publish", "ebay_update"},
             NEW r \in 0..(MaxReceive - 1), EbayReceive(w, type, r)
      PROVE  Typed'
  <2>1. r \in 0..MaxReceive /\ r + 1 \in 0..MaxReceive
    BY ContentSyncAssumption
  <2>2. [IdleEbay EXCEPT
           !.pc = IF type = "ebay_publish" THEN "claim" ELSE "version",
           !.type = type, !.receives = r + 1, !.content = product]
          \in EbayLocals
    BY <2>1, Idles DEF EbayLocals, Typed, FetchTyped
  <2>3. EbayTyped'
    BY <1>0, <1>1, <2>2, EbayToTyped DEF EbayReceive
  <2>4. QueueTyped'
    BY <1>1, <2>1, QueueSteps DEF EbayReceive, Typed, Types
  <2> QED
    BY <1>1, <1>f, <1>l, <1>o, <1>t, <1>i, <1>x, <2>3, <2>4
       DEF EbayReceive, unsynced, ebayVars
<1>2. CASE ReadVersion(w)
  <2>1. [l EXCEPT !.pc = "claim", !.version = master.version] \in EbayLocals
    BY <1>0 DEF EbayLocals, Typed, FetchTyped
  <2>2. EbayTyped'
    BY <1>0, <1>2, <2>1, EbayToTyped DEF ReadVersion
  <2> QED
    BY <1>2, <1>f, <1>l, <1>o, <1>t, <1>i, <1>x, <1>q, <2>2
       DEF ReadVersion, unsynced, ebayVars
<1>3. CASE LookupThrows(w)
  <2>1. [l EXCEPT !.pc = "caught", !.error = "failed",
                  !.content = FirstContent, !.version = 0] \in EbayLocals
    BY <1>0, <1>z DEF EbayLocals
  <2>2. EbayTyped'
    BY <1>0, <1>3, <2>1, EbayToTyped DEF LookupThrows
  <2> QED
    BY <1>3, <1>f, <1>l, <1>o, <1>t, <1>i, <1>y, <1>q, <2>2
       DEF LookupThrows, unsynced, ebayVars
<1>4. CASE EbayClaims(w)
  <2>1. IdemTyped' /\ EbayTyped'
    BY <1>4, <1>k, <1>p DEF EbayClaims, KeyStatus
  <2> QED
    BY <1>4, <1>f, <1>l, <1>o, <1>t, <1>q, <1>x, <2>1
       DEF EbayClaims, unsynced, ebayVars
<1>5. CASE EbayReplays(w) \/ EbayBusy(w)
  BY <1>5, <1>f, <1>l, <1>o, <1>t, <1>i, <1>x, <1>n, <1>a
     DEF EbayReplays, EbayBusy, unsynced, ebayVars
<1>6. CASE ReadProduct(w)
  <2>1. [l EXCEPT !.pc = "draft", !.images = product] \in EbayLocals
    BY <1>0 DEF EbayLocals, Typed, FetchTyped
  <2>2. EbayTyped'
    BY <1>0, <1>6, <2>1, EbayToTyped DEF ReadProduct
  <2> QED
    BY <1>6, <1>f, <1>l, <1>o, <1>t, <1>i, <1>x, <1>q, <2>2
       DEF ReadProduct, unsynced, ebayVars
<1>7. CASE TakeDraft(w)
  <2>1. draft \in Contents
    BY <1>0, <1>7 DEF TakeDraft, EbayLocals
  <2>2. [l EXCEPT !.pc = "stock", !.title = draft] \in EbayLocals
    BY <1>0, <2>1 DEF EbayLocals
  <2>3. EbayTyped'
    BY <1>0, <1>7, <2>2, EbayToTyped DEF TakeDraft
  <2> QED
    BY <1>7, <1>f, <1>l, <1>o, <1>t, <1>i, <1>x, <1>q, <2>3
       DEF TakeDraft, unsynced, ebayVars
<1>8. CASE RefuseDraft(w)
  <2>1. [l EXCEPT !.pc = "fail", !.error = "stale"] \in EbayLocals
    BY <1>0 DEF EbayLocals
  <2>2. EbayTyped'
    BY <1>0, <1>8, <2>1, EbayToTyped DEF RefuseDraft
  <2>3. QueueTyped'
    BY <1>8, QueueSteps DEF RefuseDraft, Types, Typed, QueueTyped
  <2> QED
    BY <1>8, <1>f, <1>l, <1>o, <1>t, <1>i, <1>x, <2>2, <2>3
       DEF RefuseDraft, unsynced, ebayVars
<1>9. CASE ReadStock(w)
  <2>1. [l EXCEPT !.pc = "call", !.stock = master.seq] \in EbayLocals
    BY <1>0 DEF EbayLocals, Typed, FetchTyped
  <2>2. EbayTyped'
    BY <1>0, <1>9, <2>1, EbayToTyped DEF ReadStock
  <2> QED
    BY <1>9, <1>f, <1>l, <1>o, <1>t, <1>i, <1>x, <1>q, <2>2
       DEF ReadStock, unsynced, ebayVars
<1>10. CASE CallEbay(w)
  <2>1. OfferTyped'
    BY <1>0, <1>10, ContentSyncAssumption
       DEF CallEbay, OfferTyped, EbayLocals, Seqs
  <2>2. EbayTyped'
    BY <1>10, <1>g DEF CallEbay
  <2> QED
    BY <1>10, <1>f, <1>l, <1>t, <1>i, <1>x, <1>q, <2>1, <2>2
       DEF CallEbay, unsynced
<1>11. CASE Record(w)
  <2>1. ListingTyped' /\ EbayTyped'
    BY <1>11, <1>p DEF Record, ListingTyped, Listings
  <2> QED
    BY <1>11, <1>f, <1>o, <1>t, <1>i, <1>x, <1>q, <2>1 DEF Record, unsynced
<1>12. CASE EbayCompletes(w)
  <2>1. IdemTyped'
    BY <1>12, <1>k DEF EbayCompletes, KeyStatus
  <2> QED
    BY <1>12, <1>f, <1>l, <1>o, <1>t, <1>a, <1>x, <2>1
       DEF EbayCompletes, unsynced, ebayVars
<1>13. CASE Throws(w)
  <2>1. EbayTyped'
    BY <1>13, <1>g DEF Throws
  <2> QED
    BY <1>13, <1>f, <1>l, <1>o, <1>t, <1>i, <1>y, <1>q, <2>1
       DEF Throws, unsynced, ebayVars
<1>14. ASSUME NEW error \in {"quota", "seller"}, Refused(w, error)
       PROVE  Typed'
  <2>1. EbayTyped'
    BY <1>14, <1>g DEF Refused
  <2> QED
    BY <1>14, <1>f, <1>l, <1>o, <1>t, <1>i, <1>y, <1>q, <2>1
       DEF Refused, unsynced, ebayVars
<1>15. CASE Release(w)
  <2>1. [l EXCEPT !.pc = "caught", !.content = FirstContent, !.version = 0]
          \in EbayLocals
    BY <1>0, <1>z DEF EbayLocals
  <2>2. EbayTyped'
    BY <1>0, <1>15, <2>1, EbayToTyped DEF Release
  <2>3. IdemTyped'
    BY <1>15, <1>k DEF Release, KeyStatus
  <2> QED
    BY <1>15, <1>f, <1>l, <1>o, <1>t, <1>x, <1>q, <2>2, <2>3
       DEF Release, unsynced, ebayVars
<1>16. CASE Retry(w)
  <2>1. ListingTyped'
    BY <1>16 DEF Retry, ListingTyped, Listings
  <2> QED
    BY <1>16, <1>f, <1>o, <1>t, <1>i, <1>x, <1>n, <2>1 DEF Retry, unsynced
<1>17. CASE GiveUp(w)
  <2>1. ListingTyped' /\ ToldTyped'
    BY <1>17 DEF GiveUp, Typed, ListingTyped, ToldTyped, Listings
  <2> QED
    BY <1>17, <1>f, <1>o, <1>i, <1>x, <1>a, <2>1 DEF GiveUp, unsynced
<1>19. CASE EbayClaimRefused(w) \/ EbayRunsUnclaimed(w)
  <2>1. EbayTyped'
    BY <1>19, <1>p DEF EbayClaimRefused, EbayRunsUnclaimed
  <2> QED
    BY <1>19, <1>f, <1>l, <1>o, <1>t, <1>q, <1>i, <1>x, <2>1
       DEF EbayClaimRefused, EbayRunsUnclaimed, unsynced, ebayVars
<1>18. CASE EbayDies(w)
  BY <1>18, <1>f, <1>l, <1>o, <1>t, <1>i, <1>n, <1>y DEF EbayDies, ebayVars
<1> QED
  BY <1>1, <1>2, <1>3, <1>4, <1>5, <1>6, <1>7, <1>8, <1>9, <1>10, <1>11,
     <1>12, <1>13, <1>14, <1>15, <1>16, <1>17, <1>18, <1>19 DEF EbayStep, EbaySelects

LEMMA OthersTyped ==
  ASSUME Typed,
         \/ \E c \in Contents : Edit(c)
         \/ Restock \/ Approve \/ Redrive
         \/ \E k \in Keys : ClaimExpires(k)
  PROVE  Typed'
<1>f. /\ BaseTyped' /\ QueueTyped' /\ IdemTyped'
      /\ UNCHANGED <<fetchVars, draft, ebayVars, poller, ai, ebay, failures>>
      => Typed'
  BY DEF Typed, fetchVars, ebayVars, FetchTyped, DraftTyped, ListingTyped,
         OfferTyped, ToldTyped, PollerTyped, AiTyped, EbayTyped, FailuresTyped
<1>b. UNCHANGED merchantVars => BaseTyped'
  BY DEF Typed, BaseTyped, merchantVars
<1>q. UNCHANGED queue => QueueTyped'
  BY DEF Typed, QueueTyped
<1>i. UNCHANGED idem => IdemTyped'
  BY DEF Typed, IdemTyped
<1>1. ASSUME NEW c \in Contents, Edit(c)
      PROVE  Typed'
  <2>1. BaseTyped'
    BY <1>1, ContentSyncAssumption DEF Edit, Typed, BaseTyped, Item, Seqs
  <2> QED
    BY <1>1, <1>f, <1>q, <1>i, <2>1 DEF Edit
<1>2. CASE Restock
  <2>1. BaseTyped'
    BY <1>2, ContentSyncAssumption DEF Restock, Typed, BaseTyped, Item, Seqs
  <2> QED
    BY <1>2, <1>f, <1>q, <1>i, <2>1 DEF Restock
<1>3. CASE Approve
  <2>1. BaseTyped' /\ QueueTyped'
    BY <1>3, QueueSteps, ContentSyncAssumption
       DEF Approve, Typed, BaseTyped, QueueTyped, Types
  <2> QED
    BY <1>3, <1>f, <1>i, <2>1 DEF Approve
<1>4. CASE Redrive
  <2> DEFINE n   == queue["ai_generate"][0] + queue["ai_generate"][MaxReceive]
             one == [queue EXCEPT !["ai_generate"][0] = n]
  <2>1. n \in Nat /\ "ai_generate" \in Types /\ 0 \in 0..MaxReceive
           /\ MaxReceive \in 0..MaxReceive
    BY ContentSyncAssumption DEF Typed, QueueTyped, Queues, Types
  <2>2. queue' = [one EXCEPT !["ai_generate"][MaxReceive] = 0]
    BY <1>4 DEF Redrive, DeadLetters
  <2> HIDE DEF n
  <2>3. one \in Queues
    BY <2>1 DEF Typed, QueueTyped, Queues
  <2> HIDE DEF one
  <2>4. QueueTyped'
    BY <2>1, <2>2, <2>3 DEF QueueTyped, Queues
  <2> QED
    BY <1>4, <1>f, <1>b, <1>i, <2>4 DEF Redrive
<1>5. ASSUME NEW k \in Keys, ClaimExpires(k)
      PROVE  Typed'
  <2>1. IdemTyped'
    BY <1>5 DEF ClaimExpires, Typed, IdemTyped, KeyStatus
  <2> QED
    BY <1>5, <1>f, <1>b, <1>q, <2>1 DEF ClaimExpires
<1> QED
  BY <1>1, <1>2, <1>3, <1>4, <1>5

LEMMA StutterTyped == Typed /\ UNCHANGED vars => Typed'
  BY DEF Typed, vars, merchantVars, fetchVars, ebayVars, BaseTyped, FetchTyped,
         DraftTyped, ListingTyped, OfferTyped, ToldTyped, QueueTyped, IdemTyped,
         PollerTyped, AiTyped, EbayTyped, FailuresTyped

LEMMA NextTyped == Typed /\ [Next]_vars => Typed'
  BY PollStepTyped, AiStepTyped, EbayStepTyped, OthersTyped, StutterTyped
     DEF Next

\* Every variable of the pipeline keeps its type; the inventory version stays
\* behind the sequence of the report it was last written with.
THEOREM TypeCorrect == Spec => []TypeOK
<1>1. Spec => []Typed
  BY InitTyped, NextTyped, PTL DEF Spec
<1> QED
  BY <1>1, TypedIsTypeOK, PTL

------------------------------------------------------------------------------
(***************************************************************************)
(* CoherentOffer                                                           *)
(***************************************************************************)

\* Between the check of the draft and the call, the worker holds a text and
\* images of one content.
Coherent ==
  /\ CoherentOffer
  /\ \A w \in EbayWorkers :
       ebay[w].pc \in {"stock", "call"} => ebay[w].title = ebay[w].images

LEMMA CoherentNext == Typed /\ Coherent /\ [Next]_vars => Coherent'
<1> SUFFICES ASSUME Typed, Coherent, [Next]_vars PROVE Coherent'
  OBVIOUS
<1>0. ebay \in [EbayWorkers -> EbayLocals]
  BY DEF Typed, EbayTyped
<1>1. CASE UNCHANGED <<offer, ebay>>
  BY <1>1 DEF Coherent, CoherentOffer
<1>2. ASSUME NEW w \in EbayWorkers, NEW locals,
             EbayTo(w, locals),
             locals.pc \in {"stock", "call"} => locals.title = locals.images,
             CoherentOffer'
      PROVE  Coherent'
  BY <1>0, <1>2 DEF Coherent, EbayTo
<1>3. ASSUME NEW w \in EbayWorkers, EbayStep(w) \/ EbayDies(w)
      PROVE  Coherent'
  <2> DEFINE l == ebay[w]
  <2>0. l \in EbayLocals
    BY <1>0
  <2>i. IdleEbay.pc = "idle"
    BY DEF IdleEbay
  <2>1. ASSUME NEW pc \in {"select", "product", "complete"}, Step(w, pc),
               UNCHANGED offer
        PROVE  Coherent'
    <3>1. [l EXCEPT !.pc = pc].pc = pc
      BY <2>0 DEF EbayLocals
    <3> QED
      BY <1>2, <2>1, <3>1 DEF Step, Coherent, CoherentOffer
  <2>2. ASSUME NEW pc \in {"record", "fail"}, NEW error, Forget(w, pc, error),
               CoherentOffer'
        PROVE  Coherent'
    <3>1. [l EXCEPT !.pc = pc, !.error = error, !.images = FirstContent,
                    !.title = FirstContent, !.stock = 1].pc = pc
      BY <2>0 DEF EbayLocals
    <3> QED
      BY <1>2, <2>2, <3>1 DEF Forget
  <2>3. (EbayAck(w) \/ EbayNack(w)) /\ UNCHANGED offer => Coherent'
    BY <1>2, <2>i DEF EbayAck, EbayNack, Coherent, CoherentOffer
  <2>4. ASSUME NEW type, NEW r, EbayReceive(w, type, r)
        PROVE  Coherent'
    <3> DEFINE new == [IdleEbay EXCEPT
                         !.pc = IF type = "ebay_publish" THEN "claim"
                                ELSE "version",
                         !.type = type, !.receives = r + 1, !.content = product]
    <3>1. new.pc \notin {"stock", "call"}
      BY DEF IdleEbay
    <3>2. CoherentOffer' /\ EbayTo(w, new)
      BY <2>4 DEF EbayReceive, ebayVars, Coherent, CoherentOffer
    <3> HIDE DEF new
    <3> QED
      BY <1>2, <3>1, <3>2
  <2>5. CASE ReadVersion(w)
    <3>1. [l EXCEPT !.pc = "claim", !.version = master.version].pc = "claim"
      BY <2>0 DEF EbayLocals
    <3> QED
      BY <1>2, <2>5, <3>1 DEF ReadVersion, ebayVars, Coherent, CoherentOffer
  <2>6. CASE LookupThrows(w) \/ Release(w)
    <3>1. /\ [l EXCEPT !.pc = "caught", !.error = "failed",
                       !.content = FirstContent, !.version = 0].pc = "caught"
          /\ [l EXCEPT !.pc = "caught", !.content = FirstContent,
                       !.version = 0].pc = "caught"
      BY <2>0 DEF EbayLocals
    <3> QED
      BY <1>2, <2>6, <3>1
         DEF LookupThrows, Release, ebayVars, Coherent, CoherentOffer
  <2>7. CASE ReadProduct(w)
    <3>1. [l EXCEPT !.pc = "draft", !.images = product].pc = "draft"
      BY <2>0 DEF EbayLocals
    <3> QED
      BY <1>2, <2>7, <3>1 DEF ReadProduct, ebayVars, Coherent, CoherentOffer
  <2>8. CASE TakeDraft(w)
    <3> DEFINE new == [l EXCEPT !.pc = "stock", !.title = draft]
    <3>1. new.title = draft /\ new.images = l.images /\ draft = l.images
      BY <2>0, <2>8 DEF TakeDraft, EbayLocals
    <3>2. CoherentOffer' /\ EbayTo(w, new)
      BY <2>8 DEF TakeDraft, ebayVars, Coherent, CoherentOffer
    <3> HIDE DEF new
    <3> QED
      BY <1>2, <3>1, <3>2
  <2>9. CASE RefuseDraft(w)
    <3>1. [l EXCEPT !.pc = "fail", !.error = "stale"].pc = "fail"
      BY <2>0 DEF EbayLocals
    <3> QED
      BY <1>2, <2>9, <3>1 DEF RefuseDraft, ebayVars, Coherent, CoherentOffer
  <2>10. CASE ReadStock(w)
    <3> DEFINE new == [l EXCEPT !.pc = "call", !.stock = master.seq]
    <3>1. new.title = l.title /\ new.images = l.images /\ l.pc = "stock"
      BY <2>0, <2>10 DEF ReadStock, EbayLocals
    <3>2. CoherentOffer' /\ EbayTo(w, new)
      BY <2>10 DEF ReadStock, ebayVars, Coherent, CoherentOffer
    <3> HIDE DEF new
    <3> QED
      BY <1>2, <3>1, <3>2 DEF Coherent
  <2>11. CASE CallEbay(w)
    <3>1. CoherentOffer'
      BY <2>11 DEF CallEbay, Coherent, CoherentOffer
    <3> QED
      BY <2>2, <2>11, <3>1 DEF CallEbay
  <2>12. CASE \/ EbayClaims(w) \/ EbayClaimRefused(w)
              \/ EbayRunsUnclaimed(w) \/ Record(w)
    BY <2>1, <2>12
       DEF EbayClaims, EbayClaimRefused, EbayRunsUnclaimed, Record, ebayVars
  <2>13. CASE Throws(w) \/ \E error \in {"quota", "seller"} : Refused(w, error)
    BY <2>2, <2>13 DEF Throws, Refused, ebayVars, Coherent, CoherentOffer
  <2>14. CASE \/ EbayReplays(w) \/ EbayBusy(w) \/ EbayCompletes(w)
              \/ Retry(w) \/ GiveUp(w) \/ EbayDies(w)
    BY <2>3, <2>14
       DEF EbayReplays, EbayBusy, EbayCompletes, Retry, GiveUp, EbayDies,
           ebayVars
  <2> QED
    BY <1>3, <2>4, <2>5, <2>6, <2>7, <2>8, <2>9, <2>10, <2>11, <2>12, <2>13,
       <2>14 DEF EbayStep, EbaySelects
<1>4. ASSUME NEW p \in Pollers, PollStep(p) \/ PollDies(p)
      PROVE  UNCHANGED <<offer, ebay>>
  BY <1>4 DEF PollStep, PollDies, Fetch, ReadRow, Report, Propagate, Change,
              ListJobs, MarkSent, Send, SendFails, unpolled, ebayVars
<1>5. ASSUME NEW a \in AiWorkers, AiStep(a) \/ AiDies(a)
      PROVE  UNCHANGED <<offer, ebay>>
  BY <1>5 DEF AiStep, AiSelects, AiDies, AiReceive, AiClaims, AiClaimRefused, AiReplays,
              AiBusy, AiRunsUnclaimed, Generate, InsertListing, AiCompletes,
              AiThrows, AiRefused, ungenerated, ebayVars
<1>6. ASSUME \/ \E c \in Contents : Edit(c)
             \/ Restock \/ Approve \/ Redrive
             \/ \E k \in Keys : ClaimExpires(k)
             \/ UNCHANGED vars
      PROVE  UNCHANGED <<offer, ebay>>
  BY <1>6 DEF Edit, Restock, Approve, Redrive, ClaimExpires, vars, ebayVars
<1> QED
  BY <1>1, <1>3, <1>4, <1>5, <1>6 DEF Next

\* Whatever the number of polls, generations and syncs that overlap, eBay never
\* shows the text of one content with the images of another.
THEOREM CoherentOfferHolds == Spec => []CoherentOffer
<1>1. Init => Coherent
  BY DEF Init, Coherent, CoherentOffer, IdleEbay
<1>2. Spec => [](Typed /\ Coherent)
  BY <1>1, InitTyped, NextTyped, CoherentNext, PTL DEF Spec
<1>3. Coherent => CoherentOffer
  BY DEF Coherent
<1> QED
  BY <1>2, <1>3, PTL

------------------------------------------------------------------------------
(***************************************************************************)
(* The claims                                                              *)
(*                                                                         *)
(* A step of a worker does one of three things to a key: nothing, it comes *)
(* under one that may be claimed, with or without writing the claim, or it *)
(* leaves the one it is under.                                             *)
(***************************************************************************)

EbaySame(w) == \A v \in EbayWorkers : v # w => ebay'[v] = ebay[v]
EbayKeeps(w) ==
  /\ idem' = idem
  /\ ebay'[w].pc \in Claimed
     => ebay[w].pc \in Claimed /\ EbayKey(w)' = EbayKey(w)
EbayEnters(w) ==
  /\ ebay[w].pc \notin Claimed /\ ebay'[w].pc \in Claimed
  /\ EbayKey(w)' = EbayKey(w) /\ Claimable(EbayKey(w))
  /\ idem' = idem \/ idem' = [idem EXCEPT ![EbayKey(w)] = "in_progress"]
EbayGives(w) ==
  /\ ebay[w].pc \in Claimed /\ ebay'[w].pc \notin Claimed
  /\ \E s \in {"completed", "failed"} : idem' = [idem EXCEPT ![EbayKey(w)] = s]

AiSame(a) == \A b \in AiWorkers : b # a => ai'[b] = ai[b]
AiKeeps(a) ==
  /\ idem' = idem
  /\ ai'[a].pc \in Claimed => ai[a].pc \in Claimed /\ AiKey(a)' = AiKey(a)
AiEnters(a) ==
  /\ ai[a].pc \notin Claimed /\ ai'[a].pc \in Claimed
  /\ AiKey(a)' = AiKey(a) /\ Claimable(AiKey(a))
  /\ idem' = idem \/ idem' = [idem EXCEPT ![AiKey(a)] = "in_progress"]
AiGives(a) ==
  /\ ai[a].pc \in Claimed /\ ai'[a].pc \notin Claimed
  /\ \E s \in {"completed", "failed"} : idem' = [idem EXCEPT ![AiKey(a)] = s]

LEMMA EbayClaimSteps ==
  ASSUME Typed, NEW w \in EbayWorkers, EbayStep(w) \/ EbayDies(w)
  PROVE  /\ ai' = ai /\ EbaySame(w)
         /\ EbayKeeps(w) \/ EbayEnters(w) \/ EbayGives(w)
<1> DEFINE l == ebay[w]
<1>0. ebay \in [EbayWorkers -> EbayLocals] /\ l \in EbayLocals
  BY DEF Typed, EbayTyped
<1>i. IdleEbay.pc \notin Claimed
  BY DEF IdleEbay, Claimed
<1>1. ASSUME NEW new, EbayTo(w, new)
      PROVE  EbaySame(w) /\ ebay'[w] = new
  BY <1>0, <1>1 DEF EbayTo, EbaySame
<1>2. ASSUME NEW new, EbayTo(w, new), idem' = idem,
             new.pc \in Claimed =>
               /\ l.pc \in Claimed
               /\ new.type = l.type /\ new.content = l.content
               /\ new.version = l.version
      PROVE  EbaySame(w) /\ EbayKeeps(w)
  BY <1>1, <1>2 DEF EbayKeeps, EbayKey
<1>3. ai' = ai
  BY DEF EbayStep, EbaySelects, EbayDies, EbayReceive, ReadVersion, LookupThrows, EbayClaims,
         EbayClaimRefused, EbayReplays, EbayBusy, EbayRunsUnclaimed, ReadProduct,
         TakeDraft, RefuseDraft, ReadStock, CallEbay, Record, EbayCompletes, Throws, Refused, Release, Retry,
         GiveUp, unsynced
<1>g. ASSUME NEW pc \in {"record", "fail"}, NEW error, Forget(w, pc, error),
             idem' = idem, l.pc \in Claimed
      PROVE  EbaySame(w) /\ EbayKeeps(w)
  <2> DEFINE new == [l EXCEPT !.pc = pc, !.error = error,
                              !.images = FirstContent, !.title = FirstContent,
                              !.stock = 1]
  <2>1. /\ new.type = l.type /\ new.content = l.content
        /\ new.version = l.version
    BY <1>0 DEF EbayLocals
  <2>2. EbayTo(w, new)
    BY <1>g DEF Forget
  <2> HIDE DEF new
  <2> QED
    BY <1>2, <1>g, <2>1, <2>2
<1>4. ASSUME NEW type, NEW r, EbayReceive(w, type, r)
      PROVE  EbaySame(w) /\ EbayKeeps(w)
  <2> DEFINE new == [IdleEbay EXCEPT
                       !.pc = IF type = "ebay_publish" THEN "claim"
                              ELSE "version",
                       !.type = type, !.receives = r + 1, !.content = product]
  <2>1. new.pc \notin Claimed
    BY DEF IdleEbay, Claimed
  <2>2. EbayTo(w, new) /\ idem' = idem
    BY <1>4 DEF EbayReceive
  <2> HIDE DEF new
  <2> QED
    BY <1>2, <2>1, <2>2
<1>5. CASE ReadVersion(w)
  <2>1. [l EXCEPT !.pc = "claim", !.version = master.version].pc \notin Claimed
    BY <1>0 DEF EbayLocals, Claimed
  <2> QED
    BY <1>2, <1>3, <1>5, <2>1 DEF ReadVersion
<1>6. CASE LookupThrows(w)
  <2>1. [l EXCEPT !.pc = "caught", !.error = "failed",
                  !.content = FirstContent, !.version = 0].pc \notin Claimed
    BY <1>0 DEF EbayLocals, Claimed
  <2> QED
    BY <1>2, <1>3, <1>6, <2>1 DEF LookupThrows
<1>7. CASE EbayClaims(w) \/ (l.pc = "select" /\ EbayRunsUnclaimed(w))
  <2> DEFINE new == [l EXCEPT !.pc = "product"]
  <2>1. /\ new.type = l.type /\ new.content = l.content
        /\ new.version = l.version /\ new.pc \in Claimed
    BY <1>0 DEF EbayLocals, Claimed
  <2>2. EbayTo(w, new)
    BY <1>7 DEF EbayClaims, EbayRunsUnclaimed, Step
  <2> HIDE DEF new
  <2>3. EbaySame(w) /\ EbayKey(w)' = EbayKey(w) /\ ebay'[w].pc \in Claimed
    BY <1>1, <2>1, <2>2 DEF EbayKey
  <2> QED
    BY <1>3, <1>7, <2>3
       DEF EbayClaims, EbayRunsUnclaimed, EbayEnters, Claimable, Claimed
<1>17. CASE EbayClaimRefused(w)
  <2>1. [l EXCEPT !.pc = "select"].pc \notin Claimed
    BY <1>0 DEF EbayLocals, Claimed
  <2> QED
    BY <1>2, <1>3, <1>17, <2>1 DEF EbayClaimRefused, Step
<1>8. CASE ReadProduct(w)
  <2> DEFINE new == [l EXCEPT !.pc = "draft", !.images = product]
  <2>1. /\ new.type = l.type /\ new.content = l.content
        /\ new.version = l.version
    BY <1>0 DEF EbayLocals
  <2>2. EbayTo(w, new) /\ idem' = idem /\ l.pc \in Claimed
    BY <1>8 DEF ReadProduct, Claimed
  <2> HIDE DEF new
  <2> QED
    BY <1>2, <1>3, <2>1, <2>2
<1>9. CASE TakeDraft(w)
  <2> DEFINE new == [l EXCEPT !.pc = "stock", !.title = draft]
  <2>1. /\ new.type = l.type /\ new.content = l.content
        /\ new.version = l.version
    BY <1>0 DEF EbayLocals
  <2>2. EbayTo(w, new) /\ idem' = idem /\ l.pc \in Claimed
    BY <1>9 DEF TakeDraft, Claimed
  <2> HIDE DEF new
  <2> QED
    BY <1>2, <1>3, <2>1, <2>2
<1>10. CASE RefuseDraft(w)
  <2> DEFINE new == [l EXCEPT !.pc = "fail", !.error = "stale"]
  <2>1. /\ new.type = l.type /\ new.content = l.content
        /\ new.version = l.version
    BY <1>0 DEF EbayLocals
  <2>2. EbayTo(w, new) /\ idem' = idem /\ l.pc \in Claimed
    BY <1>10 DEF RefuseDraft, Claimed
  <2> HIDE DEF new
  <2> QED
    BY <1>2, <1>3, <2>1, <2>2
<1>11. CASE ReadStock(w)
  <2> DEFINE new == [l EXCEPT !.pc = "call", !.stock = master.seq]
  <2>1. /\ new.type = l.type /\ new.content = l.content
        /\ new.version = l.version
    BY <1>0 DEF EbayLocals
  <2>2. EbayTo(w, new) /\ idem' = idem /\ l.pc \in Claimed
    BY <1>11 DEF ReadStock, Claimed
  <2> HIDE DEF new
  <2> QED
    BY <1>2, <1>3, <2>1, <2>2
<1>12. CASE Record(w)
  <2> DEFINE new == [l EXCEPT !.pc = "complete"]
  <2>1. /\ new.type = l.type /\ new.content = l.content
        /\ new.version = l.version
    BY <1>0 DEF EbayLocals
  <2>2. EbayTo(w, new) /\ idem' = idem /\ l.pc \in Claimed
    BY <1>12 DEF Record, Step, Claimed
  <2> HIDE DEF new
  <2> QED
    BY <1>2, <1>3, <2>1, <2>2
<1>13. CASE \/ CallEbay(w) \/ Throws(w)
            \/ \E error \in {"quota", "seller"} : Refused(w, error)
  BY <1>3, <1>g, <1>13 DEF CallEbay, Throws, Refused, Claimed
<1>14. CASE EbayCompletes(w)
  BY <1>1, <1>3, <1>i, <1>14
     DEF EbayCompletes, EbayAck, EbayGives, KeyStatus, Claimed
<1>15. CASE Release(w)
  <2>1. [l EXCEPT !.pc = "caught", !.content = FirstContent,
                  !.version = 0].pc \notin Claimed
    BY <1>0 DEF EbayLocals, Claimed
  <2>2. l.pc \in Claimed
    BY <1>15 DEF Release, Claimed
  <2> QED
    BY <1>1, <1>3, <1>15, <2>1, <2>2 DEF Release, EbayGives, KeyStatus
<1>16. CASE \/ EbayReplays(w) \/ EbayBusy(w) \/ Retry(w) \/ GiveUp(w)
            \/ EbayDies(w)
  BY <1>2, <1>3, <1>i, <1>16
     DEF EbayReplays, EbayBusy, Retry, GiveUp, EbayDies, EbayAck, EbayNack
<1> QED
  BY <1>3, <1>4, <1>5, <1>6, <1>7, <1>8, <1>9, <1>10, <1>11, <1>12, <1>13,
     <1>14, <1>15, <1>16, <1>17 DEF EbayStep, EbaySelects

LEMMA AiClaimSteps ==
  ASSUME Typed, NEW a \in AiWorkers, AiStep(a) \/ AiDies(a)
  PROVE  /\ ebay' = ebay /\ AiSame(a)
         /\ AiKeeps(a) \/ AiEnters(a) \/ AiGives(a)
<1> DEFINE l == ai[a]
<1>0. ai \in [AiWorkers -> AiLocals] /\ l \in AiLocals
  BY DEF Typed, AiTyped
<1>i. IdleAi.pc \notin Claimed
  BY DEF IdleAi, Claimed
<1>1. ASSUME NEW new, AiTo(a, new)
      PROVE  AiSame(a) /\ ai'[a] = new
  BY <1>0, <1>1 DEF AiTo, AiSame
<1>2. \A pc \in {"select", "generate", "row", "complete"} :
        AiTo(a, [l EXCEPT !.pc = pc]) => AiKey(a)' = AiKey(a)
  <2>1. \A pc : [l EXCEPT !.pc = pc].content = l.content
    BY <1>0 DEF AiLocals
  <2> QED
    BY <1>1, <2>1 DEF AiKey
<1>3. ebay' = ebay
  BY DEF AiStep, AiSelects, AiDies, AiReceive, AiClaims, AiClaimRefused, AiReplays, AiBusy,
         AiRunsUnclaimed, Generate, InsertListing, AiCompletes, AiThrows,
         AiRefused, ungenerated
<1>4. ASSUME NEW r, AiReceive(a, r)
      PROVE  AiSame(a) /\ AiKeeps(a)
  <2>1. ai'[a].pc = "claim"
    BY <1>1, <1>4 DEF AiReceive
  <2> QED
    BY <1>1, <1>4, <2>1 DEF AiReceive, AiKeeps, Claimed
<1>5. CASE AiClaims(a) \/ (l.pc = "select" /\ AiRunsUnclaimed(a))
  <2>1. ai'[a].pc = "generate"
    BY <1>0, <1>1, <1>5 DEF AiClaims, AiRunsUnclaimed, AiLocals
  <2>2. AiSame(a) /\ AiKey(a)' = AiKey(a)
    BY <1>1, <1>2, <1>5 DEF AiClaims, AiRunsUnclaimed
  <2> QED
    BY <1>3, <1>5, <2>1, <2>2
       DEF AiClaims, AiRunsUnclaimed, AiEnters, Claimable, Claimed
<1>9. CASE AiClaimRefused(a)
  <2>1. ai'[a].pc = "select"
    BY <1>0, <1>1, <1>9 DEF AiClaimRefused, AiLocals
  <2> QED
    BY <1>1, <1>3, <1>9, <2>1 DEF AiClaimRefused, AiKeeps, Claimed
<1>6. CASE Generate(a) \/ InsertListing(a)
  BY <1>1, <1>2, <1>3, <1>6 DEF Generate, InsertListing, AiKeeps, Claimed
<1>7. CASE AiCompletes(a) \/ AiThrows(a) \/ AiRefused(a)
  BY <1>1, <1>3, <1>i, <1>7
     DEF AiCompletes, AiThrows, AiRefused, AiAck, AiNack, AiGives, KeyStatus,
         Claimed
<1>8. CASE AiReplays(a) \/ AiBusy(a) \/ AiDies(a)
  BY <1>1, <1>3, <1>i, <1>8
     DEF AiReplays, AiBusy, AiDies, AiAck, AiNack, AiKeeps
<1> QED
  BY <1>3, <1>4, <1>5, <1>6, <1>7, <1>8, <1>9 DEF AiStep, AiSelects

\* The other steps leave every worker where it is, and the keys as they are
\* but for the expiry of one that nobody holds.
LEMMA OtherClaimSteps ==
  ASSUME [Next]_vars,
         ~ \E w \in EbayWorkers : EbayStep(w) \/ EbayDies(w),
         ~ \E a \in AiWorkers : AiStep(a) \/ AiDies(a)
  PROVE  /\ UNCHANGED <<ai, ebay>>
         /\ idem' = idem \/ \E k \in Keys : ClaimExpires(k)
<1>1. ASSUME NEW p \in Pollers, PollStep(p) \/ PollDies(p)
      PROVE  UNCHANGED <<ai, ebay, idem>>
  BY <1>1 DEF PollStep, PollDies, Fetch, ReadRow, Report, Propagate, Change,
              ListJobs, MarkSent, Send, SendFails, unpolled
<1>2. ASSUME \/ \E c \in Contents : Edit(c)
             \/ Restock \/ Approve \/ Redrive \/ UNCHANGED vars
      PROVE  UNCHANGED <<ai, ebay, idem>>
  BY <1>2 DEF Edit, Restock, Approve, Redrive, vars
<1>3. ASSUME NEW k \in Keys, ClaimExpires(k)
      PROVE  UNCHANGED <<ai, ebay>>
  BY <1>3 DEF ClaimExpires
<1> QED
  BY <1>1, <1>2, <1>3 DEF Next

------------------------------------------------------------------------------
(***************************************************************************)
(* The idempotency guard                                                   *)
(*                                                                         *)
(* A worker that enters was under no key and the key was nobody's. One     *)
(* that leaves stores the result, gives the key back or leaves it as it    *)
(* is, whoever else is under it.                                           *)
(***************************************************************************)

LEMMA KeyFamilies ==
  ASSUME Typed
  PROVE  /\ \A a \in AiWorkers : AiKey(a) \in AiKeys
         /\ \A w \in EbayWorkers : EbayKey(w) \in EbayKeys
         /\ AiKeys \subseteq Keys /\ EbayKeys \subseteq Keys
         /\ AiKeys \cap EbayKeys = {}
<1>1. \A a \in AiWorkers : AiKey(a) \in AiKeys
  BY KeysTyped DEF Typed, AiKeys, AiKey
<1>2. \A w \in EbayWorkers : EbayKey(w) \in EbayKeys
  BY KeysTyped DEF EbayKeys, EbayKey, Typed, EbayTyped, EbayLocals
<1> QED
  BY <1>1, <1>2 DEF AiKeys, EbayKeys

\* What the two guards see.
AiState == [k \in AiKeys |-> KeyIs(k)]
EbayState == [k \in EbayKeys |-> KeyIs(k)]
AiHeld == [a \in AiWorkers |-> AiUnder(a)]
EbayHeld == [w \in EbayWorkers |-> EbayUnder(w)]

LEMMA EbayGuardStep ==
  ASSUME Typed, NEW w \in EbayWorkers, EbayStep(w) \/ EbayDies(w),
         NEW k, k = EbayKey(w)
  PROVE  UNCHANGED AiGuard!vars /\ [EbayGuard!Next]_(EbayGuard!vars)
<1>0. /\ idem \in [Keys -> KeyStatus] /\ k \in EbayKeys /\ k \in Keys
      /\ EbayKeys \subseteq Keys /\ AiKeys \subseteq Keys /\ k \notin AiKeys
  BY KeyFamilies DEF Typed, IdemTyped
<1>1. /\ ai' = ai
      /\ EbayKeeps(w) \/ EbayEnters(w) \/ EbayGives(w)
      /\ \A v \in EbayWorkers : v # w => EbayUnder(v)' = EbayUnder(v)
  BY EbayClaimSteps DEF EbaySame, EbayUnder, EbayKey
<1>3. \A h \in Keys : h # k => idem'[h] = idem[h]
  BY <1>0, <1>1 DEF EbayKeeps, EbayEnters, EbayGives
<1>4. UNCHANGED <<AiState, AiHeld>>
  <2>1. \A h \in AiKeys : KeyIs(h)' = KeyIs(h)
    BY <1>0, <1>3 DEF KeyIs
  <2>2. \A a \in AiWorkers : AiUnder(a)' = AiUnder(a)
    BY <1>1 DEF AiUnder, AiKey
  <2> QED
    BY <2>1, <2>2 DEF AiState, AiHeld
<1>u. UNCHANGED AiGuard!vars
  BY <1>4 DEF AiGuard!vars, AiState, AiHeld
<1>5. EbayState' = [EbayState EXCEPT ![k] = KeyIs(k)']
  <2>1. \A h \in EbayKeys : h # k => KeyIs(h)' = KeyIs(h)
    BY <1>0, <1>3 DEF KeyIs
  <2> QED
    BY <1>0, <2>1 DEF EbayState
<1>6. EbayHeld' = [EbayHeld EXCEPT ![w] = EbayUnder(w)']
  BY <1>1 DEF EbayHeld
<1>7. ASSUME EbayUnder(w)' = EbayUnder(w), KeyIs(k)' = KeyIs(k)
      PROVE  UNCHANGED <<EbayState, EbayHeld>>
  BY <1>0, <1>5, <1>6, <1>7 DEF EbayState, EbayHeld
<1>8. ASSUME ebay[w].pc \in Claimed, ebay'[w].pc \notin Claimed,
             KeyIs(k)' \in {"done", "free", KeyIs(k)}
      PROVE  EbayGuard!Next
  <2>1. EbayUnder(w) = {k} /\ EbayUnder(w)' = {}
    BY <1>8 DEF EbayUnder
  <2>2. EbayState[k] = KeyIs(k)
    BY <1>0 DEF EbayState
  <2>3. k \in EbayHeld[w] /\ EbayGuard!Leave(w, k)
    BY <1>5, <1>8, <1>6, <2>1, <2>2 DEF EbayGuard!Leave, EbayState, EbayHeld
  <2> QED
    BY <2>3 DEF EbayGuard!Next, EbayHeld
<1>9. CASE EbayKeeps(w)
  <2>1. KeyIs(k)' = KeyIs(k)
    BY <1>9 DEF EbayKeeps, KeyIs
  <2>2. CASE ebay'[w].pc \in Claimed \/ ebay[w].pc \notin Claimed
    <3>1. EbayUnder(w)' = EbayUnder(w)
      BY <1>9, <2>2 DEF EbayKeeps, EbayUnder
    <3> QED
      BY <1>7, <1>u, <2>1, <3>1 DEF EbayGuard!vars, EbayState, EbayHeld
  <2> QED
    BY <1>8, <1>9, <1>u, <2>1, <2>2
<1>10. CASE EbayEnters(w)
  <2>1. EbayUnder(w) = {} /\ EbayUnder(w)' = {k}
    BY <1>10 DEF EbayEnters, EbayUnder
  <2>2. KeyIs(k) = "free" /\ KeyIs(k)' \in {"free", "claimed"}
    BY <1>0, <1>10 DEF EbayEnters, KeyIs, Claimable
  <2>5. EbayGuard!Enter(w, k)
    BY <1>0, <1>6, <2>1, <2>2 DEF EbayGuard!Enter, EbayState, EbayHeld
  <2>6. KeyIs(k)' = "free" => UNCHANGED EbayState
    BY <1>0, <1>5, <2>2 DEF EbayState
  <2>3. EbayGuard!Claim(w, k) \/ EbayGuard!Slip(w, k)
    BY <1>5, <2>2, <2>5, <2>6 DEF EbayGuard!Claim, EbayGuard!Slip, EbayState
  <2>4. k \in EbayHeld'[w]
    BY <2>1 DEF EbayHeld
  <2> QED
    BY <1>0, <1>u, <2>3, <2>4 DEF EbayGuard!Next, EbayHeld
<1>11. CASE EbayGives(w)
  <2>1. KeyIs(k)' \in {"done", "free", KeyIs(k)}
    BY <1>0, <1>11 DEF EbayGives, KeyIs
  <2> QED
    BY <1>8, <1>u, <1>11, <2>1 DEF EbayGives
<1> QED
  BY <1>1, <1>9, <1>10, <1>11

LEMMA AiGuardStep ==
  ASSUME Typed, NEW a \in AiWorkers, AiStep(a) \/ AiDies(a),
         NEW k, k = AiKey(a)
  PROVE  UNCHANGED EbayGuard!vars /\ [AiGuard!Next]_(AiGuard!vars)
<1>0. /\ idem \in [Keys -> KeyStatus] /\ k \in AiKeys /\ k \in Keys
      /\ AiKeys \subseteq Keys /\ EbayKeys \subseteq Keys /\ k \notin EbayKeys
  BY KeyFamilies DEF Typed, IdemTyped
<1>1. /\ ebay' = ebay
      /\ AiKeeps(a) \/ AiEnters(a) \/ AiGives(a)
      /\ \A v \in AiWorkers : v # a => AiUnder(v)' = AiUnder(v)
  BY AiClaimSteps DEF AiSame, AiUnder, AiKey
<1>3. \A h \in Keys : h # k => idem'[h] = idem[h]
  BY <1>0, <1>1 DEF AiKeeps, AiEnters, AiGives
<1>4. UNCHANGED <<EbayState, EbayHeld>>
  <2>1. \A h \in EbayKeys : KeyIs(h)' = KeyIs(h)
    BY <1>0, <1>3 DEF KeyIs
  <2>2. \A w \in EbayWorkers : EbayUnder(w)' = EbayUnder(w)
    BY <1>1 DEF EbayUnder, EbayKey
  <2> QED
    BY <2>1, <2>2 DEF EbayState, EbayHeld
<1>u. UNCHANGED EbayGuard!vars
  BY <1>4 DEF EbayGuard!vars, EbayState, EbayHeld
<1>5. AiState' = [AiState EXCEPT ![k] = KeyIs(k)']
  <2>1. \A h \in AiKeys : h # k => KeyIs(h)' = KeyIs(h)
    BY <1>0, <1>3 DEF KeyIs
  <2> QED
    BY <1>0, <2>1 DEF AiState
<1>6. AiHeld' = [AiHeld EXCEPT ![a] = AiUnder(a)']
  BY <1>1 DEF AiHeld
<1>7. ASSUME AiUnder(a)' = AiUnder(a), KeyIs(k)' = KeyIs(k)
      PROVE  UNCHANGED <<AiState, AiHeld>>
  BY <1>0, <1>5, <1>6, <1>7 DEF AiState, AiHeld
<1>8. ASSUME ai[a].pc \in Claimed, ai'[a].pc \notin Claimed,
             KeyIs(k)' \in {"done", "free", KeyIs(k)}
      PROVE  AiGuard!Next
  <2>1. AiUnder(a) = {k} /\ AiUnder(a)' = {}
    BY <1>8 DEF AiUnder
  <2>2. AiState[k] = KeyIs(k)
    BY <1>0 DEF AiState
  <2>3. k \in AiHeld[a] /\ AiGuard!Leave(a, k)
    BY <1>5, <1>8, <1>6, <2>1, <2>2 DEF AiGuard!Leave, AiState, AiHeld
  <2> QED
    BY <2>3 DEF AiGuard!Next, AiHeld
<1>9. CASE AiKeeps(a)
  <2>1. KeyIs(k)' = KeyIs(k)
    BY <1>9 DEF AiKeeps, KeyIs
  <2>2. CASE ai'[a].pc \in Claimed \/ ai[a].pc \notin Claimed
    <3>1. AiUnder(a)' = AiUnder(a)
      BY <1>9, <2>2 DEF AiKeeps, AiUnder
    <3> QED
      BY <1>7, <1>u, <2>1, <3>1 DEF AiGuard!vars, AiState, AiHeld
  <2> QED
    BY <1>8, <1>9, <1>u, <2>1, <2>2
<1>10. CASE AiEnters(a)
  <2>1. AiUnder(a) = {} /\ AiUnder(a)' = {k}
    BY <1>10 DEF AiEnters, AiUnder
  <2>2. KeyIs(k) = "free" /\ KeyIs(k)' \in {"free", "claimed"}
    BY <1>0, <1>10 DEF AiEnters, KeyIs, Claimable
  <2>5. AiGuard!Enter(a, k)
    BY <1>0, <1>6, <2>1, <2>2 DEF AiGuard!Enter, AiState, AiHeld
  <2>6. KeyIs(k)' = "free" => UNCHANGED AiState
    BY <1>0, <1>5, <2>2 DEF AiState
  <2>3. AiGuard!Claim(a, k) \/ AiGuard!Slip(a, k)
    BY <1>5, <2>2, <2>5, <2>6 DEF AiGuard!Claim, AiGuard!Slip, AiState
  <2>4. k \in AiHeld'[a]
    BY <2>1 DEF AiHeld
  <2> QED
    BY <1>0, <1>u, <2>3, <2>4 DEF AiGuard!Next, AiHeld
<1>11. CASE AiGives(a)
  <2>1. KeyIs(k)' \in {"done", "free", KeyIs(k)}
    BY <1>0, <1>11 DEF AiGives, KeyIs
  <2> QED
    BY <1>8, <1>u, <1>11, <2>1 DEF AiGives
<1> QED
  BY <1>1, <1>9, <1>10, <1>11

LEMMA ExpiryGuardStep ==
  ASSUME Typed, NEW k \in Keys, ClaimExpires(k)
  PROVE  [AiGuard!Next]_(AiGuard!vars) /\ [EbayGuard!Next]_(EbayGuard!vars)
<1>0. /\ idem \in [Keys -> KeyStatus]
      /\ AiKeys \subseteq Keys /\ EbayKeys \subseteq Keys
  BY KeyFamilies DEF Typed, IdemTyped
<1>1. /\ UNCHANGED <<AiHeld, EbayHeld>>
      /\ \A h \in Keys : h # k => KeyIs(h)' = KeyIs(h)
      /\ KeyIs(k) = "claimed" /\ KeyIs(k)' = "free" /\ ~Held(k)
  <2>1. UNCHANGED <<ai, ebay>>
    BY DEF ClaimExpires
  <2> QED
    BY <1>0, <2>1 DEF ClaimExpires, KeyIs, AiHeld, EbayHeld, AiUnder, EbayUnder,
                      AiKey, EbayKey
<1>2. [AiGuard!Next]_(AiGuard!vars)
  <2>1. CASE k \in AiKeys
    <3>1. AiState' = [AiState EXCEPT ![k] = "free"]
      BY <1>0, <1>1, <2>1 DEF AiState
    <3>2. AiGuard!Expire(k)
      BY <1>1, <2>1, <3>1 DEF AiGuard!Expire, AiState, AiHeld, AiUnder, Held
    <3> QED
      BY <2>1, <3>2 DEF AiGuard!Next
  <2>2. CASE k \notin AiKeys
    BY <1>0, <1>1, <2>2 DEF AiGuard!vars, AiHeld
  <2> QED
    BY <2>1, <2>2
<1>3. [EbayGuard!Next]_(EbayGuard!vars)
  <2>1. CASE k \in EbayKeys
    <3>1. EbayState' = [EbayState EXCEPT ![k] = "free"]
      BY <1>0, <1>1, <2>1 DEF EbayState
    <3>2. EbayGuard!Expire(k)
      BY <1>1, <2>1, <3>1 DEF EbayGuard!Expire, EbayState, EbayHeld, EbayUnder, Held
    <3> QED
      BY <2>1, <3>2 DEF EbayGuard!Next
  <2>2. CASE k \notin EbayKeys
    BY <1>0, <1>1, <2>2 DEF EbayGuard!vars, EbayHeld
  <2> QED
    BY <2>1, <2>2
<1> QED
  BY <1>2, <1>3

LEMMA NextGuards ==
  Typed /\ [Next]_vars =>
    [AiGuard!Next]_(AiGuard!vars) /\ [EbayGuard!Next]_(EbayGuard!vars)
<1> SUFFICES ASSUME Typed, [Next]_vars
             PROVE  [AiGuard!Next]_(AiGuard!vars) /\ [EbayGuard!Next]_(EbayGuard!vars)
  OBVIOUS
<1>1. CASE UNCHANGED <<ai, ebay, idem>>
  BY <1>1 DEF AiGuard!vars, EbayGuard!vars, KeyIs, AiUnder, EbayUnder, AiKey, EbayKey
<1> QED
  BY <1>1, EbayGuardStep, AiGuardStep, ExpiryGuardStep, OtherClaimSteps

\* The idempotency guard holds for both workers whatever fails: a push or a paid
\* generation is begun only under a key that is nobody's, and no one but an
\* execution under a key stores its result or gives it back (withIdempotency,
\* IdempotencyStore.tryClaim).
THEOREM ImplementsGuardHolds == Spec => ImplementsGuard
<1>1. Init => AiGuard!Init /\ EbayGuard!Init
  <2> SUFFICES ASSUME Init PROVE AiGuard!Init /\ EbayGuard!Init
    OBVIOUS
  <2>1. /\ \A k \in Keys : KeyIs(k) = "free"
        /\ \A a \in AiWorkers : AiUnder(a) = {}
        /\ \A w \in EbayWorkers : EbayUnder(w) = {}
    BY DEF Init, KeyIs, AiUnder, EbayUnder, IdleAi, IdleEbay, Claimed
  <2> QED
    BY <2>1 DEF AiGuard!Init, EbayGuard!Init, AiKeys, EbayKeys
<1>2. Spec => []Typed
  BY InitTyped, NextTyped, PTL DEF Spec
<1> QED
  BY <1>1, <1>2, NextGuards, PTL
     DEF Spec, ImplementsGuard, AiGuard!Spec, EbayGuard!Spec

==============================================================================
