----------------------------- MODULE ContentSync -----------------------------
(***************************************************************************)
(* How a change of one BASE product reaches its eBay listing:              *)
(*                                                                         *)
(*   - product-fetch polls BASE, writes what changed into product_master   *)
(*     and inventory_master and leaves a row in sync_jobs (the outbox) if  *)
(*     the listing is "published"; the end of each poll sends the rows     *)
(*     that were not sent yet;                                             *)
(*   - ebay-sync-worker takes the messages, claims a key built from the    *)
(*     content and the inventory version it has just read, refuses a draft *)
(*     written for other content and asks for a new one, calls eBay and    *)
(*     records the outcome;                                                *)
(*   - ai-generate-worker writes the drafts, one paid model call each, and *)
(*     a human approves the first publication.                             *)
(*                                                                         *)
(* Messages carry a type and the product, never its content, so a queue is *)
(* a count per type and ApproximateReceiveCount. Content is a number; the  *)
(* stock is identified by the BASE sequence it was reported with.          *)
(***************************************************************************)
EXTENDS Integers

CONSTANTS
  Pollers,       \* executions of product-fetch
  AiWorkers,     \* executions of ai-generate-worker
  EbayWorkers,   \* executions of ebay-sync-worker
  Contents,      \* the contents (title, description, price, images), as they
                 \* come up; a lower number restores an earlier one
  FirstContent,  \* the one it was onboarded with
  MaxReceive,    \* SQS maxReceiveCount
  MaxEdits,      \* bound on the merchant's changes on BASE
  MaxApprovals,  \* bound on the human's clicks on "approve"
  MaxFailures,   \* bound on what fails: a call that throws, an execution that dies
  Environment    \* what else may happen

(***************************************************************************)
(* What else may happen, switched on by name:                              *)
(*   restock   the merchant changes the stock and nothing else             *)
(*   revert    an edit may restore an earlier content                      *)
(*   ttl       a claim's 24 hours run out                                  *)
(*   redrive   the dlq-redrive schedule runs                               *)
(***************************************************************************)
Happenings == {"restock", "revert", "ttl", "redrive"}

\* What the environment does only where it is switched on.
SwitchedOn(name) == Environment \cap {name}

NoContent == 0

ASSUME ContentSyncAssumption ==
  /\ Contents \subseteq Nat \ {NoContent}
  /\ FirstContent \in Contents
  /\ MaxReceive \in Nat \ {0}
  /\ MaxEdits \in Nat
  /\ MaxApprovals \in Nat
  /\ MaxFailures \in Nat
  /\ Environment \subseteq Happenings

VARIABLES
  base,       \* BASE's item: its content and when it was last modified
  product,    \* product_master.content_hash
  master,     \* inventory_master: version and last_base_seq
  jobs,       \* the outbox: the status of each sync_jobs key, or "none"
  draft,      \* sourceContentHash of the latest ai_listing_draft, or NoContent
  listing,    \* status of the eBay row in channel_listings, or "none"
  offer,      \* what eBay shows
  queue,      \* per type and receive count, the messages SQS holds
  idem,       \* the status of each idempotency key
  told,       \* the failures that were recorded and are not retried
  poller, ai, ebay,  \* program counters and locals
  approvals,  \* clicks so far
  failures,   \* what has failed so far
  owed,       \* history: the changes taken while the listing was published
  unsaid      \* history: those whose poll died before their outbox row

merchantVars == <<base, approvals>>
fetchVars == <<product, master, jobs, owed, unsaid>>
ebayVars == <<listing, offer, told>>
vars == <<merchantVars, fetchVars, draft, ebayVars, queue, idem, poller, ai,
          ebay, failures>>

------------------------------------------------------------------------------
Types == {"ai_generate", "ebay_publish", "ebay_update"}
Seqs == 1..(MaxEdits + 1)
Versions == 0..MaxEdits

\* The sync_jobs keys product-fetch writes. The first is the only ai_generate.
AiJob == [kind |-> "ai_generate", id |-> 0]
ContentJob(c) == [kind |-> "content", id |-> c]
StockJob(s) == [kind |-> "stock", id |-> s]
Jobs == {AiJob} \cup {ContentJob(c) : c \in Contents}
                \cup {StockJob(s) : s \in Seqs}

JobType(k) == IF k = AiJob THEN "ai_generate" ELSE "ebay_update"

Keys == [op : Types, content : Contents, version : Versions]
KeyStatus == {"absent", "in_progress", "expired", "completed", "failed"}

Item == [content : Contents, seq : Seqs]

PollerLocals == [pc : {"idle", "row", "report", "propagate", "change", "list",
                       "send", "mark"},
                 item : Item, seen : Contents, todo : SUBSET Jobs, job : Jobs]

\* From tryClaim to its outcome, the steps under withIdempotency.
Claimed == {"generate", "row", "product", "draft", "stock", "call", "record",
            "complete", "fail"}

AiLocals == [pc : {"idle", "claim", "select", "generate", "row", "complete"},
             receives : 0..MaxReceive, content : Contents]

EbayLocals == [pc : {"idle", "version", "claim", "select", "product", "draft",
                     "stock", "call", "record", "complete", "fail", "caught"},
               type : {"ebay_publish", "ebay_update"},
               receives : 0..MaxReceive,
               content : Contents, version : Versions,
               images : Contents, title : Contents, stock : Seqs,
               error : {"none", "failed", "stale", "quota", "seller"}]

IdlePoller == [pc |-> "idle",
               item |-> [content |-> FirstContent, seq |-> 1],
               seen |-> FirstContent, todo |-> {}, job |-> AiJob]
IdleAi == [pc |-> "idle", receives |-> 0, content |-> FirstContent]
IdleEbay == [pc |-> "idle", type |-> "ebay_update", receives |-> 0,
             content |-> FirstContent, version |-> 0, images |-> FirstContent,
             title |-> FirstContent, stock |-> 1, error |-> "none"]

TypeOK ==
  /\ base \in Item
  /\ product \in Contents
  /\ master \in [version : Versions, seq : Seqs]
  /\ jobs \in [Jobs -> {"none", "pending", "completed", "failed"}]
  /\ draft \in Contents \cup {NoContent}
  /\ listing \in {"none", "pending_approval", "published", "error"}
  /\ offer \in [images : Contents \cup {NoContent},
                title : Contents \cup {NoContent}, stock : 0..(MaxEdits + 1)]
  /\ queue \in [Types -> [0..MaxReceive -> Nat]]
  /\ idem \in [Keys -> KeyStatus]
  /\ told \subseteq {"ai_quota", "quota", "seller"}
  /\ poller \in [Pollers -> PollerLocals]
  /\ ai \in [AiWorkers -> AiLocals]
  /\ ebay \in [EbayWorkers -> EbayLocals]
  /\ approvals \in 0..MaxApprovals /\ failures \in 0..MaxFailures
  /\ owed \subseteq Jobs /\ unsaid \subseteq Jobs

\* The item has just been onboarded: one transaction of product-fetch wrote
\* its row, its inventory and the outbox row of its first draft.
Init ==
  /\ base = [content |-> FirstContent, seq |-> 1]
  /\ product = FirstContent
  /\ master = [version |-> 0, seq |-> 1]
  /\ jobs = [k \in Jobs |-> IF k = AiJob THEN "pending" ELSE "none"]
  /\ draft = NoContent
  /\ listing = "none"
  /\ offer = [images |-> NoContent, title |-> NoContent, stock |-> 0]
  /\ queue = [t \in Types |-> [r \in 0..MaxReceive |-> 0]]
  /\ idem = [k \in Keys |-> "absent"]
  /\ told = {}
  /\ poller = [p \in Pollers |-> IdlePoller]
  /\ ai = [a \in AiWorkers |-> IdleAi]
  /\ ebay = [w \in EbayWorkers |-> IdleEbay]
  /\ approvals = 0 /\ failures = 0
  /\ owed = {} /\ unsaid = {}

------------------------------------------------------------------------------
(***************************************************************************)
(* Queues and claims. An operator named Bug... is a definition as a        *)
(* plausible mistake would have it; it stands before the one it would      *)
(* replace and no specification uses it.                                   *)
(***************************************************************************)

Failing == failures < MaxFailures /\ failures' = failures + 1

Enqueued(t) == [queue EXCEPT ![t][0] = @ + 1]

\* A delivery that is not deleted is shown again. One received MaxReceive
\* times is shown to nobody: it is in the DLQ.
Returned(t, receives) == [queue EXCEPT ![t][receives] = @ + 1]
DeadLetters(t) == queue[t][MaxReceive]

Deliver(t, receives) ==
  /\ queue[t][receives] > 0
  /\ queue' = [queue EXCEPT ![t][receives] = @ - 1]

\* Without the clause that spares a completed row.
BugClaimableAgain(k) == idem[k] # "in_progress"

\* The WHERE clause of tryClaim's upsert. If it is refused, a select of its own asks for
\* the status, which may have changed by then.
Claimable(k) == idem[k] \in {"absent", "expired", "failed"}

\* contentHash and the inventory version, for an update; the version keeps
\* two stock changes of one content apart.
EbayKey(w) ==
  [op |-> ebay[w].type, content |-> ebay[w].content,
   version |-> IF ebay[w].type = "ebay_update" THEN ebay[w].version ELSE 0]

AiKey(a) == [op |-> "ai_generate", content |-> ai[a].content, version |-> 0]

\* The keys some running execution works under.
Held(k) ==
  \/ \E a \in AiWorkers : ai[a].pc \in Claimed /\ AiKey(a) = k
  \/ \E w \in EbayWorkers : ebay[w].pc \in Claimed /\ EbayKey(w) = k

\* expiresAt passes. An execution lives for two minutes, a claim for a day.
ClaimExpires(k) ==
  /\ "ttl" \in Environment
  /\ idem[k] = "in_progress"
  /\ ~Held(k)
  /\ idem' = [idem EXCEPT ![k] = "expired"]
  /\ UNCHANGED <<merchantVars, fetchVars, draft, ebayVars, queue, poller, ai,
                 ebay, failures>>

\* redriveDlq moves the AI queue's dead letters back as new messages. eBay's
\* DLQ is left alone: EBAY_SYNC_AUTO_REDRIVE_ENABLED is off.
Redrive ==
  /\ DeadLetters("ai_generate") > 0
  /\ queue' = [queue EXCEPT !["ai_generate"][0] = @ + DeadLetters("ai_generate"),
                            !["ai_generate"][MaxReceive] = 0]
  /\ UNCHANGED <<merchantVars, fetchVars, draft, ebayVars, idem, poller, ai,
                 ebay, failures>>

------------------------------------------------------------------------------
(***************************************************************************)
(* The merchant                                                            *)
(***************************************************************************)

Edit(c) ==
  /\ base.seq <= MaxEdits
  /\ c # base.content
  /\ c > base.content \/ "revert" \in Environment
  /\ base' = [content |-> c, seq |-> base.seq + 1]
  /\ UNCHANGED <<approvals, fetchVars, draft, ebayVars, queue, idem, poller,
                 ai, ebay, failures>>

Restock ==
  /\ "restock" \in Environment
  /\ base.seq <= MaxEdits
  /\ base' = [base EXCEPT !.seq = @ + 1]
  /\ UNCHANGED <<approvals, fetchVars, draft, ebayVars, queue, idem,
                 poller, ai, ebay, failures>>

\* POST .../approve-ebay-listing: 404 without a listing, 409 if published.
Approve ==
  /\ approvals < MaxApprovals
  /\ listing \in {"pending_approval", "error"}
  /\ approvals' = approvals + 1
  /\ queue' = Enqueued("ebay_publish")
  /\ UNCHANGED <<base, fetchVars, draft, ebayVars, idem, poller, ai,
                 ebay, failures>>

------------------------------------------------------------------------------
(***************************************************************************)
(* product-fetch: one poll                                                 *)
(***************************************************************************)

PollTo(p, locals) == poller' = [poller EXCEPT ![p] = locals]
unpolled == <<merchantVars, draft, ebayVars, idem, ai, ebay>>

\* A row whose send failed is not selected again.
BugUnsent == {k \in Jobs : jobs[k] = "pending"}

\* The rows dispatchPendingOutboxJobs selects.
Unsent == {k \in Jobs : jobs[k] \in {"pending", "failed"}}

\* getProduct's answer. The poll of a lone poller that finds BASE as it was and
\* every row sent changes nothing, and is left out.
Fetch(p) ==
  /\ poller[p].pc = "idle"
  /\ \/ base # [content |-> product, seq |-> master.seq]
     \/ Unsent # {}
     \/ Pollers # {p}
  /\ PollTo(p, [IdlePoller EXCEPT !.pc = "row", !.item = base])
  /\ UNCHANGED <<unpolled, failures, fetchVars, queue>>

ReadRow(p) ==
  /\ poller[p].pc = "row"
  /\ PollTo(p, [poller[p] EXCEPT !.pc = "report", !.seen = product])
  /\ UNCHANGED <<unpolled, failures, fetchVars, queue>>

\* The order check of applyBaseStockReport.
Newer(item) == item.seq > master.seq

Owed(k) == IF listing = "published" THEN owed \cup {k} ELSE owed

\* applyBaseStockReport, which StockReports takes apart: a newer sequence is
\* written and raises the version, any other is skipped.
Report(p) ==
  LET item    == poller[p].item
      applied == Newer(item)
      next    == IF poller[p].seen # item.content THEN "change"
                 ELSE IF applied THEN "propagate" ELSE "list"
  IN
  /\ poller[p].pc = "report"
  /\ master' = IF applied
               THEN [version |-> master.version + 1, seq |-> item.seq]
               ELSE master
  /\ owed' = IF next = "propagate" THEN Owed(StockJob(item.seq)) ELSE owed
  /\ PollTo(p, [poller[p] EXCEPT !.pc = next])
  /\ UNCHANGED <<unpolled, failures, product, jobs, unsaid, queue>>

\* insertOutboxJob for a published listing: a key that is there already keeps
\* its row as it is.
Outboxed(k) ==
  IF listing = "published" /\ jobs[k] = "none"
  THEN [jobs EXCEPT ![k] = "pending"] ELSE jobs

\* propagateStockOnlyChangeToOtherChannels, after the report's own commit. A listing
\* that is not published any more is told by its next publication.
Propagate(p) ==
  LET k == StockJob(poller[p].item.seq) IN
  /\ poller[p].pc = "propagate"
  /\ jobs' = Outboxed(k)
  /\ owed' = IF listing = "published" THEN owed ELSE owed \ {k}
  /\ PollTo(p, [poller[p] EXCEPT !.pc = "list"])
  /\ UNCHANGED <<unpolled, failures, product, master, unsaid, queue>>

\* The transaction that updates product_master and writes the outbox row.
Change(p) ==
  LET k == ContentJob(poller[p].item.content) IN
  /\ poller[p].pc = "change"
  /\ product' = poller[p].item.content
  /\ jobs' = Outboxed(k)
  /\ owed' = Owed(k)
  /\ PollTo(p, [poller[p] EXCEPT !.pc = "list"])
  /\ UNCHANGED <<unpolled, failures, master, unsaid, queue>>

\* dispatchPendingOutboxJobs goes on with the rows it has listed.
Dispatching(p, todo) ==
  PollTo(p, IF todo = {} THEN IdlePoller
            ELSE [IdlePoller EXCEPT !.pc = "send", !.todo = todo])

ListJobs(p) ==
  /\ poller[p].pc = "list"
  /\ Dispatching(p, Unsent)
  /\ UNCHANGED <<unpolled, failures, fetchVars, queue>>

Send(p, k) ==
  /\ poller[p].pc = "send"
  /\ k \in poller[p].todo
  /\ queue' = Enqueued(JobType(k))
  /\ PollTo(p, [poller[p] EXCEPT !.pc = "mark", !.job = k])
  /\ UNCHANGED <<unpolled, failures, fetchVars>>

SendFails(p, k) ==
  /\ Failing
  /\ poller[p].pc = "send"
  /\ k \in poller[p].todo
  /\ jobs' = [jobs EXCEPT ![k] = "failed"]
  /\ Dispatching(p, poller[p].todo \ {k})
  /\ UNCHANGED <<unpolled, product, master, owed, unsaid, queue>>

MarkSent(p) ==
  /\ poller[p].pc = "mark"
  /\ jobs' = [jobs EXCEPT ![poller[p].job] = "completed"]
  /\ Dispatching(p, poller[p].todo \ {poller[p].job})
  /\ UNCHANGED <<unpolled, failures, product, master, owed, unsaid, queue>>

\* It dies, or a statement throws and pollTenant's catch ends the poll.
PollDies(p) ==
  /\ Failing
  /\ poller[p].pc # "idle"
  /\ PollTo(p, IdlePoller)
  /\ unsaid' = IF poller[p].pc = "propagate"
               THEN unsaid \cup {StockJob(poller[p].item.seq)} ELSE unsaid
  /\ UNCHANGED <<merchantVars, product, master, jobs, owed, draft, ebayVars, queue,
                 idem, ai, ebay>>

PollStep(p) ==
  \/ Fetch(p) \/ ReadRow(p) \/ Report(p) \/ Propagate(p) \/ Change(p)
  \/ ListJobs(p) \/ MarkSent(p)
  \/ \E k \in Jobs : Send(p, k) \/ SendFails(p, k)

------------------------------------------------------------------------------
(***************************************************************************)
(* ai-generate-worker: one message                                         *)
(***************************************************************************)

AiTo(a, locals) == ai' = [ai EXCEPT ![a] = locals]
AiAck(a) == AiTo(a, IdleAi) /\ UNCHANGED queue
AiNack(a) ==
  /\ queue' = Returned("ai_generate", ai[a].receives)
  /\ AiTo(a, IdleAi)
ungenerated == <<merchantVars, fetchVars, listing, offer, told, poller, ebay>>

AiReceive(a, receives) ==
  /\ ai[a].pc = "idle"
  /\ Deliver("ai_generate", receives)
  /\ AiTo(a, [pc |-> "claim", receives |-> receives + 1, content |-> product])
  /\ UNCHANGED <<ungenerated, failures, draft, idem>>

AiClaims(a) ==
  /\ ai[a].pc = "claim"
  /\ Claimable(AiKey(a))
  /\ idem' = [idem EXCEPT ![AiKey(a)] = "in_progress"]
  /\ AiTo(a, [ai[a] EXCEPT !.pc = "generate"])
  /\ UNCHANGED <<ungenerated, failures, draft, queue>>

AiClaimRefused(a) ==
  /\ ai[a].pc = "claim"
  /\ ~Claimable(AiKey(a))
  /\ AiTo(a, [ai[a] EXCEPT !.pc = "select"])
  /\ UNCHANGED <<ungenerated, failures, draft, queue, idem>>

\* The cached result is returned and no draft is written.
AiReplays(a) ==
  /\ idem[AiKey(a)] = "completed"
  /\ AiAck(a)
  /\ UNCHANGED <<ungenerated, failures, draft, idem>>

AiBusy(a) ==
  /\ idem[AiKey(a)] \in {"in_progress", "expired"}
  /\ AiNack(a)
  /\ UNCHANGED <<ungenerated, failures, draft, idem>>

\* The key was given back meanwhile: the generation runs without a claim.
AiRunsUnclaimed(a) ==
  /\ idem[AiKey(a)] = "failed"
  /\ AiTo(a, [ai[a] EXCEPT !.pc = "generate"])
  /\ UNCHANGED <<ungenerated, failures, draft, queue, idem>>

\* The refused claim's own select, and what it answers.
AiSelects(a) == ai[a].pc = "select" /\ (AiReplays(a) \/ AiBusy(a) \/ AiRunsUnclaimed(a))

\* The model answers and the draft is inserted, the latest now.
Generate(a) ==
  /\ ai[a].pc = "generate"
  /\ draft' = ai[a].content
  /\ AiTo(a, [ai[a] EXCEPT !.pc = "row"])
  /\ UNCHANGED <<ungenerated, failures, queue, idem>>

\* The listing of each other channel, where there is none yet.
InsertListing(a) ==
  /\ ai[a].pc = "row"
  /\ listing' = IF listing = "none" THEN "pending_approval" ELSE listing
  /\ AiTo(a, [ai[a] EXCEPT !.pc = "complete"])
  /\ UNCHANGED <<merchantVars, fetchVars, draft, offer, told, queue, idem,
                 poller, ebay, failures>>

AiCompletes(a) ==
  /\ ai[a].pc = "complete"
  /\ idem' = [idem EXCEPT ![AiKey(a)] = "completed"]
  /\ AiAck(a)
  /\ UNCHANGED <<ungenerated, failures, draft>>

\* The guardrail, the model or a statement throws; the claim is released and
\* the message goes back.
AiThrows(a) ==
  /\ Failing
  /\ ai[a].pc \in {"generate", "row", "complete"}
  /\ idem' = [idem EXCEPT ![AiKey(a)] = "failed"]
  /\ AiNack(a)
  /\ UNCHANGED <<ungenerated, draft>>

\* The month's generations are used up: on record, and not retried.
AiRefused(a) ==
  /\ Failing
  /\ ai[a].pc = "generate"
  /\ idem' = [idem EXCEPT ![AiKey(a)] = "failed"]
  /\ told' = told \cup {"ai_quota"}
  /\ AiAck(a)
  /\ UNCHANGED <<merchantVars, fetchVars, draft, listing, offer, poller, ebay>>

AiDies(a) ==
  /\ Failing
  /\ ai[a].pc # "idle"
  /\ AiNack(a)
  /\ UNCHANGED <<merchantVars, fetchVars, draft, ebayVars, idem, poller, ebay>>

AiStep(a) ==
  \/ \E r \in 0..(MaxReceive - 1) : AiReceive(a, r)
  \/ AiClaims(a) \/ AiClaimRefused(a)
  \/ AiSelects(a)
  \/ Generate(a) \/ InsertListing(a) \/ AiCompletes(a)
  \/ AiThrows(a) \/ AiRefused(a)

------------------------------------------------------------------------------
(***************************************************************************)
(* ebay-sync-worker: one message                                           *)
(***************************************************************************)

EbayTo(w, locals) == ebay' = [ebay EXCEPT ![w] = locals]
Step(w, pc) == EbayTo(w, [ebay[w] EXCEPT !.pc = pc])

\* What publish() and update() have read goes with their scope.
Forget(w, pc, error) ==
  EbayTo(w, [ebay[w] EXCEPT !.pc = pc, !.error = error,
                            !.images = FirstContent, !.title = FirstContent,
                            !.stock = 1])

EbayAck(w) == EbayTo(w, IdleEbay) /\ UNCHANGED queue
EbayNack(w) ==
  /\ queue' = Returned(ebay[w].type, ebay[w].receives)
  /\ EbayTo(w, IdleEbay)
unsynced == <<merchantVars, fetchVars, draft, poller, ai>>

\* The handler reads the product, whose content is half of the key.
EbayReceive(w, type, receives) ==
  /\ ebay[w].pc = "idle"
  /\ Deliver(type, receives)
  /\ EbayTo(w, [IdleEbay EXCEPT
                  !.pc = IF type = "ebay_publish" THEN "claim" ELSE "version",
                  !.type = type, !.receives = receives + 1,
                  !.content = product])
  /\ UNCHANGED <<unsynced, failures, ebayVars, idem>>

ReadVersion(w) ==
  /\ ebay[w].pc = "version"
  /\ EbayTo(w, [ebay[w] EXCEPT !.pc = "claim", !.version = master.version])
  /\ UNCHANGED <<unsynced, failures, ebayVars, queue, idem>>

\* The account, its token, the lookup or tryClaim fails before there is a claim.
LookupThrows(w) ==
  /\ Failing
  /\ ebay[w].pc \in {"version", "claim", "select"}
  /\ EbayTo(w, [ebay[w] EXCEPT !.pc = "caught", !.error = "failed",
                               !.content = FirstContent, !.version = 0])
  /\ UNCHANGED <<unsynced, ebayVars, queue, idem>>

EbayClaims(w) ==
  /\ ebay[w].pc = "claim"
  /\ Claimable(EbayKey(w))
  /\ idem' = [idem EXCEPT ![EbayKey(w)] = "in_progress"]
  /\ Step(w, "product")
  /\ UNCHANGED <<unsynced, failures, ebayVars, queue>>

EbayClaimRefused(w) ==
  /\ ebay[w].pc = "claim"
  /\ ~Claimable(EbayKey(w))
  /\ Step(w, "select")
  /\ UNCHANGED <<unsynced, failures, ebayVars, queue, idem>>

\* The cached result is returned: nothing is pushed, nothing is recorded.
EbayReplays(w) ==
  /\ idem[EbayKey(w)] = "completed"
  /\ EbayAck(w)
  /\ UNCHANGED <<unsynced, failures, ebayVars, idem>>

\* IdempotencyInProgressError: back to the queue, the listing as it was.
EbayBusy(w) ==
  /\ idem[EbayKey(w)] \in {"in_progress", "expired"}
  /\ EbayNack(w)
  /\ UNCHANGED <<unsynced, failures, ebayVars, idem>>

\* The key was given back meanwhile: the push runs without a claim.
EbayRunsUnclaimed(w) ==
  /\ idem[EbayKey(w)] = "failed"
  /\ Step(w, "product")
  /\ UNCHANGED <<unsynced, failures, ebayVars, queue, idem>>

\* The refused claim's own select, and what it answers.
EbaySelects(w) ==
  ebay[w].pc = "select" /\ (EbayReplays(w) \/ EbayBusy(w) \/ EbayRunsUnclaimed(w))

\* publish() and update() read the product again; its images are pushed.
ReadProduct(w) ==
  /\ ebay[w].pc = "product"
  /\ EbayTo(w, [ebay[w] EXCEPT !.pc = "draft", !.images = product])
  /\ UNCHANGED <<unsynced, failures, ebayVars, queue, idem>>

\* The draft's hash is compared with the one the key was built from.
BugTakeDraft(w) ==
  /\ ebay[w].pc = "draft"
  /\ draft = ebay[w].content
  /\ EbayTo(w, [ebay[w] EXCEPT !.pc = "stock", !.title = draft])
  /\ UNCHANGED <<unsynced, failures, ebayVars, queue, idem>>

\* enforceContentConsistency: the latest draft is of this very content.
TakeDraft(w) ==
  /\ ebay[w].pc = "draft"
  /\ draft = ebay[w].images
  /\ EbayTo(w, [ebay[w] EXCEPT !.pc = "stock", !.title = draft])
  /\ UNCHANGED <<unsynced, failures, ebayVars, queue, idem>>

\* It is not: a new one is asked for and this attempt fails.
RefuseDraft(w) ==
  /\ ebay[w].pc = "draft"
  /\ draft # ebay[w].images
  /\ queue' = Enqueued("ai_generate")
  /\ EbayTo(w, [ebay[w] EXCEPT !.pc = "fail", !.error = "stale"])
  /\ UNCHANGED <<unsynced, failures, ebayVars, idem>>

ReadStock(w) ==
  /\ ebay[w].pc = "stock"
  /\ EbayTo(w, [ebay[w] EXCEPT !.pc = "call", !.stock = master.seq])
  /\ UNCHANGED <<unsynced, failures, ebayVars, queue, idem>>

\* createListing or updateListing; both replace the item of this SKU.
CallEbay(w) ==
  /\ ebay[w].pc = "call"
  /\ offer' = [images |-> ebay[w].images, title |-> ebay[w].title,
               stock |-> ebay[w].stock]
  /\ Forget(w, "record", "none")
  /\ UNCHANGED <<unsynced, failures, listing, told, queue, idem>>

Record(w) ==
  /\ ebay[w].pc = "record"
  /\ listing' = "published"
  /\ Step(w, "complete")
  /\ UNCHANGED <<unsynced, failures, offer, told, queue, idem>>

EbayCompletes(w) ==
  /\ ebay[w].pc = "complete"
  /\ idem' = [idem EXCEPT ![EbayKey(w)] = "completed"]
  /\ EbayAck(w)
  /\ UNCHANGED <<unsynced, failures, ebayVars>>

\* Isolation, low confidence, an anomaly, a missing aspect, eBay's answer or
\* a statement after it: every throw under withIdempotency.
Throws(w) ==
  /\ Failing
  /\ ebay[w].pc \in {"product", "draft", "stock", "call", "record", "complete"}
  /\ Forget(w, "fail", "failed")
  /\ UNCHANGED <<unsynced, ebayVars, queue, idem>>

\* The month's syncs are used up, or eBay refuses this seller.
Refused(w, error) ==
  /\ Failing
  /\ ebay[w].pc = "call"
  /\ Forget(w, "fail", error)
  /\ UNCHANGED <<unsynced, ebayVars, queue, idem>>

\* withIdempotency's catch releases the claim and rethrows.
Release(w) ==
  /\ ebay[w].pc = "fail"
  /\ idem' = [idem EXCEPT ![EbayKey(w)] = "failed"]
  /\ EbayTo(w, [ebay[w] EXCEPT !.pc = "caught", !.content = FirstContent,
                               !.version = 0])
  /\ UNCHANGED <<unsynced, failures, ebayVars, queue>>

\* The handler's catch: the listing shows the error, the message goes back.
Retry(w) ==
  /\ ebay[w].pc = "caught"
  /\ ebay[w].error \in {"failed", "stale"}
  /\ listing' = "error"
  /\ EbayNack(w)
  /\ UNCHANGED <<unsynced, failures, offer, told, idem>>

\* A refusal is on record and acknowledged. A live listing out of quota stays
\* "published", so that it is synced again next month.
GiveUp(w) ==
  /\ ebay[w].pc = "caught"
  /\ ebay[w].error \in {"quota", "seller"}
  /\ told' = told \cup {ebay[w].error}
  /\ listing' = IF ebay[w].error = "quota" /\ ebay[w].type = "ebay_update"
                THEN listing ELSE "error"
  /\ EbayAck(w)
  /\ UNCHANGED <<unsynced, failures, offer, idem>>

EbayDies(w) ==
  /\ Failing
  /\ ebay[w].pc # "idle"
  /\ EbayNack(w)
  /\ UNCHANGED <<merchantVars, fetchVars, draft, ebayVars, idem, poller, ai>>

EbayStep(w) ==
  \/ \E t \in {"ebay_publish", "ebay_update"}, r \in 0..(MaxReceive - 1) :
       EbayReceive(w, t, r)
  \/ ReadVersion(w) \/ LookupThrows(w)
  \/ EbayClaims(w) \/ EbayClaimRefused(w)
  \/ EbaySelects(w)
  \/ ReadProduct(w) \/ TakeDraft(w) \/ RefuseDraft(w) \/ ReadStock(w)
  \/ CallEbay(w) \/ Record(w) \/ EbayCompletes(w)
  \/ Throws(w) \/ \E error \in {"quota", "seller"} : Refused(w, error)
  \/ Release(w) \/ Retry(w) \/ GiveUp(w)

------------------------------------------------------------------------------
Next ==
  \/ \E c \in Contents : Edit(c)
  \/ Restock \/ Approve
  \/ \E on \in SwitchedOn("redrive") : Redrive
  \/ \E k \in Keys : ClaimExpires(k)
  \/ \E p \in Pollers : PollStep(p) \/ PollDies(p)
  \/ \E a \in AiWorkers : AiStep(a) \/ AiDies(a)
  \/ \E w \in EbayWorkers : EbayStep(w) \/ EbayDies(w)

Spec == Init /\ [][Next]_vars

\* The schedule polls again and again and SQS invokes a worker while there is
\* a message; a running execution takes its next step or dies.
FairSpec ==
  /\ Spec
  /\ \A p \in Pollers : WF_vars(PollStep(p))
  /\ \A a \in AiWorkers : WF_vars(AiStep(a))
  /\ \A w \in EbayWorkers : WF_vars(EbayStep(w))

------------------------------------------------------------------------------
(***************************************************************************)
(* Properties                                                              *)
(***************************************************************************)

\* An eBay listing never mixes the text of one content with the images of
\* another, however polls, generations and syncs interleave: what
\* enforceContentConsistency is for.
CoherentOffer == offer.title = offer.images

DeadUpdates == DeadLetters("ebay_update") > 0

\* A content is shown, or another has replaced it; a stock is, or a newer one.
Shown(k) ==
  IF k.kind = "content" THEN offer.images = k.id \/ product # k.id
                        ELSE offer.stock >= k.id

\* Every change product-fetch took while the listing was published arrives on
\* eBay in the end, if no other execution of ebay-sync-worker overlaps, or its
\* message is in the DLQ, or a refusal is on record: no change is lost to the key
\* of an earlier, finished update, and only one kind to a dead poll, a change of
\* the stock alone whose poll dies between the report and the outbox row ("Known
\* residual gap", product-fetch), and that only until another change is pushed.
ChangesArrive ==
  []<>( \/ \A k \in owed \ unsaid : Shown(k)
        \/ DeadUpdates
        \/ told # {} )

\* A draft that was refused as stale is regenerated: the comment on
\* enforceContentConsistency says "so a matching draft exists for the *next*
\* attempt".
RegenerationDelivers ==
  \A c \in Contents :
    (\E w \in EbayWorkers : ebay[w].error = "stale" /\ ebay[w].images = c) ~>
      \/ draft = c
      \/ product # c
      \/ DeadLetters("ai_generate") > 0
      \/ "ai_quota" \in told

\* What the idempotency guard promises, as the keys and executions of this
\* product show it: the guard's state of a key, and the key an execution is under.
KeyIs(k) ==
  IF idem[k] = "completed" THEN "done"
  ELSE IF idem[k] = "in_progress" THEN "claimed" ELSE "free"

AiUnder(a) == IF ai[a].pc \in Claimed THEN {AiKey(a)} ELSE {}
EbayUnder(w) == IF ebay[w].pc \in Claimed THEN {EbayKey(w)} ELSE {}

\* The keys the two workers build.
AiKeys == {k \in Keys : k.op = "ai_generate" /\ k.version = 0}
EbayKeys ==
  {k \in Keys : k.op = "ebay_update" \/ (k.op = "ebay_publish" /\ k.version = 0)}

AiGuard == INSTANCE IdempotencyGuard WITH
  Keys <- AiKeys, Runners <- AiWorkers,
  key <- [k \in AiKeys |-> KeyIs(k)], under <- [a \in AiWorkers |-> AiUnder(a)]

EbayGuard == INSTANCE IdempotencyGuard WITH
  Keys <- EbayKeys, Runners <- EbayWorkers,
  key <- [k \in EbayKeys |-> KeyIs(k)],
  under <- [w \in EbayWorkers |-> EbayUnder(w)]

\* The work of both workers is guarded: a push or a paid model call is begun only
\* under a key that is free, a live claim and a completed key keep every other
\* execution out, and no one but those under a key changes it, while messages are
\* redelivered and redriven and claims expire (withIdempotency).
ImplementsGuard == AiGuard!Spec /\ EbayGuard!Spec

==============================================================================
