----------------------------- MODULE DraftReview -----------------------------
(***************************************************************************)
(* One product's AI draft between its writers and eBay:                    *)
(*                                                                         *)
(*   - ai-generate-worker inserts a draft of the content it has read and,  *)
(*     once, the listing's row;                                            *)
(*   - admin-api lets humans correct the latest draft (draft-price,        *)
(*     draft-item-specifics), approve it and apply a computed price        *)
(*     (apply-dynamic-price): each reads the draft first and writes one    *)
(*     column of that very row later;                                      *)
(*   - ebay-sync-worker publishes and updates from the latest draft, behind*)
(*     its gates: the draft's content, the price's swing, the aspects.     *)
(*                                                                         *)
(* A draft's price and its item specifics are what the corrections change. *)
(* ContentSync has the outbox, the expiry of claims and the reads of one   *)
(* push taken apart; EbayListing has the calls to eBay taken apart. Here a *)
(* push reads at once, eBay's answer is one step, and the stock does not   *)
(* change.                                                                 *)
(***************************************************************************)
EXTENDS Integers, Sequences

CONSTANTS
  Requests,         \* admin requests under way at once
  Syncers,          \* executions of ebay-sync-worker at once
  Jpy,              \* BASE's price with each content
  FirstContents,    \* those a product may be onboarded with
  MaxChanges,       \* changes to the content after it
  MaxPrice,         \* the prices a human or computeDynamicPrice comes to: 1..MaxPrice
  Aspects,          \* item specifics
  Required,         \* those eBay requires in the draft's category
  Filled,           \* what the model can confirm of them
  MaxRequests, MaxPublishApprovals, MaxReceives, MaxReviewFaults

ASSUME ReviewAssumption ==
  /\ Jpy \in Seq(Nat \ {0}) /\ Jpy # <<>>
  /\ FirstContents \subseteq DOMAIN Jpy
  /\ MaxChanges \in Nat
  /\ MaxPrice \in Nat
  /\ Required \subseteq Aspects
  /\ Filled \subseteq SUBSET Aspects
  /\ MaxRequests \in Nat
  /\ MaxPublishApprovals \in Nat
  /\ MaxReceives \in Nat \ {0}
  /\ MaxReviewFaults \in Nat

VARIABLES
  hash,        \* product_master.contentHash: the content's number
  drafts,      \* ai_listing_draft, in the order of createdAt
  row,         \* channel_listings of eBay: status and lastSyncedPriceJpy (0: null)
  keys,        \* idempotency_keys of the pushes
  generated,   \* contents whose generation's key is completed
  mail,        \* the messages of each type, by the number of receives
  live,        \* what eBay shows: content, price (0: computeFallbackPriceUsd's), specifics
  request,     \* each admin request: its step and what it holds
  model,       \* the execution of ai-generate-worker
  syncer,      \* each execution of ebay-sync-worker
  clicks,      \* changes on BASE, requests begun, and approvals
  reviewFaults,
  answered,    \* history: <<draft, aspect>> a human was told is corrected
  pending,     \* history: what the latest draft has that no push has read
  mishap       \* history: what the listing's currency must allow for

reviewVars == <<hash, drafts, row, keys, generated, mail, live, request, model,
                syncer, clicks, reviewFaults, answered, pending, mishap>>

DraftHashes == 1..Len(Jpy)
Usd == 0..MaxPrice            \* 0: suggestedPriceUsd is null
DraftRow == [content : DraftHashes, price : Usd, aspects : SUBSET Aspects]
PushKey == [op : {"publish", "update"}, content : DraftHashes]
Mailboxes == {"generate", "publish", "update"}

NoDraft   == [content |-> 0, price |-> 0, aspects |-> {}]
NoAsk == [pc |-> "idle", kind |-> "price", draft |-> 0, price |-> 0, seen |-> {},
              aspect |-> {}]
NoSync    == [pc |-> "idle", op |-> "update", receives |-> 0, content |-> 1,
              draft |-> NoDraft]

ReviewTypeOK ==
  /\ hash \in DraftHashes
  /\ drafts \in Seq(DraftRow)
  /\ row \in [status : {"none", "pending_approval", "published", "error"},
              synced : {0} \cup {Jpy[c] : c \in DraftHashes}]
  /\ keys \in [PushKey -> {"absent", "in_progress", "completed", "failed"}]
  /\ generated \subseteq DraftHashes
  /\ mail \in [Mailboxes -> [0..MaxReceives -> Nat]]
  /\ live \in {NoDraft} \cup DraftRow
  /\ request \in [Requests -> [pc : {"idle", "draft", "write", "send"},
                               kind : {"price", "specifics", "apply"}, draft : Nat,
                               price : Usd, seen : SUBSET Aspects,
                               aspect : SUBSET Aspects]]
  /\ model \in [pc : {"idle", "insert", "rows"}, content : DraftHashes]
  /\ syncer \in [Syncers -> [pc : {"idle", "claim", "select", "read", "call", "record",
                                   "complete", "release", "caught"},
                             op : {"publish", "update"}, receives : 0..MaxReceives,
                             content : DraftHashes,
                             draft : {NoDraft} \cup DraftRow]]
  /\ clicks \in [changes : 0..MaxChanges, requests : 0..MaxRequests,
                approvals : 0..MaxPublishApprovals]
  /\ reviewFaults \in 0..MaxReviewFaults
  /\ answered \in SUBSET (Nat \X Aspects)
  /\ pending \in {"none", "edit", "applied"}
  /\ mishap \subseteq {"replayed", "overlap", "overwrote", "missed"}

\* The product was onboarded and its first draft is asked for.
ReviewInit ==
  /\ hash \in FirstContents
  /\ drafts = <<>>
  /\ row = [status |-> "none", synced |-> 0]
  /\ keys = [k \in PushKey |-> "absent"]
  /\ generated = {}
  /\ mail = [t \in Mailboxes |->
               [r \in 0..MaxReceives |-> IF t = "generate" /\ r = 0 THEN 1 ELSE 0]]
  /\ live = NoDraft
  /\ request = [r \in Requests |-> NoAsk]
  /\ model = [pc |-> "idle", content |-> hash]
  /\ syncer = [w \in Syncers |-> NoSync]
  /\ clicks = [changes |-> 0, requests |-> 0, approvals |-> 0]
  /\ reviewFaults = 0
  /\ answered = {} /\ pending = "none" /\ mishap = {}

Latest == drafts[Len(drafts)]
Posted(t) == [mail EXCEPT ![t][0] = @ + 1]
ReviewFault == reviewFaults < MaxReviewFaults /\ reviewFaults' = reviewFaults + 1

------------------------------------------------------------------------------
\* product-fetch: an update is sent for a listing that is published, and for no other.
Propagated == IF row.status = "published" THEN Posted("update") ELSE mail

ChangeContent ==
  /\ hash < Len(Jpy) /\ clicks.changes < MaxChanges
  /\ hash' = hash + 1
  /\ clicks' = [clicks EXCEPT !.changes = @ + 1]
  /\ mail' = Propagated
  /\ mishap' = IF row.status = "published" THEN mishap ELSE mishap \cup {"missed"}
  /\ UNCHANGED <<drafts, row, keys, generated, live, request, model, syncer,
                 reviewFaults, answered, pending>>

------------------------------------------------------------------------------
(* ai-generate-worker *)

\* The content it reads is the key; a content generated before is answered from the store.
BeginGeneration ==
  /\ model.pc = "idle"
  /\ mail["generate"][0] > 0
  /\ mail' = [mail EXCEPT !["generate"][0] = @ - 1]
  /\ model' = IF hash \in generated THEN model ELSE [pc |-> "insert", content |-> hash]
  /\ UNCHANGED <<hash, drafts, row, keys, generated, live, request, syncer,
                 clicks, reviewFaults, answered, pending, mishap>>

\* The model fills what it can confirm; a missing price stays null.
InsertDraft(filled) ==
  /\ model.pc = "insert"
  /\ drafts' = Append(drafts, [content |-> model.content, price |-> 0, aspects |-> filled])
  /\ model' = [model EXCEPT !.pc = "rows"]
  /\ pending' = "edit"
  /\ UNCHANGED <<hash, row, keys, generated, mail, live, request, syncer,
                 clicks, reviewFaults, answered, mishap>>

\* The listing's row where there is none, the product's status, and the key.
EndGeneration ==
  /\ model.pc = "rows"
  /\ row' = IF row.status = "none" THEN [row EXCEPT !.status = "pending_approval"] ELSE row
  /\ generated' = generated \cup {model.content}
  /\ model' = [model EXCEPT !.pc = "idle"]
  /\ UNCHANGED <<hash, drafts, keys, mail, live, request, syncer, clicks,
                 reviewFaults, answered, pending, mishap>>

\* A statement after the insert throws: the key is released, the draft stays, and the
\* next receive inserts another of the same content.
GenerationThrows ==
  /\ ReviewFault
  /\ model.pc = "rows"
  /\ mail' = Posted("generate")
  /\ model' = [model EXCEPT !.pc = "idle"]
  /\ UNCHANGED <<hash, drafts, row, keys, generated, live, request, syncer,
                 clicks, answered, pending, mishap>>

------------------------------------------------------------------------------
(* admin-api. A request that answers 404 or 409 changes nothing and is left out. *)

ApprovePublish ==
  /\ clicks.approvals < MaxPublishApprovals
  /\ row.status \in {"pending_approval", "error"}
  /\ clicks' = [clicks EXCEPT !.approvals = @ + 1]
  /\ mail' = Posted("publish")
  /\ UNCHANGED <<hash, drafts, row, keys, generated, live, request, model, syncer,
                 reviewFaults, answered, pending, mishap>>

\* apply-dynamic-price looks at the listing before it looks at the draft.
Ask(r, kind) ==
  /\ request[r].pc = "idle"
  /\ clicks.requests < MaxRequests
  /\ drafts # <<>>
  /\ kind = "apply" => row.status = "published"
  /\ clicks' = [clicks EXCEPT !.requests = @ + 1]
  /\ request' = [request EXCEPT ![r] = [NoAsk EXCEPT !.pc = "draft", !.kind = kind]]
  /\ UNCHANGED <<hash, drafts, row, keys, generated, mail, live, model, syncer,
                 reviewFaults, answered, pending, mishap>>

\* The latest draft, and the specifics the correction will be merged into.
ReadDraft(r) ==
  /\ request[r].pc = "draft"
  /\ \/ /\ request[r].kind # "specifics"
        /\ \E price \in 1..MaxPrice :
             request' = [request EXCEPT ![r].pc = "write", ![r].draft = Len(drafts),
                                        ![r].price = price]
     \/ /\ request[r].kind = "specifics"
        /\ \E aspect \in Aspects :
             request' = [request EXCEPT ![r].pc = "write", ![r].draft = Len(drafts),
                                        ![r].seen = Latest.aspects, ![r].aspect = {aspect}]
  /\ UNCHANGED <<hash, drafts, row, keys, generated, mail, live, model, syncer,
                 clicks, reviewFaults, answered, pending, mishap>>

\* A plausible bug: the body replaces the specifics, as draft-seo-keywords replaces its list.
BugMerged(q) == q.aspect

\* { ...draft.itemSpecifics, ...body.itemSpecifics }
Merged(q) == q.seen \cup q.aspect

\* What a correction of the latest draft leaves for a push to read.
Unread(r) ==
  IF request[r].draft # Len(drafts) THEN pending
  ELSE IF request[r].kind = "apply" THEN "applied"
  ELSE IF pending = "applied" THEN pending ELSE "edit"

WriteDraft(r) ==
  LET q == request[r] IN
  /\ q.pc = "write"
  /\ drafts' = IF q.kind = "specifics" THEN [drafts EXCEPT ![q.draft].aspects = Merged(q)]
               ELSE [drafts EXCEPT ![q.draft].price = q.price]
  /\ answered' = answered \cup ({q.draft} \X q.aspect)
  /\ pending' = Unread(r)
  /\ mishap' = IF q.kind = "specifics" /\ drafts[q.draft].aspects # q.seen
               THEN mishap \cup {"overwrote"} ELSE mishap
  /\ request' = [request EXCEPT ![r] = IF q.kind = "apply" THEN [@ EXCEPT !.pc = "send"]
                                       ELSE NoAsk]
  /\ UNCHANGED <<hash, row, keys, generated, mail, live, model, syncer, clicks,
                 reviewFaults>>

SendApplied(r) ==
  /\ request[r].pc = "send"
  /\ mail' = Posted("update")
  /\ request' = [request EXCEPT ![r] = NoAsk]
  /\ UNCHANGED <<hash, drafts, row, keys, generated, live, model, syncer, clicks,
                 reviewFaults, answered, pending, mishap>>

------------------------------------------------------------------------------
(* ebay-sync-worker *)

KeyOf(w) == [op |-> syncer[w].op, content |-> syncer[w].content]

\* An update's key has the stock's version too, which stands still here.
ReceivePush(w, op, receives) ==
  /\ syncer[w].pc = "idle"
  /\ mail[op][receives] > 0
  /\ mail' = [mail EXCEPT ![op][receives] = @ - 1]
  /\ syncer' = [syncer EXCEPT ![w] =
       [NoSync EXCEPT !.pc = "claim", !.op = op, !.receives = receives + 1,
                      !.content = hash]]
  /\ UNCHANGED <<hash, drafts, row, keys, generated, live, request, model, clicks,
                 reviewFaults, answered, pending, mishap>>

\* The message is deleted, or shown again until it is in the DLQ.
Done(w) == syncer' = [syncer EXCEPT ![w] = NoSync] /\ UNCHANGED mail
Again(w) ==
  /\ mail' = [mail EXCEPT ![syncer[w].op][syncer[w].receives] = @ + 1]
  /\ syncer' = [syncer EXCEPT ![w] = NoSync]

\* withIdempotency: tryClaim's upsert, and, where it is refused, its own select.
ClaimPush(w) ==
  /\ syncer[w].pc = "claim"
  /\ \/ /\ keys[KeyOf(w)] \in {"absent", "failed"}
        /\ keys' = [keys EXCEPT ![KeyOf(w)] = "in_progress"]
        /\ syncer' = [syncer EXCEPT ![w].pc = "read"]
     \/ /\ keys[KeyOf(w)] \in {"completed", "in_progress"}
        /\ syncer' = [syncer EXCEPT ![w].pc = "select"]
        /\ UNCHANGED keys
  /\ UNCHANGED <<hash, drafts, row, generated, mail, live, request, model, clicks,
                 reviewFaults, answered, pending, mishap>>

PushRefused(w) ==
  /\ syncer[w].pc = "select"
  /\ \/ /\ keys[KeyOf(w)] = "completed"
        /\ Done(w)
        /\ mishap' = mishap \cup {"replayed"}
     \/ /\ keys[KeyOf(w)] = "in_progress"
        /\ Again(w)
        /\ UNCHANGED mishap
  /\ UNCHANGED <<hash, drafts, row, keys, generated, live, request, model, clicks,
                 reviewFaults, answered, pending>>

\* By now the key has failed: the push is made without a claim.
PushUnclaimed(w) ==
  /\ syncer[w].pc = "select"
  /\ keys[KeyOf(w)] = "failed"
  /\ syncer' = [syncer EXCEPT ![w].pc = "read"]
  /\ UNCHANGED <<hash, drafts, row, keys, generated, mail, live, request, model, clicks,
                 reviewFaults, answered, pending, mishap>>

\* detectPriceAnomaly: half of the price last synced, or more, in either direction.
Anomalous(last, candidate) ==
  last > 0 /\ 2 * (IF candidate > last THEN candidate - last ELSE last - candidate) >= last

\* The draft is of another content: a new one is asked for.
StaleDraft == Latest.content # hash

\* Another push has read and not yet recorded.
Overlapping(w) == \E v \in Syncers \ {w} : syncer[v].pc \in {"call", "record"}

ReadForPush(w) ==
  /\ syncer[w].pc = "read"
  /\ ~StaleDraft
  /\ ~Anomalous(row.synced, Jpy[hash])
  /\ syncer[w].op = "publish" => Required \subseteq Latest.aspects
  /\ syncer' = [syncer EXCEPT ![w].pc = "call", ![w].draft = Latest]
  /\ pending' = "none"
  /\ mishap' = (mishap \ {"missed"}) \cup (IF Overlapping(w) THEN {"overlap"} ELSE {})
  /\ UNCHANGED <<hash, drafts, row, keys, generated, mail, live, request, model,
                 clicks, reviewFaults, answered>>

\* enforceContentConsistency, enforceAnomalyFree or a missing aspect.
RefusePush(w) ==
  /\ syncer[w].pc = "read"
  /\ \/ StaleDraft
     \/ Anomalous(row.synced, Jpy[hash])
     \/ syncer[w].op = "publish" /\ ~(Required \subseteq Latest.aspects)
  /\ mail' = IF StaleDraft THEN Posted("generate") ELSE mail
  /\ syncer' = [syncer EXCEPT ![w].pc = "release"]
  /\ UNCHANGED <<hash, drafts, row, keys, generated, live, request, model, clicks,
                 reviewFaults, answered, pending, mishap>>

\* An update without a price leaves eBay's; createListing always has one.
Shown(w) ==
  IF syncer[w].op = "update" /\ syncer[w].draft.price = 0
  THEN [syncer[w].draft EXCEPT !.price = live.price] ELSE syncer[w].draft

PushToEbay(w) ==
  /\ syncer[w].pc = "call"
  /\ live' = Shown(w)
  /\ syncer' = [syncer EXCEPT ![w].pc = "record"]
  /\ UNCHANGED <<hash, drafts, row, keys, generated, mail, request, model, clicks,
                 reviewFaults, answered, pending, mishap>>

\* eBay refuses, or answers nobody.
PushFails(w) ==
  /\ ReviewFault
  /\ syncer[w].pc \in {"call", "record"}
  /\ syncer' = [syncer EXCEPT ![w].pc = "release"]
  /\ UNCHANGED <<hash, drafts, row, keys, generated, mail, live, request, model,
                 clicks, answered, pending, mishap>>

Synced(w) == Jpy[syncer[w].draft.content]

RecordPush(w) ==
  /\ syncer[w].pc = "record"
  /\ row' = [status |-> "published", synced |-> Synced(w)]
  /\ syncer' = [syncer EXCEPT ![w].pc = "complete"]
  /\ UNCHANGED <<hash, drafts, keys, generated, mail, live, request, model, clicks,
                 reviewFaults, answered, pending, mishap>>

CompletePush(w) ==
  /\ syncer[w].pc = "complete"
  /\ keys' = [keys EXCEPT ![KeyOf(w)] = "completed"]
  /\ Done(w)
  /\ UNCHANGED <<hash, drafts, row, generated, live, request, model, clicks,
                 reviewFaults, answered, pending, mishap>>

\* withIdempotency's catch, and the handler's.
ReleasePush(w) ==
  /\ syncer[w].pc = "release"
  /\ keys' = [keys EXCEPT ![KeyOf(w)] = "failed"]
  /\ syncer' = [syncer EXCEPT ![w].pc = "caught"]
  /\ UNCHANGED <<hash, drafts, row, generated, mail, live, request, model, clicks,
                 reviewFaults, answered, pending, mishap>>

CatchPush(w) ==
  /\ syncer[w].pc = "caught"
  /\ row' = [row EXCEPT !.status = "error"]
  /\ Again(w)
  /\ UNCHANGED <<hash, drafts, keys, generated, live, request, model, clicks,
                 reviewFaults, answered, pending, mishap>>

ReviewNext ==
  \/ ChangeContent \/ ApprovePublish
  \/ BeginGeneration \/ EndGeneration \/ GenerationThrows
  \/ \E filled \in Filled : InsertDraft(filled)
  \/ \E r \in Requests :
       \/ \E kind \in {"price", "specifics", "apply"} : Ask(r, kind)
       \/ ReadDraft(r) \/ WriteDraft(r) \/ SendApplied(r)
  \/ \E w \in Syncers :
       \/ \E op \in {"publish", "update"}, n \in 0..(MaxReceives - 1) : ReceivePush(w, op, n)
       \/ ClaimPush(w) \/ PushRefused(w) \/ PushUnclaimed(w) \/ ReadForPush(w)
       \/ RefusePush(w) \/ PushToEbay(w) \/ PushFails(w) \/ RecordPush(w)
       \/ CompletePush(w) \/ ReleasePush(w) \/ CatchPush(w)

ReviewSpec == ReviewInit /\ [][ReviewNext]_reviewVars

------------------------------------------------------------------------------
ReviewQuiet ==
  /\ model.pc = "idle"
  /\ \A r \in Requests : request[r].pc = "idle"
  /\ \A w \in Syncers : syncer[w].pc = "idle"
  /\ \A t \in Mailboxes, n \in 0..(MaxReceives - 1) : mail[t][n] = 0

DeadPush == mail["publish"][MaxReceives] + mail["update"][MaxReceives] > 0

Corrected(d) == {a \in Aspects : <<d, a>> \in answered}

\* When nothing is under way, a published listing is the product's present
\* content with the latest draft's price and every aspect a human was told is
\* corrected, through regenerations, refused and retried pushes. What it may
\* lag behind is named: corrections no push was sent for, a price whose update
\* was answered from an earlier one's key, a change product-fetch took while
\* the listing was in "error"; and pushes that overlapped or are in the DLQ, and
\* corrections that overwrote each other. A push eBay made and did not answer is
\* none of these: it is made again.
ReviewArrives ==
  ReviewQuiet /\ row.status = "published" /\ ~DeadPush /\ "overlap" \notin mishap
  => /\ "missed" \in mishap \/ live.content = hash
     /\ \/ pending = "edit"
        \/ pending = "applied" /\ "replayed" \in mishap
        \/ /\ live.content = Latest.content
           /\ Latest.price \in {0, live.price}
           /\ "overwrote" \in mishap \/ Corrected(Len(drafts)) \subseteq live.aspects

\* A price that was applied is on eBay once nothing is under way: the comment on
\* apply-dynamic-price says it "actually pushes the recommended price to eBay".
AppliedPriceArrives ==
  ReviewQuiet /\ row.status = "published" /\ pending = "applied" => Latest.price = live.price

\* The idempotency guard as the pushes show it: the guard's state of a key, and the
\* key a push is under.
PushKeyIs(k) ==
  IF keys[k] = "completed" THEN "done"
  ELSE IF keys[k] = "in_progress" THEN "claimed" ELSE "free"

PushUnder(w) ==
  IF syncer[w].pc \in {"read", "call", "record", "complete", "release"}
  THEN {KeyOf(w)} ELSE {}

PushGuard == INSTANCE IdempotencyGuard WITH
  Keys <- PushKey, Runners <- Syncers,
  key <- [k \in PushKey |-> PushKeyIs(k)], under <- [w \in Syncers |-> PushUnder(w)]
==============================================================================
