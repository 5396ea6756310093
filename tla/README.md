# Formal models of base-ebay-sync

base-ebay-sync keeps one physical stock in step on several marketplaces. BASE
(a Japanese storefront) is the *source* channel, where products are created and
true stock is kept; eBay and Shopify are *targets*. Everything runs as AWS Lambda
functions over one Postgres database, connected by SQS queues and schedules.
This directory holds TLA+ models of that system, TLC runs on small instances,
and TLAPS proofs about the models.

Paths below are relative to the repository root.

## 1. Inventory of the system

| component | state it keeps | operations | hard behaviour | what makes it correct |
|---|---|---|---|---|
| `services/lambdas/inventory-sync-worker` | none of its own; reads and writes the tables below | `handler` (claim, Phase A, Phase B), `dispatchToChannel` | at-least-once queue, concurrent executions, death between statements | no sale is decremented twice, no channel is forgotten, no oversell unnoticed |
| `packages/db/src/inventory.ts` | `inventory_master` (quantity, soldOut, version, ebaySoldSinceBaseSync, lastBaseSeq), `inventory_events` | `applySale`, `applySaleWithOutbox`, `applyBaseStockReport`, `reconstructInventory`, `applyReconstructedInventory`, `calculateChannelAvailableQuantity` | optimistic concurrency, out-of-order reports, replay | no lost update; the counter agrees with the ledger; stale reports are ignored |
| `packages/core/src/idempotency.ts`, `packages/db/src/idempotency-store.ts` | `idempotency_keys` | `tryClaim`, `complete`, `fail`, expiry | two claimants, a key that fails between the two statements of `tryClaim`, death with a claim, late duplicates | a live claim and a completed result keep everyone else out; who can slip in besides, and what it costs |
| `services/lambdas/sales-poller`, `shared/src/sales-sync.ts`, `ebay-webhook` | none (looks back a fixed window) | `pollChannelSales`, `enqueueSale`, coalesced poll | overlapping polls, isolated channels, lost windows | every sale is enqueued at least once |
| SQS queues, DLQs, `dlq-redrive`, `shared/src/sqs.ts` | messages, receive counts | receive, delete, return, move to DLQ, `redriveDlq`, `redriveDlqSelectively` | duplicates, reordering, a message that always fails | a failed delivery comes back |
| `services/lambdas/product-fetch`, `packages/db/src/sync-jobs.ts` | `product_master`, `sync_jobs` outbox rows | `pollTenant`, `upsertProduct`, `dispatchPendingOutboxJobs`, `propagateStockOnlyChangeToOtherChannels` | crash between statements, change detected but never propagated | every detected change reaches every listed channel |
| `services/lambdas/ebay-sync-worker`, `shopify-sync-worker`, `packages/adapters/*` | `channel_listings`, usage, quarantine; the marketplaces' own rows | publish, update with rollback, quantity push, tracking upload, quota reservation, content and anomaly checks | retry after the marketplace call, two calls for one change, isolation, quota | one offer per product; its parts belong together; a listing converges to the last content |
| `services/lambdas/ai-generate-worker`, `packages/ai` | `ai_generations` | generate, guardrail, enqueue publish | retry of a paid model call | one generation per content version |
| `services/lambdas/stripe-webhook`, `packages/db/src/{billing,tenants,webhook-events}.ts` | `tenants`, `webhook_events` inbox | receive, apply, ignore stale | reordered and duplicated events | the last event in Stripe's order decides |
| `services/lambdas/tenant-offboarding` | `tenants`, listings | end a cancelled tenant's listings | partial failure, reactivation | a cancelled tenant sells nothing |
| `packages/db/src/usage.ts` | `tenant_usage` | reserve, release | concurrency, month boundary | the plan's limit is never exceeded |
| `services/lambdas/inventory-diff-check` | drift reports | compare marketplaces with the master | in-flight sales look like drift | a real drift is reported |
| `packages/db/src/{channel-isolation,rate-control,sync-confidence}.ts` | `sync_errors`, isolation rows | isolate, lift, throttle, quarantine | lifts by itself with work skipped meanwhile | a failing channel cannot hurt others |
| `packages/db/src/orders.ts` | `orders` | record, transition, tracking | duplicates, double fulfilment | one order row per marketplace order |
| `services/lambdas/admin-api` | none (routes over the above); edits `ai_listing_draft` | approval, draft corrections, retry, repair, order, settings routes | read-then-write beside the workers | as the functions it calls; a correction the human was told of reaches the marketplace |
| `services/lambdas/signup`, `packages/db/src/signup-verifications.ts` | one-time codes | request, verify | concurrent attempts | attempt limit |
| `oauth-*`, `shared/src/secrets.ts` | tokens | callback, refresh | concurrent refresh of a rotating token | a stored refresh token is the newest |
| payload mapping, `packages/ai` prompts, pricing/profit/customs rules, `apps/admin`, `infra`, `db-migrate` | none or static | payload mapping, formulas, UI, declarations | none a state machine tells apart | unit tests |

How they interact: a poller enqueues sales; the inventory worker decrements and
pushes; product-fetch reports BASE's own stock into the same master row and
enqueues AI generation or channel updates through the outbox; the channel workers
publish and update; DLQs are redriven every half hour; admin routes repeat or
repair any of it.

## 2. The models

Fourteen modules: four on the paths of the stock and the content of a listing,
four around one product (its order, its eBay and Shopify listings, its draft),
six around a tenant. Each stands for one product, order or tenant; products share
no state but the tenant's quotas. All have the same shape: a program counter and
the locals of each Lambda execution in one function, one action per database
statement or marketplace call, failures counted up to a constant (or, in the
first three, switched on by name in `Environment`). History variables record
what no row holds: what was really done (`applied`, `shipments`, `consumed`), and
which of the known gaps was gone through (`unclaimed`, `unrecorded`, `late`, `unsaid`,
`lostAnswer`, `silent`, `overtaken`, `mishaps`, `races`, `gap`, `lost`, `blemish`), so
that a property can name its exceptions one by one.

Three small modules say what the code promises, without its rows, retries and queues,
and are implemented by the detailed ones through a refinement mapping:

| abstract module | what it promises | implemented by |
|---|---|---|
| `SaleLedger` | a sale is taken off the stock in one step, never below zero, and no more often than it is allowed to: once, and once more for each gap its pipeline loses track of it through (`LoseTrack`) | `SaleSync` (`ImplementsLedger`) |
| `IdempotencyGuard` | a key is entered only while it is nobody's: by a claim that makes it the claimant's (`Claim`), or between the owner's failure and the next claim, which leaves it free (`Slip`); only who is under a key changes it (`Leave`), or its time (`Expire`) when nobody is under it | `SaleSync` (`ImplementsGuard`; in `MCSyncRaces` `SaleGuard`), `ContentSync` (`ImplementsGuard`: generations and pushes, each under its own keys), `ShopifySync` and `DraftReview` (`WorkIsGuarded`) |
| `StockRow` | sales, BASE reports and repairs each read and write the row in one step, a sale is decided once, a report is not older than the last | `StockReports` (`ImplementsRow`; in `MCSyncRaces` `StockRowIsAtomic`) |

The guard's state of a key (`KeyIs`, `ShopKeyIs`, `PushKeyIs`) is what the idempotency
row says of it; who is `under` it is read off the program counters. So an execution that
enters under a live claim or a completed key, a row changed by one that is not under it, or
a claim that expires under its owner is a step the abstract module does not have.

`IdempotencyGuard` is weaker than the comments on `withIdempotency` ("Runs `fn` at most
once for a given key"), because the code is. `tryClaim` is two statements: a conditional
upsert (`packages/db/src/idempotency-store.ts:20-37`) and, where it is refused, a select that
asks why (43-58). If the owner's `fail()` lands in between, the select says `failed`, and
`withIdempotency` falls through to `fn()` (`packages/core/src/idempotency.ts:62-74`): it runs
unclaimed while the key is free for the next claimant, and whichever of the two ends last
overwrites the other's row, a completed one included. Every module with keys has both
statements as steps of their own and the unclaimed run as an action.

### 2.1 Sales: `SaleSync`, `InventoryMaster`, `SaleLedger`

`InventoryMaster` holds the pure functions of the row `inventory_master`: what a
sale, a BASE report and a repair make of it. `SaleSync` is
`inventory-sync-worker` with everything around it:

| in the model | in the code |
|---|---|
| `EnqueueSale`, `Messages` | `pollChannelSales`/`enqueueSale`: each copy a poll sends is a message |
| `queue`, `receives`, `Returned`, `Redrive` | SQS with its DLQ, `redriveDlq` |
| `WinClaim`, `RefuseClaim` | `tryClaim`'s conditional upsert |
| `ReplayResult`, `LoseClaim`, `RunUnclaimed` | its select after a refused upsert: `completed`, `in_progress`, or `failed` by now |
| `Complete`, `FailKey`, `FailKeyThrows`, `ClaimExpires` | the rest of `withIdempotency` and the store, whose `complete()` and `fail()` write the row whatever it says |
| `ReadSoldOut`, `ReadMaster`, `CommitSale`, `CasMismatch`, `TxAborts` | `applySaleWithOutbox` around `applySale`; a commit writes the row, the ledger entry and one outbox row per other listed channel |
| `RecordOrder`, `FlagDoubleSale` | `upsertOrderReceived`, the `possible_double_sale` record |
| `SkipJob`, `ReadQuantity`, `Push`, `PushFails`, `MarkPushed`, `EndDispatch` | `dispatchPhaseB` and `dispatchToChannel` |
| `Crash` | the Lambda's timeout, at any statement |

Three histories record what a sale went through: `unclaimed` counts its runs of Phase A
without a claim (bounded by `MaxUnclaimed`), `unrecorded` those that committed a decrement and
died or threw before `complete()`, and `late` has the channels whose last push was out of
date when it landed (`Overtaken`: another sale was decided since its quantity was read, or
one of the channel's own sales is still to be).

`Ledger == INSTANCE SaleLedger` maps the row and the ledger entries onto what this is
all for, `Guard == INSTANCE IdempotencyGuard` the key and the deliveries in Phase A
onto the guard; both are checked as properties and proved.

### 2.2 Stock reports: `StockReports`

The other writers of the same row: `applyBaseStockReport` (a poll of
product-fetch: `ReadForReport`, `ApplyReport`, `ReportMismatch`, `RecordReport`,
`SkipReport`), `applySale`, and the repair `applyReconstructedInventory` over
`reconstructInventory` (`Replay`). The world outside is there too: the
marketplaces' clock with its resolution of one second, BASE's own stock and sales,
and `shelf`, the units that are really left and that no code can read. A sale is taken once
here; when the code takes one twice is the subject of `SaleSync`. `AtomicRow == INSTANCE
StockRow` shows each committed compare-and-swap as one step on the row as it is then.

### 2.3 Content: `ContentSync`

One BASE product on its way to eBay through product-fetch, the outbox,
`ai-generate-worker` and `ebay-sync-worker`:

| in the model | in the code |
|---|---|
| `Fetch`, `ReadRow`, `Report`, `Propagate`, `Change` | `pollTenant` and `upsertProduct`: the stock report first, then the transaction of a content change with its outbox row, or the outbox row of a stock-only change |
| `jobs`, `Outboxed` | `sync_jobs` with its unique key; a row is written for a `published` listing only |
| `ListJobs`, `Send`, `SendFails`, `MarkSent`, `PollDies` | `dispatchPendingOutboxJobs` |
| `AiReceive` … `AiRefused` | the handler of ai-generate-worker; `draft` is the latest row of `ai_listing_draft` |
| `AiClaims`, `AiClaimRefused`, `EbayClaims`, `EbayClaimRefused` | `tryClaim`'s upsert |
| `AiSelects` (`AiReplays`, `AiBusy`, `AiRunsUnclaimed`), `EbaySelects` (`EbayReplays`, `EbayBusy`, `EbayRunsUnclaimed`) | its select and the three answers, the run without a claim among them |
| `Approve` | the admin route `approve-ebay-listing` |
| `EbayReceive`, `ReadVersion` | the handler of ebay-sync-worker up to the claim; the key has the content read first and the inventory version read second |
| `ReadProduct`, `TakeDraft`, `RefuseDraft`, `ReadStock`, `CallEbay`, `Record` | `publish` and `update`, which read everything again |
| `Throws`, `Refused`, `Release`, `Retry`, `GiveUp`, `EbayDies` | their error paths: release, set the listing to `error`, return the message; or record a refusal and acknowledge |

A message has only a type and the product, so a queue is a count per type and
receive count. The initial state is what onboarding's transaction leaves behind.
`owed` collects the changes taken while the listing was published, a stock-only one from the
commit of its report on; `unsaid` are those of them whose poll died before it wrote the
outbox row, which product-fetch (`src/handler.ts:112-121`) names a known gap.

### 2.4 One product and its orders

`MCCommerce` sets the four side by side for TLC: they share no variable, and a
behaviour is one of them alone (`which`).

- **`OrderShipping`**: one order between clerks. `ReadToMove`/`WriteMove` are
  `transitionOrderStatus` with its `WHERE status =`, `ReadToFinalize`/`WriteProfit`
  are `finalizeOrderProfit`; `record` is the row with its timestamps and its profit
  snapshot. Shipping an eBay order starts the tracking upload in the route itself
  (`InsertJob`, `CallEbay`, `MarkSynced`, `CompleteJob`), and every failure leaves a
  `sync_errors` row that names the job (`UploadFails`, `FailJob`, `RecordError`);
  `Retry` sends it to ebay-sync-worker (`Deliver`), `Redrive` is
  `redriveDlqSelectively`, `UploadDies` a death at any of the steps.
- **`EbayListing`**: the calls of `createListing`, `updateListing` and
  `setInventory` to eBay one by one (`GetItem`, `PutItem`, `FindOffer`, `PutPrice`,
  `PublishOffer`), with the rollback of a failed price change (`RollBack`) and calls
  that are carried out without an answer. A draft may have no price (`Unpriced`): its
  update ends with the PUT of the item (`NoPrice`), as
  `ebay-sync-worker/src/handler.ts:656` passes no price and `client.ts:708` then leaves the
  offer alone.
- **`ShopifySync`**: the worker's publish and update with `tryClaim`'s two statements
  (`ClaimKey`, then `Refuse` or `RunUnclaimed`), claims that expire and messages that
  count their receives: after `MaxShopReceives` of them one is in the DLQ, and nothing
  redrives Shopify's. A failure before the claim (`LookupFails`) sets the row to `error`
  as one after it does (`MarkError`). Unlike eBay's, Shopify's create call makes a product
  each time (`Create`, `shop`), so a repeated publication is a double listing.
- **`DraftReview`**: the draft between its writers. `BeginGeneration`,
  `InsertDraft`, `EndGeneration` are ai-generate-worker; `Ask`, `ReadDraft`,
  `WriteDraft`, `SendApplied` the routes `draft-price`, `draft-item-specifics` and
  `apply-dynamic-price`; `ClaimPush`, `PushRefused` and `PushUnclaimed` are
  `withIdempotency`; `ReadForPush`, `RefusePush` the gates of publish and update
  (the draft's content, the price's swing in `Anomalous`, required aspects);
  `PushToEbay`, `PushFails`, `RecordPush`, `CompletePush` and the release what follows.

### 2.5 A tenant

`MCTenants` sets these six side by side in the same way.

- **`Signup`**: one address. `ReadCooldown`, `UpsertCode`, `MailCode` issue a code,
  `ReadVerification` … `ConsumeCode` confirm it, and `CreateUser`, `SetPassword`,
  `CreateTenant`, `AuditTerms`, `Checkout` are the saga that follows, with
  `UndoTenant` and `UndoUser` as its compensation, which may fail as well.
- **`Connections`**: one OAuth connection: `saveOAuthToken` (`PutSecret`,
  `CreateSecret`, `UpsertRow`), the refresh of a token that may rotate, and
  `purgeOAuthConnections` (`ReadCandidate`, `DeleteSecret`, `DeleteRow`). A secret
  recreated under its name has another ARN.
- **`UsageQuota`**: `reserveMonthlyEbaySync` (`Reserve`) and its release
  (`MeteredFails`), the month passing at any point, changes of plan, and the product
  limit under the transaction's advisory lock (`LockAndCount`, `FinishImport`).
- **`TenantBilling`**: `claimWebhookEvent` (`Claim`, `Duplicate`), the transaction
  of `billing.ts` with `isStale` (`CheckStale`, `Apply`, `Aborts`,
  `CommitUnanswered`), `FailEvent`, `Reply`, and the operator's deletion of a pending
  tenant (`OperatorReads`, `OperatorDeletesUser`, `OperatorDeletesRow`).
- **`TenantOffboarding`**: the hourly pass (`ChooseTenant`, `ReadListings`,
  `Delist`, `RecordDelisted`, `EndListings`, `Revoke`, `MarkOffboarded`) against
  publications under way (`TakeToken`, `CallPublish`, `RecordPublished`), billing
  changes (`Mark`) and a seller who disconnects and connects again.
- **`SalesPolling`**: the minute's round over the channels (`Minute`,
  `SkipIsolated`, `Poll`, `PollFails`, `SendFails`, `InvocationDies`), the errors
  that age out of `isChannelIsolated`'s window, other workers' failures
  (`WorkerFails`), the operator's clear, and eBay's notifications (`Notify`,
  `Dispatch`, `DispatchFails`). Time is in steps of the schedule.

### 2.6 What the models leave out

- `SaleSync`: the lookup of a sale's listing is assumed to succeed; outbox rows in
  the shape of before the last migration (`resolveOutboxJobs`); a failing
  `recordSyncError` is one of the faults called `postcommit`.
- `StockReports`: rows of skipped reports are not in `events`; nothing reads them
  here. The repair has no caller in the repository but its tests.
- `ContentSync`: of the channels only eBay; price, safety buffer and
  `product_master.status`; isolation, low confidence, anomalies and missing aspects
  are all `Throws` (two of them are taken apart in `DraftReview`); a quota is an
  answer; a marketplace call is one step (taken apart in `EbayListing`); a failing
  `fail()` of the store is left to `SaleSync`.
- `EbayListing` does not say which execution may run when: any two may. `DraftReview`
  takes the outbox, the expiry of claims and the calls to eBay as single steps.
- `SalesPolling`: signatures, and the worker's own listing lookup. `Connections`:
  the `state` parameter. `Signup`: the texts and rules of password and terms.
- The models of 2.4 and 2.5 meet only in what a comment of each module names: a
  push that `TenantOffboarding` races is three steps there and many in `ContentSync`.

## 3. The runs

| run | module | instance | question |
|---|---|---|---|
| `sale_races` | `MCSaleSync` | 2 workers, 3 deliveries of 2 sales of 1 and 2 units, stock 2, 1 crash, rolled-back transactions, a `fail()` that throws, failing pushes, expiry, redrive, 1 unclaimed run of each sale | what does each decrement beyond the first take; outbox rows with the decrement, the late buyer flagged, no channel forgotten, none over-offering but by an overtaken push; the refinement of `SaleLedger` |
| `sale_settles` | `MCSaleSync` | 1 worker, 2 deliveries of 1 sale, 3 channels, 1 crash, expiry, redrive, failing pushes and order records | is a sale decided and every channel told in the end |
| `stock_units` | `MCStockReports` | 2 polls, 2 workers, 2 eBay sales BASE never hears of, 2 edits | the accounting of eBay's units; the ledger's replay; the refinement of `StockRow` |
| `content_changes` | `MCContentSync` | 1 execution of each kind, from the first draft awaiting its approval: 2 changes, 1 failure anywhere, expiry | does each change arrive, but for the stock change of a poll that died before its outbox row |
| `sync_races` | `MCSyncRaces` | 2 generations and 2 syncs with 2 edits, or 1 edit and 1 failure; 1 sale under every fault of its key at once; a poll that may die, 2 sales and a repair on one row | mixing of contents, the refinements of `IdempotencyGuard` by the content's workers and by the sale, and of `StockRow` |
| `tenants` | `MCTenants` | see below | the six models of 2.5, safety and liveness |
| `commerce` | `MCCommerce` | see below | the four models of 2.4, and the refinement of `IdempotencyGuard` by two of them |
| `sale_unclaimed` | `MCSaleSync` | 2 workers, 2 deliveries of 1 sale, rolled-back transactions, no crash, no expiry | violates `AtMostOnce` |
| `stock_twice` | `MCStockReports` | 1 poll, 1 eBay sale that BASE is told of | violates `CounterIsStock` |
| `content_revert` | `MCContentSync` | 1 execution of each kind, an edit taken back, no failure | violates `RegenerationDelivers` |
| `isolation_clear` | `MCTenants` | as `tenants` | violates `ClearLifts` |
| `price_replayed` | `MCCommerce` | 1 request, 1 sync, 2 prices, no failure | violates `AppliedPriceArrives` |

Why the bounds are enough. A race needs two executions that hold different reads;
two workers, polls, syncs, clerks or webhooks are the smallest that have it, and the
proofs of section 5 cover the rest for the safety properties. A sale needs a second copy to be
replayed or to slip in, and a second sale to be lost, to find the stock gone or to be pushed
out of order. One unclaimed run of a sale (`MaxUnclaimed`) has every effect: it may end
before or after the claimed run, and either may overwrite the other's row.
`maxReceiveCount` is
5 in production and 1 to 3 here: one refusal more or less reaches no other state,
only the DLQ sooner. Two changes of the item are the fewest that collide in a key (a
restock after an edit) and the fewest that return to an earlier content. One crash is
one lost claim. In the content part of `sync_races` the edits and the failures share a
bound (`WithinBound`), so that two executions of each kind fit; a refused draft gives its
key back without any failure. The sale of `sync_races` is of a product listed only where it
was sold: what is pushed after it is the subject of `sale_races`.

`content_changes` begins where the first generation has left a draft (`DraftedSpec`): what
comes before is the same for every change.

`tenants`: quota and billing are taken in two parts each (`which`): calls and imports share
only the plan, and the operator's deletion meets only the first event; polling with
notifications or with the operator's clear. Two codes, so that one is replaced while it is
confirmed, one wrong guess and two faults, so that a step and its compensation can both
fail. Three tokens and two purges: a refresh, a reauthorization and a purge between. Two
plans and two months: a call across the boundary, a downgrade under it. Two events to two
executions with two faults: each order, each repetition. Two channels, one of which may fail
while the other is taken down. One sale, two changes of a marketplace's health and one dying
invocation; the lookback, the isolation window and the notification lookback are 1, 2 and 2
steps and keep the order of the code's 5, 15 and 20 minutes as far as the properties compare
them.

`commerce`: two clerks, one retry, one change of an amount, one redelivery and two
faults (a lost mark and the failure of its retry). Three drafts and four pushes, two at a
time, with two faults: a price change that fails and a rollback that does; a third draft
has no price and comes between two that have one. Two contents and two approvals, so that a
publication is repeated with another content or beside itself, and two receives, so that a
message is retried and dies. One change
of content within or beyond the price gate, two requests, two syncs, one fault.

`CHECK_DEADLOCK FALSE` is in every configuration because the system does stop: buyers
buy a finite number of units, edits are bounded, and when all is delivered there is
nothing left to do. `sync_races` uses the symmetry of the generations, of the syncs, of
the deliveries of one sale and of the sale's workers, `commerce` that of the Shopify
worker's executions; neither checks liveness.

### Fairness

- `SaleSync!FairSpec`: weak fairness of a worker's own steps (a Lambda that was
  invoked runs on, SQS invokes it while there are messages), of the polls, of the
  redrive schedule and of a claim's expiry, which is the passing of time. A crash, a
  buyer and a fault owe nothing.
- `RecoverySpec` adds strong fairness of the marketplace calls per channel: an outage
  ends. Without it a call may fail for ever and nothing could be promised.
- `ContentSync!FairSpec`: weak fairness of each poll, generation and sync. Expiry and
  redrive have none, because `ChangesArrive` accepts the DLQ as an outcome; the
  merchant and the human owe nothing.
- `BillingFairness`: weak fairness of the executions of stripe-webhook as a whole;
  Stripe repeats an event until it has a 2xx. Faults are bounded in number, which is
  Stripe's days of repetition outlasting the outage.
- `OffboardingFairness`: the hourly schedule runs the pass and SQS delivers
  publications. `PollingFairness`: the schedule's minute passes and an invocation
  comes to its end. In `MCTenants` each is guarded by `which`.

## 4. What the runs show

Everything in the `pass` runs holds, with the exceptions a property names, and five
things that the code says of itself do not:

1. **`sale_unclaimed`** — a sale is decremented twice. Its first delivery's transaction is
   rolled back and `fail()` gives the key back while a second delivery, whose upsert was
   refused, has not run its select yet; the select says `failed`, the second delivery runs
   Phase A unclaimed and commits, and the first, delivered again, claims the key and commits
   too. No crash, no expiry and no statement that throws after the commit is needed.
   `packages/core/src/idempotency.ts:16-18` asks of a store that "two concurrent SQS
   deliveries of the same message can never both proceed" and line 50 says "Runs `fn` at most
   once for a given key"; `packages/db/src/idempotency-store.ts:7-9` says "exactly one
   INSERT/UPDATE returns a row, the other observes the existing one";
   `packages/db/src/inventory.ts:130-132` says of Phase A "at MOST once per real sale event,
   full stop". A crash between the commit and `complete()`, or a statement that throws there,
   has the same effect once the key can be claimed again. `DecrementsAccounted`, in `sale_races`
   and as a theorem, shows that there is no third way: each decrement beyond the first is
   paid for by a run without a claim (`unclaimed`) or a commit nothing recorded
   (`unrecorded`).
2. **`stock_twice`** — BASE is told of every eBay sale, and `applyBaseStockReport`
   subtracts the same units from BASE's number once more, because
   `packages/db/src/inventory.ts:228-231` still believes BASE is told only at sellout.
   `ErrorIsConsumed` gives the exact error in the opposite case, when BASE is never
   told: the units that reports before the last one consumed.
3. **`content_revert`** — an edit taken back leaves the listing without a draft for
   good: the regeneration's key is the content's hash, which completed long ago.
4. **`isolation_clear`** — clearing an isolation marks its errors resolved, and
   neither `isChannelIsolated` nor `isThrottled` looks at that column.
5. **`price_replayed`** — a second applied price finds the key of the first one's
   update completed, because a price is in neither part of the key, and never reaches
   eBay.

### Gaps the properties name

These come up as exceptions of the properties above, or were met while reading the code for
their models.

- *Stock.* The quantity pushed to a marketplace does not know that marketplace's own
  sales that are still in the queue, and puts them back on offer
  (`inventory-sync-worker/src/handler.ts:334`, against its comment at 94-97), and a push may
  land after another sale was decided: these are the channels in `late` that `NoOverOffer`
  excepts, for sales that went through no gap. The pending row of an isolated channel is
  never dispatched again (line 296; `NoPushForgotten` is checked without isolation). A
  sale that is run a second time may find the stock gone: its `alreadyZero` result
  (`packages/db/src/inventory.ts:166`) overwrites the first one, its outbox rows stay pending
  and it is flagged although it took its units. A BASE sale that is in BASE's reported stock
  before its message is processed is subtracted twice, and a change within the second of
  the last report is never seen. The ledger replays by marketplace time, which is not the
  order of the writes. A repair's target may be older than the version it is guarded by.
- *Listings.* An update to a draft without a price leaves the new content under the price of
  an earlier one. A rollback after a price change whose answer was lost restores the old
  content under the new price; a publication without an answer leaves a live listing in
  status `error`. A content change taken while the listing is in `error` is not sent, and
  neither is a correction of a published draft, until the next update. A price change of
  half or more on BASE is refused by the anomaly gate again and again; the retry that
  would pass finds the completed `ebay_publish` key. Two corrections of item specifics
  that overlap lose one. A generation retried after its insert makes a second draft, which
  supersedes the human's corrections of the first.
- *Shopify.* A publication that runs unclaimed makes a second product, as does one whose
  answer was lost. A message dies after five receives, long before the 24-hour claim of a dead
  worker, and nothing redrives Shopify's DLQ: an update in it leaves the old quantity on
  offer. A failed update marks the live listing `error`: further changes are not
  sent, and a renewed approval with new content makes a second product. A stock change
  while the status is not `published` is not sent. Updates that overlap may set the
  older quantity last.
- *Content.* A change of the stock alone is lost if its poll dies between the report and the
  outbox row, until the next change is pushed (`product-fetch/src/handler.ts:112-121`).
  Through `tryClaim`'s gap two paid generations or two pushes may run under one key.
- *Orders.* A fulfillment is registered twice after a lost mark, or by two deliveries
  that both read the order unmarked. A finalization that overlaps a change of an amount
  leaves the profit of the old amounts.
- *Tenants.* A publication under way when the pass reads its listings goes live after it;
  listings in `error` or of a disconnected channel are not delisted; a tenant that is
  reactivated during the pass still loses its connections, and `marketplaceOffboardedAt`
  is never reset. Two transactions of stripe-webhook that overlap both pass `isStale`. The
  operator's route deletes the Cognito user before the row's condition is looked at
  (`admin-api/src/handler.ts:3551-3594`). A purge overtaken by a refresh under way leaves
  the connection in place again, or a row that names a deleted secret. A failed mail deletes
  a newer code, and so does the removal of an expired row; a code is consumed before the
  address turns out to be registered. A reservation released after midnight UTC frees the
  next month's quota.
- *Polling.* A channel isolated for longer than the five minutes' lookback misses the
  sales of that time. A notification coalesced with a claimed poll whose execution dies is
  lost with it.

Met beside the models, without a run: `admin-api` sends retried Shopify errors to the
inventory queue (lines 1320-1321, 3639-3640); `link-ebay-listing` (1688-1740) checks and
then inserts; two overlapping `checkout-session` requests (316-370) may make two Stripe
customers; `inventory-diff-check` ignores isolation and its failing calls prolong it.

## 5. What is proved

Eight modules, `SaleSync_proofs` to `Commerce_proofs`, hold for every value of the
constants the `ASSUME` of their module admits: any number of executions, sales, copies,
contents, events, failures, crashes and unclaimed runs, any `Environment`. Every safety
property of a passing run but one, `NoOverOffer`, is proved: the invariants and the six
refinements of abstract modules.
Where a theorem has a hypothesis of its own it is named here, and the run's constants
satisfy it.

**The idempotency guard** is one abstract module with four implementations, and each
proof is of the same three kinds of step: an execution enters a key that is nobody's (it
claims it or slips in), one that is under a key leaves it, and everything else keeps the
keys and who is under them.
- In `SaleSync` death and a throw of the store's `fail()` leave the key as it is, and the
  expiry finds nobody under it (`SlipGuard`, `LeavesGuard`, `ExpiryGuard`).
- In `ContentSync` the keys of generations and pushes are disjoint, so a step of one worker
  stutters in the other's guard (`EbayEnters`, `EbayGives`, `EbayKeeps`, and the same of the
  generations).
- In `ShopifySync` and `DraftReview` types suffice (`EntersShopGuard`, `LeavesShopGuard`,
  `PushTakes`, `PushLeaves`).

`ImplementsGuardHolds` (twice), `ShopIsGuarded`, `PushesAreGuarded` and
`WorkIsGuardedHolds` have no hypothesis: they hold under every fault. What they say is what
the code gives, which is not mutual exclusion (section 2).

**SaleSync.** `TypeCorrect` rests on `Typed`, the type invariant plus two facts about
program counters: a worker that is not idle has a message, and one that pushes has
a target. `OneClaimantHolds` and `CompletedIsFinalHolds` are about a sale none of whose runs
was unclaimed: a claim is granted only when no live one exists, and a live one expires only
when nobody is inside; with an unclaimed run both are false of the code.

`DecrementsAccountedHolds` has no hypothesis. Its invariant `Accounts` is a balance per
sale: the decrements made, the runs in Phase A that have taken nothing yet (`Undecided`,
counted by cardinality), and one if the key admits another run (`Open`: it can be claimed,
or will be once a dead run's claim expires) come to no more than one and the sale's
unclaimed and unrecorded runs. A claim closes the key and adds a run; a release opens it and
takes one away; a slip adds a run and is counted; a commit makes a run a decrement; and a
run that ends after its commit without recording it reopens the key and is counted.
`ImplementsLedgerHolds`, the refinement, follows without a hypothesis: with `FreshRead`
(whoever is about to write holds a row of stock, and the one there is if the version
matches) a commit is a `Take`, for which `Accounts` has left something to be `Allowed`, a
gap is a `LoseTrack`, and every other step stutters.

`OutboxWithDecrementHolds` needs that listings stay published (`"unlist" \notin
Environment`), since a commit writes rows for the published ones only: `Outbox` adds to the
property what a cached result and a worker in Phase B promise (`Cached`, `Promised`), so that
a replay finds the rows its first run wrote.

The last two follow a sale to its acknowledgement. `DoubleSaleFlaggedHolds` has no
hypothesis; it rests on `Verdicts`: what a cached or carried result says of a sale is
`Sound`, one that says `alreadyZero` is of an empty stock, for good, since stock once gone
stays gone (`RowSound`), and of a sale that took nothing unless it went through a gap
(`Missed`); a deleted message is of a sale that was decided. `NoPushForgottenHolds` assumes
that nothing is `isolated`, without an `account` or taken off (`unlist`), each of which passes
a job over, and nothing else: its invariant `Owing` names no owner. For each undone channel,
and for a key that is not completed, a message is waiting (`Waiting`) or some worker has the
work before it or a failure behind it (`Owes`). An unclaimed run that fails late may mark
the key of a completed sale failed, but its own message then returns to the queue, so the
sale is not settled until the key is completed again; and a second run that finds the stock
gone flags the sale, which is why the property accepts the flag. `Held` (one message, one
worker) turns that into the claim about acknowledged messages.

**StockReports.** Every write raises the version by one, and whoever is about to
write holds a copy of the row taken at its version; so an equal version means an
equal row (`VersionNamesRowHolds`), across sales, reports and repairs. The order
check of a report is made on that copy, so `ReportsAdvanceHolds` follows.

`ImplementsRowHolds` says it all at once, with no hypothesis on the environment: a write
that passes the compare-and-swap was computed from a copy, the version makes the copy the
row of this moment, so the write is a `Decide`, `Report` or `Repair` of `StockRow` made
now, and every read, retry and lost race stutters. Its inductive invariant is `Guarded`
(types, `VersionNamesRow`, and `Checked`: a report about to be written was found newer
than the copy it is written over) with `Waiting` (a sale about to be written is still to
be decided, and no other worker has it). A sale found sold out is decided at its read, where
the copy is the row. What it does not say is what a repair writes: any quantity is a
`Repair`, since its target may be stale (section 4).

The sums over the ledger are counted, not added: `UnitsOf` is the cardinality of a set of
pairs, one for each unit, and `UnitsFinite`, `UnitsMore` and `UnitsLess` say what an
element more or less makes of it. `EbayUnitsConsumedOnceHolds` (no poll dies between its
report and the report's ledger row) is `Books`: the eBay units of the sales in the ledger
are those of the reports in it, those the row remembers and those a poll has yet to
write. `OrderedLedgerReplaysHolds` (no poll dies, no repair) has two parts: no two
reports have one time and none is newer than the row's watermark (`ReportOrder`), and as
long as the order was kept the row is the newest report less the sales after it
(`Orderly`). `ErrorIsConsumedHolds` is for a shop whose eBay sales BASE never hears of
(`EbayUnheard`: all sales are eBay's, no repair, no death, no two changes in a second).
`Untold` says that BASE's stock is the shelf and the sales it has not been told of,
`Clocked` that BASE's timestamps tell its states apart, `OwnSale` that a sale about to
commit is still to be consumed and no other worker has it. `Counter` is then what the row
holds once BASE's last change is in it: BASE's stock less the eBay units the report took
out and those sold since, of which the property is the case of all sales decided.

**ContentSync.** `TypeCorrect` needs `master.version < master.seq`, as the version is
bounded by the number of changes. `CoherentOfferHolds` strengthens the property by
what a worker holds between the draft check and the call: a text and images of one
content. It does not depend on the claims: it holds with any number of executions under
one key. `ImplementsGuardHolds` needs the types alone.

**Billing** (`Billing_proofs`: the inbox and the quota). `Committed` links the inbox to the
commits and gives `NoEventLost`. `Watermark` gives `NewestDecides`: without overlapping
transactions the row has the time and status of a newest event applied, and what an
execution found in `isStale` is still so when it commits; Stripe's clock never goes back
(`Clock`). `OperatorKnows` gives `PayingTenantIsKept`: a tenant the route works on is
pending unless a payment met it.

For the quota, `Booked` is the bookkeeping of a month, whose step lemmas count the calls
under way by cardinality (`OneMore`, `OneLess`); `Limits` bounds what anyone may have
read, `Serialized` says that the lock's holder still has the right count.

**OrderShipping.** `Stamped` and `Validated` give `OneOutcome`: the status machine has no
way back, and a write is of a transition validated against the row it finds. `Fulfilled`
counts the calls made and to be made against the marks under way, for `OneShipment`;
`Askable` and `Current` are the other two, closed under each step.

**Tenants** (`Tenants_proofs`) has the other parts of a tenant and the composition
`MCTenants`.
- *Signup.* The row holds a code that was drawn and not consumed (`Fresh`), so a
  consuming step is the first of its code; `Owned` says at each step of a confirmation and
  of its compensation what it owns, and is `AccountIsWhole` at the end.
- *Connections.* Each ARN was handed out once and in order, no more of them than tokens
  (`Numbered`, `Counted`). Unless an execution died or was overtaken, a secret is named by
  the row or by a save about to write the row (`Named`); a row that names none is one a
  purge is about to delete (`Dangling`). A token still to be stored is nobody else's
  (`Private`), and a stored one that is used up is about to be replaced (`Replaced`).
- *TenantOffboarding.* While no delisting has failed, what is live is still to be done or
  out of sight (`ToDo`); a pass reaches `revoke` only with nothing left to do (`Emptied`).
- *SalesPolling.* A sale not yet sent is no older than the row of polls its channel has
  missed, not counting one still to come in this round (`Overdue`, `Still`); what is left
  of a round is an end of the schedule (`Schedules`). `MissedByOwnOutage` is that row at
  the length of the lookback.

`TenantsInductive` conjoins the six invariants for the composition, `TenantsSafe` draws
the nine safety invariants of the run from it. A step of one part leaves the others'
variables alone, so each conjunct is the part's own theorem or a stutter.

**Commerce** (`Commerce_proofs`) has the listings, the draft and the composition
`MCCommerce`, of which `CommerceSafe` proves the eight safety invariants and
`WorkIsGuardedHolds` the refinement.
- *EbayListing.* A live item always has a content (`NeverEmptied`); while a single push
  is under way, what is on eBay and what the push still has to set belong together
  (`Halfway`, `Together`): they are of one draft, or what is shown has no price of its own
  (`Matches`).
- *ShopifySync.* The products of a content, and the executions about to make one more
  (`ToMake`), are no more than what its key is worth (`Worth`: one if it is completed or in an
  execution's hand), the answers that were lost and the publications that ran unclaimed
  (`OneOf`, `OneEach`). `Settling` says that a stale quantity is followed by a message, in
  the DLQ or not (`Told`), or an execution that will replace it (`WillSettle`), and
  `KeysOfThePast` and `Finished` that no completed key stands in its way. The proof goes by
  what each action does to those parts (`Effect`), so that the invariants are argued about
  some twenty shapes of step and never about the code's records.
- *DraftReview.* In the same way (`ReviewEffect`): the draft has the aspects a human was
  told it has unless a generation overwrote them (`CorrectionsKept`), nothing is of a
  content still to come (`NotAhead`), and unless pushes overlap whatever differs has a
  message waiting or an execution that will push (`ContentArrives`, `ReadArrives`).

**SyncRaces** (`SyncRaces_proofs`): a behaviour of the composition `MCSyncRaces` is one of
each of its three parts (`ContentAlone`, `SaleAlone`, `StockAlone`), and the constants it
gives the sale and the row satisfy what the proofs assume (`SaleConstants`,
`StockConstants`). `MCSyncRaces` instantiates the modules with the proofs, so that their
theorems can be cited through the instance: `SaleGuardHolds` and `StockRowIsAtomicHolds`
are `ImplementsGuardHolds` and `ImplementsRowHolds` for these constants, and
`RacesKeepContent` is what `ContentSync` keeps alone.

**Only model-checked.** The liveness properties, since the prover has neither fairness
nor `ENABLED`: `SaleIsDecided`, `PushIsDelivered`, `ChangesArrive`, `EveryEventAnswered`,
`WoundDown`, `IsolationLifts`. And one safety property, `NoOverOffer`: that a marketplace's
offer is not more than the stock needs the sum of the units of all sales still to be decided,
which the proofs do not have. Of the other safety properties, those in a `violation` run are
false, and all others are theorems.

**Proved and in no run**, because a property of a run says more: the type invariants
(except that of `MCTenants`), `OneClaimant`, `CompletedIsFinal`, `VersionNamesRow`,
`ReportsAdvance`.

**Hypotheses that cannot go.** `OrderedLedgerReplays` is false for a repair with a stale
target, `ErrorIsConsumed` where BASE is told of its eBay sales (`stock_twice`),
`OutboxWithDecrement` for a listing that is off when the sale commits, `NoPushForgotten` for
a job that is passed over (section 4). `AtMostOnce` is no theorem: `sale_unclaimed` refutes
it, and `DecrementsAccounted` is what holds in its place.

## 6. Not modelled, and the plan

Not modelled, because there is no state or order for a model to tell apart: pricing,
profit and customs formulas, prompts and the guardrail's text handling, payload mapping
of the adapters, the web application (`apps/admin`), the infrastructure's declarations
(`infra`, whose queue parameters are the constants here) and migrations, and the routes
of `admin-api` that only read. These are most of the repository's lines, which is why
the models stand for a small share of them. Of what is left:

1. Onboarding in product-fetch as actions of its own, with `product_master.status`
   (`sold_out` and `active` are overwritten by generation and publication).
2. Two overlapping polls with content of different age in `ContentSync`; the sale's
   `setInventory` between them is in `EbayListing`.
3. The line items of an order: two for one product build one key
   (`inventory-sync-worker/src/handler.ts:89`), which a second kind of sale in
   `SaleSync` would show.
4. The channel's isolation in the whole of `SaleSync`, from `SalesPolling`'s errors to the
   pending row that is never dispatched.
5. `link-ebay-listing`, `checkout-session`, `sync/jobs` retries and the settings routes of
   `admin-api`.
6. Proofs: `NoOverOffer`, with a sum over the sales still pending, and an abstract
   specification of a listing's content, to be implemented as `StockRow` is.

## 7. Running it

    tlc -workers 2 -config sale_races.cfg MCSaleSync
    tlc -workers 2 -config sync_races.cfg MCSyncRaces
    tlc -workers 2 -config tenants.cfg MCTenants
    tlc -workers 2 -config commerce.cfg MCCommerce
    tlapm SaleSync_proofs.tla

`commerce`, `tenants` and `sync_races` are the longest, some two or three minutes each on two
cores. The proofs of `Commerce_proofs` take six to ten minutes from nothing, the others
less. `PROJECT.json` lists
every run with its module, the lines each definition stands for, the hazards and what
covers them, and for each property a mutation of the code that breaks it: the operators
named `Bug...` are those mutations and no specification uses them.
