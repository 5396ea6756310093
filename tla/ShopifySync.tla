---------------------------- MODULE ShopifySync ----------------------------
(***************************************************************************)
(* One product on Shopify: its publication and its updates                 *)
(* (services/lambdas/shopify-sync-worker, packages/adapters/shopify) with  *)
(* the approvals of the merchant and the stock and content changes that    *)
(* product-fetch sends on. Unlike eBay's, Shopify's create call makes a    *)
(* product of its own every time it is made.                               *)
(*                                                                         *)
(* Stock is its own version: each change is a new number. The outbox in    *)
(* front of the queue is in ContentSync; here a change of a published      *)
(* listing is a message at once.                                           *)
(***************************************************************************)
EXTENDS Naturals, Sequences, FiniteSets

CONSTANTS
  Runners,            \* executions of the worker at once
  MaxContent,         \* contents the product goes through
  MaxStock,           \* changes of its stock
  MaxApprovals,       \* times the merchant approves the listing
  MaxShopReceives,    \* SQS maxReceiveCount
  MaxShopFaults       \* calls that fail, workers that die

ASSUME ShopAssumption ==
  /\ MaxContent \in Nat \ {0}
  /\ MaxStock \in Nat
  /\ MaxApprovals \in Nat
  /\ MaxShopReceives \in Nat \ {0}
  /\ MaxShopFaults \in Nat

Contents == 1..MaxContent
Stocks   == 0..MaxStock

VARIABLES
  content,    \* product_master.contentHash
  draft,      \* the latest draft's sourceContentHash
  stocked,    \* inventory_master's quantity and version
  shopRow,    \* channel_listings of Shopify: status, and externalId (0: null)
  shop,       \* the products in the store, in the order they were created: the
              \* content hash of the execution's key, and the quantity
  waiting,    \* messages of each type, by the number of receives; those received
              \* MaxShopReceives times are in the DLQ, which nothing redrives
  runner,     \* each execution: where it is and what it read
  held,       \* idempotency_keys: what each key's row says
  approved,
  shopFaults,
  lostAnswer, \* history, by content: executions that ended after their create, uncompleted
  unclaimed,  \* history, by content: publications that ran without a claim
  silent,     \* history: a stock change was sent to nobody, and a read of before it is under way
  overtaken   \* history: a quantity was set over one read later, or on a product that
              \* the row stopped naming meanwhile

shopVars == <<content, draft, stocked, shopRow, shop, waiting, runner, held, approved,
              shopFaults, lostAnswer, unclaimed, silent, overtaken>>

Types == {"publish", "update"}

Off == [pc |-> "off", type |-> "publish", receives |-> 0, content |-> 1, version |-> 0,
        external |-> 0, quantity |-> 0]

\* "free": there is no row, or it has failed.
HeldStatus == {"free", "busy", "expired", "done"}

\* buildIdempotencyKey([type, product, contentHash(, inventory.version)]).
\* A plausible bug: the update's key leaves the version out.
BugHoldKey(r) == <<r.type, r.content, 0>>

HoldKey(r) == <<r.type, r.content, IF r.type = "update" THEN r.version ELSE 0>>

HoldKeys == Types \X Contents \X Stocks

ShopTypeOK ==
  /\ content \in Contents /\ draft \in Contents
  /\ stocked \in Stocks
  /\ shopRow \in [status : {"draft", "published", "error"}, external : 0..Len(shop)]
  /\ \A p \in 1..Len(shop) : shop[p] \in [content : Contents, quantity : Stocks]
  /\ waiting \in [Types -> [0..MaxShopReceives -> Nat]]
  /\ runner \in [Runners -> [pc : {"off", "claim", "select", "start", "create",
                                   "inventory", "set", "record", "complete", "failed"},
                             type : Types, receives : 0..MaxShopReceives,
                             content : Contents, version : Stocks,
                             external : 0..Len(shop), quantity : Stocks]]
  /\ held \in [HoldKeys -> HeldStatus]
  /\ approved \in 0..MaxApprovals
  /\ shopFaults \in 0..MaxShopFaults
  /\ lostAnswer \in [Contents -> Nat] /\ unclaimed \in [Contents -> Nat]
  /\ silent \in BOOLEAN /\ overtaken \in BOOLEAN

ShopInit ==
  /\ content = 1 /\ draft = 1
  /\ stocked = 0
  /\ shopRow = [status |-> "draft", external |-> 0]
  /\ shop = <<>>
  /\ waiting = [t \in Types |-> [n \in 0..MaxShopReceives |-> 0]]
  /\ runner = [w \in Runners |-> Off]
  /\ held = [k \in HoldKeys |-> "free"]
  /\ approved = 0
  /\ shopFaults = 0
  /\ lostAnswer = [c \in Contents |-> 0]
  /\ unclaimed = [c \in Contents |-> 0]
  /\ silent = FALSE /\ overtaken = FALSE

ShopFault == shopFaults < MaxShopFaults /\ shopFaults' = shopFaults + 1

shopWorld   == <<content, draft, stocked, approved>>
history == <<lostAnswer, unclaimed, silent, overtaken>>

Go(w, pc) == runner' = [runner EXCEPT ![w].pc = pc]

\* The message is deleted, or shown again until it is in the DLQ.
Deleted(w) == runner' = [runner EXCEPT ![w] = Off]
ShownAgain(w) ==
  /\ waiting' = [waiting EXCEPT ![runner[w].type][runner[w].receives] = @ + 1]
  /\ runner' = [runner EXCEPT ![w] = Off]

------------------------------------------------------------------------------
\* A receive, and the handler's reads of the product, the row and the version.
Receive(w, t, receives) ==
  /\ runner[w].pc = "off"
  /\ waiting[t][receives] > 0
  /\ waiting' = [waiting EXCEPT ![t][receives] = @ - 1]
  /\ runner' = [runner EXCEPT ![w] =
       [pc |-> "claim", type |-> t, receives |-> receives + 1, content |-> content,
        version |-> stocked, external |-> shopRow.external, quantity |-> 0]]
  /\ UNCHANGED <<shopWorld, shopRow, shop, held, shopFaults, history>>

\* No account, no token, or one of these statements or tryClaim's fails.
LookupFails(w) ==
  /\ runner[w].pc \in {"claim", "select"}
  /\ ShopFault
  /\ Go(w, "failed")
  /\ UNCHANGED <<shopWorld, shopRow, shop, waiting, held, history>>

\* A plausible bug: the row of an execution in progress is taken over.
BugClaimableKey(k) == held[k] # "done"

\* The WHERE clause of tryClaim's upsert.
ClaimableKey(k) == held[k] \in {"free", "expired"}

ClaimKey(w) ==
  LET k == HoldKey(runner[w])
  IN  /\ runner[w].pc = "claim"
      /\ \/ /\ ClaimableKey(k)
            /\ held' = [held EXCEPT ![k] = "busy"]
            /\ Go(w, "start")
         \/ /\ ~ClaimableKey(k)
            /\ Go(w, "select")
            /\ UNCHANGED held
      /\ UNCHANGED <<shopWorld, shopRow, shop, waiting, shopFaults, history>>

\* The refused claim's own select: a completed key ends the message, one in
\* progress sends it back to the queue.
Refuse(w) ==
  LET k == HoldKey(runner[w])
  IN  /\ runner[w].pc = "select"
      /\ \/ held[k] = "done" /\ Deleted(w) /\ UNCHANGED waiting
         \/ held[k] \in {"busy", "expired"} /\ ShownAgain(w)
      /\ UNCHANGED <<shopWorld, shopRow, shop, held, shopFaults, history>>

\* By now the key has failed: the work runs without a claim.
RunUnclaimed(w) ==
  LET r == runner[w]
  IN  /\ r.pc = "select"
      /\ held[HoldKey(r)] = "free"
      /\ Go(w, "start")
      /\ unclaimed' = IF r.type = "publish" THEN [unclaimed EXCEPT ![r.content] = @ + 1]
                      ELSE unclaimed
      /\ UNCHANGED <<shopWorld, shopRow, shop, waiting, held, shopFaults, lostAnswer,
                     silent, overtaken>>

\* publish: the product is read again, and a draft of other content is refused.
StartPublish(w) ==
  /\ runner[w].pc = "start" /\ runner[w].type = "publish"
  /\ draft = content
  /\ runner' = [runner EXCEPT ![w].pc = "create", ![w].quantity = stocked]
  /\ UNCHANGED <<shopWorld, shopRow, shop, waiting, held, shopFaults, history>>

\* adapter.createListing.
Created(w) == Append(shop, [content |-> runner[w].content, quantity |-> runner[w].quantity])

Create(w) ==
  /\ runner[w].pc = "create"
  /\ shop' = Created(w)
  /\ runner' = [runner EXCEPT ![w].pc = "record", ![w].external = Len(shop) + 1]
  /\ UNCHANGED <<shopWorld, shopRow, waiting, held, shopFaults, history>>

\* update: adapter.updateListing sends the latest draft, whatever content it is of.
PutContent(w) ==
  /\ runner[w].pc = "start" /\ runner[w].type = "update"
  /\ Go(w, "inventory")
  /\ UNCHANGED <<shopWorld, shopRow, shop, waiting, held, shopFaults, history>>

ReadInventory(w) ==
  /\ runner[w].pc = "inventory"
  /\ runner' = [runner EXCEPT ![w].pc = "set", ![w].quantity = stocked]
  /\ UNCHANGED <<shopWorld, shopRow, shop, waiting, held, shopFaults, history>>

\* adapter.setInventory, on the product the handler read from the row.
SetInventory(w) ==
  LET p == runner[w].external
  IN  /\ runner[w].pc = "set"
      /\ shop' = [shop EXCEPT ![p].quantity = runner[w].quantity]
      /\ overtaken' = (overtaken \/ shop[p].quantity > runner[w].quantity)
      /\ Go(w, "record")
      /\ UNCHANGED <<shopWorld, shopRow, waiting, held, shopFaults, lostAnswer, unclaimed, silent>>

\* The row is published whatever it said; a publication also names its product.
RecordListing(w) ==
  /\ runner[w].pc = "record"
  /\ shopRow' = [status |-> "published",
                 external |-> IF runner[w].type = "publish" THEN runner[w].external
                              ELSE shopRow.external]
  /\ overtaken' = (overtaken \/ (/\ runner[w].type = "update"
                                 /\ runner[w].external # shopRow.external))
  /\ Go(w, "complete")
  /\ UNCHANGED <<shopWorld, shop, waiting, held, shopFaults, lostAnswer, unclaimed, silent>>

CompleteKey(w) ==
  /\ runner[w].pc = "complete"
  /\ held' = [held EXCEPT ![HoldKey(runner[w])] = "done"]
  /\ Deleted(w)
  /\ UNCHANGED <<shopWorld, shopRow, shop, waiting, shopFaults, history>>

\* The execution made a product whose key it does not complete.
MadeProduct(w) == runner[w].type = "publish" /\ runner[w].pc \in {"record", "complete"}

Loses(c) == [lostAnswer EXCEPT ![c] = @ + 1]

\* The catch of withIdempotency: store.fail(key), and then the handler's own.
Fails(w) ==
  /\ held' = [held EXCEPT ![HoldKey(runner[w])] = "free"]
  /\ Go(w, "failed")

\* A stale draft, an isolated channel, no account, a failed safety check, or a
\* statement or a call that fails.
StepFails(w) ==
  /\ runner[w].pc \in {"start", "create", "inventory", "set", "record", "complete"}
  /\ \/ /\ runner[w].pc = "start" /\ runner[w].type = "publish" /\ draft # content
        /\ UNCHANGED shopFaults
     \/ ShopFault
  /\ Fails(w)
  /\ lostAnswer' = IF MadeProduct(w) THEN Loses(runner[w].content) ELSE lostAnswer
  /\ UNCHANGED <<shopWorld, shopRow, shop, waiting, unclaimed, silent, overtaken>>

\* The call reaches the store and its answer does not come back.
CreateUnanswered(w) ==
  /\ runner[w].pc = "create"
  /\ ShopFault
  /\ shop' = Created(w)
  /\ Fails(w)
  /\ lostAnswer' = Loses(runner[w].content)
  /\ UNCHANGED <<shopWorld, shopRow, waiting, unclaimed, silent, overtaken>>

\* recordSyncError, the row's error, and the message back in the queue.
MarkError(w) ==
  /\ runner[w].pc = "failed"
  /\ shopRow' = [shopRow EXCEPT !.status = "error"]
  /\ ShownAgain(w)
  /\ UNCHANGED <<shopWorld, shop, held, shopFaults, history>>

WorkerDies(w) ==
  /\ runner[w].pc # "off"
  /\ ShopFault
  /\ lostAnswer' = IF MadeProduct(w) THEN Loses(runner[w].content) ELSE lostAnswer
  /\ ShownAgain(w)
  /\ UNCHANGED <<shopWorld, shopRow, shop, held, unclaimed, silent, overtaken>>

\* A dead execution's claim is a day old.
ClaimExpires(k) ==
  /\ held[k] = "busy"
  /\ \A w \in Runners : runner[w].pc \in {"off", "claim", "select", "failed"} \/ HoldKey(runner[w]) # k
  /\ held' = [held EXCEPT ![k] = "expired"]
  /\ UNCHANGED <<shopWorld, shopRow, shop, waiting, runner, shopFaults, history>>

------------------------------------------------------------------------------
\* POST /admin/products/:id/approve-shopify-listing.
Approve ==
  /\ approved < MaxApprovals
  /\ shopRow.status # "published"
  /\ approved' = approved + 1
  /\ waiting' = [waiting EXCEPT !["publish"][0] = @ + 1]
  /\ UNCHANGED <<content, draft, stocked, shopRow, shop, runner, held, shopFaults, history>>

\* isListingPublished: only a published listing is told.
SentOn ==
  IF shopRow.status = "published" THEN [waiting EXCEPT !["update"][0] = @ + 1] ELSE waiting

EditContent ==
  /\ content < MaxContent
  /\ content' = content + 1
  /\ waiting' = SentOn
  /\ UNCHANGED <<draft, stocked, shopRow, shop, runner, held, approved, shopFaults, history>>

\* ai-generate-worker, asked for by whoever finds the draft stale.
Regenerate ==
  /\ draft # content
  /\ draft' = content
  /\ UNCHANGED <<content, stocked, shopRow, shop, waiting, runner, held, approved, shopFaults, history>>

HasRead(w) == runner[w].pc \in {"create", "set", "record"}

StockChange ==
  /\ stocked < MaxStock
  /\ stocked' = stocked + 1
  /\ waiting' = SentOn
  /\ silent' = (silent \/ \E w \in Runners :
                            /\ HasRead(w)
                            /\ shopRow.status # "published" \/ runner[w].type = "publish")
  /\ UNCHANGED <<content, draft, shopRow, shop, runner, held, approved, shopFaults,
                 lostAnswer, unclaimed, overtaken>>

ShopNext ==
  \/ \E w \in Runners :
       \/ \E t \in Types, n \in 0..(MaxShopReceives - 1) : Receive(w, t, n)
       \/ LookupFails(w) \/ ClaimKey(w) \/ Refuse(w) \/ RunUnclaimed(w) \/ StartPublish(w) \/ Create(w) \/ PutContent(w) \/ ReadInventory(w)
       \/ SetInventory(w) \/ RecordListing(w) \/ CompleteKey(w) \/ StepFails(w)
       \/ CreateUnanswered(w) \/ MarkError(w) \/ WorkerDies(w)
  \/ \E k \in HoldKeys : ClaimExpires(k)
  \/ Approve \/ EditContent \/ Regenerate \/ StockChange

ShopSpec == ShopInit /\ [][ShopNext]_shopVars

------------------------------------------------------------------------------
\* One content is one product in the store, however often its approval is
\* given, delivered and retried ("safe to call repeatedly with the same key ...
\* instead of doing duplicate work (double-listing ...)", withIdempotency): each
\* one more takes a create whose execution failed or died before its key was
\* completed, or a publication that ran without a claim.
OneProductPerContent ==
  \A c \in Contents :
    Cardinality({p \in 1..Len(shop) : shop[p].content = c})
      <= 1 + lostAnswer[c] + unclaimed[c]

\* When nothing is under way for it, a published listing offers the stock there
\* is: no change of the stock is taken for one already sent (the version in the
\* update's key) - unless an update is in the DLQ, the change fell between an
\* execution's read and the row it publishes, an older read was set last, or another
\* publication took the row over.
QuantitySettles ==
  (/\ shopRow.status = "published"
   /\ \A n \in 0..MaxShopReceives : waiting["update"][n] = 0
   /\ \A w \in Runners : runner[w].pc = "off"
   /\ ~silent /\ ~overtaken)
    => shop[shopRow.external].quantity = stocked

\* The idempotency guard as the worker's executions show it: the guard's state of a
\* key, and the key an execution is under.
ShopKeyIs(k) ==
  IF held[k] = "done" THEN "done" ELSE IF held[k] = "busy" THEN "claimed" ELSE "free"

ShopUnder(w) ==
  IF runner[w].pc \in {"start", "create", "inventory", "set", "record", "complete"}
  THEN {HoldKey(runner[w])} ELSE {}

ShopGuard == INSTANCE IdempotencyGuard WITH
  Keys <- HoldKeys, Runners <- Runners,
  key <- [k \in HoldKeys |-> ShopKeyIs(k)], under <- [w \in Runners |-> ShopUnder(w)]
==============================================================================
