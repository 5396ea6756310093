----------------------------- MODULE EbayListing -----------------------------
(***************************************************************************)
(* One product's listing on eBay as packages/adapters/ebay/src/client.ts   *)
(* writes it: an inventory item (content and quantity, replaced as a whole *)
(* by PUT) and an offer (its price), each by calls of their own.           *)
(* createListing publishes, updateListing changes content, quantity and    *)
(* price and takes the content back when the price change fails, and       *)
(* setInventory changes the quantity. ebay-sync-worker runs the first two, *)
(* inventory-sync-worker the third.                                        *)
(*                                                                         *)
(* A draft is named by its number; it stands for the content and the price *)
(* that belong together. 0 is no draft. A draft may have no price: then    *)
(* createListing gets a fallback price, and updateListing none.            *)
(***************************************************************************)
EXTENDS Integers

CONSTANTS
  Pushes,       \* executions that write the listing at once
  MaxDrafts,    \* drafts the AI worker writes
  Unpriced,     \* those among them without a suggestedPriceUsd
  MaxSold,      \* units sold
  MaxPushes,    \* executions that begin
  MaxListingFaults

ASSUME ListingAssumption ==
  /\ MaxDrafts \in Nat \ {0}
  /\ Unpriced \subseteq 1..MaxDrafts
  /\ MaxSold \in Nat
  /\ MaxPushes \in Nat
  /\ MaxListingFaults \in Nat

Drafts == 0..MaxDrafts
Quantities == 0..MaxSold
Items == [content : Drafts, quantity : Quantities]

VARIABLES
  latest,    \* the draft a push reads
  stock,     \* the quantity a push computes
  item,      \* eBay's inventory item
  offer,     \* eBay's offer: its price, and whether it is published
  push,      \* each execution: step, kind, draft, quantity, the item it read
  pushes,    \* executions begun
  listingFaults,
  blemish    \* history: what the listing's coherence must allow for

listingVars == <<latest, stock, item, offer, push, pushes, listingFaults, blemish>>

NoItem == [content |-> 0, quantity |-> 0]
NoPush == [pc |-> "idle", kind |-> "stock", draft |-> 0, quantity |-> 0, prior |-> NoItem]

PushSteps == {"idle", "get", "put", "find", "price", "publish", "rollback"}

ListingTypeOK ==
  /\ latest \in Drafts
  /\ stock \in Quantities
  /\ item \in Items
  /\ offer \in [price : Drafts, live : BOOLEAN]
  /\ push \in [Pushes -> [pc : PushSteps, kind : {"create", "update", "stock"},
                          draft : Drafts, quantity : Quantities, prior : Items]]
  /\ pushes \in 0..MaxPushes
  /\ listingFaults \in 0..MaxListingFaults
  /\ blemish \in SUBSET {"overlap", "unanswered", "unfinished"}

ListingInit ==
  /\ latest = 1
  /\ stock = MaxSold
  /\ item = NoItem
  /\ offer = [price |-> 0, live |-> FALSE]
  /\ push = [p \in Pushes |-> NoPush]
  /\ pushes = 0
  /\ listingFaults = 0
  /\ blemish = {}

Busy == {p \in Pushes : push[p].pc # "idle"}

------------------------------------------------------------------------------
NewDraft ==
  /\ latest < MaxDrafts
  /\ latest' = latest + 1
  /\ UNCHANGED <<stock, item, offer, push, pushes, listingFaults, blemish>>

Sold ==
  /\ stock > 0
  /\ stock' = stock - 1
  /\ UNCHANGED <<latest, item, offer, push, pushes, listingFaults, blemish>>

\* publish() and update() read the draft and compute the quantity; dispatchToChannel
\* computes the quantity alone. createListing begins with its PUT, the others with a GET.
Begin(p, kind) ==
  /\ push[p].pc = "idle"
  /\ pushes < MaxPushes
  /\ kind = "create" \/ offer.live
  /\ pushes' = pushes + 1
  /\ push' = [push EXCEPT ![p] = [
       pc |-> IF kind = "create" THEN "put" ELSE "get", kind |-> kind,
       draft |-> IF kind = "stock" THEN 0 ELSE latest, quantity |-> stock, prior |-> NoItem]]
  /\ blemish' = IF Busy = {} THEN blemish ELSE blemish \cup {"overlap"}
  /\ UNCHANGED <<latest, stock, item, offer, listingFaults>>

\* replaceInventoryItemPreservingFields reads the item to keep what it does not set.
GetItem(p) ==
  /\ push[p].pc = "get"
  /\ push' = [push EXCEPT ![p].pc = "put", ![p].prior = item]
  /\ UNCHANGED <<latest, stock, item, offer, pushes, listingFaults, blemish>>

\* The body of the PUT: what is set, and what was read of the rest.
Body(p) ==
  [content  |-> IF push[p].kind = "stock" THEN push[p].prior.content ELSE push[p].draft,
   quantity |-> push[p].quantity]

\* What the PUT of the item is all of: a quantity, or an update without a price.
NoPrice(p) ==
  \/ push[p].kind = "stock"
  \/ push[p].kind = "update" /\ push[p].draft \in Unpriced

PutItem(p) ==
  /\ push[p].pc = "put"
  /\ item' = Body(p)
  /\ push' = [push EXCEPT ![p] =
       IF NoPrice(p) THEN NoPush ELSE [@ EXCEPT !.pc = "find"]]
  /\ UNCHANGED <<latest, stock, offer, pushes, listingFaults, blemish>>

\* findOfferId: a 404 is no offer; updateListing then changes no price.
FindOffer(p) ==
  /\ push[p].pc = "find"
  /\ push' = [push EXCEPT ![p] = [@ EXCEPT !.pc = "price"]]
  /\ UNCHANGED <<latest, stock, item, offer, pushes, listingFaults, blemish>>

\* The offer is made (POST) or replaced (PUT) with the draft's price.
PutPrice(p) ==
  /\ push[p].pc = "price"
  /\ offer' = [offer EXCEPT !.price = push[p].draft]
  /\ push' = [push EXCEPT ![p] =
       IF @.kind = "create" THEN [@ EXCEPT !.pc = "publish"] ELSE NoPush]
  /\ UNCHANGED <<latest, stock, item, pushes, listingFaults, blemish>>

PublishOffer(p) ==
  /\ push[p].pc = "publish"
  /\ offer' = [offer EXCEPT !.live = TRUE]
  /\ push' = [push EXCEPT ![p] = NoPush]
  /\ UNCHANGED <<latest, stock, item, pushes, listingFaults, blemish>>

\* Where an error leaves the execution: updateListing takes the content back when
\* the offer or its price failed, every other error goes to the caller.
AfterError(p) ==
  IF push[p].kind = "update" /\ push[p].pc \in {"find", "price"}
  THEN [push[p] EXCEPT !.pc = "rollback"] ELSE NoPush

\* A createListing that ends half-way leaves a content and a price that no
\* longer belong together, and the listing may be live from an earlier one.
Unfinished(p) == push[p].kind = "create" /\ push[p].pc \in {"find", "price"}

\* The call is refused, or not answered, and did nothing.
CallFailsOn(p) ==
  /\ p \in Busy
  /\ listingFaults < MaxListingFaults
  /\ listingFaults' = listingFaults + 1
  /\ push' = [push EXCEPT ![p] = AfterError(p)]
  /\ blemish' = IF Unfinished(p) \/ push[p].pc = "rollback"
                THEN blemish \cup {"unfinished"} ELSE blemish
  /\ UNCHANGED <<latest, stock, item, offer, pushes>>

\* The price change is done and its answer is lost: the content is taken back.
PriceUnanswered(p) ==
  /\ push[p].pc = "price"
  /\ listingFaults < MaxListingFaults
  /\ listingFaults' = listingFaults + 1
  /\ offer' = [offer EXCEPT !.price = push[p].draft]
  /\ push' = [push EXCEPT ![p] = AfterError(p)]
  /\ blemish' = blemish \cup {"unanswered"}
  /\ UNCHANGED <<latest, stock, item, pushes>>

\* The content half is put back to what was read before it (EbayPartialUpdateRolledBackError).
BugPrior(p) == [push[p].prior EXCEPT !.content = push[p].draft]

Prior(p) == push[p].prior

RollBack(p) ==
  /\ push[p].pc = "rollback"
  /\ item' = Prior(p)
  /\ push' = [push EXCEPT ![p] = NoPush]
  /\ UNCHANGED <<latest, stock, offer, pushes, listingFaults, blemish>>

\* The execution ends between two calls.
PushDies(p) ==
  /\ p \in Busy
  /\ listingFaults < MaxListingFaults
  /\ listingFaults' = listingFaults + 1
  /\ push' = [push EXCEPT ![p] = NoPush]
  /\ blemish' = IF push[p].pc \in {"find", "price", "rollback"}
                THEN blemish \cup {"unfinished"} ELSE blemish
  /\ UNCHANGED <<latest, stock, item, offer, pushes>>

\* delistProduct withdraws the offer.
Delist ==
  /\ offer.live
  /\ offer' = [offer EXCEPT !.live = FALSE]
  /\ UNCHANGED <<latest, stock, item, push, pushes, listingFaults, blemish>>

ListingNext ==
  \/ NewDraft \/ Sold \/ Delist
  \/ \E p \in Pushes :
       \/ \E kind \in {"create", "update", "stock"} : Begin(p, kind)
       \/ GetItem(p) \/ PutItem(p) \/ FindOffer(p) \/ PutPrice(p) \/ PublishOffer(p)
       \/ RollBack(p) \/ CallFailsOn(p) \/ PriceUnanswered(p) \/ PushDies(p)

ListingSpec == ListingInit /\ [][ListingNext]_listingVars

------------------------------------------------------------------------------
\* The content is offered at its own price, or it has none and an earlier one stays.
Matches(c, price) == c = price \/ c \in Unpriced

\* What a buyer sees belongs together: while no push is under way, a live
\* listing's title and description are of the draft its price is of, through
\* any number of failed updates and quantity pushes; but for a draft without a
\* price, which goes under the price there is, for pushes that overlapped, a
\* price change whose answer was lost, and a push or a rollback that did not
\* come to its end. Even those leave it some draft's: a PUT that replaces
\* everything never empties a live listing.
ListingCoherent ==
  offer.live => /\ item.content # 0
                /\ Busy = {} /\ blemish = {} => Matches(item.content, offer.price)
==============================================================================
