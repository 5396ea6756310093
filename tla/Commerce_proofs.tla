--------------------------- MODULE Commerce_proofs ---------------------------
(***************************************************************************)
(* Proofs about the listings of a product on the two marketplaces: the     *)
(* item and the offer that pushes write on eBay (EbayListing), the         *)
(* products and the quantity of Shopify (ShopifySync), and the draft       *)
(* between its writers and eBay (DraftReview). Each is proved for every    *)
(* value of its constants, and with the order's proofs that their          *)
(* composition, MCCommerce, keeps what each keeps alone.                   *)
(***************************************************************************)
EXTENDS MCCommerce, OrderShipping_proofs, FiniteSetTheorems, SequenceTheorems, TLAPS

------------------------------------------------------------------------------
(***************************************************************************)
(* EbayListing: for every set of pushes, drafts, quantities and faults.    *)
(* Whatever overlaps and fails, a PUT never takes a live item's content    *)
(* away (NeverEmptied); a push on its own takes content and price apart    *)
(* and together again (Together).                                          *)
(***************************************************************************)

PushStates == [pc : PushSteps, kind : {"create", "update", "stock"},
               draft : Drafts, quantity : Quantities, prior : Items]
Offers     == [price : Drafts, live : BOOLEAN]

\* ListingTypeOK by the names of its sets.
ListingTypes ==
  /\ latest \in Drafts
  /\ stock \in Quantities
  /\ item \in Items
  /\ offer \in Offers
  /\ push \in [Pushes -> PushStates]
  /\ pushes \in 0..MaxPushes
  /\ listingFaults \in 0..MaxListingFaults
  /\ blemish \in SUBSET {"overlap", "unanswered", "unfinished"}

\* What a push needs to have found or made by its step.
HasContent(p) ==
  /\ push[p].pc # "idle" /\ push[p].kind # "stock" => push[p].draft # 0
  /\ push[p].pc # "idle" /\ push[p].kind # "create" => item.content # 0
  /\ push[p].pc \in {"put", "find", "price", "rollback"} /\ push[p].kind # "create" =>
       push[p].prior.content # 0
  /\ push[p].pc \in {"find", "price", "publish"} => item.content # 0 /\ push[p].kind # "stock"
  /\ push[p].pc = "publish" => push[p].kind = "create"
  /\ push[p].pc \in {"get", "rollback"} => push[p].kind # "create"

\* Whatever overlaps or fails, an item that has a content is never left without one.
NeverEmptied ==
  /\ latest # 0
  /\ offer.live => item.content # 0
  /\ \A p \in Pushes : HasContent(p)

\* How far the only push under way has taken content and price apart.
Halfway(p) ==
  /\ push[p].pc \in {"get", "put", "publish"} => Matches(item.content, offer.price)
  /\ push[p].pc = "put" /\ push[p].kind # "create" =>
       Matches(push[p].prior.content, offer.price)
  /\ push[p].pc \in {"find", "price"} =>
       /\ item.content = push[p].draft
       /\ push[p].kind = "update" => Matches(push[p].prior.content, offer.price)
  /\ push[p].pc = "rollback" => Matches(push[p].prior.content, offer.price)

Together ==
  blemish = {} =>
    /\ \A p, q \in Busy : p = q
    /\ Busy = {} => Matches(item.content, offer.price)
    /\ \A p \in Busy : Halfway(p)

ListingInv == ListingTypes /\ NeverEmptied /\ Together

------------------------------------------------------------------------------
\* The types by their names are the types.
LEMMA ListingTypesNamed == ListingTypes <=> ListingTypeOK
  BY DEF ListingTypes, ListingTypeOK, PushStates, Offers

\* The idle push and the missing item have their types.
LEMMA NoPushType ==
  /\ NoPush \in PushStates /\ NoItem \in Items
  /\ 0 \in Drafts /\ 0 \in Quantities /\ Drafts \subseteq Nat
<1>1. 0 \in Drafts /\ 0 \in Quantities /\ Drafts \subseteq Nat
  BY ListingAssumption DEF ListingAssumption, Drafts, Quantities
<1>2. NoItem \in Items
  BY <1>1 DEF NoItem, Items
<1>3. NoPush \in PushStates
  BY ONLY <1>1, <1>2 DEF NoPush, PushStates, PushSteps
<1>4. QED
  BY <1>1, <1>2, <1>3

\* A step of a push leaves the others alone.
LEMMA PushType ==
  ASSUME ListingTypes, NEW p \in Pushes, NEW q \in PushStates,
         push' = [push EXCEPT ![p] = q]
  PROVE  push' \in [Pushes -> PushStates]
  BY ONLY ListingTypes, push' = [push EXCEPT ![p] = q], q \in PushStates DEF ListingTypes

\* Every action keeps the types.
LEMMA ListingTypeStep ==
  ASSUME ListingTypes, ListingNext
  PROVE  ListingTypes'
<1>0. ListingTypes
  OBVIOUS
<1>1. CASE NewDraft
  <2>1. latest' \in Drafts
    BY ONLY <1>1, <1>0, ListingAssumption DEF NewDraft, ListingTypes, Drafts, ListingAssumption
  <2>2. QED
    BY ONLY <1>1, <1>0, <2>1 DEF NewDraft, ListingTypes
<1>2. CASE Sold
  <2>1. stock' \in Quantities
    BY ONLY <1>2, <1>0, ListingAssumption DEF Sold, ListingTypes, Quantities, ListingAssumption
  <2>2. QED
    BY ONLY <1>2, <1>0, <2>1 DEF Sold, ListingTypes
<1>3. CASE Delist
  BY ONLY <1>3, <1>0 DEF Delist, ListingTypes, Offers
<1>4. ASSUME NEW p \in Pushes, NEW what \in {"create", "update", "stock"}, Begin(p, what)
      PROVE  ListingTypes'
  <2> DEFINE q == [pc |-> IF what = "create" THEN "put" ELSE "get", kind |-> what,
                   draft |-> IF what = "stock" THEN 0 ELSE latest, quantity |-> stock,
                   prior |-> NoItem]
  <2>1. q \in PushStates
    BY ONLY <1>0, NoPushType, what \in {"create", "update", "stock"}
       DEF ListingTypes, PushStates, PushSteps
  <2>2. push' = [push EXCEPT ![p] = q]
    BY ONLY <1>4 DEF Begin
  <2> HIDE DEF q
  <2>3. push' \in [Pushes -> PushStates]
    BY ONLY <1>0, <2>1, <2>2, PushType
  <2>4. pushes' \in 0..MaxPushes
    BY ONLY <1>4, <1>0, ListingAssumption DEF Begin, ListingTypes, ListingAssumption
  <2>5. blemish' \in SUBSET {"overlap", "unanswered", "unfinished"}
    BY ONLY <1>4, <1>0 DEF Begin, ListingTypes
  <2>6. QED
    BY ONLY <1>4, <1>0, <2>3, <2>4, <2>5 DEF Begin, ListingTypes
<1>5. ASSUME NEW p \in Pushes, GetItem(p) PROVE ListingTypes'
  <2> DEFINE q == [push[p] EXCEPT !.pc = "put", !.prior = item]
  <2>1. q \in PushStates
    BY ONLY <1>0, NoPushType DEF ListingTypes, PushStates, PushSteps
  <2>2. push' = [push EXCEPT ![p] = q]
    BY ONLY <1>5, <1>0 DEF GetItem, ListingTypes, PushStates
  <2> HIDE DEF q
  <2>3. push' \in [Pushes -> PushStates]
    BY ONLY <1>0, <2>1, <2>2, PushType
  <2>4. QED
    BY ONLY <1>5, <1>0, <2>3 DEF GetItem, ListingTypes
<1>6. ASSUME NEW p \in Pushes, PutItem(p) PROVE ListingTypes'
  <2> DEFINE q == IF NoPrice(p) THEN NoPush
                   ELSE [push[p] EXCEPT !.pc = "find"]
  <2>1. q \in PushStates
    BY ONLY <1>0, NoPushType DEF ListingTypes, PushStates, PushSteps
  <2>2. push' = [push EXCEPT ![p] = q]
    BY ONLY <1>6, <1>0 DEF PutItem, ListingTypes, PushStates, NoPrice
  <2> HIDE DEF q
  <2>3. push' \in [Pushes -> PushStates]
    BY ONLY <1>0, <2>1, <2>2, PushType
  <2>4. item' \in Items
    BY ONLY <1>6, <1>0 DEF PutItem, Body, ListingTypes, PushStates, Items
  <2>5. QED
    BY ONLY <1>6, <1>0, <2>3, <2>4 DEF PutItem, ListingTypes
<1>7. ASSUME NEW p \in Pushes, FindOffer(p) PROVE ListingTypes'
  <2> DEFINE q == [push[p] EXCEPT !.pc = "price"]
  <2>1. q \in PushStates
    BY ONLY <1>0, NoPushType DEF ListingTypes, PushStates, PushSteps
  <2>2. push' = [push EXCEPT ![p] = q]
    BY ONLY <1>7, <1>0 DEF FindOffer, ListingTypes, PushStates
  <2> HIDE DEF q
  <2>3. push' \in [Pushes -> PushStates]
    BY ONLY <1>0, <2>1, <2>2, PushType
  <2>4. QED
    BY ONLY <1>7, <1>0, <2>3 DEF FindOffer, ListingTypes
<1>8. ASSUME NEW p \in Pushes, PutPrice(p) PROVE ListingTypes'
  <2> DEFINE q == IF push[p].kind = "create" THEN [push[p] EXCEPT !.pc = "publish"]
                   ELSE NoPush
  <2>1. q \in PushStates
    BY ONLY <1>0, NoPushType DEF ListingTypes, PushStates, PushSteps
  <2>2. push' = [push EXCEPT ![p] = q]
    BY ONLY <1>8, <1>0 DEF PutPrice, ListingTypes, PushStates
  <2> HIDE DEF q
  <2>3. push' \in [Pushes -> PushStates]
    BY ONLY <1>0, <2>1, <2>2, PushType
  <2>4. offer' \in Offers
    BY ONLY <1>8, <1>0 DEF PutPrice, ListingTypes, PushStates, Offers
  <2>5. QED
    BY ONLY <1>8, <1>0, <2>3, <2>4 DEF PutPrice, ListingTypes
<1>9. ASSUME NEW p \in Pushes, PublishOffer(p) PROVE ListingTypes'
  <2> DEFINE q == NoPush
  <2>1. q \in PushStates
    BY ONLY <1>0, NoPushType DEF ListingTypes, PushStates, PushSteps
  <2>2. push' = [push EXCEPT ![p] = q]
    BY ONLY <1>9, <1>0 DEF PublishOffer, ListingTypes, PushStates
  <2> HIDE DEF q
  <2>3. push' \in [Pushes -> PushStates]
    BY ONLY <1>0, <2>1, <2>2, PushType
  <2>4. offer' \in Offers
    BY ONLY <1>9, <1>0 DEF PublishOffer, ListingTypes, Offers
  <2>5. QED
    BY ONLY <1>9, <1>0, <2>3, <2>4 DEF PublishOffer, ListingTypes
<1>10. ASSUME NEW p \in Pushes, RollBack(p) PROVE ListingTypes'
  <2> DEFINE q == NoPush
  <2>1. q \in PushStates
    BY ONLY <1>0, NoPushType DEF ListingTypes, PushStates, PushSteps
  <2>2. push' = [push EXCEPT ![p] = q]
    BY ONLY <1>10, <1>0 DEF RollBack, ListingTypes, PushStates
  <2> HIDE DEF q
  <2>3. push' \in [Pushes -> PushStates]
    BY ONLY <1>0, <2>1, <2>2, PushType
  <2>4. item' \in Items
    BY ONLY <1>10, <1>0 DEF RollBack, Prior, ListingTypes, PushStates
  <2>5. QED
    BY ONLY <1>10, <1>0, <2>3, <2>4 DEF RollBack, ListingTypes
<1>11. ASSUME NEW p \in Pushes, CallFailsOn(p) PROVE ListingTypes'
  <2> DEFINE q == AfterError(p)
  <2>1. q \in PushStates
    BY ONLY <1>0, NoPushType DEF ListingTypes, PushStates, PushSteps, AfterError
  <2>2. push' = [push EXCEPT ![p] = q]
    BY ONLY <1>11, <1>0 DEF CallFailsOn, ListingTypes, PushStates, AfterError
  <2> HIDE DEF q
  <2>3. push' \in [Pushes -> PushStates]
    BY ONLY <1>0, <2>1, <2>2, PushType
  <2>4. listingFaults' \in 0..MaxListingFaults
    BY ONLY <1>11, <1>0, ListingAssumption DEF CallFailsOn, ListingTypes, ListingAssumption
  <2>5. blemish' \in SUBSET {"overlap", "unanswered", "unfinished"}
    BY ONLY <1>11, <1>0 DEF CallFailsOn, ListingTypes
  <2>6. QED
    BY ONLY <1>11, <1>0, <2>3, <2>4, <2>5 DEF CallFailsOn, ListingTypes
<1>12. ASSUME NEW p \in Pushes, PriceUnanswered(p) PROVE ListingTypes'
  <2> DEFINE q == AfterError(p)
  <2>1. q \in PushStates
    BY ONLY <1>0, NoPushType DEF ListingTypes, PushStates, PushSteps, AfterError
  <2>2. push' = [push EXCEPT ![p] = q]
    BY ONLY <1>12, <1>0 DEF PriceUnanswered, ListingTypes, PushStates, AfterError
  <2> HIDE DEF q
  <2>3. push' \in [Pushes -> PushStates]
    BY ONLY <1>0, <2>1, <2>2, PushType
  <2>4. offer' \in Offers
    BY ONLY <1>12, <1>0 DEF PriceUnanswered, ListingTypes, PushStates, Offers
  <2>5. listingFaults' \in 0..MaxListingFaults
    BY ONLY <1>12, <1>0, ListingAssumption DEF PriceUnanswered, ListingTypes, ListingAssumption
  <2>6. blemish' \in SUBSET {"overlap", "unanswered", "unfinished"}
    BY ONLY <1>12, <1>0 DEF PriceUnanswered, ListingTypes
  <2>7. QED
    BY ONLY <1>12, <1>0, <2>3, <2>4, <2>5, <2>6 DEF PriceUnanswered, ListingTypes
<1>13. ASSUME NEW p \in Pushes, PushDies(p) PROVE ListingTypes'
  <2> DEFINE q == NoPush
  <2>1. q \in PushStates
    BY ONLY <1>0, NoPushType DEF ListingTypes, PushStates, PushSteps
  <2>2. push' = [push EXCEPT ![p] = q]
    BY ONLY <1>13, <1>0 DEF PushDies, ListingTypes, PushStates
  <2> HIDE DEF q
  <2>3. push' \in [Pushes -> PushStates]
    BY ONLY <1>0, <2>1, <2>2, PushType
  <2>4. listingFaults' \in 0..MaxListingFaults
    BY ONLY <1>13, <1>0, ListingAssumption DEF PushDies, ListingTypes, ListingAssumption
  <2>5. blemish' \in SUBSET {"overlap", "unanswered", "unfinished"}
    BY ONLY <1>13, <1>0 DEF PushDies, ListingTypes
  <2>6. QED
    BY ONLY <1>13, <1>0, <2>3, <2>4, <2>5 DEF PushDies, ListingTypes
<1>14. QED
  BY ONLY ListingNext, <1>1, <1>2, <1>3, <1>4, <1>5, <1>6, <1>7, <1>8, <1>9, <1>10, <1>11,
          <1>12, <1>13 DEF ListingNext

\* Every PUT replaces the item by one with a content.
LEMMA NeverEmptiedStep ==
  ASSUME ListingTypes, NeverEmptied, ListingNext
  PROVE  NeverEmptied'
<1> USE ListingAssumption DEF ListingTypes, PushStates, Offers, Items, Drafts, PushSteps,
       NeverEmptied, HasContent
<1>1. CASE NewDraft
  BY <1>1 DEF NewDraft
<1>2. CASE Sold
  BY <1>2 DEF Sold
<1>3. CASE Delist
  BY <1>3 DEF Delist
<1>4. ASSUME NEW p \in Pushes, NEW what \in {"create", "update", "stock"}, Begin(p, what)
      PROVE  NeverEmptied'
  BY <1>4 DEF Begin, NoItem
<1>5. ASSUME NEW p \in Pushes, GetItem(p) PROVE NeverEmptied'
  BY <1>5 DEF GetItem
<1>6. ASSUME NEW p \in Pushes, PutItem(p) PROVE NeverEmptied'
  BY <1>6 DEF PutItem, Body, NoPush, NoPrice
<1>7. ASSUME NEW p \in Pushes, FindOffer(p) PROVE NeverEmptied'
  BY <1>7 DEF FindOffer
<1>8. ASSUME NEW p \in Pushes, PutPrice(p) PROVE NeverEmptied'
  BY <1>8 DEF PutPrice, NoPush
<1>9. ASSUME NEW p \in Pushes, PublishOffer(p) PROVE NeverEmptied'
  BY <1>9 DEF PublishOffer, NoPush
<1>10. ASSUME NEW p \in Pushes, RollBack(p) PROVE NeverEmptied'
  BY <1>10 DEF RollBack, NoPush, Prior
<1>11. ASSUME NEW p \in Pushes, CallFailsOn(p) PROVE NeverEmptied'
  BY <1>11 DEF CallFailsOn, AfterError, Unfinished, NoPush
<1>12. ASSUME NEW p \in Pushes, PriceUnanswered(p) PROVE NeverEmptied'
  BY <1>12 DEF PriceUnanswered, AfterError, NoPush
<1>13. ASSUME NEW p \in Pushes, PushDies(p) PROVE NeverEmptied'
  BY <1>13 DEF PushDies, NoPush
<1>14. QED
  BY ONLY ListingNext, <1>1, <1>2, <1>3, <1>4, <1>5, <1>6, <1>7, <1>8, <1>9, <1>10, <1>11,
          <1>12, <1>13 DEF ListingNext

\* A push on its own takes content and price apart and together again.
LEMMA TogetherStep ==
  ASSUME ListingTypes, NeverEmptied, Together, ListingNext
  PROVE  Together'
<1> USE ListingAssumption DEF ListingTypes, PushStates, Offers, Items, Drafts, PushSteps,
       NeverEmptied, HasContent, Together, Halfway, Matches, Busy
<1>1. CASE NewDraft
  BY <1>1 DEF NewDraft
<1>2. CASE Sold
  BY <1>2 DEF Sold
<1>3. CASE Delist
  BY <1>3 DEF Delist
<1>4. ASSUME NEW p \in Pushes, NEW what \in {"create", "update", "stock"}, Begin(p, what)
      PROVE  Together'
  BY <1>4 DEF Begin, NoItem
<1>5. ASSUME NEW p \in Pushes, GetItem(p) PROVE Together'
  BY <1>5 DEF GetItem
<1>6. ASSUME NEW p \in Pushes, PutItem(p) PROVE Together'
  BY <1>6 DEF PutItem, Body, NoPush, NoPrice
<1>7. ASSUME NEW p \in Pushes, FindOffer(p) PROVE Together'
  BY <1>7 DEF FindOffer
<1>8. ASSUME NEW p \in Pushes, PutPrice(p) PROVE Together'
  BY <1>8 DEF PutPrice, NoPush
<1>9. ASSUME NEW p \in Pushes, PublishOffer(p) PROVE Together'
  BY <1>9 DEF PublishOffer, NoPush
<1>10. ASSUME NEW p \in Pushes, RollBack(p) PROVE Together'
  BY <1>10 DEF RollBack, NoPush, Prior
<1>11. ASSUME NEW p \in Pushes, CallFailsOn(p) PROVE Together'
  <2>1. CASE push[p].kind = "update" /\ push[p].pc \in {"find", "price"}
    BY <1>11, <2>1 DEF CallFailsOn, AfterError, Unfinished
  <2>2. CASE ~(push[p].kind = "update" /\ push[p].pc \in {"find", "price"})
    <3>1. push' = [push EXCEPT ![p] = NoPush] /\ UNCHANGED <<item, offer>> /\ p \in Busy
      BY <1>11, <2>2 DEF CallFailsOn, AfterError
    <3>2. Busy' = Busy \ {p}
      BY <3>1 DEF NoPush
    <3>3. blemish' = {} => blemish = {} /\ push[p].pc \in {"get", "put", "publish"}
      BY <1>11, <2>2, <3>1 DEF CallFailsOn, Unfinished
    <3>4. ASSUME blemish' = {}
          PROVE  Busy' = {} /\ Matches(item'.content, offer'.price)
      <4>1. \A r \in Busy : r = p
        BY ONLY <3>1, <3>3, <3>4, Together DEF Together
      <4>2. Halfway(p)
        BY ONLY <3>1, <3>3, <3>4, Together DEF Together
      <4>3. Matches(item.content, offer.price)
        BY ONLY <3>3, <3>4, <4>2 DEF Halfway
      <4>4. QED
        BY ONLY <3>1, <3>2, <4>1, <4>3
    <3>5. QED
      BY ONLY <3>4 DEF Together
  <2>3. QED
    BY <2>1, <2>2
<1>12. ASSUME NEW p \in Pushes, PriceUnanswered(p) PROVE Together'
  BY <1>12 DEF PriceUnanswered, AfterError, NoPush
<1>13. ASSUME NEW p \in Pushes, PushDies(p) PROVE Together'
  BY <1>13 DEF PushDies, NoPush
<1>14. QED
  BY ONLY ListingNext, <1>1, <1>2, <1>3, <1>4, <1>5, <1>6, <1>7, <1>8, <1>9, <1>10, <1>11,
          <1>12, <1>13 DEF ListingNext

------------------------------------------------------------------------------
\* The invariant holds at first.
LEMMA InitListing == ListingInit => ListingInv
<1> SUFFICES ASSUME ListingInit PROVE ListingInv
  OBVIOUS
<1>1. latest = 1 /\ 1 \in Drafts /\ MaxSold \in Quantities
  BY ListingAssumption DEF ListingInit, ListingAssumption, Drafts, Quantities
<1>2. item \in Items /\ offer \in Offers
  BY NoPushType DEF ListingInit, Offers
<1>3. push \in [Pushes -> PushStates]
  BY NoPushType DEF ListingInit
<1>4. pushes \in 0..MaxPushes /\ listingFaults \in 0..MaxListingFaults
  BY ListingAssumption DEF ListingInit, ListingAssumption
<1>5. ListingTypes
  BY <1>1, <1>2, <1>3, <1>4 DEF ListingInit, ListingTypes
<1>6. NeverEmptied
  BY <1>1 DEF ListingInit, NeverEmptied, HasContent, NoPush
<1>7. Together
  BY DEF ListingInit, Together, Halfway, Matches, Busy, NoPush, NoItem
<1>8. QED
  BY <1>5, <1>6, <1>7 DEF ListingInv

\* The two parts of the invariant are kept.
LEMMA NextListing == ListingInv /\ [ListingNext]_listingVars => ListingInv'
<1> SUFFICES ASSUME ListingInv, [ListingNext]_listingVars PROVE ListingInv'
  OBVIOUS
<1>1. CASE ListingNext
  BY <1>1, ListingTypeStep, NeverEmptiedStep, TogetherStep DEF ListingInv
<1>2. CASE UNCHANGED listingVars
  BY <1>2 DEF listingVars, ListingInv, ListingTypes, NeverEmptied, HasContent, Together,
              Halfway, Matches, Busy
<1>3. QED
  BY <1>1, <1>2

\* The two parts together are inductive, whatever overlaps and fails.
THEOREM ListingInductive == ListingSpec => []ListingInv
<1>1. QED
  BY InitListing, NextListing, PTL DEF ListingSpec

\* The listing's item and offer and every push keep their types.
THEOREM ListingTypeCorrect == ListingSpec => []ListingTypeOK
<1>1. ListingInv => ListingTypeOK
  BY ListingTypesNamed DEF ListingInv
<1>2. QED
  BY <1>1, ListingInductive, PTL

\* A live listing's content is of the draft its price is of while no push is under way,
\* through every refused call and every rollback, but for a draft that has no price and for
\* the blemishes named; and no push, complete or not, leaves a live listing without a content (client.ts,
\* updateListing and replaceInventoryItemPreservingFields).
THEOREM ListingCoherentHolds == ListingSpec => []ListingCoherent
<1>1. ListingInv => ListingCoherent
  BY DEF ListingInv, NeverEmptied, Together, ListingCoherent
<1>2. QED
  BY <1>1, ListingInductive, PTL

------------------------------------------------------------------------------
(***************************************************************************)
(* ShopifySync: for every set of executions and every number of contents,  *)
(* stock changes, approvals, receives and faults. The products of one      *)
(* content and the executions about to make one are weighed against its    *)
(* key, the answers that were lost and the publications without a claim    *)
(* (OneEach); and as long as the store lags behind the stock, a message,   *)
(* be it in the DLQ, or an execution would still bring it up (Settling).   *)
(***************************************************************************)

Products     == [content : Contents, quantity : Stocks]
RunnerSteps  == {"off", "claim", "select", "start", "create", "inventory", "set", "record",
                 "complete", "failed"}
RunnerStates == [pc : RunnerSteps, type : Types, receives : 0..MaxShopReceives,
                 content : Contents, version : Stocks, external : Nat, quantity : Stocks]
ShopRows     == [status : {"draft", "published", "error"}, external : Nat]
ShopQueues   == [Types -> [0..MaxShopReceives -> Nat]]

ShopTypes ==
  /\ content \in Contents /\ draft \in Contents
  /\ stocked \in Stocks
  /\ shopRow \in ShopRows
  /\ shop \in Seq(Products)
  /\ waiting \in ShopQueues
  /\ runner \in [Runners -> RunnerStates]
  /\ held \in [HoldKeys -> HeldStatus]
  /\ approved \in 0..MaxApprovals
  /\ shopFaults \in 0..MaxShopFaults
  /\ lostAnswer \in [Contents -> Nat] /\ unclaimed \in [Contents -> Nat]
  /\ silent \in BOOLEAN /\ overtaken \in BOOLEAN

\* An update waits, in the queue or in the DLQ.
Told == \E n \in 0..MaxShopReceives : waiting["update"][n] > 0

\* Externals are of products in the store; who updates has one.
Named ==
  /\ shopRow.external =< Len(shop)
  /\ \A w \in Runners : runner[w].external =< Len(shop)
  /\ shopRow.status = "published" \/ Told => shopRow.external # 0
  /\ \A w \in Runners :
       /\ runner[w].pc # "off" /\ runner[w].type = "update" =>
            runner[w].external # 0 /\ shopRow.external # 0
       /\ runner[w].pc = "record" => runner[w].external # 0

Phases ==
  \A w \in Runners :
    /\ runner[w].pc = "create" => runner[w].type = "publish"
    /\ runner[w].pc \in {"inventory", "set"} => runner[w].type = "update"

\* Who works under its key, claimed or not.
Holding(w) ==
  runner[w].pc \in {"start", "create", "inventory", "set", "record", "complete"}

Offered(c) == {p \in 1..Len(shop) : shop[p].content = c}

Publishes(w, c) == runner[w].type = "publish" /\ runner[w].content = c

\* Executions about to make a product of this content.
ToMake(c) == {w \in Runners : Publishes(w, c) /\ runner[w].pc \in {"start", "create"}}

InHand(c) == \E w \in Runners : Holding(w) /\ Publishes(w, c)

\* What the content's key is worth: one publication, completed or in progress.
Worth(c) ==
  IF \/ held[<<"publish", c, 0>>] = "done"
     \/ held[<<"publish", c, 0>>] = "busy" /\ InHand(c)
  THEN 1 ELSE 0

\* Nothing is made but for the key, an answer lost or a run without a claim.
OneOf(c) ==
  /\ IsFiniteSet(ToMake(c))
  /\ Cardinality(Offered(c)) + Cardinality(ToMake(c))
       =< Worth(c) + lostAnswer[c] + unclaimed[c]

OneEach == \A c \in Contents : OneOf(c)

\* What was read of the stock is not ahead of it, nor behind the key's version.
FreshReads ==
  \A w \in Runners :
    /\ runner[w].version =< stocked
    /\ runner[w].quantity =< stocked
    /\ runner[w].pc \in {"set", "record", "complete"} /\ runner[w].type = "update" =>
         runner[w].version =< runner[w].quantity

\* A key is taken by executions, and they have read their version.
KeysOfThePast ==
  \A c \in Contents, v \in Stocks : held[<<"update", c, v>>] # "free" => v =< stocked

Settled == shopRow.external # 0 /\ shop[shopRow.external].quantity = stocked

\* Who will still bring the store to the present stock.
WillSettle(w) ==
  /\ runner[w].type = "update"
  /\ \/ runner[w].pc \in {"claim", "select"} /\ runner[w].version = stocked
     \/ runner[w].pc \in {"start", "inventory", "failed"}
     \/ runner[w].pc \in {"set", "record"} /\ runner[w].quantity = stocked

Lags(w) ==
  /\ runner[w].pc \in {"set", "record"} /\ runner[w].type = "update"
  /\ runner[w].quantity # stocked

\* What was read last is in the store.
Truthful(w) ==
  /\ runner[w].pc \in {"create", "record"} /\ runner[w].type = "publish" =>
       runner[w].quantity = stocked
  /\ runner[w].pc = "record" /\ runner[w].quantity = stocked =>
       shop[runner[w].external].quantity = stocked
  /\ runner[w].pc = "complete" /\ runner[w].type = "update" /\ runner[w].version = stocked =>
       Settled

Finished == \A c \in Contents : held[<<"update", c, stocked>>] = "done" => Settled

UnderWay ==
  shopRow.status = "published" \/ (\E w \in Runners : Lags(w)) =>
    Settled \/ Told \/ (\E w \in Runners : WillSettle(w))

Settling ==
  ~silent /\ ~overtaken => (\A w \in Runners : Truthful(w)) /\ Finished /\ UnderWay

ShopInv ==
  ShopTypes /\ Named /\ Phases /\ OneEach /\ FreshReads /\ KeysOfThePast /\ Settling

------------------------------------------------------------------------------
(***************************************************************************)
(* What the actions do, by the parts the invariants look at                *)
(***************************************************************************)

\* The idle execution, and the first content and stock, have their types.
LEMMA OffType ==
  Off \in RunnerStates /\ 0 \in Stocks /\ 1 \in Contents /\ Stocks \subseteq Nat
<1>1. 0 \in Stocks /\ 1 \in Contents /\ Stocks \subseteq Nat
  BY ShopAssumption DEF ShopAssumption, Stocks, Contents
<1>2. 0 \in 0..MaxShopReceives
  BY ShopAssumption DEF ShopAssumption
<1>3. QED
  BY ONLY <1>1, <1>2 DEF Off, RunnerStates, RunnerSteps, Types

\* An execution's key is one of the keys.
LEMMA KeyType ==
  ASSUME ShopTypes, NEW w \in Runners
  PROVE  HoldKey(runner[w]) \in HoldKeys
<1>1. runner[w] \in RunnerStates
  BY DEF ShopTypes
<1>2. QED
  BY <1>1, OffType DEF RunnerStates, HoldKey, HoldKeys

\* An execution goes on with the message it received, or ends; the others stay.
Others(w) == \A v \in Runners \ {w} : runner'[v] = runner[v]

SameTask(w) ==
  /\ runner'[w].type = runner[w].type
  /\ runner'[w].content = runner[w].content
  /\ runner'[w].version = runner[w].version

Moves(w, pc, external, quantity) ==
  /\ runner' \in [Runners -> RunnerStates] /\ Others(w) /\ SameTask(w)
  /\ runner'[w].pc = pc
  /\ runner'[w].external = external
  /\ runner'[w].quantity = quantity

Ends(w) ==
  /\ runner' \in [Runners -> RunnerStates] /\ Others(w)
  /\ runner'[w].pc = "off"
  /\ runner'[w].external = 0 /\ runner'[w].version = 0 /\ runner'[w].quantity = 0

\* An execution that moves to a step, with a product and a quantity.
LEMMA MoveIs ==
  ASSUME ShopTypes, NEW w \in Runners, NEW pc \in RunnerSteps,
         NEW external \in Nat, NEW quantity \in Stocks,
         runner' = [runner EXCEPT ![w] = [runner[w] EXCEPT !.pc = pc, !.external = external,
                                                          !.quantity = quantity]]
  PROVE  Moves(w, pc, external, quantity)
<1> DEFINE q == [runner[w] EXCEPT !.pc = pc, !.external = external, !.quantity = quantity]
<1>1. runner[w] \in RunnerStates /\ runner \in [Runners -> RunnerStates]
  BY DEF ShopTypes
<1>2. /\ q \in RunnerStates /\ q.pc = pc /\ q.external = external /\ q.quantity = quantity
      /\ q.type = runner[w].type /\ q.content = runner[w].content
      /\ q.version = runner[w].version
  BY ONLY <1>1, pc \in RunnerSteps, external \in Nat, quantity \in Stocks DEF RunnerStates
<1> HIDE DEF q
<1>3. runner' = [runner EXCEPT ![w] = q]
  BY DEF q
<1>4. QED
  BY ONLY <1>1, <1>2, <1>3 DEF Moves, Others, SameTask

\* An execution that only moves to a step.
LEMMA GoMoves ==
  ASSUME ShopTypes, NEW w \in Runners, NEW pc \in RunnerSteps, Go(w, pc)
  PROVE  Moves(w, pc, runner[w].external, runner[w].quantity)
<1>1. runner[w] \in RunnerStates /\ runner \in [Runners -> RunnerStates]
  BY DEF ShopTypes
<1>2. runner' = [runner EXCEPT ![w] =
                   [runner[w] EXCEPT !.pc = pc, !.external = runner[w].external,
                                     !.quantity = runner[w].quantity]]
  BY ONLY <1>1, Go(w, pc) DEF Go, RunnerStates
<1>3. runner[w].external \in Nat /\ runner[w].quantity \in Stocks
  BY <1>1 DEF RunnerStates
<1>4. QED
  BY ONLY <1>2, <1>3, MoveIs, ShopTypes, pc \in RunnerSteps

\* An execution that is reset has ended.
LEMMA OffEnds ==
  ASSUME ShopTypes, NEW w \in Runners, runner' = [runner EXCEPT ![w] = Off]
  PROVE  Ends(w)
  BY OffType DEF ShopTypes, Ends, Others, Off

\* An execution begins with a message and what the handler reads.
Arrives(w, t) ==
  /\ runner' \in [Runners -> RunnerStates] /\ Others(w)
  /\ runner'[w].pc = "claim" /\ runner'[w].type = t
  /\ runner'[w].content = content
  /\ runner'[w].version = stocked /\ runner'[w].quantity = 0
  /\ runner'[w].external = shopRow.external

\* The numbers that are compared.
Numbers ==
  /\ Len(shop) \in Nat /\ shopRow.external \in Nat /\ stocked \in Nat
  /\ \A v \in Runners :
       /\ runner[v].external \in Nat /\ runner[v].version \in Nat
       /\ runner[v].quantity \in Nat

\* Under the types, what is compared is a number.
LEMMA NumbersTyped ==
  ASSUME ShopTypes
  PROVE  Numbers
<1>1. /\ shopRow \in ShopRows /\ shop \in Seq(Products) /\ stocked \in Stocks
      /\ runner \in [Runners -> RunnerStates]
  BY DEF ShopTypes
<1>2. Len(shop) \in Nat /\ stocked \in Nat
  BY <1>1, OffType
<1>3. shopRow.external \in Nat
  BY ONLY <1>1 DEF ShopRows
<1>4. ASSUME NEW v \in Runners
      PROVE  /\ runner[v].external \in Nat /\ runner[v].version \in Nat
             /\ runner[v].quantity \in Nat
  <2>1. runner[v] \in RunnerStates
    BY <1>1
  <2>2. QED
    BY ONLY <2>1, OffType DEF RunnerStates
<1>5. QED
  BY ONLY <1>2, <1>3, <1>4 DEF Numbers

\* A receive begins an execution with the product, row and version it reads.
LEMMA ReceiveEffect ==
  ASSUME ShopTypes, NEW w \in Runners, NEW t \in Types, NEW n \in 0..(MaxShopReceives - 1), Receive(w, t, n)
  PROVE  runner[w].pc = "off" /\ Arrives(w, t)
<1> DEFINE q == [pc |-> "claim", type |-> t, receives |-> n + 1, content |-> content,
                 version |-> stocked, external |-> shopRow.external, quantity |-> 0]
<1>1. q \in RunnerStates
  BY OffType, ShopAssumption DEF ShopTypes, ShopRows, RunnerStates, RunnerSteps, ShopAssumption
<1>2. /\ q.pc = "claim" /\ q.type = t /\ q.content = content /\ q.version = stocked
      /\ q.quantity = 0 /\ q.external = shopRow.external
  OBVIOUS
<1>3. runner[w].pc = "off" /\ runner' = [runner EXCEPT ![w] = q]
  BY DEF Receive
<1> HIDE DEF q
<1>4. QED
  BY ONLY <1>1, <1>2, <1>3, ShopTypes DEF ShopTypes, Others, Arrives

\* A publication's second read of the product takes the stock there is.
LEMMA StartEffect ==
  ASSUME ShopTypes, NEW w \in Runners, StartPublish(w)
  PROVE  /\ runner[w].pc = "start" /\ runner[w].type = "publish"
         /\ Moves(w, "create", runner[w].external, stocked)
<1>1. runner[w] \in RunnerStates /\ stocked \in Stocks
  BY DEF ShopTypes
<1>2. runner' = [runner EXCEPT ![w] =
                   [runner[w] EXCEPT !.pc = "create", !.external = runner[w].external,
                                     !.quantity = stocked]]
  BY ONLY <1>1, ShopTypes, StartPublish(w) DEF StartPublish, RunnerStates, ShopTypes
<1>3. QED
  BY <1>1, <1>2, MoveIs DEF StartPublish, RunnerStates, RunnerSteps

\* An update's read of the inventory takes the stock there is.
LEMMA ReadEffect ==
  ASSUME ShopTypes, NEW w \in Runners, ReadInventory(w)
  PROVE  /\ runner[w].pc = "inventory"
         /\ Moves(w, "set", runner[w].external, stocked)
<1>1. runner[w] \in RunnerStates /\ stocked \in Stocks
  BY DEF ShopTypes
<1>2. runner' = [runner EXCEPT ![w] =
                   [runner[w] EXCEPT !.pc = "set", !.external = runner[w].external,
                                     !.quantity = stocked]]
  BY ONLY <1>1, ShopTypes, ReadInventory(w) DEF ReadInventory, RunnerStates, ShopTypes
<1>3. QED
  BY <1>1, <1>2, MoveIs DEF ReadInventory, RunnerStates, RunnerSteps

\* The store has one product more.
Grows(w) ==
  /\ shop' \in Seq(Products) /\ Len(shop') = Len(shop) + 1
  /\ \A p \in 1..Len(shop) : shop'[p] = shop[p]
  /\ shop'[Len(shop) + 1].content = runner[w].content
  /\ shop'[Len(shop) + 1].quantity = runner[w].quantity

\* A create call adds one product.
LEMMA CreatedGrows ==
  ASSUME ShopTypes, NEW w \in Runners, shop' = Created(w)
  PROVE  Grows(w)
<1> DEFINE e == [content |-> runner[w].content, quantity |-> runner[w].quantity]
<1>1. /\ e \in Products /\ e.content = runner[w].content
      /\ e.quantity = runner[w].quantity
  BY DEF ShopTypes, RunnerStates, Products
<1>2. shop' = Append(shop, e)
  BY DEF Created
<1> HIDE DEF e
<1>3. shop \in Seq(Products)
  BY DEF ShopTypes
<1>4. QED
  BY ONLY <1>1, <1>2, <1>3, AppendProperties DEF Grows

\* Who creates has the number of the new product.
LEMMA CreateEffect ==
  ASSUME ShopTypes, NEW w \in Runners, Create(w)
  PROVE  /\ runner[w].pc = "create" /\ Grows(w)
         /\ Moves(w, "record", Len(shop) + 1, runner[w].quantity)
<1>1. runner[w] \in RunnerStates /\ Len(shop) + 1 \in Nat
  BY DEF ShopTypes
<1>2. runner' = [runner EXCEPT ![w] =
                   [runner[w] EXCEPT !.pc = "record", !.external = Len(shop) + 1,
                                     !.quantity = runner[w].quantity]]
  BY ONLY <1>1, ShopTypes, Create(w) DEF Create, RunnerStates, ShopTypes
<1>3. QED
  BY <1>1, <1>2, MoveIs, CreatedGrows DEF Create, RunnerStates, RunnerSteps

\* A quantity is set: no product comes, goes or changes its content.
SetsQuantity(w) ==
  /\ shop' \in Seq(Products) /\ Len(shop') = Len(shop)
  /\ \A p \in 1..Len(shop) : shop'[p].content = shop[p].content
  /\ \A p \in 1..Len(shop) \ {runner[w].external} : shop'[p] = shop[p]
  /\ runner[w].external \in 1..Len(shop) =>
       /\ shop'[runner[w].external].quantity = runner[w].quantity
       /\ overtaken' = (overtaken \/ shop[runner[w].external].quantity > runner[w].quantity)

\* A set changes the quantity of its own product alone.
LEMMA SetEffect ==
  ASSUME ShopTypes, NEW w \in Runners, SetInventory(w)
  PROVE  /\ runner[w].pc = "set"
         /\ Moves(w, "record", runner[w].external, runner[w].quantity)
         /\ SetsQuantity(w)
<1>1. Moves(w, "record", runner[w].external, runner[w].quantity)
  BY GoMoves DEF SetInventory, RunnerSteps
<1>2. /\ runner[w].quantity \in Stocks /\ shop \in Seq(Products)
      /\ shop' = [shop EXCEPT ![runner[w].external].quantity = runner[w].quantity]
  BY DEF SetInventory, ShopTypes, RunnerStates
<1>3. CASE runner[w].external \in 1..Len(shop)
  <2> DEFINE e == [shop[runner[w].external] EXCEPT !.quantity = runner[w].quantity]
  <2>1. /\ e \in Products /\ e.quantity = runner[w].quantity
        /\ e.content = shop[runner[w].external].content
    <3>1. shop[runner[w].external] \in Products
      BY ONLY <1>2, <1>3
    <3>2. QED
      BY ONLY <1>2, <3>1 DEF Products
  <2>2. shop' = [shop EXCEPT ![runner[w].external] = e]
    BY <1>2
  <2> HIDE DEF e
  <2>3. shop' \in Seq(Products) /\ Len(shop') = Len(shop)
    BY ONLY <1>2, <1>3, <2>1, <2>2, ExceptSeq
  <2>4. QED
    BY <1>1, <1>2, <1>3, <2>1, <2>2, <2>3 DEF SetInventory, SetsQuantity
<1>4. CASE runner[w].external \notin 1..Len(shop)
  <2>1. shop' = shop
    BY ONLY <1>2, <1>4
  <2>2. QED
    BY <1>1, <1>2, <1>4, <2>1 DEF SetInventory, SetsQuantity
<1>5. QED
  BY <1>3, <1>4

\* A failed execution frees its key.
LEMMA FailEffect ==
  ASSUME ShopTypes, NEW w \in Runners, Fails(w)
  PROVE  /\ Moves(w, "failed", runner[w].external, runner[w].quantity)
         /\ held' = [held EXCEPT ![HoldKey(runner[w])] = "free"]
         /\ held' \in [HoldKeys -> HeldStatus]
<1>1. Moves(w, "failed", runner[w].external, runner[w].quantity)
  BY GoMoves DEF Fails, RunnerSteps
<1>2. QED
  BY <1>1, KeyType DEF Fails, ShopTypes, HeldStatus

(***************************************************************************)
(* Each action as the invariants see it: where it leads one execution, and *)
(* what it does to the rest                                                *)
(***************************************************************************)

Receives(w, t) ==
  /\ runner[w].pc = "off" /\ Arrives(w, t)
  /\ t = "update" => Told
  /\ t # "update" => UNCHANGED Told
  /\ UNCHANGED <<shopWorld, shopRow, shop, held, shopFaults, history>>

\* Its message waits again.
Requeues(w) ==
  /\ runner[w].type = "update" => Told'
  /\ runner[w].type # "update" => UNCHANGED Told

Takes(w) ==
  /\ runner[w].pc = "claim" /\ held[HoldKey(runner[w])] \in {"free", "expired"}
  /\ held' = [held EXCEPT ![HoldKey(runner[w])] = "busy"]
  /\ Moves(w, "start", runner[w].external, runner[w].quantity)
  /\ UNCHANGED <<shopWorld, shopRow, shop, Told, shopFaults, history>>

\* Towards the work without the key: the refused claim, its select that finds the key
\* failed, or a failure before the work.
Prepares(w) ==
  /\ runner[w].pc \in {"claim", "select"}
  /\ \/ /\ \E pc \in {"select", "failed"} :
             Moves(w, pc, runner[w].external, runner[w].quantity)
        /\ UNCHANGED unclaimed
     \/ /\ held[HoldKey(runner[w])] = "free"
        /\ Moves(w, "start", runner[w].external, runner[w].quantity)
        /\ unclaimed' = IF runner[w].type = "publish"
                        THEN [unclaimed EXCEPT ![runner[w].content] = @ + 1] ELSE unclaimed
  /\ UNCHANGED <<shopWorld, shopRow, shop, Told, held, lostAnswer, silent, overtaken>>

GivesBack(w) ==
  /\ runner[w].pc = "select"
  /\ Requeues(w)
  /\ Ends(w)
  /\ UNCHANGED <<shopWorld, shopRow, shop, held, shopFaults, history>>

Drops(w) ==
  /\ runner[w].pc = "select" /\ held[HoldKey(runner[w])] = "done"
  /\ Ends(w)
  /\ UNCHANGED <<shopWorld, shopRow, shop, held, Told, shopFaults, history>>

Starts(w) ==
  /\ runner[w].pc = "start" /\ runner[w].type = "publish"
  /\ Moves(w, "create", runner[w].external, stocked)
  /\ UNCHANGED <<shopWorld, shopRow, shop, Told, held, shopFaults, history>>

Creates(w) ==
  /\ runner[w].pc = "create" /\ Grows(w)
  /\ Moves(w, "record", Len(shop) + 1, runner[w].quantity)
  /\ UNCHANGED <<shopWorld, shopRow, Told, held, shopFaults, history>>

Puts(w) ==
  /\ runner[w].pc = "start" /\ runner[w].type = "update"
  /\ Moves(w, "inventory", runner[w].external, runner[w].quantity)
  /\ UNCHANGED <<shopWorld, shopRow, shop, Told, held, shopFaults, history>>

ReadsStock(w) ==
  /\ runner[w].pc = "inventory"
  /\ Moves(w, "set", runner[w].external, stocked)
  /\ UNCHANGED <<shopWorld, shopRow, shop, Told, held, shopFaults, history>>

Sets(w) ==
  /\ runner[w].pc = "set" /\ SetsQuantity(w)
  /\ Moves(w, "record", runner[w].external, runner[w].quantity)
  /\ UNCHANGED <<shopWorld, shopRow, Told, held, shopFaults, lostAnswer, unclaimed, silent>>

Records(w) ==
  /\ runner[w].pc = "record"
  /\ shopRow'.status = "published"
  /\ \/ runner[w].type = "publish" /\ shopRow'.external = runner[w].external
     \/ runner[w].type = "update" /\ shopRow'.external = shopRow.external
  /\ overtaken' = (overtaken \/ (/\ runner[w].type = "update"
                                 /\ runner[w].external # shopRow.external))
  /\ Moves(w, "complete", runner[w].external, runner[w].quantity)
  /\ UNCHANGED <<shopWorld, shop, Told, held, shopFaults, lostAnswer, unclaimed, silent>>

Completes(w) ==
  /\ runner[w].pc = "complete"
  /\ held' = [held EXCEPT ![HoldKey(runner[w])] = "done"]
  /\ Ends(w)
  /\ UNCHANGED <<shopWorld, shopRow, shop, Told, shopFaults, history>>

\* The lost answer is counted if the execution had made a product.
Counts(w) ==
  lostAnswer' = IF MadeProduct(w) THEN Loses(runner[w].content) ELSE lostAnswer

FreesKey(w) ==
  /\ Holding(w)
  /\ held' = [held EXCEPT ![HoldKey(runner[w])] = "free"]
  /\ Moves(w, "failed", runner[w].external, runner[w].quantity)

GivesUp(w) ==
  /\ FreesKey(w) /\ Counts(w)
  /\ UNCHANGED <<shopWorld, shopRow, shop, Told, unclaimed, silent, overtaken>>

CreatesUnheard(w) ==
  /\ runner[w].pc = "create" /\ Grows(w) /\ FreesKey(w)
  /\ lostAnswer' = Loses(runner[w].content)
  /\ UNCHANGED <<shopWorld, shopRow, Told, unclaimed, silent, overtaken>>

Marks(w) ==
  /\ runner[w].pc = "failed"
  /\ shopRow'.status = "error" /\ shopRow'.external = shopRow.external
  /\ Requeues(w)
  /\ Ends(w)
  /\ UNCHANGED <<shopWorld, shop, held, shopFaults, history>>

Dies(w) ==
  /\ runner[w].pc # "off" /\ Counts(w)
  /\ Requeues(w)
  /\ Ends(w)
  /\ UNCHANGED <<shopWorld, shopRow, shop, held, unclaimed, silent, overtaken>>

Expires(k) == ClaimExpires(k) /\ UNCHANGED Told

\* The merchant, product-fetch and ai-generate-worker: a change of a published
\* listing is told.
Approves    == Approve /\ UNCHANGED Told
Regenerates == Regenerate /\ UNCHANGED Told
Tells       == IF shopRow.status = "published" THEN Told' ELSE UNCHANGED Told
Edits       == EditContent /\ Tells
Restocks    == StockChange /\ Tells

Effect ==
  \/ \E w \in Runners :
       \/ \E t \in Types : Receives(w, t)
       \/ Takes(w) \/ Prepares(w) \/ GivesBack(w) \/ Drops(w) \/ Starts(w) \/ Creates(w) \/ Puts(w)
       \/ ReadsStock(w) \/ Sets(w) \/ Records(w) \/ Completes(w) \/ GivesUp(w)
       \/ CreatesUnheard(w) \/ Marks(w) \/ Dies(w)
  \/ \E k \in HoldKeys : Expires(k)
  \/ Approves \/ Edits \/ Regenerates \/ Restocks

\* A queue counts messages at each number of receives.
LEMMA QueueNumber ==
  ASSUME ShopTypes, NEW t \in Types, NEW n \in 0..MaxShopReceives
  PROVE  waiting[t][n] \in Nat
<1>1. waiting[t] \in [0..MaxShopReceives -> Nat]
  BY DEF ShopTypes, ShopQueues
<1>2. QED
  BY ONLY <1>1, n \in 0..MaxShopReceives

\* A queue with one message more or less of one type and number of receives.
LEMMA QueueIs ==
  ASSUME ShopTypes, NEW t \in Types, NEW n \in 0..MaxShopReceives, NEW m \in Nat,
         waiting' = [waiting EXCEPT ![t][n] = m]
  PROVE  /\ waiting' \in ShopQueues
         /\ t # "update" => UNCHANGED Told
         /\ t = "update" /\ m > 0 => Told'
<1>1. waiting \in ShopQueues /\ "update" \in Types /\ waiting[t] \in [0..MaxShopReceives -> Nat]
  BY DEF ShopTypes, Types, ShopQueues
<1> DEFINE q == [waiting[t] EXCEPT ![n] = m]
<1>2. q \in [0..MaxShopReceives -> Nat] /\ q[n] = m
  BY ONLY <1>1, n \in 0..MaxShopReceives, m \in Nat
<1>3. waiting' = [waiting EXCEPT ![t] = q]
  OBVIOUS
<1> HIDE DEF q
<1>4. waiting' \in ShopQueues /\ waiting'[t] = q
  BY ONLY <1>1, <1>2, <1>3, t \in Types DEF ShopQueues
<1>5. ASSUME t # "update" PROVE UNCHANGED Told
  <2>1. waiting'["update"] = waiting["update"]
    BY ONLY <1>1, <1>3, <1>5 DEF ShopQueues
  <2>2. QED
    BY ONLY <2>1 DEF Told
<1>6. ASSUME t = "update", m > 0 PROVE Told'
  BY ONLY <1>2, <1>4, <1>6, n \in 0..MaxShopReceives DEF Told
<1>7. QED
  BY <1>4, <1>5, <1>6

\* A message shown again waits with the others of its type.
LEMMA WaitsAgain ==
  ASSUME ShopTypes, NEW w \in Runners, ShownAgain(w)
  PROVE  Requeues(w) /\ Ends(w) /\ waiting' \in ShopQueues
<1>1. runner[w].type \in Types /\ runner[w].receives \in 0..MaxShopReceives
  <2>1. runner[w] \in RunnerStates
    BY DEF ShopTypes
  <2>2. QED
    BY ONLY <2>1 DEF RunnerStates
<1> DEFINE t == runner[w].type  n == runner[w].receives  m == waiting[t][n] + 1
<1>2. m \in Nat /\ m > 0
  BY <1>1, QueueNumber
<1>3. waiting' = [waiting EXCEPT ![t][n] = m]
  BY DEF ShownAgain
<1>4. t \in Types /\ n \in 0..MaxShopReceives
  BY <1>1
<1> HIDE DEF m, t, n
<1>5. /\ waiting' \in ShopQueues
      /\ t # "update" => UNCHANGED Told
      /\ t = "update" => Told'
  BY <1>2, <1>3, <1>4, QueueIs
<1>6. Ends(w)
  BY OffEnds DEF ShownAgain
<1>7. QED
  BY <1>5, <1>6 DEF Requeues, t

\* A new message waits with those of its type.
LEMMA WaitsFirst ==
  ASSUME ShopTypes, NEW t \in Types, waiting' = [waiting EXCEPT ![t][0] = @ + 1]
  PROVE  /\ waiting' \in ShopQueues
         /\ t # "update" => UNCHANGED Told
         /\ t = "update" => Told'
<1> DEFINE m == waiting[t][0] + 1
<1>1. 0 \in 0..MaxShopReceives
  BY ShopAssumption DEF ShopAssumption
<1>2. m \in Nat /\ m > 0
  BY <1>1, QueueNumber
<1>3. waiting' = [waiting EXCEPT ![t][0] = m]
  OBVIOUS
<1> HIDE DEF m
<1>4. QED
  BY <1>1, <1>2, <1>3, QueueIs

\* A change is told where the listing is published.
LEMMA ChangeTold ==
  ASSUME ShopTypes, waiting' = SentOn
  PROVE  Tells /\ waiting' \in ShopQueues
<1>1. CASE shopRow.status = "published"
  <2>1. waiting' = [waiting EXCEPT !["update"][0] = @ + 1] /\ "update" \in Types
    BY <1>1 DEF SentOn, Types
  <2>2. QED
    BY <1>1, <2>1, WaitsFirst DEF Tells
<1>2. CASE shopRow.status # "published"
  <2>1. waiting' = waiting
    BY <1>2 DEF SentOn
  <2>2. UNCHANGED Told
    BY ONLY <2>1 DEF Told
  <2>3. QED
    BY <1>2, <2>1, <2>2 DEF Tells, ShopTypes
<1>3. QED
  BY <1>1, <1>2

\* Where no message comes or goes, nothing more and nothing less is told.
LEMMA ToldStays == ASSUME UNCHANGED waiting PROVE UNCHANGED Told
BY DEF Told

\* tryClaim takes the key, or is refused.
LEMMA ClaimEffect ==
  ASSUME ShopTypes, NEW w \in Runners, ClaimKey(w)
  PROVE  Takes(w) \/ Prepares(w)
<1> DEFINE k == HoldKey(runner[w])
<1>0. UNCHANGED Told
  BY ToldStays DEF ClaimKey
<1>1. CASE ClaimableKey(k) /\ held' = [held EXCEPT ![k] = "busy"] /\ Go(w, "start")
  <2>1. Moves(w, "start", runner[w].external, runner[w].quantity)
    BY <1>1, GoMoves DEF RunnerSteps
  <2>2. QED
    BY <1>0, <1>1, <2>1 DEF ClaimKey, ClaimableKey, Takes
<1>2. CASE Go(w, "select") /\ UNCHANGED held
  <2>1. Moves(w, "select", runner[w].external, runner[w].quantity)
    BY <1>2, GoMoves DEF RunnerSteps
  <2>2. QED
    BY <1>0, <1>2, <2>1 DEF ClaimKey, Prepares, history
<1>3. QED
  BY <1>1, <1>2 DEF ClaimKey

\* Its select gives the message back or drops it, or the work runs without a claim.
LEMMA SelectEffect ==
  ASSUME ShopTypes, NEW w \in Runners
  PROVE  /\ LookupFails(w) => Prepares(w)
         /\ Refuse(w) => GivesBack(w) \/ Drops(w)
         /\ RunUnclaimed(w) => Prepares(w)
<1>1. ASSUME LookupFails(w) PROVE Prepares(w)
  <2>1. UNCHANGED Told
    BY <1>1, ToldStays DEF LookupFails
  <2>2. Moves(w, "failed", runner[w].external, runner[w].quantity)
    BY <1>1, GoMoves DEF LookupFails, RunnerSteps
  <2>3. QED
    BY <1>1, <2>1, <2>2 DEF LookupFails, Prepares, history
<1>2. ASSUME Refuse(w) PROVE GivesBack(w) \/ Drops(w)
  <2>1. CASE ShownAgain(w)
    BY <1>2, <2>1, WaitsAgain DEF Refuse, GivesBack
  <2>2. CASE held[HoldKey(runner[w])] = "done" /\ Deleted(w) /\ UNCHANGED waiting
    BY <1>2, <2>2, OffEnds, ToldStays DEF Refuse, Drops, Deleted
  <2>3. QED
    BY <1>2, <2>1, <2>2 DEF Refuse
<1>3. ASSUME RunUnclaimed(w) PROVE Prepares(w)
  <2>1. UNCHANGED Told
    BY <1>3, ToldStays DEF RunUnclaimed
  <2>2. Moves(w, "start", runner[w].external, runner[w].quantity)
    BY <1>3, GoMoves DEF RunUnclaimed, RunnerSteps
  <2>3. QED
    BY <1>3, <2>1, <2>2 DEF RunUnclaimed, Prepares
<1>4. QED
  BY <1>1, <1>2, <1>3

\* Every step has one of the effects.
LEMMA Effects == ASSUME ShopTypes, ShopNext PROVE Effect
<1>1. ASSUME NEW w \in Runners, NEW t \in Types, NEW n \in 0..(MaxShopReceives - 1),
             Receive(w, t, n)
      PROVE  Receives(w, t)
  <2>1. n \in 0..MaxShopReceives
    BY ShopAssumption DEF ShopAssumption
  <2> DEFINE m == waiting[t][n] - 1
  <2>2. m \in Nat /\ waiting[t][n] > 0
    BY <1>1, <2>1, QueueNumber DEF Receive
  <2>3. waiting' = [waiting EXCEPT ![t][n] = m]
    BY <1>1 DEF Receive
  <2> HIDE DEF m
  <2>4. t # "update" => UNCHANGED Told
    BY <2>1, <2>2, <2>3, QueueIs
  <2>5. t = "update" => Told
    BY <2>1, <2>2 DEF Told
  <2>6. QED
    BY <1>1, <2>4, <2>5, ReceiveEffect DEF Receive, Receives
<1>2. ASSUME NEW w \in Runners, ClaimKey(w) PROVE Takes(w) \/ Prepares(w)
  BY <1>2, ClaimEffect
<1>3. ASSUME NEW w \in Runners, StartPublish(w) PROVE Starts(w)
  BY <1>3, StartEffect, ToldStays DEF StartPublish, Starts
<1>4. ASSUME NEW w \in Runners, Create(w) PROVE Creates(w)
  BY <1>4, CreateEffect, ToldStays DEF Create, Creates
<1>5. ASSUME NEW w \in Runners, PutContent(w) PROVE Puts(w)
  BY <1>5, GoMoves, ToldStays DEF PutContent, Puts, RunnerSteps
<1>6. ASSUME NEW w \in Runners, ReadInventory(w) PROVE ReadsStock(w)
  BY <1>6, ReadEffect, ToldStays DEF ReadInventory, ReadsStock
<1>7. ASSUME NEW w \in Runners, SetInventory(w) PROVE Sets(w)
  BY <1>7, SetEffect, ToldStays DEF SetInventory, Sets
<1>8. ASSUME NEW w \in Runners, RecordListing(w) PROVE Records(w)
  BY <1>8, GoMoves, ToldStays
     DEF RecordListing, Records, RunnerSteps, ShopTypes, RunnerStates, Types
<1>9. ASSUME NEW w \in Runners, CompleteKey(w) PROVE Completes(w)
  BY <1>9, OffEnds, ToldStays DEF CompleteKey, Completes, Deleted
<1>10. ASSUME NEW w \in Runners, StepFails(w) PROVE GivesUp(w)
  BY <1>10, FailEffect, ToldStays DEF StepFails, GivesUp, FreesKey, Counts, Holding
<1>11. ASSUME NEW w \in Runners, CreateUnanswered(w) PROVE CreatesUnheard(w)
  BY <1>11, FailEffect, CreatedGrows, ToldStays
     DEF CreateUnanswered, CreatesUnheard, FreesKey, Holding
<1>12. ASSUME NEW w \in Runners, MarkError(w) PROVE Marks(w)
  BY <1>12, WaitsAgain DEF MarkError, Marks, ShopTypes, ShopRows
<1>13. ASSUME NEW w \in Runners, WorkerDies(w) PROVE Dies(w)
  BY <1>13, WaitsAgain DEF WorkerDies, Dies, Counts
<1>14. ASSUME NEW w \in Runners, LookupFails(w) \/ Refuse(w) \/ RunUnclaimed(w)
       PROVE  Prepares(w) \/ GivesBack(w) \/ Drops(w)
  BY <1>14, SelectEffect
<1>15. ASSUME NEW k \in HoldKeys, ClaimExpires(k) PROVE Expires(k)
  BY <1>15, ToldStays DEF ClaimExpires, Expires
<1>16. CASE Approve
  <2>1. waiting' = [waiting EXCEPT !["publish"][0] = @ + 1] /\ "publish" \in Types
    BY <1>16 DEF Approve, Types
  <2>2. UNCHANGED Told
    BY <2>1, WaitsFirst
  <2>3. QED
    BY <1>16, <2>2 DEF Approves, Effect
<1>17. CASE EditContent \/ Regenerate \/ StockChange
  BY <1>17, ChangeTold, ToldStays
     DEF EditContent, Edits, Regenerate, Regenerates, StockChange, Restocks, Effect
<1>18. QED
  BY ONLY ShopNext, <1>1, <1>2, <1>3, <1>4, <1>5, <1>6, <1>7, <1>8, <1>9, <1>10, <1>11, <1>12,
          <1>13, <1>14, <1>15, <1>16, <1>17 DEF ShopNext, Effect

------------------------------------------------------------------------------
\* Every action keeps the types.
LEMMA ShopTypeStep ==
  ASSUME ShopTypes, ShopNext
  PROVE  ShopTypes'
<1>0. ShopTypes
  OBVIOUS
<1>1. ASSUME NEW w \in Runners, NEW t \in Types, NEW n \in 0..(MaxShopReceives - 1),
             Receive(w, t, n)
      PROVE  ShopTypes'
  <2>1. runner' \in [Runners -> RunnerStates]
    BY ONLY <1>1, <1>0, ReceiveEffect DEF Arrives
  <2>2. waiting' \in ShopQueues
    <3>1. n \in 0..MaxShopReceives
      BY ShopAssumption DEF ShopAssumption
    <3> DEFINE m == waiting[t][n] - 1
    <3>2. m \in Nat
      BY <1>1, <3>1, QueueNumber DEF Receive
    <3>3. waiting' = [waiting EXCEPT ![t][n] = m]
      BY <1>1 DEF Receive
    <3> HIDE DEF m
    <3>4. QED
      BY <3>1, <3>2, <3>3, QueueIs
  <2>3. QED
    BY ONLY <1>1, <1>0, <2>1, <2>2 DEF Receive, ShopTypes, shopWorld, history
<1>2. ASSUME NEW w \in Runners, ClaimKey(w) PROVE ShopTypes'
  <2>1. held' \in [HoldKeys -> HeldStatus]
    BY ONLY <1>2, <1>0, KeyType DEF ClaimKey, ShopTypes, HeldStatus
  <2>2. runner' \in [Runners -> RunnerStates]
    BY ONLY <1>2, <1>0, ClaimEffect DEF Takes, Prepares, Moves
  <2>3. QED
    BY ONLY <1>2, <1>0, <2>1, <2>2 DEF ClaimKey, ShopTypes, shopWorld, history
<1>3. ASSUME NEW w \in Runners, StartPublish(w) PROVE ShopTypes'
  <2>1. runner' \in [Runners -> RunnerStates]
    BY ONLY <1>3, <1>0, StartEffect DEF Moves
  <2>2. QED
    BY ONLY <1>3, <1>0, <2>1 DEF StartPublish, ShopTypes, shopWorld, history
<1>4. ASSUME NEW w \in Runners, Create(w) PROVE ShopTypes'
  <2>1. runner' \in [Runners -> RunnerStates] /\ shop' \in Seq(Products)
    BY ONLY <1>4, <1>0, CreateEffect DEF Moves, Grows
  <2>2. QED
    BY ONLY <1>4, <1>0, <2>1 DEF Create, ShopTypes, shopWorld, history
<1>5. ASSUME NEW w \in Runners, PutContent(w) PROVE ShopTypes'
  <2>1. runner' \in [Runners -> RunnerStates]
    BY ONLY <1>5, <1>0, GoMoves DEF PutContent, Moves, RunnerSteps
  <2>2. QED
    BY ONLY <1>5, <1>0, <2>1 DEF PutContent, ShopTypes, shopWorld, history
<1>6. ASSUME NEW w \in Runners, ReadInventory(w) PROVE ShopTypes'
  <2>1. runner' \in [Runners -> RunnerStates]
    BY ONLY <1>6, <1>0, ReadEffect DEF Moves
  <2>2. QED
    BY ONLY <1>6, <1>0, <2>1 DEF ReadInventory, ShopTypes, shopWorld, history
<1>7. ASSUME NEW w \in Runners, SetInventory(w) PROVE ShopTypes'
  <2>1. runner' \in [Runners -> RunnerStates] /\ shop' \in Seq(Products)
    BY ONLY <1>7, <1>0, SetEffect DEF Moves, SetsQuantity
  <2>2. overtaken' \in BOOLEAN
    BY ONLY <1>7, <1>0 DEF SetInventory, ShopTypes
  <2>3. QED
    BY ONLY <1>7, <1>0, <2>1, <2>2 DEF SetInventory, ShopTypes, shopWorld, history
<1>8. ASSUME NEW w \in Runners, RecordListing(w) PROVE ShopTypes'
  <2>1. runner' \in [Runners -> RunnerStates]
    BY ONLY <1>8, <1>0, GoMoves DEF RecordListing, Moves, RunnerSteps
  <2>2. shopRow' \in ShopRows /\ overtaken' \in BOOLEAN
    BY ONLY <1>8, <1>0 DEF RecordListing, ShopTypes, ShopRows, RunnerStates
  <2>3. QED
    BY ONLY <1>8, <1>0, <2>1, <2>2 DEF RecordListing, ShopTypes, shopWorld, history
<1>9. ASSUME NEW w \in Runners, CompleteKey(w) PROVE ShopTypes'
  <2>1. runner' \in [Runners -> RunnerStates]
    BY ONLY <1>9, <1>0, OffEnds DEF CompleteKey, Deleted, Ends
  <2>2. held' \in [HoldKeys -> HeldStatus]
    BY ONLY <1>9, <1>0, KeyType DEF CompleteKey, ShopTypes, HeldStatus
  <2>3. QED
    BY ONLY <1>9, <1>0, <2>1, <2>2 DEF CompleteKey, ShopTypes, shopWorld, history
<1>10. ASSUME NEW w \in Runners, StepFails(w) PROVE ShopTypes'
  <2>1. runner' \in [Runners -> RunnerStates] /\ held' \in [HoldKeys -> HeldStatus]
    BY ONLY <1>10, <1>0, FailEffect DEF StepFails, Moves
  <2>2. shopFaults' \in 0..MaxShopFaults
    BY ONLY <1>10, <1>0, ShopAssumption DEF StepFails, ShopFault, ShopTypes, ShopAssumption
  <2>3. lostAnswer' \in [Contents -> Nat]
    <3>1. lostAnswer \in [Contents -> Nat] /\ runner[w].content \in Contents
      BY ONLY <1>0 DEF ShopTypes, RunnerStates
    <3>2. QED
      BY ONLY <1>10, <3>1 DEF StepFails, Loses
  <2>4. QED
    BY ONLY <1>10, <1>0, <2>1, <2>2, <2>3 DEF StepFails, ShopTypes, shopWorld, history
<1>11. ASSUME NEW w \in Runners, CreateUnanswered(w) PROVE ShopTypes'
  <2>1. runner' \in [Runners -> RunnerStates] /\ held' \in [HoldKeys -> HeldStatus]
    BY ONLY <1>11, <1>0, FailEffect DEF CreateUnanswered, Moves
  <2>2. shop' \in Seq(Products)
    BY ONLY <1>11, <1>0, CreatedGrows DEF CreateUnanswered, Grows
  <2>3. shopFaults' \in 0..MaxShopFaults
    BY ONLY <1>11, <1>0, ShopAssumption DEF CreateUnanswered, ShopFault, ShopTypes,
            ShopAssumption
  <2>4. lostAnswer' \in [Contents -> Nat]
    <3>1. lostAnswer \in [Contents -> Nat] /\ runner[w].content \in Contents
      BY ONLY <1>0 DEF ShopTypes, RunnerStates
    <3>2. QED
      BY ONLY <1>11, <3>1 DEF CreateUnanswered, Loses
  <2>5. QED
    BY ONLY <1>11, <1>0, <2>1, <2>2, <2>3, <2>4 DEF CreateUnanswered, ShopTypes, shopWorld,
            history
<1>12. ASSUME NEW w \in Runners, MarkError(w) PROVE ShopTypes'
  <2>1. runner' \in [Runners -> RunnerStates]
    BY ONLY <1>12, <1>0, WaitsAgain DEF MarkError, Ends
  <2>2. waiting' \in ShopQueues
    BY ONLY <1>12, <1>0, WaitsAgain DEF MarkError
  <2>3. shopRow' \in ShopRows
    BY ONLY <1>12, <1>0 DEF MarkError, ShopTypes, ShopRows
  <2>4. QED
    BY ONLY <1>12, <1>0, <2>1, <2>2, <2>3 DEF MarkError, ShopTypes, shopWorld, history
<1>13. ASSUME NEW w \in Runners, WorkerDies(w) PROVE ShopTypes'
  <2>1. runner' \in [Runners -> RunnerStates]
    BY ONLY <1>13, <1>0, WaitsAgain DEF WorkerDies, Ends
  <2>2. waiting' \in ShopQueues
    BY ONLY <1>13, <1>0, WaitsAgain DEF WorkerDies
  <2>3. shopFaults' \in 0..MaxShopFaults
    BY ONLY <1>13, <1>0, ShopAssumption DEF WorkerDies, ShopFault, ShopTypes, ShopAssumption
  <2>4. lostAnswer' \in [Contents -> Nat]
    <3>1. lostAnswer \in [Contents -> Nat] /\ runner[w].content \in Contents
      BY ONLY <1>0 DEF ShopTypes, RunnerStates
    <3>2. QED
      BY ONLY <1>13, <3>1 DEF WorkerDies, Loses
  <2>5. QED
    BY ONLY <1>13, <1>0, <2>1, <2>2, <2>3, <2>4 DEF WorkerDies, ShopTypes, shopWorld, history
<1>14. ASSUME NEW k \in HoldKeys, ClaimExpires(k) PROVE ShopTypes'
  <2>1. held' \in [HoldKeys -> HeldStatus]
    BY ONLY <1>14, <1>0 DEF ClaimExpires, ShopTypes, HeldStatus
  <2>2. QED
    BY ONLY <1>14, <1>0, <2>1 DEF ClaimExpires, ShopTypes, shopWorld, history
<1>15. CASE Approve
  <2>1. waiting' \in ShopQueues
    <3>1. waiting' = [waiting EXCEPT !["publish"][0] = @ + 1] /\ "publish" \in Types
      BY ONLY <1>15 DEF Approve, Types
    <3>2. QED
      BY ONLY <1>0, <3>1, WaitsFirst
  <2>2. approved' \in 0..MaxApprovals
    BY ONLY <1>15, <1>0, ShopAssumption DEF Approve, ShopTypes, ShopAssumption
  <2>3. QED
    BY ONLY <1>15, <1>0, <2>1, <2>2 DEF Approve, ShopTypes, shopWorld, history
<1>16. CASE EditContent
  <2>1. waiting' \in ShopQueues
    BY ONLY <1>16, <1>0, ChangeTold DEF EditContent
  <2>2. content' \in Contents
    BY ONLY <1>16, <1>0, ShopAssumption DEF EditContent, ShopTypes, ShopAssumption, Contents
  <2>3. QED
    BY ONLY <1>16, <1>0, <2>1, <2>2 DEF EditContent, ShopTypes, shopWorld, history
<1>17. CASE Regenerate
  <2>1. QED
    BY ONLY <1>17, <1>0 DEF Regenerate, ShopTypes, shopWorld, history
<1>18. CASE StockChange
  <2>1. waiting' \in ShopQueues
    BY ONLY <1>18, <1>0, ChangeTold DEF StockChange
  <2>2. stocked' \in Stocks
    BY ONLY <1>18, <1>0, ShopAssumption DEF StockChange, ShopTypes, ShopAssumption, Stocks
  <2>3. silent' \in BOOLEAN
    BY ONLY <1>18, <1>0 DEF StockChange, ShopTypes
  <2>4. QED
    BY ONLY <1>18, <1>0, <2>1, <2>2, <2>3 DEF StockChange, ShopTypes, shopWorld, history
<1>19. ASSUME NEW w \in Runners, LookupFails(w) PROVE ShopTypes'
  <2>1. runner' \in [Runners -> RunnerStates]
    BY ONLY <1>19, <1>0, SelectEffect DEF Prepares, Moves
  <2>2. shopFaults' \in 0..MaxShopFaults
    BY ONLY <1>19, <1>0, ShopAssumption DEF LookupFails, ShopFault, ShopTypes, ShopAssumption
  <2>3. QED
    BY ONLY <1>19, <1>0, <2>1, <2>2 DEF LookupFails, ShopTypes, shopWorld, history
<1>20. ASSUME NEW w \in Runners, Refuse(w) PROVE ShopTypes'
  <2>1. runner' \in [Runners -> RunnerStates]
    BY ONLY <1>20, <1>0, SelectEffect DEF GivesBack, Drops, Ends
  <2>2. waiting' \in ShopQueues
    BY ONLY <1>20, <1>0, WaitsAgain DEF Refuse, ShopTypes
  <2>3. QED
    BY ONLY <1>20, <1>0, <2>1, <2>2 DEF Refuse, ShopTypes, shopWorld, history
<1>21. ASSUME NEW w \in Runners, RunUnclaimed(w) PROVE ShopTypes'
  <2>1. runner' \in [Runners -> RunnerStates]
    BY ONLY <1>21, <1>0, SelectEffect DEF Prepares, Moves
  <2>2. unclaimed' \in [Contents -> Nat]
    <3>1. unclaimed \in [Contents -> Nat] /\ runner[w].content \in Contents
      BY ONLY <1>0 DEF ShopTypes, RunnerStates
    <3>2. QED
      BY ONLY <1>21, <3>1 DEF RunUnclaimed
  <2>3. QED
    BY ONLY <1>21, <1>0, <2>1, <2>2 DEF RunUnclaimed, ShopTypes, shopWorld
<1>22. QED
  BY ONLY ShopNext, <1>1, <1>2, <1>3, <1>4, <1>5, <1>6, <1>7, <1>8, <1>9, <1>10, <1>11,
          <1>12, <1>13, <1>14, <1>15, <1>16, <1>17, <1>18, <1>19, <1>20, <1>21 DEF ShopNext

\* A product that is named stays in the store.
LEMMA NamedStep ==
  ASSUME Numbers, Numbers', Phases, Named, Effect
  PROVE  Named'
<1>1. ASSUME NEW w \in Runners, NEW t \in Types, Receives(w, t) PROVE Named'
  BY ONLY <1>1, Numbers, Numbers', Phases, Named
     DEF Receives, Arrives, Others,
         Phases, Named, Numbers, shopWorld, history
<1>2. ASSUME NEW w \in Runners, Takes(w) PROVE Named'
  <2>1. /\ Others(w) /\ SameTask(w) /\ runner[w].pc = "claim" /\ runner'[w].pc = "start"
        /\ runner'[w].external = runner[w].external /\ UNCHANGED <<shopRow, shop, Told>>
    BY ONLY <1>2 DEF Takes, Moves
  <2>2. QED
    BY ONLY <2>1, w \in Runners, Named DEF Others, SameTask, Named
<1>3. ASSUME NEW w \in Runners, GivesBack(w) PROVE Named'
  <2>1. Ends(w) /\ Requeues(w) /\ UNCHANGED <<shopRow, shop>> /\ runner[w].pc = "select"
    BY ONLY <1>3 DEF GivesBack
  <2>2. Told' => shopRow.external # 0
    BY ONLY <2>1, w \in Runners, Named, Numbers DEF Requeues, Named, Numbers
  <2>3. QED
    BY ONLY <2>1, <2>2, Numbers, Named DEF Ends, Others, Named, Numbers
<1>4. ASSUME NEW w \in Runners, Drops(w) PROVE Named'
  <2>1. Ends(w) /\ UNCHANGED <<shopRow, shop, Told>>
    BY ONLY <1>4 DEF Drops
  <2>2. QED
    BY ONLY <2>1, Numbers, Named DEF Ends, Others, Named, Numbers
<1>5. ASSUME NEW w \in Runners, Starts(w) PROVE Named'
  <2>1. /\ Others(w) /\ SameTask(w) /\ runner[w].pc # "off" /\ runner'[w].pc = "create"
        /\ runner'[w].external = runner[w].external /\ UNCHANGED <<shopRow, shop, Told>>
    BY ONLY <1>5 DEF Starts, Moves
  <2>2. QED
    BY ONLY <2>1, w \in Runners, Named DEF Others, SameTask, Named
<1>6. ASSUME NEW w \in Runners, Creates(w) PROVE Named'
  <2>1. /\ Len(shop') = Len(shop) + 1 /\ Others(w) /\ SameTask(w)
        /\ runner'[w].pc = "record" /\ runner'[w].external = Len(shop) + 1
        /\ UNCHANGED <<shopRow, Told>>
    BY ONLY <1>6, Numbers DEF Creates, Grows, Moves, Numbers
  <2>2. runner[w].pc = "create"
    BY ONLY <1>6 DEF Creates
  <2>3. QED
    BY ONLY <2>1, <2>2, w \in Runners, Numbers, Named, Phases
       DEF Others, SameTask, Named, Numbers, Phases
<1>7. ASSUME NEW w \in Runners, Puts(w) PROVE Named'
  <2>1. /\ Others(w) /\ SameTask(w) /\ runner[w].pc # "off" /\ runner'[w].pc = "inventory"
        /\ runner'[w].external = runner[w].external /\ UNCHANGED <<shopRow, shop, Told>>
    BY ONLY <1>7 DEF Puts, Moves
  <2>2. QED
    BY ONLY <2>1, w \in Runners, Named DEF Others, SameTask, Named
<1>8. ASSUME NEW w \in Runners, ReadsStock(w) PROVE Named'
  <2>1. /\ Others(w) /\ SameTask(w) /\ runner[w].pc # "off" /\ runner'[w].pc = "set"
        /\ runner'[w].external = runner[w].external /\ UNCHANGED <<shopRow, shop, Told>>
    BY ONLY <1>8 DEF ReadsStock, Moves
  <2>2. QED
    BY ONLY <2>1, w \in Runners, Named DEF Others, SameTask, Named
<1>9. ASSUME NEW w \in Runners, Sets(w) PROVE Named'
  <2>1. /\ Len(shop') = Len(shop) + 0 /\ Others(w) /\ SameTask(w)
        /\ runner'[w].pc = "record" /\ runner'[w].external = runner[w].external
        /\ UNCHANGED <<shopRow, Told>>
    BY ONLY <1>9, Numbers DEF Sets, SetsQuantity, Moves, Numbers
  <2>2. runner[w].pc = "set"
    BY ONLY <1>9 DEF Sets
  <2>3. QED
    BY ONLY <2>1, <2>2, w \in Runners, Numbers, Named, Phases
       DEF Others, SameTask, Named, Numbers, Phases
<1>10. ASSUME NEW w \in Runners, Records(w) PROVE Named'
  BY ONLY <1>10, Numbers, Numbers', Phases, Named
     DEF Records, Moves, Others,
         SameTask, Phases, Named, Numbers, shopWorld, history
<1>11. ASSUME NEW w \in Runners, Completes(w) PROVE Named'
  <2>1. Ends(w) /\ UNCHANGED <<shopRow, shop, Told>>
    BY ONLY <1>11 DEF Completes
  <2>2. QED
    BY ONLY <2>1, Numbers, Named DEF Ends, Others, Named, Numbers
<1>12. ASSUME NEW w \in Runners, GivesUp(w) PROVE Named'
  <2>1. /\ Others(w) /\ SameTask(w) /\ runner[w].pc # "off" /\ runner'[w].pc = "failed"
        /\ runner'[w].external = runner[w].external /\ UNCHANGED <<shopRow, shop, Told>>
    BY ONLY <1>12 DEF GivesUp, Moves, FreesKey, Holding
  <2>2. QED
    BY ONLY <2>1, w \in Runners, Named DEF Others, SameTask, Named
<1>13. ASSUME NEW w \in Runners, CreatesUnheard(w) PROVE Named'
  <2>1. /\ Len(shop') = Len(shop) + 1 /\ Others(w) /\ SameTask(w)
        /\ runner'[w].pc = "failed" /\ runner'[w].external = runner[w].external
        /\ UNCHANGED <<shopRow, Told>>
    BY ONLY <1>13, Numbers DEF CreatesUnheard, Grows, FreesKey, Moves, Numbers
  <2>2. runner[w].pc = "create"
    BY ONLY <1>13 DEF CreatesUnheard
  <2>3. QED
    BY ONLY <2>1, <2>2, w \in Runners, Numbers, Named, Phases
       DEF Others, SameTask, Named, Numbers, Phases
<1>14. ASSUME NEW w \in Runners, Marks(w) PROVE Named'
  <2>1. /\ runner[w].type = "update" => shopRow.external # 0
        /\ Told => shopRow.external # 0
    BY ONLY <1>14, Named DEF Marks, Named
  <2>2. shopRow'.status # "published" /\ shopRow'.external = shopRow.external
    BY ONLY <1>14 DEF Marks
  <2>3. Told' => shopRow.external # 0
    BY ONLY <1>14, <2>1, Numbers DEF Marks, Requeues, Numbers
  <2>4. UNCHANGED shop /\ Ends(w)
    BY ONLY <1>14 DEF Marks
  <2>5. QED
    BY ONLY <2>2, <2>3, <2>4, Named, Numbers DEF Ends, Others, Named, Numbers
<1>15. ASSUME NEW w \in Runners, Dies(w) PROVE Named'
  <2>1. Ends(w) /\ Requeues(w) /\ UNCHANGED <<shopRow, shop>> /\ runner[w].pc # "off"
    BY ONLY <1>15 DEF Dies
  <2>2. Told' => shopRow.external # 0
    BY ONLY <2>1, w \in Runners, Named, Numbers DEF Requeues, Named, Numbers
  <2>3. QED
    BY ONLY <2>1, <2>2, Numbers, Named DEF Ends, Others, Named, Numbers
<1>16. ASSUME NEW k \in HoldKeys, Expires(k) PROVE Named'
  BY ONLY <1>16, Numbers, Numbers', Phases, Named
     DEF Expires, ClaimExpires, Phases, Named,
         Numbers, shopWorld, history
<1>17. CASE Approves
  BY ONLY <1>17, Numbers, Numbers', Phases, Named
     DEF Approves, Approve, Phases, Named,
         Numbers, shopWorld, history
<1>18. CASE Edits
  BY ONLY <1>18, Numbers, Numbers', Phases, Named
     DEF Edits, EditContent, Tells, Phases,
         Named, Numbers, shopWorld, history
<1>19. CASE Regenerates
  BY ONLY <1>19, Numbers, Numbers', Phases, Named
     DEF Regenerates, Regenerate, Phases, Named,
         Numbers, shopWorld, history
<1>20. CASE Restocks
  BY ONLY <1>20, Numbers, Numbers', Phases, Named
     DEF Restocks, StockChange, Tells, HasRead,
         Phases, Named, Numbers, shopWorld, history
<1>21. ASSUME NEW w \in Runners, Prepares(w) PROVE Named'
  <2>1. /\ Others(w) /\ SameTask(w) /\ runner[w].pc # "off" /\ runner'[w].pc # "record"
        /\ runner'[w].external = runner[w].external /\ UNCHANGED <<shopRow, shop, Told>>
    BY ONLY <1>21 DEF Prepares, Moves
  <2>2. QED
    BY ONLY <2>1, w \in Runners, Named DEF Others, SameTask, Named
<1>22. QED
  BY ONLY Effect, <1>1, <1>2, <1>3, <1>4, <1>5, <1>6, <1>7, <1>8, <1>9, <1>10, <1>11,
          <1>12, <1>13, <1>14, <1>15, <1>16, <1>17, <1>18, <1>19, <1>20, <1>21 DEF Effect

\* A publication creates, an update sets.
LEMMA PhasesStep ==
  ASSUME Phases, Effect
  PROVE  Phases'
<1>1. ASSUME NEW w \in Runners, NEW t \in Types, Receives(w, t) PROVE Phases'
  BY ONLY <1>1, Phases DEF Receives, Arrives, Others, Phases, shopWorld, history
<1>2. ASSUME NEW w \in Runners, Takes(w) PROVE Phases'
  BY ONLY <1>2, Phases DEF Takes, Moves, Others, SameTask, Phases, shopWorld, history
<1>3. ASSUME NEW w \in Runners, GivesBack(w) PROVE Phases'
  BY ONLY <1>3, Phases DEF GivesBack, Requeues, Ends, Others, Phases, shopWorld, history
<1>4. ASSUME NEW w \in Runners, Drops(w) PROVE Phases'
  BY ONLY <1>4, Phases DEF Drops, Ends, Others, Phases, shopWorld, history
<1>5. ASSUME NEW w \in Runners, Starts(w) PROVE Phases'
  BY ONLY <1>5, Phases DEF Starts, Moves, Others, SameTask, Phases, shopWorld, history
<1>6. ASSUME NEW w \in Runners, Creates(w) PROVE Phases'
  BY ONLY <1>6, Phases
     DEF Creates, Moves, Others, SameTask, Grows, Phases,
         shopWorld, history
<1>7. ASSUME NEW w \in Runners, Puts(w) PROVE Phases'
  BY ONLY <1>7, Phases DEF Puts, Moves, Others, SameTask, Phases, shopWorld, history
<1>8. ASSUME NEW w \in Runners, ReadsStock(w) PROVE Phases'
  BY ONLY <1>8, Phases
     DEF ReadsStock, Moves, Others, SameTask, Phases, shopWorld,
         history
<1>9. ASSUME NEW w \in Runners, Sets(w) PROVE Phases'
  BY ONLY <1>9, Phases
     DEF Sets, Moves, Others, SameTask, SetsQuantity, Phases, shopWorld,
         history
<1>10. ASSUME NEW w \in Runners, Records(w) PROVE Phases'
  BY ONLY <1>10, Phases DEF Records, Moves, Others, SameTask, Phases, shopWorld, history
<1>11. ASSUME NEW w \in Runners, Completes(w) PROVE Phases'
  BY ONLY <1>11, Phases DEF Completes, Ends, Others, Phases, shopWorld, history
<1>12. ASSUME NEW w \in Runners, GivesUp(w) PROVE Phases'
  BY ONLY <1>12, Phases
     DEF GivesUp, FreesKey, Counts, Loses, Holding, Moves, Others,
         SameTask, Phases, shopWorld, history
<1>13. ASSUME NEW w \in Runners, CreatesUnheard(w) PROVE Phases'
  BY ONLY <1>13, Phases
     DEF CreatesUnheard, FreesKey, Loses, Holding, Grows, Moves,
         Others, SameTask, Phases, shopWorld, history
<1>14. ASSUME NEW w \in Runners, Marks(w) PROVE Phases'
  BY ONLY <1>14, Phases DEF Marks, Requeues, Ends, Others, Phases, shopWorld, history
<1>15. ASSUME NEW w \in Runners, Dies(w) PROVE Phases'
  BY ONLY <1>15, Phases
     DEF Dies, Counts, Loses, Requeues, Ends, Others, Phases,
         shopWorld, history
<1>16. ASSUME NEW k \in HoldKeys, Expires(k) PROVE Phases'
  BY ONLY <1>16, Phases DEF Expires, ClaimExpires, Phases, shopWorld, history
<1>17. CASE Approves
  BY ONLY <1>17, Phases DEF Approves, Approve, Phases, shopWorld, history
<1>18. CASE Edits
  BY ONLY <1>18, Phases DEF Edits, EditContent, Tells, Phases, shopWorld, history
<1>19. CASE Regenerates
  BY ONLY <1>19, Phases DEF Regenerates, Regenerate, Phases, shopWorld, history
<1>20. CASE Restocks
  BY ONLY <1>20, Phases DEF Restocks, StockChange, Tells, HasRead, Phases, shopWorld, history
<1>21. ASSUME NEW w \in Runners, Prepares(w) PROVE Phases'
  BY ONLY <1>21, Phases DEF Prepares, Moves, Others, SameTask, Phases
<1>22. QED
  BY ONLY Effect, <1>1, <1>2, <1>3, <1>4, <1>5, <1>6, <1>7, <1>8, <1>9, <1>10, <1>11,
          <1>12, <1>13, <1>14, <1>15, <1>16, <1>17, <1>18, <1>19, <1>20, <1>21 DEF Effect

\* The stock's version only grows.
LEMMA ReadsStep ==
  ASSUME Numbers, Numbers', Phases, FreshReads, Effect
  PROVE  FreshReads'
<1>1. ASSUME NEW w \in Runners, NEW t \in Types, Receives(w, t) PROVE FreshReads'
  <2>1. /\ Others(w) /\ stocked' = stocked
        /\ runner'[w].version = stocked /\ runner'[w].quantity = 0 /\ runner'[w].pc = "claim"
    BY ONLY <1>1 DEF Receives, Arrives, shopWorld
  <2>2. QED
    BY ONLY <2>1, w \in Runners, Numbers, FreshReads DEF Others, SameTask, Numbers, FreshReads
<1>2. ASSUME NEW w \in Runners, Takes(w) PROVE FreshReads'
  BY ONLY <1>2, Numbers, Numbers', Phases, FreshReads
     DEF Takes, Moves, Others, SameTask,
         Phases, FreshReads, Numbers, shopWorld, history
<1>3. ASSUME NEW w \in Runners, GivesBack(w) PROVE FreshReads'
  BY ONLY <1>3, Numbers, Numbers', Phases, FreshReads
     DEF GivesBack, Requeues, Ends,
         Others, Phases, FreshReads, Numbers, shopWorld, history
<1>4. ASSUME NEW w \in Runners, Drops(w) PROVE FreshReads'
  BY ONLY <1>4, Numbers, Numbers', Phases, FreshReads
     DEF Drops, Ends, Others, Phases,
         FreshReads, Numbers, shopWorld, history
<1>5. ASSUME NEW w \in Runners, Starts(w) PROVE FreshReads'
  <2>1. /\ Others(w) /\ stocked' = stocked
        /\ runner'[w].version = runner[w].version /\ runner'[w].quantity = stocked
        /\ runner'[w].pc = "create"
    BY ONLY <1>5 DEF Starts, Moves, SameTask, shopWorld
  <2>2. QED
    BY ONLY <2>1, w \in Runners, Numbers, FreshReads DEF Others, SameTask, Numbers, FreshReads
<1>6. ASSUME NEW w \in Runners, Creates(w) PROVE FreshReads'
  <2>1. /\ Others(w) /\ SameTask(w) /\ runner[w].pc = "create" /\ stocked' = stocked
        /\ runner'[w].quantity = runner[w].quantity
    BY ONLY <1>6 DEF Creates, Moves, shopWorld
  <2>2. QED
    BY ONLY <2>1, w \in Runners, Phases, FreshReads DEF Others, SameTask, Phases, FreshReads
<1>7. ASSUME NEW w \in Runners, Puts(w) PROVE FreshReads'
  BY ONLY <1>7, Numbers, Numbers', Phases, FreshReads
     DEF Puts, Moves, Others, SameTask,
         Phases, FreshReads, Numbers, shopWorld, history
<1>8. ASSUME NEW w \in Runners, ReadsStock(w) PROVE FreshReads'
  <2>1. /\ Others(w) /\ stocked' = stocked
        /\ runner'[w].version = runner[w].version /\ runner'[w].quantity = stocked
    BY ONLY <1>8 DEF ReadsStock, Moves, SameTask, shopWorld
  <2>2. QED
    BY ONLY <2>1, w \in Runners, Numbers, FreshReads DEF Others, SameTask, Numbers, FreshReads
<1>9. ASSUME NEW w \in Runners, Sets(w) PROVE FreshReads'
  <2>1. /\ Others(w) /\ stocked' = stocked
        /\ SameTask(w) /\ runner'[w].quantity = runner[w].quantity /\ runner[w].pc = "set"
    BY ONLY <1>9 DEF Sets, Moves, SameTask, shopWorld
  <2>2. QED
    BY ONLY <2>1, w \in Runners, Numbers, FreshReads DEF Others, SameTask, Numbers, FreshReads
<1>10. ASSUME NEW w \in Runners, Records(w) PROVE FreshReads'
  BY ONLY <1>10, Numbers, Numbers', Phases, FreshReads
     DEF Records, Moves, Others,
         SameTask, Phases, FreshReads, Numbers, shopWorld, history
<1>11. ASSUME NEW w \in Runners, Completes(w) PROVE FreshReads'
  BY ONLY <1>11, Numbers, Numbers', Phases, FreshReads
     DEF Completes, Ends, Others,
         Phases, FreshReads, Numbers, shopWorld, history
<1>12. ASSUME NEW w \in Runners, GivesUp(w) PROVE FreshReads'
  BY ONLY <1>12, Numbers, Numbers', Phases, FreshReads
     DEF GivesUp, FreesKey, Counts,
         Loses, Holding, Moves, Others, SameTask, Phases, FreshReads, Numbers, shopWorld,
         history
<1>13. ASSUME NEW w \in Runners, CreatesUnheard(w) PROVE FreshReads'
  BY ONLY <1>13, Numbers, Numbers', Phases, FreshReads
     DEF CreatesUnheard, FreesKey,
         Loses, Holding, Grows, Moves, Others, SameTask, Phases, FreshReads, Numbers,
         shopWorld, history
<1>14. ASSUME NEW w \in Runners, Marks(w) PROVE FreshReads'
  BY ONLY <1>14, Numbers, Numbers', Phases, FreshReads
     DEF Marks, Requeues, Ends, Others,
         Phases, FreshReads, Numbers, shopWorld, history
<1>15. ASSUME NEW w \in Runners, Dies(w) PROVE FreshReads'
  <2>1. /\ Others(w) /\ stocked' = stocked
        /\ runner'[w].version = 0 /\ runner'[w].quantity = 0 /\ runner'[w].pc = "off"
    BY ONLY <1>15 DEF Dies, Ends, shopWorld
  <2>2. QED
    BY ONLY <2>1, w \in Runners, Numbers, FreshReads DEF Others, SameTask, Numbers, FreshReads
<1>16. ASSUME NEW k \in HoldKeys, Expires(k) PROVE FreshReads'
  BY ONLY <1>16, Numbers, Numbers', Phases, FreshReads
     DEF Expires, ClaimExpires, Phases, FreshReads,
         Numbers, shopWorld, history
<1>17. CASE Approves
  BY ONLY <1>17, Numbers, Numbers', Phases, FreshReads
     DEF Approves, Approve, Phases, FreshReads,
         Numbers, shopWorld, history
<1>18. CASE Edits
  BY ONLY <1>18, Numbers, Numbers', Phases, FreshReads
     DEF Edits, EditContent, Tells, Phases,
         FreshReads, Numbers, shopWorld, history
<1>19. CASE Regenerates
  BY ONLY <1>19, Numbers, Numbers', Phases, FreshReads
     DEF Regenerates, Regenerate, Phases, FreshReads,
         Numbers, shopWorld, history
<1>20. CASE Restocks
  BY ONLY <1>20, Numbers, Numbers', Phases, FreshReads
     DEF Restocks, StockChange, Tells, HasRead,
         Phases, FreshReads, Numbers, shopWorld, history
<1>21. ASSUME NEW w \in Runners, Prepares(w) PROVE FreshReads'
  <2>1. /\ Others(w) /\ SameTask(w) /\ runner'[w].pc \notin {"set", "record", "complete"}
        /\ runner'[w].quantity = runner[w].quantity /\ stocked' = stocked
    BY ONLY <1>21 DEF Prepares, Moves, shopWorld
  <2>2. QED
    BY ONLY <2>1, w \in Runners, FreshReads DEF Others, SameTask, FreshReads
<1>22. QED
  BY ONLY Effect, <1>1, <1>2, <1>3, <1>4, <1>5, <1>6, <1>7, <1>8, <1>9, <1>10, <1>11,
          <1>12, <1>13, <1>14, <1>15, <1>16, <1>17, <1>18, <1>19, <1>20, <1>21 DEF Effect

\* A key has a version that was read.
LEMMA KeysOfThePastStep ==
  ASSUME Numbers, Numbers', ShopTypes, FreshReads, KeysOfThePast, Effect
  PROVE  KeysOfThePast'
<1>1. ASSUME NEW w \in Runners, NEW t \in Types, Receives(w, t) PROVE KeysOfThePast'
  BY ONLY <1>1, Numbers, Numbers', ShopTypes, FreshReads, KeysOfThePast, KeyType, OffType
     DEF
         Receives, Arrives, Others, FreshReads, KeysOfThePast, HoldKey, Numbers, shopWorld,
         history
<1>2. ASSUME NEW w \in Runners, Takes(w) PROVE KeysOfThePast'
  BY ONLY <1>2, Numbers, Numbers', ShopTypes, FreshReads, KeysOfThePast, KeyType, OffType
     DEF
         Takes, Moves, Others, SameTask, FreshReads, KeysOfThePast, HoldKey, Numbers,
         shopWorld, history
<1>3. ASSUME NEW w \in Runners, GivesBack(w) PROVE KeysOfThePast'
  BY ONLY <1>3, Numbers, Numbers', ShopTypes, FreshReads, KeysOfThePast, KeyType, OffType
     DEF
         GivesBack, Requeues, Ends, Others, FreshReads, KeysOfThePast, HoldKey, Numbers,
         shopWorld, history
<1>4. ASSUME NEW w \in Runners, Drops(w) PROVE KeysOfThePast'
  BY ONLY <1>4, Numbers, Numbers', ShopTypes, FreshReads, KeysOfThePast, KeyType, OffType
     DEF
         Drops, Ends, Others, FreshReads, KeysOfThePast, HoldKey, Numbers, shopWorld, history
<1>5. ASSUME NEW w \in Runners, Starts(w) PROVE KeysOfThePast'
  BY ONLY <1>5, Numbers, Numbers', ShopTypes, FreshReads, KeysOfThePast, KeyType, OffType
     DEF
         Starts, Moves, Others, SameTask, FreshReads, KeysOfThePast, HoldKey, Numbers,
         shopWorld, history
<1>6. ASSUME NEW w \in Runners, Creates(w) PROVE KeysOfThePast'
  BY ONLY <1>6, Numbers, Numbers', ShopTypes, FreshReads, KeysOfThePast, KeyType, OffType
     DEF
         Creates, Moves, Others, SameTask, Grows, FreshReads, KeysOfThePast, HoldKey, Numbers,
         shopWorld, history
<1>7. ASSUME NEW w \in Runners, Puts(w) PROVE KeysOfThePast'
  BY ONLY <1>7, Numbers, Numbers', ShopTypes, FreshReads, KeysOfThePast, KeyType, OffType
     DEF
         Puts, Moves, Others, SameTask, FreshReads, KeysOfThePast, HoldKey, Numbers, shopWorld,
         history
<1>8. ASSUME NEW w \in Runners, ReadsStock(w) PROVE KeysOfThePast'
  BY ONLY <1>8, Numbers, Numbers', ShopTypes, FreshReads, KeysOfThePast, KeyType, OffType
     DEF
         ReadsStock, Moves, Others, SameTask, FreshReads, KeysOfThePast, HoldKey, Numbers,
         shopWorld, history
<1>9. ASSUME NEW w \in Runners, Sets(w) PROVE KeysOfThePast'
  BY ONLY <1>9, Numbers, Numbers', ShopTypes, FreshReads, KeysOfThePast, KeyType, OffType
     DEF
         Sets, Moves, Others, SameTask, SetsQuantity, FreshReads, KeysOfThePast, HoldKey, Numbers,
         shopWorld, history
<1>10. ASSUME NEW w \in Runners, Records(w) PROVE KeysOfThePast'
  BY ONLY <1>10, Numbers, Numbers', ShopTypes, FreshReads, KeysOfThePast, KeyType, OffType
     DEF
         Records, Moves, Others, SameTask, FreshReads, KeysOfThePast, HoldKey, Numbers,
         shopWorld, history
<1>11. ASSUME NEW w \in Runners, Completes(w) PROVE KeysOfThePast'
  BY ONLY <1>11, Numbers, Numbers', ShopTypes, FreshReads, KeysOfThePast, KeyType, OffType
     DEF
         Completes, Ends, Others, FreshReads, KeysOfThePast, HoldKey, Numbers, shopWorld,
         history
<1>12. ASSUME NEW w \in Runners, GivesUp(w) PROVE KeysOfThePast'
  BY ONLY <1>12, Numbers, Numbers', ShopTypes, FreshReads, KeysOfThePast, KeyType, OffType
     DEF
         GivesUp, FreesKey, Counts, Loses, Holding, Moves, Others, SameTask, FreshReads,
         KeysOfThePast, HoldKey, Numbers, shopWorld, history
<1>13. ASSUME NEW w \in Runners, CreatesUnheard(w) PROVE KeysOfThePast'
  BY ONLY <1>13, Numbers, Numbers', ShopTypes, FreshReads, KeysOfThePast, KeyType, OffType
     DEF
         CreatesUnheard, FreesKey, Loses, Holding, Grows, Moves, Others, SameTask, FreshReads,
         KeysOfThePast, HoldKey, Numbers, shopWorld, history
<1>14. ASSUME NEW w \in Runners, Marks(w) PROVE KeysOfThePast'
  BY ONLY <1>14, Numbers, Numbers', ShopTypes, FreshReads, KeysOfThePast, KeyType, OffType
     DEF
         Marks, Requeues, Ends, Others, FreshReads, KeysOfThePast, HoldKey, Numbers, shopWorld,
         history
<1>15. ASSUME NEW w \in Runners, Dies(w) PROVE KeysOfThePast'
  BY ONLY <1>15, Numbers, Numbers', ShopTypes, FreshReads, KeysOfThePast, KeyType, OffType
     DEF
         Dies, Counts, Loses, Requeues, Ends, Others, FreshReads, KeysOfThePast, HoldKey,
         Numbers, shopWorld, history
<1>16. ASSUME NEW k \in HoldKeys, Expires(k) PROVE KeysOfThePast'
  BY ONLY <1>16, Numbers, Numbers', ShopTypes, FreshReads, KeysOfThePast, KeyType, OffType
     DEF
         Expires, ClaimExpires, FreshReads, KeysOfThePast, HoldKey, Numbers, shopWorld, history
<1>17. CASE Approves
  BY ONLY <1>17, Numbers, Numbers', ShopTypes, FreshReads, KeysOfThePast, KeyType, OffType
     DEF
         Approves, Approve, FreshReads, KeysOfThePast, HoldKey, Numbers, shopWorld, history
<1>18. CASE Edits
  BY ONLY <1>18, Numbers, Numbers', ShopTypes, FreshReads, KeysOfThePast, KeyType, OffType
     DEF
         Edits, EditContent, Tells, FreshReads, KeysOfThePast, HoldKey, Numbers, shopWorld, history
<1>19. CASE Regenerates
  BY ONLY <1>19, Numbers, Numbers', ShopTypes, FreshReads, KeysOfThePast, KeyType, OffType
     DEF
         Regenerates, Regenerate, FreshReads, KeysOfThePast, HoldKey, Numbers, shopWorld, history
<1>20. CASE Restocks
  BY ONLY <1>20, Numbers, Numbers', ShopTypes, FreshReads, KeysOfThePast, KeyType, OffType
     DEF
         Restocks, StockChange, Tells, HasRead, FreshReads, KeysOfThePast, HoldKey, Numbers, shopWorld,
         history
<1>21. ASSUME NEW w \in Runners, Prepares(w) PROVE KeysOfThePast'
  BY ONLY <1>21, KeysOfThePast DEF Prepares, KeysOfThePast, shopWorld
<1>22. QED
  BY ONLY Effect, <1>1, <1>2, <1>3, <1>4, <1>5, <1>6, <1>7, <1>8, <1>9, <1>10, <1>11,
          <1>12, <1>13, <1>14, <1>15, <1>16, <1>17, <1>18, <1>19, <1>20, <1>21 DEF Effect

\* The keys of publications are keys, and lost answers are counted by content.
LEMMA PublishKeys ==
  ASSUME ShopTypes
  PROVE  /\ held \in [HoldKeys -> HeldStatus]
         /\ \A c \in Contents : <<"publish", c, 0>> \in HoldKeys
         /\ \A v \in Runners : HoldKey(runner[v]) \in HoldKeys
         /\ \A c \in Contents : lostAnswer[c] \in Nat /\ unclaimed[c] \in Nat
         /\ lostAnswer \in [Contents -> Nat]
         /\ \A v \in Runners : runner[v].content \in Contents
<1>1. \A v \in Runners : runner[v].content \in Contents
  BY DEF ShopTypes, RunnerStates
<1>2. QED
  BY <1>1, OffType, KeyType DEF ShopTypes, HoldKeys, Types

\* The products of one content can be counted.
LEMMA OfferedNumber ==
  ASSUME ShopTypes, NEW c \in Contents
  PROVE  IsFiniteSet(Offered(c)) /\ Cardinality(Offered(c)) \in Nat
<1>1. IsFiniteSet(1..Len(shop))
  <2>1. 1 \in Int /\ Len(shop) \in Int
    BY NumbersTyped DEF Numbers
  <2>2. QED
    BY ONLY <2>1, FS_Interval
<1>2. QED
  BY <1>1, FS_Subset, FS_CardinalityType DEF Offered

\* A new product is one more of its content, and of no other.
LEMMA OneMore ==
  ASSUME ShopTypes, NEW w \in Runners, Grows(w), NEW c \in Contents
  PROVE  /\ c = runner[w].content => Cardinality(Offered(c)') = Cardinality(Offered(c)) + 1
         /\ c # runner[w].content => Offered(c)' = Offered(c)
<1>1. /\ Len(shop) \in Nat /\ Len(shop') = Len(shop) + 1
      /\ \A p \in 1..Len(shop) : shop'[p] = shop[p]
      /\ shop'[Len(shop) + 1].content = runner[w].content
  BY NumbersTyped DEF Grows, Numbers
<1>2. 1..Len(shop') = 1..Len(shop) \cup {Len(shop) + 1}
  BY ONLY <1>1
<1>3. CASE c = runner[w].content
  <2>1. Offered(c)' = Offered(c) \cup {Len(shop) + 1}
    BY ONLY <1>1, <1>2, <1>3 DEF Offered
  <2>2. Len(shop) + 1 \notin Offered(c)
    BY ONLY <1>1 DEF Offered
  <2>3. QED
    BY ONLY <1>3, <2>1, <2>2, OfferedNumber, FS_AddElement, ShopTypes, c \in Contents
<1>4. CASE c # runner[w].content
  BY ONLY <1>1, <1>2, <1>4 DEF Offered
<1>5. QED
  BY <1>3, <1>4

\* The key of a publication is the key of its content.
LEMMA KeyOfContent ==
  ASSUME ShopTypes, NEW w \in Runners, NEW c \in Contents
  PROVE  HoldKey(runner[w]) = <<"publish", c, 0>> <=> Publishes(w, c)
<1>1. runner[w].type \in {"publish", "update"}
  BY DEF ShopTypes, RunnerStates, Types
<1>2. QED
  BY ONLY <1>1 DEF HoldKey, Publishes

\* Who begins or ends making a product of the content is one more or less.
LEMMA Makers ==
  ASSUME NEW w \in Runners, NEW c \in Contents, Others(w), IsFiniteSet(ToMake(c))
  PROVE  /\ (w \in ToMake(c)' <=> w \in ToMake(c)) => ToMake(c)' = ToMake(c)
         /\ w \in ToMake(c)' /\ w \notin ToMake(c) =>
              /\ IsFiniteSet(ToMake(c)')
              /\ Cardinality(ToMake(c)') = Cardinality(ToMake(c)) + 1
         /\ w \notin ToMake(c)' /\ w \in ToMake(c) =>
              /\ IsFiniteSet(ToMake(c)')
              /\ Cardinality(ToMake(c)') = Cardinality(ToMake(c)) - 1
<1>1. \A v \in Runners \ {w} : v \in ToMake(c)' <=> v \in ToMake(c)
  BY DEF Others, ToMake, Publishes
<1>2. ToMake(c) \subseteq Runners /\ ToMake(c)' \subseteq Runners
  BY DEF ToMake
<1>3. ASSUME w \in ToMake(c)' <=> w \in ToMake(c) PROVE ToMake(c)' = ToMake(c)
  BY ONLY <1>1, <1>2, <1>3
<1>4. ASSUME w \in ToMake(c)', w \notin ToMake(c)
      PROVE  /\ IsFiniteSet(ToMake(c)')
             /\ Cardinality(ToMake(c)') = Cardinality(ToMake(c)) + 1
  <2>1. ToMake(c)' = ToMake(c) \cup {w}
    BY ONLY <1>1, <1>2, <1>4
  <2>2. QED
    BY <1>4, <2>1, FS_AddElement
<1>5. ASSUME w \notin ToMake(c)', w \in ToMake(c)
      PROVE  /\ IsFiniteSet(ToMake(c)')
             /\ Cardinality(ToMake(c)') = Cardinality(ToMake(c)) - 1
  <2>1. ToMake(c)' = ToMake(c) \ {w}
    BY ONLY <1>1, <1>2, <1>5
  <2>2. QED
    BY <1>5, <2>1, FS_RemoveElement
<1>6. QED
  BY <1>3, <1>4, <1>5

\* What is weighed is numbers.
LEMMA Weights ==
  ASSUME ShopTypes, NEW c \in Contents, OneOf(c)
  PROVE  /\ Cardinality(Offered(c)) \in Nat /\ Cardinality(ToMake(c)) \in Nat
         /\ lostAnswer[c] \in Nat /\ unclaimed[c] \in Nat
         /\ Worth(c) \in {0, 1} /\ Worth(c)' \in {0, 1}
  BY OfferedNumber, PublishKeys, FS_CardinalityType DEF OneOf, Worth

\* A step that neither makes nor is about to make, and leaves the keys alone.
LEMMA Quiet ==
  ASSUME ShopTypes, OneEach, UNCHANGED <<held, lostAnswer, unclaimed>>,
         NEW w \in Runners, Others(w), \A c \in Contents : Offered(c)' = Offered(c),
         \/ ~Holding(w) /\ ~Holding(w)'
         \/ /\ Holding(w) /\ Holding(w)' /\ SameTask(w)
            /\ runner[w].type = "publish" =>
                 (runner'[w].pc \in {"start", "create"} <=> runner[w].pc \in {"start", "create"})
  PROVE  OneEach'
<1> SUFFICES ASSUME NEW c \in Contents PROVE OneOf(c)'
  BY DEF OneEach
<1>1. OneOf(c)
  BY DEF OneEach
<1>2. w \in ToMake(c)' <=> w \in ToMake(c)
  BY DEF ToMake, Publishes, Holding, SameTask
<1>3. ToMake(c)' = ToMake(c)
  BY <1>1, <1>2, Makers DEF OneOf
<1>4. InHand(c) => InHand(c)'
  BY DEF InHand, Holding, Publishes, Others, SameTask
<1>5. Worth(c) =< Worth(c)'
  BY <1>4 DEF Worth
<1>6. Offered(c)' = Offered(c)
  OBVIOUS
<1>7. QED
  BY <1>1, <1>3, <1>5, <1>6, Weights DEF OneOf

\* What an execution does with another content or an update.
LEMMA Elsewhere ==
  ASSUME ShopTypes, NEW c \in Contents, OneOf(c), NEW w \in Runners, Others(w), SameTask(w) \/ ~Holding(w)',
         ~Publishes(w, c), Offered(c)' = Offered(c), lostAnswer'[c] = lostAnswer[c],
         unclaimed'[c] = unclaimed[c], held'[<<"publish", c, 0>>] = held[<<"publish", c, 0>>]
  PROVE  OneOf(c)'
<1>1. w \notin ToMake(c) /\ w \notin ToMake(c)'
  BY DEF ToMake, Publishes, Holding, SameTask
<1>2. ToMake(c)' = ToMake(c)
  BY <1>1, Makers DEF OneOf
<1>3. InHand(c) => InHand(c)'
  BY DEF InHand, Holding, Publishes, Others
<1>4. Worth(c) =< Worth(c)'
  BY <1>3 DEF Worth
<1>5. QED
  BY <1>2, <1>4, Weights DEF OneOf

\* An execution that leaves its key makes nothing any more, or its answer is lost.
LEMMA CountedLoss ==
  ASSUME ShopTypes, Phases, NEW c \in Contents, OneOf(c), NEW w \in Runners, Others(w),
         Holding(w), ~Holding(w)', Publishes(w, c), Counts(w), Offered(c)' = Offered(c),
         unclaimed'[c] = unclaimed[c]
  PROVE  OneOf(c)'
<1>1. w \notin ToMake(c)'
  BY DEF ToMake, Holding
<1>2. CASE w \in ToMake(c)
  <2>1. ~MadeProduct(w)
    BY <1>2 DEF ToMake, MadeProduct
  <2>2. lostAnswer'[c] = lostAnswer[c]
    BY <2>1 DEF Counts
  <2>3. IsFiniteSet(ToMake(c)') /\ Cardinality(ToMake(c)') = Cardinality(ToMake(c)) - 1
    BY <1>1, <1>2, Makers DEF OneOf
  <2>4. QED
    BY <2>2, <2>3, Weights DEF OneOf
<1>3. CASE w \notin ToMake(c)
  <2>1. MadeProduct(w) /\ runner[w].content = c
    BY <1>3 DEF ToMake, MadeProduct, Holding, Publishes, Phases
  <2>2. lostAnswer'[c] = lostAnswer[c] + 1
    BY <2>1, PublishKeys DEF Counts, Loses
  <2>3. ToMake(c)' = ToMake(c)
    BY <1>1, <1>3, Makers DEF OneOf
  <2>4. QED
    BY <2>2, <2>3, Weights DEF OneOf
<1>4. QED
  BY <1>2, <1>3

\* The keys of updates are keys.
LEMMA KeyTriples ==
  ASSUME ShopTypes
  PROVE  /\ held \in [HoldKeys -> HeldStatus]
         /\ \A c \in Contents : <<"update", c, stocked>> \in HoldKeys
         /\ \A v \in Runners : HoldKey(runner[v]) \in HoldKeys
  BY OffType, KeyType DEF ShopTypes, HoldKeys, Types

\* An execution takes its key, or begins without one.
LEMMA OneEachBegins ==
  ASSUME ShopTypes, OneEach, NEW w \in Runners, Takes(w) \/ Prepares(w)
  PROVE  OneEach'
<1>1. CASE Prepares(w) /\ ~Holding(w)'
  <2>1. /\ Others(w) /\ ~Holding(w) /\ UNCHANGED <<held, lostAnswer, unclaimed>>
    BY ONLY <1>1 DEF Prepares, Moves, Holding
  <2>2. \A c \in Contents : Offered(c)' = Offered(c)
    BY ONLY <1>1 DEF Prepares, Offered
  <2>3. QED
    BY ONLY <1>1, <2>1, <2>2, Quiet, ShopTypes, OneEach, w \in Runners
<1>2. ASSUME \/ Takes(w)
             \/ Prepares(w) /\ Holding(w)'
      PROVE  OneEach'
  <2> SUFFICES ASSUME NEW c \in Contents PROVE OneOf(c)'
    BY DEF OneEach
  <2>1. OneOf(c)
    BY DEF OneEach
  <2>2. /\ Others(w) /\ SameTask(w) /\ ~Holding(w) /\ runner'[w].pc = "start"
        /\ UNCHANGED <<shop, lostAnswer>>
    BY ONLY <1>2 DEF Takes, Prepares, Moves, Holding, history
  <2>3. \/ /\ held[HoldKey(runner[w])] \in {"free", "expired"}
           /\ held' = [held EXCEPT ![HoldKey(runner[w])] = "busy"]
           /\ UNCHANGED unclaimed
        \/ /\ held[HoldKey(runner[w])] = "free" /\ UNCHANGED held
           /\ unclaimed' = IF runner[w].type = "publish"
                           THEN [unclaimed EXCEPT ![runner[w].content] = @ + 1] ELSE unclaimed
    BY ONLY <1>2 DEF Takes, Prepares, Moves, Holding, history
  <2>4. Offered(c)' = Offered(c)
    BY <2>2 DEF Offered
  <2>5. unclaimed \in [Contents -> Nat] /\ held \in [HoldKeys -> HeldStatus]
    BY DEF ShopTypes
  <2>6. CASE Publishes(w, c)
    <3>1. HoldKey(runner[w]) = <<"publish", c, 0>> /\ <<"publish", c, 0>> \in HoldKeys
      BY <2>6, KeyOfContent, PublishKeys
    <3>2. Worth(c) = 0
      BY <2>3, <3>1 DEF Worth
    <3>3. w \in ToMake(c)' /\ w \notin ToMake(c) /\ Holding(w)' /\ Publishes(w, c)'
      BY <2>2, <2>6 DEF ToMake, Publishes, Holding, SameTask
    <3>4. InHand(c)'
      BY <3>3 DEF InHand
    <3>5. Worth(c)' + unclaimed'[c] >= Worth(c) + unclaimed[c] + 1
      <4>1. CASE /\ held' = [held EXCEPT ![HoldKey(runner[w])] = "busy"]
                 /\ UNCHANGED unclaimed
        <5>1. Worth(c)' = 1
          BY <2>5, <3>1, <3>4, <4>1 DEF Worth
        <5>2. QED
          BY <2>5, <3>2, <4>1, <5>1
      <4>2. CASE unclaimed' = IF runner[w].type = "publish"
                              THEN [unclaimed EXCEPT ![runner[w].content] = @ + 1]
                              ELSE unclaimed
        <5>1. unclaimed'[c] = unclaimed[c] + 1
          BY <2>5, <2>6, <4>2 DEF Publishes
        <5>2. QED
          BY <2>1, <2>5, <3>2, <5>1, Weights
      <4>3. QED
        BY <2>3, <4>1, <4>2
    <3>6. IsFiniteSet(ToMake(c)') /\ Cardinality(ToMake(c)') = Cardinality(ToMake(c)) + 1
      BY <2>1, <2>2, <3>3, Makers DEF OneOf
    <3>7. unclaimed'[c] \in Nat
      BY <2>3, <2>5, PublishKeys
    <3>8. lostAnswer'[c] = lostAnswer[c]
      BY <2>2
    <3>9. QED
      BY <2>1, <2>4, <3>5, <3>6, <3>7, <3>8, Weights DEF OneOf
  <2>7. CASE ~Publishes(w, c)
    <3>1. HoldKey(runner[w]) # <<"publish", c, 0>>
      BY <2>7, KeyOfContent
    <3>2. held'[<<"publish", c, 0>>] = held[<<"publish", c, 0>>]
      BY <2>3, <2>5, <3>1, PublishKeys
    <3>3. unclaimed'[c] = unclaimed[c]
      BY <2>3, <2>5, <2>7 DEF Publishes
    <3>4. lostAnswer'[c] = lostAnswer[c]
      BY <2>2
    <3>5. QED
      BY <2>1, <2>2, <2>4, <2>7, <3>2, <3>3, <3>4, Elsewhere
  <2>8. QED
    BY <2>6, <2>7
<1>3. QED
  BY <1>1, <1>2

\* An execution makes its product, and hears of it or not.
LEMMA OneEachMakes ==
  ASSUME ShopTypes, Phases, OneEach, NEW w \in Runners, Creates(w) \/ CreatesUnheard(w)
  PROVE  OneEach'
<1> SUFFICES ASSUME NEW c \in Contents PROVE OneOf(c)'
  BY DEF OneEach
<1>1. OneOf(c)
  BY DEF OneEach
<1>2. /\ Others(w) /\ SameTask(w) /\ runner[w].pc = "create" /\ Holding(w)
      /\ runner'[w].pc \in {"record", "failed"} /\ UNCHANGED unclaimed /\ Grows(w)
      /\ runner[w].type = "publish"
  BY DEF Creates, CreatesUnheard, FreesKey, Moves, Holding, history, Phases
<1>3. \/ runner'[w].pc = "record" /\ UNCHANGED <<held, lostAnswer>>
      \/ /\ held' = [held EXCEPT ![HoldKey(runner[w])] = "free"]
         /\ lostAnswer' = Loses(runner[w].content)
  BY DEF Creates, CreatesUnheard, FreesKey, Moves, history
<1>4. lostAnswer \in [Contents -> Nat] /\ held \in [HoldKeys -> HeldStatus]
  BY DEF ShopTypes
<1>5. CASE Publishes(w, c)
  <2>1. Cardinality(Offered(c)') = Cardinality(Offered(c)) + 1
    BY <1>2, <1>5, OneMore DEF Publishes
  <2>2. w \in ToMake(c) /\ w \notin ToMake(c)'
    BY <1>2, <1>5 DEF ToMake
  <2>3. IsFiniteSet(ToMake(c)') /\ Cardinality(ToMake(c)') = Cardinality(ToMake(c)) - 1
    BY <1>1, <1>2, <2>2, Makers DEF OneOf
  <2>4. Worth(c) + lostAnswer[c] =< Worth(c)' + lostAnswer'[c]
    <3>1. CASE runner'[w].pc = "record" /\ UNCHANGED <<held, lostAnswer>>
      <4>1. InHand(c)'
        BY <1>2, <1>5, <3>1 DEF InHand, Holding, Publishes, SameTask
      <4>2. Worth(c) =< Worth(c)'
        BY <3>1, <4>1 DEF Worth
      <4>3. QED
        BY <1>1, <3>1, <4>2, Weights
    <3>2. CASE lostAnswer' = Loses(runner[w].content)
      <4>1. lostAnswer'[c] = lostAnswer[c] + 1
        BY <1>4, <1>5, <3>2 DEF Loses, Publishes
      <4>2. QED
        BY <1>1, <4>1, Weights
    <3>3. QED
      BY <1>3, <3>1, <3>2
  <2>5. unclaimed'[c] = unclaimed[c] /\ lostAnswer'[c] \in Nat
    BY <1>2, <1>3, <1>4, PublishKeys DEF Loses
  <2>6. QED
    BY <1>1, <2>1, <2>3, <2>4, <2>5, Weights DEF OneOf
<1>6. CASE ~Publishes(w, c)
  <2>1. HoldKey(runner[w]) # <<"publish", c, 0>> /\ <<"publish", c, 0>> \in HoldKeys
    BY <1>6, KeyOfContent, PublishKeys
  <2>2. runner[w].content # c
    BY <1>2, <1>6 DEF Publishes
  <2>3. /\ held'[<<"publish", c, 0>>] = held[<<"publish", c, 0>>]
        /\ lostAnswer'[c] = lostAnswer[c] /\ unclaimed'[c] = unclaimed[c]
    BY <1>2, <1>3, <1>4, <2>1, <2>2 DEF Loses
  <2>4. Offered(c)' = Offered(c)
    BY <1>2, <2>2, OneMore
  <2>5. QED
    BY <1>1, <1>2, <1>6, <2>3, <2>4, Elsewhere
<1>7. QED
  BY <1>5, <1>6

\* An execution completes its key, gives it back or dies under it.
LEMMA OneEachLeaves ==
  ASSUME ShopTypes, Phases, OneEach, NEW w \in Runners, Holding(w),
         Completes(w) \/ GivesUp(w) \/ Dies(w)
  PROVE  OneEach'
<1> SUFFICES ASSUME NEW c \in Contents PROVE OneOf(c)'
  BY DEF OneEach
<1>1. OneOf(c)
  BY DEF OneEach
<1>2. Others(w) /\ ~Holding(w)' /\ UNCHANGED <<shop, unclaimed>>
  BY DEF Completes, GivesUp, Dies, FreesKey, Ends, Moves, Holding, history
<1>3. \/ /\ held' = [held EXCEPT ![HoldKey(runner[w])] = "done"]
         /\ runner[w].pc = "complete" /\ UNCHANGED lostAnswer
      \/ Counts(w) /\ held' = [held EXCEPT ![HoldKey(runner[w])] = "free"]
      \/ Counts(w) /\ UNCHANGED held
  BY DEF Completes, GivesUp, Dies, FreesKey, history
<1>4. lostAnswer \in [Contents -> Nat] /\ held \in [HoldKeys -> HeldStatus]
  BY DEF ShopTypes
<1>5. Offered(c)' = Offered(c) /\ unclaimed'[c] = unclaimed[c]
  BY <1>2 DEF Offered
<1>6. CASE Publishes(w, c) /\ Counts(w)
  BY <1>1, <1>2, <1>5, <1>6, CountedLoss
<1>7. CASE /\ Publishes(w, c) /\ held' = [held EXCEPT ![HoldKey(runner[w])] = "done"]
           /\ runner[w].pc = "complete" /\ UNCHANGED lostAnswer
  <2>1. HoldKey(runner[w]) = <<"publish", c, 0>> /\ <<"publish", c, 0>> \in HoldKeys
    BY <1>7, KeyOfContent, PublishKeys
  <2>2. Worth(c)' = 1
    BY <1>4, <1>7, <2>1 DEF Worth
  <2>3. w \notin ToMake(c) /\ w \notin ToMake(c)'
    BY <1>2, <1>7 DEF ToMake, Holding
  <2>4. ToMake(c)' = ToMake(c)
    BY <1>1, <1>2, <2>3, Makers DEF OneOf
  <2>5. lostAnswer'[c] = lostAnswer[c]
    BY <1>7
  <2>6. QED
    BY <1>1, <1>5, <2>2, <2>4, <2>5, Weights DEF OneOf
<1>8. CASE ~Publishes(w, c)
  <2>1. HoldKey(runner[w]) # <<"publish", c, 0>> /\ <<"publish", c, 0>> \in HoldKeys
    BY <1>8, KeyOfContent, PublishKeys
  <2>2. held'[<<"publish", c, 0>>] = held[<<"publish", c, 0>>]
    BY <1>3, <1>4, <2>1
  <2>3. lostAnswer'[c] = lostAnswer[c]
    BY <1>3, <1>4, <1>8 DEF Counts, MadeProduct, Loses, Publishes
  <2>4. QED
    BY <1>1, <1>2, <1>5, <1>8, <2>2, <2>3, Elsewhere
<1>9. QED
  BY <1>3, <1>6, <1>7, <1>8

\* A claim that expires is nobody's.
LEMMA OneEachExpires ==
  ASSUME ShopTypes, OneEach, NEW k \in HoldKeys, ClaimExpires(k)
  PROVE  OneEach'
<1> SUFFICES ASSUME NEW c \in Contents PROVE OneOf(c)'
  BY DEF OneEach
<1>1. OneOf(c)
  BY DEF OneEach
<1>2. /\ UNCHANGED <<shop, runner, lostAnswer, unclaimed>> /\ held[k] = "busy"
      /\ held' = [held EXCEPT ![k] = "expired"]
      /\ \A w \in Runners : Holding(w) => HoldKey(runner[w]) # k
  BY DEF ClaimExpires, history, Holding
<1>3. Offered(c)' = Offered(c) /\ ToMake(c)' = ToMake(c) /\ (InHand(c)' <=> InHand(c))
  BY <1>2 DEF Offered, ToMake, InHand, Holding, Publishes
<1>4. held \in [HoldKeys -> HeldStatus] /\ <<"publish", c, 0>> \in HoldKeys
  BY PublishKeys
<1>5. Worth(c) =< Worth(c)'
  <2>1. CASE k = <<"publish", c, 0>>
    <3>1. ~InHand(c)
      BY <1>2, <2>1, KeyOfContent DEF InHand
    <3>2. Worth(c) = 0
      BY <1>2, <2>1, <3>1 DEF Worth
    <3>3. QED
      BY <1>1, <3>2, Weights
  <2>2. CASE k # <<"publish", c, 0>>
    <3>1. held'[<<"publish", c, 0>>] = held[<<"publish", c, 0>>]
      BY <1>2, <1>4, <2>2
    <3>2. QED
      BY <1>3, <3>1 DEF Worth
  <2>3. QED
    BY <2>1, <2>2
<1>6. lostAnswer'[c] = lostAnswer[c] /\ unclaimed'[c] = unclaimed[c]
  BY <1>2
<1>7. QED
  BY <1>1, <1>3, <1>5, <1>6, Weights DEF OneOf

\* The merchant and the writers of the product touch none of it.
LEMMA OneEachOutside ==
  ASSUME OneEach, UNCHANGED <<shop, runner, held, lostAnswer, unclaimed>>
  PROVE  OneEach'
  BY DEF OneEach, OneOf, Offered, ToMake, Publishes, Worth, InHand, Holding

\* A second product of one content follows an answer lost or a run without a claim.
LEMMA OneEachStep ==
  ASSUME ShopTypes, ShopTypes', Phases, OneEach, Effect
  PROVE  OneEach'
<1>1. ASSUME NEW w \in Runners, NEW t \in Types, Receives(w, t) PROVE OneEach'
  <2>1. /\ Others(w) /\ ~Holding(w) /\ ~Holding(w)' /\ UNCHANGED <<shop, held, lostAnswer, unclaimed>>
    BY ONLY <1>1 DEF Receives, Arrives, Holding, history
  <2>2. \A c \in Contents : Offered(c)' = Offered(c)
    BY ONLY <2>1 DEF Offered
  <2>3. QED
    BY ONLY <2>1, <2>2, Quiet, ShopTypes, OneEach, w \in Runners
<1>2. ASSUME NEW w \in Runners,
             GivesBack(w) \/ Drops(w) \/ Marks(w) \/ (Dies(w) /\ ~Holding(w))
      PROVE  OneEach'
  <2>1. Others(w) /\ ~Holding(w) /\ ~Holding(w)' /\ UNCHANGED <<shop, held, unclaimed>>
    BY ONLY <1>2 DEF GivesBack, Drops, Marks, Dies, Ends, Holding, history
  <2>2. UNCHANGED lostAnswer
    BY ONLY <1>2 DEF GivesBack, Drops, Marks, Dies, Counts, MadeProduct, Holding, history
  <2>3. \A c \in Contents : Offered(c)' = Offered(c)
    BY ONLY <2>1 DEF Offered
  <2>4. QED
    BY ONLY <2>1, <2>2, <2>3, Quiet, ShopTypes, OneEach, w \in Runners
<1>3. ASSUME NEW w \in Runners,
             Starts(w) \/ Puts(w) \/ ReadsStock(w) \/ Sets(w) \/ Records(w)
      PROVE  OneEach'
  <2>1. /\ Others(w) /\ Holding(w) /\ Holding(w)' /\ SameTask(w)
        /\ UNCHANGED <<held, lostAnswer, unclaimed>>
    BY ONLY <1>3 DEF Starts, Puts, ReadsStock, Sets, Records, Moves, Holding, history
  <2>2. runner[w].type = "publish" =>
          (runner'[w].pc \in {"start", "create"} <=> runner[w].pc \in {"start", "create"})
    BY ONLY <1>3 DEF Starts, Puts, ReadsStock, Sets, Records, Moves
  <2>3. \A c \in Contents : Offered(c)' = Offered(c)
    BY ONLY <1>3 DEF Starts, Puts, ReadsStock, Sets, SetsQuantity, Records, Offered
  <2>4. QED
    BY ONLY <2>1, <2>2, <2>3, Quiet, ShopTypes, OneEach, w \in Runners
<1>4. ASSUME NEW w \in Runners, Takes(w) \/ Prepares(w) PROVE OneEach'
  BY ONLY <1>4, ShopTypes, OneEach, OneEachBegins
<1>5. ASSUME NEW w \in Runners, Creates(w) \/ CreatesUnheard(w) PROVE OneEach'
  BY ONLY <1>5, ShopTypes, Phases, OneEach, OneEachMakes
<1>6. ASSUME NEW w \in Runners, Completes(w) \/ GivesUp(w) \/ (Dies(w) /\ Holding(w))
      PROVE  OneEach'
  <2>1. Holding(w)
    BY ONLY <1>6 DEF Completes, GivesUp, FreesKey, Holding
  <2>2. QED
    BY ONLY <1>6, <2>1, ShopTypes, Phases, OneEach, OneEachLeaves
<1>7. ASSUME NEW k \in HoldKeys, Expires(k) PROVE OneEach'
  BY ONLY <1>7, ShopTypes, OneEach, OneEachExpires DEF Expires
<1>8. CASE Approves \/ Edits \/ Regenerates \/ Restocks
  <2>1. UNCHANGED <<shop, runner, held, lostAnswer, unclaimed>>
    BY ONLY <1>8
       DEF Approves, Approve, Edits, EditContent, Regenerates, Regenerate, Restocks,
           StockChange, history
  <2>2. QED
    BY ONLY <2>1, OneEach, OneEachOutside
<1>9. QED
  BY ONLY Effect, <1>1, <1>2, <1>3, <1>4, <1>5, <1>6, <1>7, <1>8 DEF Effect

\* The stock there is reaches the store.
LEMMA SettlingStep ==
  ASSUME ShopTypes, ShopTypes', Numbers, Numbers', Named, Phases, FreshReads, KeysOfThePast,
         Settling, Effect
  PROVE  Settling'
<1>1. ASSUME NEW w \in Runners, NEW t \in Types, Receives(w, t) PROVE Settling'
  <2>1. SUFFICES ASSUME ~silent', ~overtaken'
                PROVE  (\A v \in Runners : Truthful(v)') /\ Finished' /\ UnderWay'
    BY ONLY <2>1 DEF Settling
  <2>2. (\A v \in Runners : Truthful(v)) /\ Finished /\ UnderWay
    BY ONLY <1>1, w \in Runners, <2>1, Settling
       DEF Receives, Arrives, Others,
           shopWorld, history, Settling
  <2>3. Settled => Settled'
    BY ONLY <1>1, w \in Runners, <2>1, Numbers, Named, FreshReads
       DEF Receives, Arrives,
           Others, shopWorld, history, Settled, Numbers, Named, FreshReads
  <2>4. ASSUME NEW v \in Runners PROVE Truthful(v)'
    BY ONLY <1>1, w \in Runners, <2>2, <2>3, Numbers, Named, FreshReads
       DEF Receives,
           Arrives, Others, shopWorld, history, Truthful, Numbers, Named, FreshReads
  <2>5. Finished'
    BY ONLY <1>1, w \in Runners, <2>2, <2>3, KeyTriples, ShopTypes
       DEF Receives,
           Arrives, Others, shopWorld, history, Finished
  <2>6. \A v \in Runners : Lags(v)' => Lags(v)
    BY ONLY <1>1, w \in Runners, Phases
       DEF Receives, Arrives, Others, shopWorld,
           history, Lags, Phases
  <2>7. ASSUME NEW v \in Runners, WillSettle(v)
        PROVE  WillSettle(v)' \/ Settled \/ Told'
    BY ONLY <1>1, w \in Runners, <2>7, Phases, Numbers
       DEF Receives, Arrives, Others,
           shopWorld, history, WillSettle, Phases, Numbers
  <2>8. UnderWay'
    <3>1. CASE t = "update"
      <4>1. WillSettle(w)'
        BY ONLY <1>1, <3>1 DEF Receives, Arrives, WillSettle, shopWorld
      <4>2. QED
        BY ONLY <4>1, w \in Runners DEF UnderWay
    <3>2. CASE t # "update"
      <4>1. UNCHANGED Told /\ UNCHANGED shopRow
        BY ONLY <1>1, <3>2 DEF Receives
      <4>2. QED
        BY ONLY <2>2, <2>3, <2>6, <2>7, <4>1 DEF UnderWay
    <3>3. QED
      BY ONLY <3>1, <3>2
  <2>9. QED
    BY ONLY <2>4, <2>5, <2>8
<1>2. ASSUME NEW w \in Runners, Takes(w) PROVE Settling'
  <2>1. SUFFICES ASSUME ~silent', ~overtaken'
                PROVE  (\A v \in Runners : Truthful(v)') /\ Finished' /\ UnderWay'
    BY ONLY <2>1 DEF Settling
  <2>2. (\A v \in Runners : Truthful(v)) /\ Finished /\ UnderWay
    BY ONLY <1>2, w \in Runners, <2>1, Settling
       DEF Takes, Moves, Others, SameTask,
           shopWorld, history, Settling
  <2>3. Settled => Settled'
    BY ONLY <1>2, w \in Runners, <2>1, Numbers, Named, FreshReads
       DEF Takes, Moves,
           Others, SameTask, shopWorld, history, Settled, Numbers, Named, FreshReads
  <2>4. ASSUME NEW v \in Runners PROVE Truthful(v)'
    BY ONLY <1>2, w \in Runners, <2>2, <2>3, Numbers, Named, FreshReads
       DEF Takes, Moves,
           Others, SameTask, shopWorld, history, Truthful, Numbers, Named, FreshReads
  <2>5. Finished'
    BY ONLY <1>2, w \in Runners, <2>2, <2>3, KeyTriples, ShopTypes
       DEF Takes, Moves,
           Others, SameTask, shopWorld, history, Finished
  <2>6. \A v \in Runners : Lags(v)' => Lags(v)
    BY ONLY <1>2, w \in Runners, Phases
       DEF Takes, Moves, Others, SameTask,
           shopWorld, history, Lags, Phases
  <2>7. ASSUME NEW v \in Runners, WillSettle(v)
        PROVE  WillSettle(v)' \/ Settled \/ Told'
    BY ONLY <1>2, w \in Runners, <2>7, Phases, Numbers
       DEF Takes, Moves, Others,
           SameTask, shopWorld, history, WillSettle, Phases, Numbers
  <2>8. UnderWay'
    BY ONLY <1>2, w \in Runners, <2>2, <2>3, <2>6, <2>7, Numbers
       DEF Takes, Moves,
           Others, SameTask, shopWorld, history, UnderWay, Numbers
  <2>9. QED
    BY ONLY <2>4, <2>5, <2>8
<1>3. ASSUME NEW w \in Runners, GivesBack(w) PROVE Settling'
  <2>1. SUFFICES ASSUME ~silent', ~overtaken'
                PROVE  (\A v \in Runners : Truthful(v)') /\ Finished' /\ UnderWay'
    BY ONLY <2>1 DEF Settling
  <2>2. (\A v \in Runners : Truthful(v)) /\ Finished /\ UnderWay
    BY ONLY <1>3, w \in Runners, <2>1, Settling
       DEF GivesBack, Requeues, Ends,
           Others, shopWorld, history, Settling
  <2>3. Settled => Settled'
    BY ONLY <1>3, w \in Runners, <2>1, Numbers, Named, FreshReads
       DEF GivesBack, Requeues,
           Ends, Others, shopWorld, history, Settled, Numbers, Named, FreshReads
  <2>4. ASSUME NEW v \in Runners PROVE Truthful(v)'
    BY ONLY <1>3, w \in Runners, <2>2, <2>3, Numbers, Named, FreshReads
       DEF GivesBack,
           Requeues, Ends, Others, shopWorld, history, Truthful, Numbers, Named, FreshReads
  <2>5. Finished'
    BY ONLY <1>3, w \in Runners, <2>2, <2>3, KeyTriples, ShopTypes
       DEF GivesBack,
           Requeues, Ends, Others, shopWorld, history, Finished
  <2>6. \A v \in Runners : Lags(v)' => Lags(v)
    BY ONLY <1>3, w \in Runners, Phases
       DEF GivesBack, Requeues, Ends, Others,
           shopWorld, history, Lags, Phases
  <2>7. ASSUME NEW v \in Runners, WillSettle(v)
        PROVE  WillSettle(v)' \/ Settled \/ Told'
    BY ONLY <1>3, w \in Runners, <2>7, Phases, Numbers
       DEF GivesBack, Requeues, Ends,
           Others, shopWorld, history, WillSettle, Phases, Numbers
  <2>8. UnderWay'
    BY ONLY <1>3, w \in Runners, <2>2, <2>3, <2>6, <2>7, Numbers
       DEF GivesBack,
           Requeues, Ends, Others, shopWorld, history, UnderWay, Numbers
  <2>9. QED
    BY ONLY <2>4, <2>5, <2>8
<1>4. ASSUME NEW w \in Runners, Drops(w) PROVE Settling'
  <2>1. SUFFICES ASSUME ~silent', ~overtaken'
                PROVE  (\A v \in Runners : Truthful(v)') /\ Finished' /\ UnderWay'
    BY ONLY <2>1 DEF Settling
  <2>2. (\A v \in Runners : Truthful(v)) /\ Finished /\ UnderWay
    BY ONLY <1>4, w \in Runners, <2>1, Settling
       DEF Drops, Ends, Others, shopWorld,
           history, Settling
  <2>3. Settled => Settled'
    BY ONLY <1>4, w \in Runners, <2>1, Numbers, Named, FreshReads
       DEF Drops, Ends, Others,
           shopWorld, history, Settled, Numbers, Named, FreshReads
  <2>4. ASSUME NEW v \in Runners PROVE Truthful(v)'
    BY ONLY <1>4, w \in Runners, <2>2, <2>3, Numbers, Named, FreshReads
       DEF Drops, Ends,
           Others, shopWorld, history, Truthful, Numbers, Named, FreshReads
  <2>5. Finished'
    BY ONLY <1>4, w \in Runners, <2>2, <2>3, KeyTriples, ShopTypes
       DEF Drops, Ends,
           Others, shopWorld, history, Finished
  <2>6. \A v \in Runners : Lags(v)' => Lags(v)
    BY ONLY <1>4, w \in Runners, Phases
       DEF Drops, Ends, Others, shopWorld, history,
           Lags, Phases
  <2>7. ASSUME NEW v \in Runners, WillSettle(v)
        PROVE  WillSettle(v)' \/ Settled \/ Told'
    <3>1. CASE v = w
      <4>1. /\ runner[w].type = "update" /\ runner[w].version = stocked
            /\ held[HoldKey(runner[w])] = "done"
        BY ONLY <1>4, <2>7, <3>1 DEF Drops, WillSettle
      <4>2. runner[w].content \in Contents
        BY PublishKeys
      <4>3. QED
        BY ONLY <2>2, <4>1, <4>2 DEF Finished, HoldKey
    <3>2. CASE v # w
      BY ONLY <1>4, <2>7, <3>2, v \in Runners DEF Drops, Ends, Others, WillSettle, shopWorld
    <3>3. QED
      BY ONLY <3>1, <3>2
  <2>8. UnderWay'
    BY ONLY <1>4, w \in Runners, <2>2, <2>3, <2>6, <2>7, Numbers
       DEF Drops, Ends,
           Others, shopWorld, history, UnderWay, Numbers
  <2>9. QED
    BY ONLY <2>4, <2>5, <2>8
<1>5. ASSUME NEW w \in Runners, Starts(w) PROVE Settling'
  <2>1. SUFFICES ASSUME ~silent', ~overtaken'
                PROVE  (\A v \in Runners : Truthful(v)') /\ Finished' /\ UnderWay'
    BY ONLY <2>1 DEF Settling
  <2>2. (\A v \in Runners : Truthful(v)) /\ Finished /\ UnderWay
    BY ONLY <1>5, w \in Runners, <2>1, Settling
       DEF Starts, Moves, Others, SameTask,
           shopWorld, history, Settling
  <2>3. Settled => Settled'
    BY ONLY <1>5, w \in Runners, <2>1, Numbers, Named, FreshReads
       DEF Starts, Moves,
           Others, SameTask, shopWorld, history, Settled, Numbers, Named, FreshReads
  <2>4. ASSUME NEW v \in Runners PROVE Truthful(v)'
    BY ONLY <1>5, w \in Runners, <2>2, <2>3, Numbers, Named, FreshReads
       DEF Starts, Moves,
           Others, SameTask, shopWorld, history, Truthful, Numbers, Named, FreshReads
  <2>5. Finished'
    BY ONLY <1>5, w \in Runners, <2>2, <2>3, KeyTriples, ShopTypes
       DEF Starts, Moves,
           Others, SameTask, shopWorld, history, Finished
  <2>6. \A v \in Runners : Lags(v)' => Lags(v)
    BY ONLY <1>5, w \in Runners, Phases
       DEF Starts, Moves, Others, SameTask,
           shopWorld, history, Lags, Phases
  <2>7. ASSUME NEW v \in Runners, WillSettle(v)
        PROVE  WillSettle(v)' \/ Settled \/ Told'
    BY ONLY <1>5, w \in Runners, <2>7, Phases, Numbers
       DEF Starts, Moves, Others,
           SameTask, shopWorld, history, WillSettle, Phases, Numbers
  <2>8. UnderWay'
    BY ONLY <1>5, w \in Runners, <2>2, <2>3, <2>6, <2>7, Numbers
       DEF Starts, Moves,
           Others, SameTask, shopWorld, history, UnderWay, Numbers
  <2>9. QED
    BY ONLY <2>4, <2>5, <2>8
<1>6. ASSUME NEW w \in Runners, Creates(w) PROVE Settling'
  <2>1. SUFFICES ASSUME ~silent', ~overtaken'
                PROVE  (\A v \in Runners : Truthful(v)') /\ Finished' /\ UnderWay'
    BY ONLY <2>1 DEF Settling
  <2>2. (\A v \in Runners : Truthful(v)) /\ Finished /\ UnderWay
    BY ONLY <1>6, w \in Runners, <2>1, Settling
       DEF Creates, Moves, Others, SameTask,
           Grows, shopWorld, history, Settling
  <2>3. Settled => Settled'
    BY ONLY <1>6, w \in Runners, <2>1, Numbers, Named, FreshReads
       DEF Creates, Moves,
           Others, SameTask, Grows, shopWorld, history, Settled, Numbers, Named, FreshReads
  <2>4. ASSUME NEW v \in Runners PROVE Truthful(v)'
    <3>1. CASE v = w
      <4>1. /\ runner'[w].external = Len(shop) + 1 /\ runner'[w].pc = "record"
            /\ runner'[w].quantity = runner[w].quantity /\ runner'[w].type = runner[w].type
            /\ runner[w].pc = "create" /\ shop'[Len(shop) + 1].quantity = runner[w].quantity
            /\ stocked' = stocked
        BY ONLY <1>6 DEF Creates, Grows, Moves, SameTask, shopWorld
      <4>2. QED
        BY ONLY <2>2, <3>1, <4>1, w \in Runners DEF Truthful
    <3>2. CASE v # w
      <4>1. /\ runner'[v] = runner[v] /\ stocked' = stocked
            /\ \A n \in 1..Len(shop) : shop'[n] = shop[n]
        BY ONLY <1>6, <3>2, v \in Runners DEF Creates, Grows, Moves, Others, shopWorld
      <4>2. QED
        BY ONLY <2>2, <2>3, <4>1, v \in Runners, Numbers, Named DEF Truthful, Numbers, Named
    <3>3. QED
      BY ONLY <3>1, <3>2
  <2>5. Finished'
    BY ONLY <1>6, w \in Runners, <2>2, <2>3, KeyTriples, ShopTypes
       DEF Creates,
           Moves, Others, SameTask, Grows, shopWorld, history, Finished
  <2>6. \A v \in Runners : Lags(v)' => Lags(v)
    BY ONLY <1>6, w \in Runners, Phases
       DEF Creates, Moves, Others, SameTask, Grows,
           shopWorld, history, Lags, Phases
  <2>7. ASSUME NEW v \in Runners, WillSettle(v)
        PROVE  WillSettle(v)' \/ Settled \/ Told'
    BY ONLY <1>6, w \in Runners, <2>7, Phases, Numbers
       DEF Creates, Moves, Others,
           SameTask, Grows, shopWorld, history, WillSettle, Phases, Numbers
  <2>8. UnderWay'
    BY ONLY <1>6, w \in Runners, <2>2, <2>3, <2>6, <2>7, Numbers
       DEF Creates, Moves,
           Others, SameTask, Grows, shopWorld, history, UnderWay, Numbers
  <2>9. QED
    BY ONLY <2>4, <2>5, <2>8
<1>7. ASSUME NEW w \in Runners, Puts(w) PROVE Settling'
  <2>1. SUFFICES ASSUME ~silent', ~overtaken'
                PROVE  (\A v \in Runners : Truthful(v)') /\ Finished' /\ UnderWay'
    BY ONLY <2>1 DEF Settling
  <2>2. (\A v \in Runners : Truthful(v)) /\ Finished /\ UnderWay
    BY ONLY <1>7, w \in Runners, <2>1, Settling
       DEF Puts, Moves, Others, SameTask,
           shopWorld, history, Settling
  <2>3. Settled => Settled'
    BY ONLY <1>7, w \in Runners, <2>1, Numbers, Named, FreshReads
       DEF Puts, Moves, Others,
           SameTask, shopWorld, history, Settled, Numbers, Named, FreshReads
  <2>4. ASSUME NEW v \in Runners PROVE Truthful(v)'
    BY ONLY <1>7, w \in Runners, <2>2, <2>3, Numbers, Named, FreshReads
       DEF Puts, Moves,
           Others, SameTask, shopWorld, history, Truthful, Numbers, Named, FreshReads
  <2>5. Finished'
    BY ONLY <1>7, w \in Runners, <2>2, <2>3, KeyTriples, ShopTypes
       DEF Puts, Moves,
           Others, SameTask, shopWorld, history, Finished
  <2>6. \A v \in Runners : Lags(v)' => Lags(v)
    BY ONLY <1>7, w \in Runners, Phases
       DEF Puts, Moves, Others, SameTask, shopWorld,
           history, Lags, Phases
  <2>7. ASSUME NEW v \in Runners, WillSettle(v)
        PROVE  WillSettle(v)' \/ Settled \/ Told'
    BY ONLY <1>7, w \in Runners, <2>7, Phases, Numbers
       DEF Puts, Moves, Others,
           SameTask, shopWorld, history, WillSettle, Phases, Numbers
  <2>8. UnderWay'
    BY ONLY <1>7, w \in Runners, <2>2, <2>3, <2>6, <2>7, Numbers
       DEF Puts, Moves,
           Others, SameTask, shopWorld, history, UnderWay, Numbers
  <2>9. QED
    BY ONLY <2>4, <2>5, <2>8
<1>8. ASSUME NEW w \in Runners, ReadsStock(w) PROVE Settling'
  <2>1. SUFFICES ASSUME ~silent', ~overtaken'
                PROVE  (\A v \in Runners : Truthful(v)') /\ Finished' /\ UnderWay'
    BY ONLY <2>1 DEF Settling
  <2>2. (\A v \in Runners : Truthful(v)) /\ Finished /\ UnderWay
    BY ONLY <1>8, w \in Runners, <2>1, Settling
       DEF ReadsStock, Moves, Others,
           SameTask, shopWorld, history, Settling
  <2>3. Settled => Settled'
    BY ONLY <1>8, w \in Runners, <2>1, Numbers, Named, FreshReads
       DEF ReadsStock, Moves,
           Others, SameTask, shopWorld, history, Settled, Numbers, Named, FreshReads
  <2>4. ASSUME NEW v \in Runners PROVE Truthful(v)'
    BY ONLY <1>8, w \in Runners, <2>2, <2>3, Numbers, Named, FreshReads
       DEF ReadsStock,
           Moves, Others, SameTask, shopWorld, history, Truthful, Numbers, Named, FreshReads
  <2>5. Finished'
    BY ONLY <1>8, w \in Runners, <2>2, <2>3, KeyTriples, ShopTypes
       DEF ReadsStock,
           Moves, Others, SameTask, shopWorld, history, Finished
  <2>6. \A v \in Runners : Lags(v)' => Lags(v)
    BY ONLY <1>8, w \in Runners, Phases
       DEF ReadsStock, Moves, Others, SameTask,
           shopWorld, history, Lags, Phases
  <2>7. ASSUME NEW v \in Runners, WillSettle(v)
        PROVE  WillSettle(v)' \/ Settled \/ Told'
    BY ONLY <1>8, w \in Runners, <2>7, Phases, Numbers
       DEF ReadsStock, Moves, Others,
           SameTask, shopWorld, history, WillSettle, Phases, Numbers
  <2>8. UnderWay'
    BY ONLY <1>8, w \in Runners, <2>2, <2>3, <2>6, <2>7, Numbers
       DEF ReadsStock,
           Moves, Others, SameTask, shopWorld, history, UnderWay, Numbers
  <2>9. QED
    BY ONLY <2>4, <2>5, <2>8
<1>9. ASSUME NEW w \in Runners, Sets(w) PROVE Settling'
  <2>1. SUFFICES ASSUME ~silent', ~overtaken'
                PROVE  (\A v \in Runners : Truthful(v)') /\ Finished' /\ UnderWay'
    BY ONLY <2>1 DEF Settling
  <2> DEFINE p == runner[w].external
  <2>2. /\ p \in 1..Len(shop) /\ runner[w].type = "update"
        /\ runner[w].pc = "set" /\ runner[w].quantity =< stocked
    BY ONLY <1>9, w \in Runners, Numbers, Named, Phases, FreshReads
       DEF Sets, Numbers, Named, Phases, FreshReads
  <2>3. /\ UNCHANGED <<stocked, shopRow, Told, held, silent>>
        /\ \A v \in Runners \ {w} : runner'[v] = runner[v]
        /\ runner'[w].pc = "record" /\ runner'[w].external = p
        /\ runner'[w].quantity = runner[w].quantity /\ runner'[w].type = runner[w].type
    BY ONLY <1>9 DEF Sets, Moves, Others, SameTask, shopWorld
  <2>4. /\ \A n \in 1..Len(shop) \ {p} : shop'[n] = shop[n]
        /\ shop'[p].quantity = runner[w].quantity
        /\ overtaken' = (overtaken \/ shop[p].quantity > runner[w].quantity)
    BY ONLY <1>9, <2>2 DEF Sets, SetsQuantity
  <2>5. /\ ~silent /\ ~overtaken /\ ~(shop[p].quantity > runner[w].quantity)
        /\ (\A v \in Runners : Truthful(v)) /\ Finished /\ UnderWay
    BY ONLY <2>1, <2>3, <2>4, Settling DEF Settling
  <2>6. shop[p] \in Products /\ shop[p].quantity \in Nat
    <3>1. shop[p] \in Products
      BY ONLY ShopTypes, <2>2 DEF ShopTypes
    <3>2. QED
      BY ONLY <3>1, OffType DEF Products
  <2>7. ASSUME NEW n \in 1..Len(shop), shop[n].quantity = stocked
        PROVE  shop'[n].quantity = stocked
    <3>1. runner[w].quantity \in Nat /\ stocked \in Nat
      BY ONLY w \in Runners, Numbers DEF Numbers
    <3>2. CASE n = p
      BY ONLY <2>2, <2>4, <2>5, <2>6, <2>7, <3>1, <3>2
    <3>3. CASE n # p
      BY ONLY <2>4, <2>7, <3>3
    <3>4. QED
      BY ONLY <3>2, <3>3
  <2>8. Settled => Settled'
    BY ONLY <2>3, <2>7, Numbers, Named DEF Settled, Numbers, Named
  <2>9. ASSUME NEW v \in Runners PROVE Truthful(v)'
    <3>1. CASE v = w
      BY ONLY <2>2, <2>3, <2>4, <3>1 DEF Truthful
    <3>2. CASE v # w
      BY ONLY v \in Runners, <2>3, <2>5, <2>7, <2>8, <3>2, Numbers, Named
         DEF Truthful, Numbers, Named
    <3>3. QED
      BY ONLY <3>1, <3>2
  <2>10. Finished'
    BY ONLY <2>3, <2>5, <2>8 DEF Finished
  <2>11. \A v \in Runners : (Lags(v)' => Lags(v)) /\ (WillSettle(v) => WillSettle(v)')
    BY ONLY <2>2, <2>3 DEF Lags, WillSettle
  <2>12. UnderWay'
    BY ONLY <2>3, <2>5, <2>8, <2>11 DEF UnderWay
  <2>13. QED
    BY ONLY <2>9, <2>10, <2>12
<1>10. ASSUME NEW w \in Runners, Records(w) PROVE Settling'
  <2>1. SUFFICES ASSUME ~silent', ~overtaken'
                PROVE  (\A v \in Runners : Truthful(v)') /\ Finished' /\ UnderWay'
    BY ONLY <2>1 DEF Settling
  <2>2. /\ UNCHANGED <<stocked, shop, Told, held, silent>>
        /\ \A v \in Runners \ {w} : runner'[v] = runner[v]
        /\ runner[w].pc = "record" /\ runner'[w].pc = "complete"
        /\ runner'[w].type = runner[w].type /\ runner'[w].version = runner[w].version
    BY ONLY <1>10 DEF Records, Moves, Others, SameTask, shopWorld
  <2>3. /\ ~silent /\ ~overtaken
        /\ ~(runner[w].type = "update" /\ runner[w].external # shopRow.external)
        /\ (\A v \in Runners : Truthful(v)) /\ Finished /\ UnderWay
    <3>1. overtaken' = (overtaken \/ (/\ runner[w].type = "update"
                                     /\ runner[w].external # shopRow.external))
      BY ONLY <1>10 DEF Records
    <3>2. ~overtaken /\ ~(runner[w].type = "update" /\ runner[w].external # shopRow.external)
      BY ONLY <2>1, <3>1
    <3>3. QED
      BY ONLY <2>1, <2>2, <3>2, Settling DEF Settling
  \* The row names the product whose quantity was set or sent.
  <2>4. shopRow'.external = runner[w].external /\ runner[w].external # 0
    BY ONLY <1>10, <2>2, <2>3, w \in Runners, Named DEF Records, Named
  <2>5. runner[w].quantity = stocked => Settled'
    BY ONLY <2>2, <2>3, <2>4, w \in Runners DEF Truthful, Settled
  <2>6. runner[w].type = "publish" => Settled'
    BY ONLY <2>2, <2>3, <2>5, w \in Runners DEF Truthful
  <2>7. runner[w].type \in {"publish", "update"}
    BY w \in Runners DEF ShopTypes, RunnerStates, Types
  <2>8. Settled => Settled'
    BY ONLY <1>10, <2>2, <2>6 DEF Records, Settled
  <2>9. ASSUME NEW v \in Runners PROVE Truthful(v)'
    <3>1. CASE v = w
      BY ONLY <2>2, <2>5, <3>1, w \in Runners, Numbers, FreshReads DEF Truthful, Numbers, FreshReads
    <3>2. CASE v # w
      BY ONLY v \in Runners, <2>2, <2>3, <2>8, <3>2 DEF Truthful
    <3>3. QED
      BY ONLY <3>1, <3>2
  <2>10. Finished'
    BY ONLY <2>2, <2>3, <2>8 DEF Finished
  <2>11. CASE Settled'
    BY ONLY <2>9, <2>10, <2>11 DEF UnderWay
  \* An update of an older read is one of the laggards that somebody follows.
  <2>12. CASE ~Settled'
    <3>1. Lags(w)
      BY ONLY <2>2, <2>5, <2>6, <2>7, <2>12 DEF Lags
    <3>2. Told \/ \E v \in Runners : WillSettle(v)
      BY ONLY <2>3, <2>8, <2>12, <3>1, w \in Runners DEF UnderWay
    <3>3. \A v \in Runners : WillSettle(v) => WillSettle(v)'
      BY ONLY <2>2, <3>1 DEF WillSettle, Lags
    <3>4. UnderWay'
      BY ONLY <2>2, <3>2, <3>3 DEF UnderWay
    <3>5. QED
      BY ONLY <2>9, <2>10, <3>4
  <2>13. QED
    BY ONLY <2>11, <2>12
<1>11. ASSUME NEW w \in Runners, Completes(w) PROVE Settling'
  <2>1. SUFFICES ASSUME ~silent', ~overtaken'
                PROVE  (\A v \in Runners : Truthful(v)') /\ Finished' /\ UnderWay'
    BY ONLY <2>1 DEF Settling
  <2>2. (\A v \in Runners : Truthful(v)) /\ Finished /\ UnderWay
    BY ONLY <1>11, w \in Runners, <2>1, Settling
       DEF Completes, Ends, Others,
           shopWorld, history, Settling
  <2>3. Settled => Settled'
    BY ONLY <1>11, w \in Runners, <2>1, Numbers, Named, FreshReads
       DEF Completes, Ends,
           Others, shopWorld, history, Settled, Numbers, Named, FreshReads
  <2>4. ASSUME NEW v \in Runners PROVE Truthful(v)'
    BY ONLY <1>11, w \in Runners, <2>2, <2>3, Numbers, Named, FreshReads
       DEF Completes,
           Ends, Others, shopWorld, history, Truthful, Numbers, Named, FreshReads
  <2>5. Finished'
    <3>1. SUFFICES ASSUME NEW c \in Contents, held'[<<"update", c, stocked>>] = "done"
                   PROVE  Settled'
      BY ONLY <3>1, <1>11 DEF Completes, Finished, shopWorld
    <3>2. CASE HoldKey(runner[w]) = <<"update", c, stocked>>
      <4>1. runner[w].type = "update" /\ runner[w].version = stocked
        BY ONLY <3>2 DEF HoldKey
      <4>2. QED
        BY ONLY <1>11, w \in Runners, <2>2, <2>3, <4>1 DEF Completes, Truthful
    <3>3. CASE HoldKey(runner[w]) # <<"update", c, stocked>>
      BY ONLY <1>11, <2>2, <2>3, <3>1, <3>3, KeyTriples, ShopTypes DEF Completes, Finished
    <3>4. QED
      BY ONLY <3>2, <3>3
  <2>6. \A v \in Runners : Lags(v)' => Lags(v)
    BY ONLY <1>11, w \in Runners, Phases
       DEF Completes, Ends, Others, shopWorld,
           history, Lags, Phases
  <2>7. ASSUME NEW v \in Runners, WillSettle(v)
        PROVE  WillSettle(v)' \/ Settled \/ Told'
    BY ONLY <1>11, w \in Runners, <2>7, Phases, Numbers
       DEF Completes, Ends, Others,
           shopWorld, history, WillSettle, Phases, Numbers
  <2>8. UnderWay'
    BY ONLY <1>11, w \in Runners, <2>2, <2>3, <2>6, <2>7, Numbers
       DEF Completes, Ends,
           Others, shopWorld, history, UnderWay, Numbers
  <2>9. QED
    BY ONLY <2>4, <2>5, <2>8
<1>12. ASSUME NEW w \in Runners, GivesUp(w) PROVE Settling'
  <2>1. SUFFICES ASSUME ~silent', ~overtaken'
                PROVE  (\A v \in Runners : Truthful(v)') /\ Finished' /\ UnderWay'
    BY ONLY <2>1 DEF Settling
  <2>2. (\A v \in Runners : Truthful(v)) /\ Finished /\ UnderWay
    BY ONLY <1>12, w \in Runners, <2>1, Settling
       DEF GivesUp, FreesKey, Counts, Loses,
           Holding, Moves, Others, SameTask, shopWorld, history, Settling
  <2>3. Settled => Settled'
    BY ONLY <1>12, w \in Runners, <2>1, Numbers, Named, FreshReads
       DEF GivesUp, FreesKey,
           Counts, Loses, Holding, Moves, Others, SameTask, shopWorld, history, Settled,
           Numbers, Named, FreshReads
  <2>4. ASSUME NEW v \in Runners PROVE Truthful(v)'
    BY ONLY <1>12, w \in Runners, <2>2, <2>3, Numbers, Named, FreshReads
       DEF GivesUp,
           FreesKey, Counts, Loses, Holding, Moves, Others, SameTask, shopWorld, history,
           Truthful, Numbers, Named, FreshReads
  <2>5. Finished'
    BY ONLY <1>12, w \in Runners, <2>2, <2>3, KeyTriples, ShopTypes
       DEF GivesUp,
           FreesKey, Counts, Loses, Holding, Moves, Others, SameTask, shopWorld, history,
           Finished
  <2>6. \A v \in Runners : Lags(v)' => Lags(v)
    BY ONLY <1>12, w \in Runners, Phases
       DEF GivesUp, FreesKey, Counts, Loses,
           Holding, Moves, Others, SameTask, shopWorld, history, Lags, Phases
  <2>7. ASSUME NEW v \in Runners, WillSettle(v)
        PROVE  WillSettle(v)' \/ Settled \/ Told'
    BY ONLY <1>12, w \in Runners, <2>7, Phases, Numbers
       DEF GivesUp, FreesKey, Counts,
           Loses, Holding, Moves, Others, SameTask, shopWorld, history, WillSettle,
           Phases, Numbers
  <2>8. UnderWay'
    BY ONLY <1>12, w \in Runners, <2>2, <2>3, <2>6, <2>7, Numbers
       DEF GivesUp,
           FreesKey, Counts, Loses, Holding, Moves, Others, SameTask, shopWorld, history,
           UnderWay, Numbers
  <2>9. QED
    BY ONLY <2>4, <2>5, <2>8
<1>13. ASSUME NEW w \in Runners, CreatesUnheard(w) PROVE Settling'
  <2>1. SUFFICES ASSUME ~silent', ~overtaken'
                PROVE  (\A v \in Runners : Truthful(v)') /\ Finished' /\ UnderWay'
    BY ONLY <2>1 DEF Settling
  <2>2. (\A v \in Runners : Truthful(v)) /\ Finished /\ UnderWay
    BY ONLY <1>13, w \in Runners, <2>1, Settling
       DEF CreatesUnheard, FreesKey, Loses,
           Holding, Grows, Moves, Others, SameTask, shopWorld, history, Settling
  <2>3. Settled => Settled'
    BY ONLY <1>13, w \in Runners, <2>1, Numbers, Named, FreshReads
       DEF CreatesUnheard,
           FreesKey, Loses, Holding, Grows, Moves, Others, SameTask, shopWorld, history,
           Settled, Numbers, Named, FreshReads
  <2>4. ASSUME NEW v \in Runners PROVE Truthful(v)'
    BY ONLY <1>13, w \in Runners, <2>2, <2>3, Numbers, Named, FreshReads
       DEF
           CreatesUnheard, FreesKey, Loses, Holding, Grows, Moves, Others, SameTask,
           shopWorld, history, Truthful, Numbers, Named, FreshReads
  <2>5. Finished'
    BY ONLY <1>13, w \in Runners, <2>2, <2>3, KeyTriples, ShopTypes
       DEF
           CreatesUnheard, FreesKey, Loses, Holding, Grows, Moves, Others, SameTask,
           shopWorld, history, Finished
  <2>6. \A v \in Runners : Lags(v)' => Lags(v)
    BY ONLY <1>13, w \in Runners, Phases
       DEF CreatesUnheard, FreesKey, Loses, Holding,
           Grows, Moves, Others, SameTask, shopWorld, history, Lags, Phases
  <2>7. ASSUME NEW v \in Runners, WillSettle(v)
        PROVE  WillSettle(v)' \/ Settled \/ Told'
    BY ONLY <1>13, w \in Runners, <2>7, Phases, Numbers
       DEF CreatesUnheard, FreesKey,
           Loses, Holding, Grows, Moves, Others, SameTask, shopWorld, history, WillSettle,
           Phases, Numbers
  <2>8. UnderWay'
    BY ONLY <1>13, w \in Runners, <2>2, <2>3, <2>6, <2>7, Numbers
       DEF CreatesUnheard,
           FreesKey, Loses, Holding, Grows, Moves, Others, SameTask, shopWorld, history,
           UnderWay, Numbers
  <2>9. QED
    BY ONLY <2>4, <2>5, <2>8
<1>14. ASSUME NEW w \in Runners, Marks(w) PROVE Settling'
  <2>1. SUFFICES ASSUME ~silent', ~overtaken'
                PROVE  (\A v \in Runners : Truthful(v)') /\ Finished' /\ UnderWay'
    BY ONLY <2>1 DEF Settling
  <2>2. (\A v \in Runners : Truthful(v)) /\ Finished /\ UnderWay
    BY ONLY <1>14, w \in Runners, <2>1, Settling
       DEF Marks, Requeues, Ends, Others,
           shopWorld, history, Settling
  <2>3. Settled => Settled'
    BY ONLY <1>14, w \in Runners, <2>1, Numbers, Named, FreshReads
       DEF Marks, Requeues,
           Ends, Others, shopWorld, history, Settled, Numbers, Named, FreshReads
  <2>4. ASSUME NEW v \in Runners PROVE Truthful(v)'
    BY ONLY <1>14, w \in Runners, <2>2, <2>3, Numbers, Named, FreshReads
       DEF Marks,
           Requeues, Ends, Others, shopWorld, history, Truthful, Numbers, Named, FreshReads
  <2>5. Finished'
    BY ONLY <1>14, w \in Runners, <2>2, <2>3, KeyTriples, ShopTypes
       DEF Marks,
           Requeues, Ends, Others, shopWorld, history, Finished
  <2>6. \A v \in Runners : Lags(v)' => Lags(v)
    BY ONLY <1>14, w \in Runners, Phases
       DEF Marks, Requeues, Ends, Others, shopWorld,
           history, Lags, Phases
  <2>7. ASSUME NEW v \in Runners, WillSettle(v)
        PROVE  WillSettle(v)' \/ Settled \/ Told'
    BY ONLY <1>14, w \in Runners, <2>7, Phases, Numbers
       DEF Marks, Requeues, Ends,
           Others, shopWorld, history, WillSettle, Phases, Numbers
  <2>8. UnderWay'
    BY ONLY <1>14, w \in Runners, <2>2, <2>3, <2>6, <2>7, Numbers
       DEF Marks, Requeues,
           Ends, Others, shopWorld, history, UnderWay, Numbers
  <2>9. QED
    BY ONLY <2>4, <2>5, <2>8
<1>15. ASSUME NEW w \in Runners, Dies(w) PROVE Settling'
  <2>1. SUFFICES ASSUME ~silent', ~overtaken'
                PROVE  (\A v \in Runners : Truthful(v)') /\ Finished' /\ UnderWay'
    BY ONLY <2>1 DEF Settling
  <2>2. (\A v \in Runners : Truthful(v)) /\ Finished /\ UnderWay
    BY ONLY <1>15, w \in Runners, <2>1, Settling
       DEF Dies, Counts, Loses, Requeues,
           Ends, Others, shopWorld, history, Settling
  <2>3. Settled => Settled'
    BY ONLY <1>15, w \in Runners, <2>1, Numbers, Named, FreshReads
       DEF Dies, Counts, Loses,
           Requeues, Ends, Others, shopWorld, history, Settled, Numbers, Named, FreshReads
  <2>4. ASSUME NEW v \in Runners PROVE Truthful(v)'
    BY ONLY <1>15, w \in Runners, <2>2, <2>3, Numbers, Named, FreshReads
       DEF Dies, Counts,
           Loses, Requeues, Ends, Others, shopWorld, history, Truthful, Numbers, Named,
           FreshReads
  <2>5. Finished'
    BY ONLY <1>15, w \in Runners, <2>2, <2>3, KeyTriples, ShopTypes
       DEF Dies, Counts,
           Loses, Requeues, Ends, Others, shopWorld, history, Finished
  <2>6. \A v \in Runners : Lags(v)' => Lags(v)
    BY ONLY <1>15, w \in Runners, Phases
       DEF Dies, Counts, Loses, Requeues, Ends,
           Others, shopWorld, history, Lags, Phases
  <2>7. ASSUME NEW v \in Runners, WillSettle(v)
        PROVE  WillSettle(v)' \/ Settled \/ Told'
    BY ONLY <1>15, w \in Runners, <2>7, Phases, Numbers
       DEF Dies, Counts, Loses,
           Requeues, Ends, Others, shopWorld, history, WillSettle, Phases, Numbers
  <2>8. UnderWay'
    BY ONLY <1>15, w \in Runners, <2>2, <2>3, <2>6, <2>7, Numbers
       DEF Dies, Counts,
           Loses, Requeues, Ends, Others, shopWorld, history, UnderWay, Numbers
  <2>9. QED
    BY ONLY <2>4, <2>5, <2>8
<1>16. ASSUME NEW k \in HoldKeys, Expires(k) PROVE Settling'
  BY ONLY <1>16, Numbers, Numbers', Named, Phases, FreshReads, KeysOfThePast, Settling
     DEF
         Expires, ClaimExpires, Numbers, Named, Phases, FreshReads, KeysOfThePast, Settling, Settled,
         Truthful, Finished, UnderWay, WillSettle, Lags, HoldKey, shopWorld, history
<1>17. CASE Approves
  BY ONLY <1>17, Numbers, Numbers', Named, Phases, FreshReads, KeysOfThePast, Settling
     DEF
         Approves, Approve, Numbers, Named, Phases, FreshReads, KeysOfThePast, Settling, Settled,
         Truthful, Finished, UnderWay, WillSettle, Lags, HoldKey, shopWorld, history
<1>18. CASE Edits
  BY ONLY <1>18, Numbers, Numbers', Named, Phases, FreshReads, KeysOfThePast, Settling
     DEF
         Edits, EditContent, Tells, Numbers, Named, Phases, FreshReads, KeysOfThePast, Settling,
         Settled, Truthful, Finished, UnderWay, WillSettle, Lags, HoldKey, shopWorld,
         history
<1>19. CASE Regenerates
  BY ONLY <1>19, Numbers, Numbers', Named, Phases, FreshReads, KeysOfThePast, Settling
     DEF
         Regenerates, Regenerate, Numbers, Named, Phases, FreshReads, KeysOfThePast, Settling, Settled,
         Truthful, Finished, UnderWay, WillSettle, Lags, HoldKey, shopWorld, history
<1>20. CASE Restocks
  <2>1. SUFFICES ASSUME ~silent', ~overtaken'
                PROVE  (\A v \in Runners : Truthful(v)') /\ Finished' /\ UnderWay'
    BY ONLY <2>1 DEF Settling
  <2>2. /\ stocked' = stocked + 1 /\ UNCHANGED <<shopRow, shop, runner, held>>
        /\ \A v \in Runners : HasRead(v) =>
             shopRow.status = "published" /\ runner[v].type # "publish"
    BY ONLY <1>20, <2>1 DEF Restocks, StockChange
  <2>3. shopRow.status = "published" => Told'
    BY ONLY <1>20 DEF Restocks, Tells
  <2>4. ASSUME NEW v \in Runners PROVE Truthful(v)'
    BY ONLY <2>2, v \in Runners, Numbers, FreshReads DEF Truthful, HasRead, Numbers, FreshReads
  <2>5. Finished'
    <3>1. stocked' \in Stocks
      BY DEF ShopTypes
    <3>2. QED
      BY ONLY <2>2, <3>1, KeysOfThePast, Numbers DEF Finished, KeysOfThePast, Numbers
  <2>6. UnderWay'
    BY ONLY <2>2, <2>3 DEF UnderWay, Lags, HasRead
  <2>7. QED
    BY ONLY <2>4, <2>5, <2>6
<1>21. ASSUME NEW w \in Runners, Prepares(w) PROVE Settling'
  <2>1. /\ Others(w) /\ SameTask(w) /\ runner[w].pc \in {"claim", "select"}
        /\ runner'[w].pc \in {"select", "start", "failed"}
        /\ runner'[w].quantity = runner[w].quantity
        /\ UNCHANGED <<stocked, shopRow, shop, Told, held, silent, overtaken>>
    BY ONLY <1>21 DEF Prepares, Moves, shopWorld
  <2>2. UNCHANGED Settled
    BY ONLY <2>1 DEF Settled
  <2>3. SUFFICES ASSUME ~silent, ~overtaken
                PROVE  (\A v \in Runners : Truthful(v)') /\ Finished' /\ UnderWay'
    BY ONLY <2>1, <2>3 DEF Settling
  <2>4. (\A v \in Runners : Truthful(v)) /\ Finished /\ UnderWay
    BY ONLY <2>3, Settling DEF Settling
  <2>5. ASSUME NEW v \in Runners PROVE Truthful(v)'
    BY ONLY <2>1, <2>2, <2>4, v \in Runners DEF Truthful, Others
  <2>6. Finished'
    BY ONLY <2>1, <2>2, <2>4 DEF Finished
  <2>7. ASSUME NEW v \in Runners
        PROVE  (Lags(v)' => Lags(v)) /\ (WillSettle(v) => WillSettle(v)')
    BY ONLY <2>1, v \in Runners DEF Lags, WillSettle, Others, SameTask
  <2>8. UnderWay'
    BY ONLY <2>1, <2>2, <2>4, <2>7 DEF UnderWay
  <2>9. QED
    BY ONLY <2>5, <2>6, <2>8
<1>22. QED
  BY ONLY Effect, <1>1, <1>2, <1>3, <1>4, <1>5, <1>6, <1>7, <1>8, <1>9, <1>10, <1>11,
          <1>12, <1>13, <1>14, <1>15, <1>16, <1>17, <1>18, <1>19, <1>20, <1>21 DEF Effect

------------------------------------------------------------------------------
\* The invariant holds at first.
LEMMA InitShop == ShopInit => ShopInv
<1> SUFFICES ASSUME ShopInit PROVE ShopInv
  OBVIOUS
<1>1. /\ content = 1 /\ draft = 1 /\ stocked = 0 /\ shop = << >>
      /\ shopRow.status = "draft" /\ shopRow.external = 0
      /\ approved = 0 /\ shopFaults = 0
      /\ silent = FALSE /\ overtaken = FALSE
      /\ \A w \in Runners : runner[w] = Off
      /\ \A k \in HoldKeys : held[k] = "free"
      /\ \A c \in Contents : lostAnswer[c] = 0 /\ unclaimed[c] = 0
      /\ \A n \in 0..MaxShopReceives : waiting["update"][n] = 0
  BY DEF ShopInit, Types
<1>2. \A w \in Runners :
        /\ runner[w].pc = "off" /\ runner[w].external = 0 /\ runner[w].version = 0
        /\ runner[w].quantity = 0
  BY ONLY <1>1 DEF Off
<1>3. ShopTypes
  <2>1. shopRow \in ShopRows /\ shop \in Seq(Products)
    BY DEF ShopInit, ShopRows
  <2>2. /\ runner \in [Runners -> RunnerStates] /\ waiting \in ShopQueues
        /\ held \in [HoldKeys -> HeldStatus] /\ lostAnswer \in [Contents -> Nat]
        /\ unclaimed \in [Contents -> Nat]
    BY OffType DEF ShopInit, HeldStatus, ShopQueues
  <2>3. approved \in 0..MaxApprovals /\ shopFaults \in 0..MaxShopFaults
    BY <1>1, ShopAssumption DEF ShopAssumption
  <2>4. QED
    BY <1>1, <2>1, <2>2, <2>3, OffType DEF ShopTypes
<1>4. Len(shop) = 0
  BY <1>1
<1>5. Named /\ Phases /\ FreshReads
  BY ONLY <1>1, <1>2, <1>4 DEF Named, Told, Phases, FreshReads
<1>6. OneEach
  <2>1. SUFFICES ASSUME NEW c \in Contents PROVE OneOf(c)
    BY DEF OneEach
  <2>2. Offered(c) = {} /\ ToMake(c) = {}
    BY ONLY <1>2, <1>4 DEF Offered, ToMake
  <2>3. /\ IsFiniteSet(ToMake(c)) /\ Cardinality(Offered(c)) = 0
        /\ Cardinality(ToMake(c)) = 0
    BY <2>2, FS_EmptySet
  <2>4. Worth(c) \in {0, 1}
    BY DEF Worth
  <2>5. QED
    BY ONLY <1>1, <2>3, <2>4, c \in Contents DEF OneOf
<1>7. /\ \A c \in Contents, v \in Stocks : held[<<"update", c, v>>] = "free"
      /\ 0 \in Stocks
  BY <1>1, OffType DEF HoldKeys, Types
<1>8. KeysOfThePast
  BY ONLY <1>7 DEF KeysOfThePast
<1>9. Settling
  BY ONLY <1>1, <1>2, <1>7 DEF Settling, Truthful, Finished, UnderWay, Lags
<1>10. QED
  BY ONLY <1>3, <1>5, <1>6, <1>8, <1>9 DEF ShopInv

\* The parts of the invariant keep each other.
LEMMA NextShop == ASSUME ShopInv, ShopNext PROVE ShopInv'
<1>1. /\ ShopTypes /\ Named /\ Phases /\ OneEach /\ FreshReads /\ KeysOfThePast
      /\ Settling
  BY DEF ShopInv
<1>2. ShopTypes' /\ Effect
  BY ONLY <1>1, ShopNext, ShopTypeStep, Effects
<1>3. Numbers /\ Numbers'
  <2>1. Numbers
    BY ONLY <1>1, NumbersTyped
  <2>2. Numbers'
    BY ONLY <1>2, NumbersTyped, PTL
  <2>3. QED
    BY ONLY <2>1, <2>2
<1>4. Named' /\ Phases'
  BY ONLY <1>1, <1>2, <1>3, NamedStep, PhasesStep
<1>5. OneEach'
  BY ONLY <1>1, <1>2, OneEachStep
<1>6. FreshReads' /\ KeysOfThePast'
  BY ONLY <1>1, <1>2, <1>3, ReadsStep, KeysOfThePastStep
<1>7. Settling'
  BY ONLY <1>1, <1>2, <1>3, SettlingStep
<1>8. QED
  BY ONLY <1>2, <1>4, <1>5, <1>6, <1>7 DEF ShopInv

\* The invariant holds in every reachable state of the shop (shopify-sync-worker).
THEOREM ShopInductive == ShopSpec => []ShopInv
<1>1. ShopInv /\ [ShopNext]_shopVars => ShopInv'
  <2>1. CASE ShopNext
    BY <2>1, NextShop
  <2>2. CASE UNCHANGED shopVars
    BY ONLY <2>2
       DEF shopVars, ShopInv, ShopTypes, Named, Told, Phases, Holding, OneEach, OneOf, Offered,
           ToMake, Publishes, Worth, InHand, FreshReads, KeysOfThePast, Settling, Settled,
           Truthful, Finished, UnderWay, Lags, WillSettle
  <2>3. QED
    BY <2>1, <2>2
<1>2. QED
  BY InitShop, <1>1, PTL DEF ShopSpec

\* Every variable has the values its comment says, and nothing names a product
\* that is not in the store.
THEOREM ShopTypeCorrect == ShopSpec => []ShopTypeOK
<1>1. ShopInv => ShopTypeOK
  <2> SUFFICES ASSUME ShopInv PROVE ShopTypeOK
    OBVIOUS
  <2>1. ShopTypes /\ Named /\ Numbers
    BY NumbersTyped DEF ShopInv
  <2>2. shopRow \in [status : {"draft", "published", "error"}, external : 0..Len(shop)]
    BY ONLY <2>1 DEF ShopTypes, ShopRows, Named, Numbers
  <2>3. \A p \in 1..Len(shop) : shop[p] \in [content : Contents, quantity : Stocks]
    <3>1. \A p \in 1..Len(shop) : shop[p] \in Products
      BY ONLY <2>1 DEF ShopTypes
    <3>2. QED
      BY ONLY <3>1 DEF Products
  <2>4. ASSUME NEW w \in Runners
        PROVE  runner[w] \in [pc : RunnerSteps, type : Types,
                              receives : 0..MaxShopReceives, content : Contents,
                              version : Stocks, external : 0..Len(shop), quantity : Stocks]
    <3>1. runner[w] \in RunnerStates /\ runner[w].external \in 0..Len(shop)
      BY ONLY <2>1, w \in Runners DEF ShopTypes, Named, Numbers
    <3>2. QED
      BY ONLY <3>1 DEF RunnerStates
  <2>5. runner \in [Runners -> [pc : RunnerSteps, type : Types,
                                receives : 0..MaxShopReceives, content : Contents,
                                version : Stocks, external : 0..Len(shop), quantity : Stocks]]
    BY ONLY <2>1, <2>4 DEF ShopTypes
  <2>6. QED
    BY ONLY <2>1, <2>2, <2>3, <2>5 DEF ShopTypes, ShopTypeOK, RunnerSteps, ShopQueues
<1>2. QED
  BY ShopInductive, <1>1, PTL

\* One content is one product in the store: each one more follows a create whose
\* execution failed or died before its key was completed, or a publication that ran
\* without a claim (withIdempotency around the publication).
THEOREM OneProductPerContentHolds == ShopSpec => []OneProductPerContent
<1>1. ShopInv => OneProductPerContent
  <2> SUFFICES ASSUME ShopInv, NEW c \in Contents
               PROVE  Cardinality(Offered(c)) =< 1 + lostAnswer[c] + unclaimed[c]
    BY DEF OneProductPerContent, Offered
  <2>1. ShopTypes /\ OneOf(c)
    BY DEF ShopInv, OneEach
  <2>2. QED
    BY <2>1, Weights DEF OneOf
<1>2. QED
  BY ShopInductive, <1>1, PTL

\* When nothing is under way for it and no update is in the DLQ, a published listing
\* offers the stock there is (the version in the update's key, the update's order of
\* read and set).
THEOREM QuantitySettlesHolds == ShopSpec => []QuantitySettles
<1>1. ShopInv => QuantitySettles
  <2> SUFFICES ASSUME ShopInv, shopRow.status = "published",
                      \A n \in 0..MaxShopReceives : waiting["update"][n] = 0,
                      \A w \in Runners : runner[w].pc = "off", ~silent, ~overtaken
               PROVE  shop[shopRow.external].quantity = stocked
    BY DEF QuantitySettles
  <2>1. UnderWay /\ ~Told
    BY DEF ShopInv, Settling, Told
  <2>2. QED
    BY <2>1 DEF UnderWay, WillSettle, Settled
<1>2. QED
  BY ShopInductive, <1>1, PTL

------------------------------------------------------------------------------
(***************************************************************************)
(* The guard of the Shopify work: only tryClaim, its select and the end of *)
(* an execution change a key or who is under it.                           *)
(***************************************************************************)

\* What the guard sees.
ShopKeyState == [k \in HoldKeys |-> ShopKeyIs(k)]
ShopHeld     == [w \in Runners |-> ShopUnder(w)]

\* A step that leaves the keys and who is under them alone.
LEMMA SameShopGuard ==
  ASSUME UNCHANGED held, \A w \in Runners : ShopUnder(w)' = ShopUnder(w)
  PROVE  UNCHANGED ShopGuard!vars
BY DEF ShopGuard!vars, ShopKeyIs

\* An execution that stays off its key, or stays under it.
LEMMA StaysGuard ==
  ASSUME ShopTypes, NEW w \in Runners, UNCHANGED held, Others(w),
         \/ ~Holding(w) /\ ~Holding(w)'
         \/ Holding(w) /\ Holding(w)' /\ SameTask(w)
  PROVE  UNCHANGED ShopGuard!vars
<1>1. ASSUME NEW v \in Runners PROVE ShopUnder(v)' = ShopUnder(v)
  BY DEF Others, SameTask, ShopUnder, Holding, HoldKey
<1> QED
  BY <1>1, SameShopGuard

\* An execution leaves its key completed, given back, or as it is.
LEMMA LeavesShopGuard ==
  ASSUME ShopTypes, NEW w \in Runners, Holding(w), ~Holding(w)', Others(w),
         NEW k \in HoldKeys, k = HoldKey(runner[w]),
         NEW s \in {"done", "free", held[k]}, held' = [held EXCEPT ![k] = s]
  PROVE  ShopGuard!Next
<1>1. held \in [HoldKeys -> HeldStatus]
  BY DEF ShopTypes
<1>2. ShopHeld[w] = {k} /\ ShopHeld' = [ShopHeld EXCEPT ![w] = {}]
  BY DEF ShopHeld, ShopUnder, Holding, Others, HoldKey
<1>3. ShopKeyIs(k)' \in {"done", "free", ShopKeyIs(k)}
  BY <1>1 DEF ShopKeyIs
<1>4. ShopKeyState' = [ShopKeyState EXCEPT ![k] = ShopKeyIs(k)']
  <2>1. \A h \in HoldKeys : h # k => ShopKeyIs(h)' = ShopKeyIs(h)
    BY <1>1 DEF ShopKeyIs
  <2> QED
    BY <2>1 DEF ShopKeyState
<1>5. ShopKeyState[k] = ShopKeyIs(k)
  BY DEF ShopKeyState
<1>6. ShopGuard!Leave(w, k)
  BY <1>2, <1>3, <1>4, <1>5 DEF ShopGuard!Leave, ShopHeld, ShopKeyState
<1> QED
  BY <1>2, <1>6 DEF ShopGuard!Next, ShopHeld

\* Who begins under a key, takes it or finds it failed.
LEMMA EntersShopGuard ==
  ASSUME ShopTypes, NEW w \in Runners, runner[w].pc \in {"claim", "select"},
         Moves(w, "start", runner[w].external, runner[w].quantity),
         NEW k \in HoldKeys, k = HoldKey(runner[w]),
         \/ held[k] \in {"free", "expired"} /\ held' = [held EXCEPT ![k] = "busy"]
         \/ held[k] = "free" /\ held' = held
  PROVE  ShopGuard!Next
<1>1. held \in [HoldKeys -> HeldStatus]
  BY DEF ShopTypes
<1>2. ShopHeld[w] = {} /\ ShopHeld' = [ShopHeld EXCEPT ![w] = {k}]
  <2>1. HoldKey(runner[w])' = k /\ runner'[w].pc = "start"
    BY DEF Moves, SameTask, HoldKey
  <2>2. ShopUnder(w) = {} /\ ShopUnder(w)' = {k}
    BY <2>1 DEF ShopUnder
  <2>3. \A v \in Runners \ {w} : ShopUnder(v)' = ShopUnder(v)
    BY DEF Moves, Others, ShopUnder, HoldKey
  <2> QED
    BY <2>2, <2>3 DEF ShopHeld
<1>3. ShopKeyState[k] = "free"
  BY <1>1 DEF ShopKeyState, ShopKeyIs
<1>4. \A h \in HoldKeys : h # k => ShopKeyIs(h)' = ShopKeyIs(h)
  BY <1>1 DEF ShopKeyIs
<1>5. \/ ShopKeyState' = [ShopKeyState EXCEPT ![k] = "claimed"]
      \/ UNCHANGED ShopKeyState
  <2>1. CASE held' = [held EXCEPT ![k] = "busy"]
    <3>1. ShopKeyIs(k)' = "claimed"
      BY <1>1, <2>1 DEF ShopKeyIs
    <3> QED
      BY <1>4, <3>1 DEF ShopKeyState
  <2>2. CASE held' = held
    BY <2>2 DEF ShopKeyState, ShopKeyIs
  <2> QED
    BY <2>1, <2>2
<1>6. ShopGuard!Claim(w, k) \/ ShopGuard!Slip(w, k)
  BY <1>2, <1>3, <1>5
     DEF ShopGuard!Enter, ShopGuard!Claim, ShopGuard!Slip, ShopHeld, ShopKeyState
<1>7. k \in ShopHeld'[w]
  BY <1>2 DEF ShopHeld
<1> QED
  BY <1>6, <1>7 DEF ShopGuard!Next, ShopHeld

LEMMA ExpiresShopGuard ==
  ASSUME ShopTypes, NEW k \in HoldKeys, ClaimExpires(k)
  PROVE  ShopGuard!Next
<1>1. UNCHANGED ShopHeld /\ \A w \in Runners : k \notin ShopHeld[w]
  BY DEF ClaimExpires, ShopHeld, ShopUnder, HoldKey
<1>2. ShopKeyState[k] = "claimed" /\ ShopKeyState' = [ShopKeyState EXCEPT ![k] = "free"]
  <2>1. held[k] = "busy" /\ held' = [held EXCEPT ![k] = "expired"]
    BY DEF ClaimExpires
  <2>2. \A h \in HoldKeys : h # k => ShopKeyIs(h)' = ShopKeyIs(h)
    BY <2>1 DEF ShopKeyIs, ShopTypes
  <2>3. ShopKeyIs(k) = "claimed" /\ ShopKeyIs(k)' = "free"
    BY <2>1 DEF ShopKeyIs, ShopTypes
  <2> QED
    BY <2>2, <2>3 DEF ShopKeyState
<1>3. ShopGuard!Expire(k)
  BY <1>1, <1>2 DEF ShopGuard!Expire, ShopHeld, ShopKeyState
<1> QED
  BY <1>3 DEF ShopGuard!Next

LEMMA NextShopGuard ==
  ASSUME ShopTypes, [ShopNext]_shopVars
  PROVE  [ShopGuard!Next]_(ShopGuard!vars)
<1>1. CASE UNCHANGED <<runner, held>>
  BY <1>1, SameShopGuard DEF ShopUnder
<1>2. ASSUME NEW w \in Runners,
             \/ \E t \in Types : Receives(w, t)
             \/ GivesBack(w) \/ Drops(w) \/ Starts(w) \/ Creates(w) \/ Puts(w)
             \/ ReadsStock(w) \/ Sets(w) \/ Records(w) \/ Marks(w)
      PROVE  UNCHANGED ShopGuard!vars
  <2>1. /\ UNCHANGED held /\ Others(w)
        /\ \/ ~Holding(w) /\ ~Holding(w)'
           \/ Holding(w) /\ Holding(w)' /\ SameTask(w)
    BY <1>2
       DEF Receives, Arrives, GivesBack, Drops, Ends, Starts, Creates, Puts, ReadsStock,
           Sets, Records, Marks, Moves, Holding
  <2> QED
    BY <2>1, StaysGuard
<1>3. ASSUME NEW w \in Runners, Completes(w) \/ GivesUp(w) \/ CreatesUnheard(w)
      PROVE  ShopGuard!Next
  <2>1. Holding(w) /\ ~Holding(w)' /\ Others(w)
    BY <1>3 DEF Completes, GivesUp, CreatesUnheard, FreesKey, Ends, Moves, Holding
  <2>2. \E s \in {"done", "free"} : held' = [held EXCEPT ![HoldKey(runner[w])] = s]
    BY <1>3 DEF Completes, GivesUp, CreatesUnheard, FreesKey
  <2> QED
    BY <2>1, <2>2, KeyType, LeavesShopGuard
<1>4. ASSUME NEW w \in Runners, Dies(w) PROVE [ShopGuard!Next]_(ShopGuard!vars)
  <2>1. UNCHANGED held /\ Others(w) /\ ~Holding(w)'
    BY <1>4 DEF Dies, Ends, Holding
  <2>2. CASE Holding(w)
    <3>1. PICK k \in HoldKeys : k = HoldKey(runner[w])
      BY KeyType
    <3>2. held' = [held EXCEPT ![k] = held[k]]
      BY <2>1, <3>1 DEF ShopTypes
    <3> QED
      BY <2>1, <2>2, <3>1, <3>2, LeavesShopGuard
  <2>3. CASE ~Holding(w)
    BY <2>1, <2>3, StaysGuard
  <2> QED
    BY <2>2, <2>3
<1>5. ASSUME NEW w \in Runners, Takes(w) \/ Prepares(w)
      PROVE  [ShopGuard!Next]_(ShopGuard!vars)
  <2>1. CASE Takes(w)
    BY <2>1, KeyType, EntersShopGuard DEF Takes
  <2>2. CASE Prepares(w) /\ held[HoldKey(runner[w])] = "free"
             /\ Moves(w, "start", runner[w].external, runner[w].quantity)
    BY <2>2, KeyType, EntersShopGuard DEF Prepares
  <2>3. CASE Prepares(w) /\ \E pc \in {"select", "failed"} :
                              Moves(w, pc, runner[w].external, runner[w].quantity)
    <3>1. UNCHANGED held /\ Others(w) /\ ~Holding(w) /\ ~Holding(w)'
      BY <2>3 DEF Prepares, Moves, Holding
    <3> QED
      BY <3>1, StaysGuard
  <2> QED
    BY <1>5, <2>1, <2>2, <2>3 DEF Prepares
<1>6. CASE Approves \/ Edits \/ Regenerates \/ Restocks \/ UNCHANGED shopVars
  BY <1>1, <1>6
     DEF Approves, Edits, Regenerates, Restocks, Approve, EditContent, Regenerate,
         StockChange, shopVars
<1>7. CASE ShopNext
  <2>1. Effect
    BY <1>7, Effects
  <2>2. \A k \in HoldKeys : Expires(k) => ShopGuard!Next
    BY ExpiresShopGuard DEF Expires
  <2> QED
    BY <1>2, <1>3, <1>4, <1>5, <1>6, <2>1, <2>2 DEF Effect
<1> QED
  BY <1>6, <1>7

\* Publications and updates run under their keys as the guard promises: begun only
\* where the key is nobody's, never under a live claim or a completed key
\* (withIdempotency in shopify-sync-worker).
THEOREM ShopIsGuarded == ShopSpec => ShopGuard!Spec
<1>1. ShopInit => ShopGuard!Init
  BY DEF ShopInit, ShopGuard!Init, ShopKeyIs, ShopUnder, Off
<1>2. ShopInv /\ [ShopNext]_shopVars => [ShopGuard!Next]_(ShopGuard!vars)
  BY NextShopGuard DEF ShopInv
<1> QED
  BY <1>1, <1>2, ShopInductive, PTL DEF ShopSpec, ShopGuard!Spec

------------------------------------------------------------------------------
(***************************************************************************)
(* DraftReview: for every set of requests and executions, every sequence   *)
(* of contents and every number of faults. A push reads the latest draft   *)
(* of the present content, so without overlap what eBay shows only moves   *)
(* forward (Forward); what it has not reached yet is on its way            *)
(* (ContentArrives, AppliedIsSent), and a push that read a correction and  *)
(* did not make it leaves the listing in "error" (ReadArrives).            *)
(***************************************************************************)

Queued      == [Mailboxes -> [0..MaxReceives -> Nat]]
SyncSteps   == {"idle", "claim", "select", "read", "call", "record", "complete", "release",
                "caught"}
SyncStates  == [pc : SyncSteps, op : {"publish", "update"}, receives : 0..MaxReceives,
                content : DraftHashes, draft : {NoDraft} \cup DraftRow]
AskStates   == [pc : {"idle", "draft", "write", "send"},
                kind : {"price", "specifics", "apply"}, draft : Nat,
                price : Usd, seen : SUBSET Aspects, aspect : SUBSET Aspects]
ModelStates == [pc : {"idle", "insert", "rows"}, content : DraftHashes]
RowStates   == [status : {"none", "pending_approval", "published", "error"},
                synced : {0} \cup {Jpy[c] : c \in DraftHashes}]
ClickCounts == [changes : 0..MaxChanges, requests : 0..MaxRequests,
                approvals : 0..MaxPublishApprovals]

\* ReviewTypeOK by the names of its sets.
ReviewTypes ==
  /\ hash \in DraftHashes
  /\ drafts \in Seq(DraftRow)
  /\ row \in RowStates
  /\ keys \in [PushKey -> {"absent", "in_progress", "completed", "failed"}]
  /\ generated \subseteq DraftHashes
  /\ mail \in Queued
  /\ live \in {NoDraft} \cup DraftRow
  /\ request \in [Requests -> AskStates]
  /\ model \in ModelStates
  /\ syncer \in [Syncers -> SyncStates]
  /\ clicks \in ClickCounts
  /\ reviewFaults \in 0..MaxReviewFaults
  /\ answered \in SUBSET (Nat \X Aspects)
  /\ pending \in {"none", "edit", "applied"}
  /\ mishap \subseteq {"replayed", "overlap", "overwrote", "missed"}

Alone == "overlap" \notin mishap
OnEbay(w) == syncer[w].pc \in {"call", "record"}

\* Nobody corrects, approves or pushes a draft before there is one.
DraftThere ==
  drafts = <<>> =>
    /\ row.status = "none" /\ model.pc # "rows"
    /\ \A n \in 0..MaxReceives : mail["publish"][n] = 0 /\ mail["update"][n] = 0
    /\ \A r \in Requests : request[r].pc = "idle"
    /\ \A w \in Syncers : syncer[w].pc = "idle"

\* Who calls eBay has a draft, and a listing that is published is there.
ListedOnce ==
  /\ row.status = "published" => live # NoDraft
  /\ \A w \in Syncers :
       /\ OnEbay(w) => syncer[w].draft \in DraftRow
       /\ syncer[w].pc = "record" => live # NoDraft

\* A correction is of a draft there is, and only specifics are merged.
OfDrafts ==
  /\ \A r \in Requests :
       /\ request[r].pc = "write" => request[r].draft \in 1..Len(drafts)
       /\ request[r].kind # "specifics" => request[r].aspect = {}
       /\ request[r].pc = "send" => request[r].kind = "apply"
  /\ \A x \in answered : x[1] \in 1..Len(drafts)

\* A draft has the aspects a human was told it has.
CorrectionsKept ==
  "overwrote" \in mishap
    \/ \A d \in 1..Len(drafts) : Corrected(d) \subseteq drafts[d].aspects

\* No draft, push or key is of a content that is still to come.
NotAhead ==
  /\ model.content <= hash
  /\ live.content <= hash
  /\ \A d \in 1..Len(drafts) : drafts[d].content <= hash
  /\ \A w \in Syncers : syncer[w].content <= hash /\ syncer[w].draft.content <= hash
  /\ \A k \in PushKey : keys[k] = "completed" => k.content <= hash

\* Unless pushes overlap, what eBay shows never goes back to an older content.
Forward ==
  Alone =>
    /\ \A v, w \in Syncers : OnEbay(v) /\ OnEbay(w) => v = w
    /\ \A w \in Syncers :
         /\ OnEbay(w) => syncer[w].content <= syncer[w].draft.content
         /\ syncer[w].pc = "call" => live.content <= syncer[w].draft.content
         /\ syncer[w].pc = "record" => live.content = syncer[w].draft.content
         /\ syncer[w].pc = "complete" => syncer[w].content <= live.content
    /\ \A k \in PushKey : keys[k] = "completed" => k.content <= live.content

Waits == \E op \in {"publish", "update"}, n \in 0..MaxReceives : mail[op][n] > 0

WillPush(w) ==
  \/ syncer[w].pc \in {"claim", "select", "read"} /\ syncer[w].content = hash
  \/ syncer[w].pc = "call" /\ syncer[w].draft.content = hash
  \/ syncer[w].pc \in {"release", "caught"}

\* The present content is on eBay, or on its way.
ContentArrives ==
  Alone /\ "missed" \notin mishap =>
    /\ live.content \in {0, hash} \/ Waits \/ \E w \in Syncers : WillPush(w)
    /\ live.content = 0 =>
         \A w \in Syncers : syncer[w].pc = "call" => syncer[w].draft.content = hash

\* A price that was applied and that no push has read is followed by one.
AppliedIsSent ==
  pending = "applied" =>
    \/ "replayed" \in mishap \/ Waits
    \/ \E r \in Requests : request[r].pc = "send"
    \/ \E w \in Syncers : syncer[w].pc \in {"claim", "select", "read", "release", "caught"}

Carried ==
  /\ live.content = Latest.content
  /\ Latest.price \in {0, live.price}
  /\ "overwrote" \in mishap \/ Corrected(Len(drafts)) \subseteq live.aspects

\* What a push has read is on eBay, or the push is under way or has failed.
ReadArrives ==
  Alone /\ pending = "none" =>
    /\ \A w \in Syncers :
         /\ syncer[w].pc = "call" => syncer[w].draft = Latest
         /\ syncer[w].pc = "record" => Carried
    /\ \/ row.status # "published" \/ Carried
       \/ \E w \in Syncers : syncer[w].pc \in {"call", "release", "caught"}

ReviewInv ==
  /\ ReviewTypes /\ DraftThere /\ ListedOnce /\ OfDrafts /\ CorrectionsKept
  /\ NotAhead /\ Forward /\ ContentArrives /\ AppliedIsSent /\ ReadArrives

LEMMA ReviewTypesNamed == ReviewTypes <=> ReviewTypeOK
  BY DEF ReviewTypes, ReviewTypeOK, Queued, SyncSteps, SyncStates, AskStates, ModelStates,
         RowStates, ClickCounts

\* A box counts messages at each number of receives.
LEMMA BoxType ==
  ASSUME ReviewTypes, NEW t \in Mailboxes, NEW n \in 0..MaxReceives
  PROVE  mail[t] \in [0..MaxReceives -> Nat] /\ mail[t][n] \in Nat
<1>1. mail[t] \in [0..MaxReceives -> Nat]
  BY DEF ReviewTypes, Queued
<1>2. QED
  BY <1>1

\* The number of messages in one place of a box is changed.
Refilled(t, n, k) == [mail EXCEPT ![t][n] = k]

LEMMA BoxIs ==
  ASSUME NEW t \in Mailboxes, NEW n \in 0..MaxReceives, NEW k \in Nat, ReviewTypes
  PROVE  /\ Refilled(t, n, k) \in Queued
         /\ Refilled(t, n, k)[t][n] = k
         /\ \A u \in Mailboxes \ {t} : Refilled(t, n, k)[u] = mail[u]
         /\ \A m \in 0..MaxReceives : m # n => Refilled(t, n, k)[t][m] = mail[t][m]
<1> DEFINE box == [mail[t] EXCEPT ![n] = k]
           boxes == Refilled(t, n, k)
<1>1. mail[t] \in [0..MaxReceives -> Nat] /\ mail \in Queued
  BY BoxType DEF ReviewTypes
<1>2. /\ box \in [0..MaxReceives -> Nat] /\ box[n] = k
      /\ \A m \in 0..MaxReceives : m # n => box[m] = mail[t][m]
  BY <1>1
<1>3. boxes = [mail EXCEPT ![t] = box]
  BY DEF Refilled
<1> HIDE DEF box, boxes
<1>4. /\ boxes \in Queued /\ boxes[t] = box
      /\ \A u \in Mailboxes \ {t} : boxes[u] = mail[u]
  BY <1>1, <1>2, <1>3 DEF Queued
<1>5. QED
  BY <1>2, <1>4 DEF boxes

\* A message is posted, taken or shown again.
LEMMA PostedIs ==
  ASSUME NEW t \in Mailboxes, ReviewTypes
  PROVE  /\ Posted(t) \in Queued
         /\ Posted(t)[t][0] > 0
         /\ \A u \in Mailboxes, n \in 0..MaxReceives : Posted(t)[u][n] >= mail[u][n]
         /\ \A u \in Mailboxes \ {t} : Posted(t)[u] = mail[u]
<1> DEFINE k == mail[t][0] + 1
<1>1. 0 \in 0..MaxReceives
  BY ReviewAssumption DEF ReviewAssumption
<1>2. k \in Nat /\ k > mail[t][0] /\ mail[t][0] \in Nat
  BY <1>1, BoxType
<1>3. Posted(t) = Refilled(t, 0, k)
  BY DEF Posted, Refilled
<1> HIDE DEF k
<1>4. /\ Posted(t) \in Queued /\ Posted(t)[t][0] = k
      /\ \A u \in Mailboxes \ {t} : Posted(t)[u] = mail[u]
      /\ \A m \in 0..MaxReceives : m # 0 => Posted(t)[t][m] = mail[t][m]
  BY ONLY <1>1, <1>2, <1>3, BoxIs, ReviewTypes, t \in Mailboxes
<1>5. ASSUME NEW u \in Mailboxes, NEW n \in 0..MaxReceives
      PROVE  Posted(t)[u][n] >= mail[u][n]
  <2>1. mail[u][n] \in Nat
    BY BoxType
  <2>2. QED
    BY <1>2, <1>4, <2>1
<1>6. QED
  BY <1>2, <1>4, <1>5

LEMMA TakenIs ==
  ASSUME NEW t \in Mailboxes, NEW m \in 0..MaxReceives, ReviewTypes, mail[t][m] > 0,
         mail' = Refilled(t, m, mail[t][m] - 1)
  PROVE  /\ mail' \in Queued
         /\ \A u \in Mailboxes \ {t} : mail'[u] = mail[u]
         /\ \A n \in 0..MaxReceives : n # m => mail'[t][n] = mail[t][n]
<1> DEFINE k == mail[t][m] - 1
<1>1. mail[t][m] \in Nat
  BY BoxType
<1>2. k \in Nat
  BY <1>1
<1>3. mail' = Refilled(t, m, k)
  OBVIOUS
<1> HIDE DEF k
<1>4. QED
  BY ONLY <1>2, <1>3, BoxIs, ReviewTypes, t \in Mailboxes, m \in 0..MaxReceives

LEMMA AgainIs ==
  ASSUME NEW w \in Syncers, ReviewTypes, Again(w)
  PROVE  /\ mail' \in Queued
         /\ mail'[syncer[w].op][syncer[w].receives] > 0
         /\ \A u \in Mailboxes, n \in 0..MaxReceives : mail'[u][n] >= mail[u][n]
         /\ mail'["generate"] = mail["generate"]
         /\ syncer' = [syncer EXCEPT ![w] = NoSync]
<1> DEFINE t == syncer[w].op
           m == syncer[w].receives
           k == mail[t][m] + 1
<1>1. t \in {"publish", "update"} /\ t \in Mailboxes /\ m \in 0..MaxReceives
  BY DEF ReviewTypes, SyncStates, Mailboxes
<1>2. mail' = Refilled(t, m, k) /\ syncer' = [syncer EXCEPT ![w] = NoSync]
  BY DEF Again, Refilled
<1> HIDE DEF t, m
<1>3. mail[t][m] \in Nat /\ k \in Nat /\ k > mail[t][m]
  BY <1>1, BoxType
<1> HIDE DEF k
<1>4. /\ mail' \in Queued /\ mail'[t][m] = k
      /\ \A u \in Mailboxes \ {t} : mail'[u] = mail[u]
      /\ \A n \in 0..MaxReceives : n # m => mail'[t][n] = mail[t][n]
  BY ONLY <1>1, <1>2, <1>3, BoxIs, ReviewTypes
<1>5. ASSUME NEW u \in Mailboxes, NEW n \in 0..MaxReceives
      PROVE  mail'[u][n] >= mail[u][n]
  <2>1. mail[u][n] \in Nat
    BY BoxType
  <2>2. QED
    BY <1>3, <1>4, <2>1
<1>6. mail'[t][m] > 0 /\ mail'["generate"] = mail["generate"]
  BY <1>1, <1>3, <1>4 DEF Mailboxes
<1>7. QED
  BY <1>2, <1>4, <1>5, <1>6 DEF t, m

\* An execution goes on to its next step, or starts or ends.
LEMMA SyncPut ==
  ASSUME NEW w \in Syncers, NEW q \in SyncStates, ReviewTypes,
         syncer' = [syncer EXCEPT ![w] = q]
  PROVE  /\ syncer' \in [Syncers -> SyncStates]
         /\ syncer'[w] = q
         /\ \A v \in Syncers \ {w} : syncer'[v] = syncer[v]
  BY DEF ReviewTypes

LEMMA SyncMoves ==
  ASSUME NEW w \in Syncers, NEW pc \in SyncSteps, ReviewTypes,
         syncer' = [syncer EXCEPT ![w].pc = pc]
  PROVE  /\ syncer' \in [Syncers -> SyncStates]
         /\ syncer'[w].pc = pc
         /\ syncer'[w].op = syncer[w].op
         /\ syncer'[w].content = syncer[w].content
         /\ syncer'[w].draft = syncer[w].draft
         /\ \A v \in Syncers \ {w} : syncer'[v] = syncer[v]
<1> DEFINE s == syncer[w]
           q == [s EXCEPT !.pc = pc]
<1>1. s \in SyncStates
  BY DEF ReviewTypes
<1> HIDE DEF s
<1>2. /\ q \in SyncStates
      /\ q.pc = pc /\ q.op = s.op /\ q.content = s.content /\ q.draft = s.draft
  BY ONLY <1>1, pc \in SyncSteps DEF SyncStates
<1>3. syncer' = [syncer EXCEPT ![w] = q]
  BY DEF s
<1> HIDE DEF q
<1>4. QED
  BY <1>2, <1>3, SyncPut DEF s

LEMMA LatestIs ==
  ASSUME ReviewTypes, drafts # <<>>
  PROVE  Latest \in DraftRow /\ Len(drafts) \in Nat \ {0}
  BY DEF ReviewTypes, Latest

LEMMA NoSyncType == NoSync \in SyncStates
  BY ReviewAssumption DEF ReviewAssumption, NoSync, SyncStates, SyncSteps, DraftHashes

LEMMA NoAskType == NoAsk \in AskStates
  BY ReviewAssumption DEF ReviewAssumption, NoAsk, AskStates, Usd

LEMMA Boxes == {"publish", "update"} \subseteq Mailboxes /\ "generate" \in Mailboxes
  BY DEF Mailboxes

------------------------------------------------------------------------------
LEMMA ReviewTypeStep ==
  ASSUME ReviewTypes, DraftThere, ListedOnce, ReviewNext
  PROVE  ReviewTypes'
<1> USE ReviewAssumption DEF ReviewAssumption
<1>1. CASE ChangeContent
  <2>1. mail' \in Queued
    BY <1>1, PostedIs, Boxes DEF ChangeContent, Propagated, ReviewTypes
  <2>2. clicks' \in ClickCounts
    <3>1. /\ clicks \in ClickCounts /\ clicks.changes < MaxChanges /\ MaxChanges \in Nat
          /\ clicks' = [clicks EXCEPT !.changes = @ + 1]
      BY <1>1 DEF ChangeContent, ReviewTypes
    <3>2. QED
      BY ONLY <3>1 DEF ClickCounts
  <2>3. hash' \in DraftHashes
    <3>1. hash < Len(Jpy) /\ hash' = hash + 1 /\ Len(Jpy) \in Nat
      BY <1>1 DEF ChangeContent
    <3>2. QED
      BY ONLY <3>1, ReviewTypes DEF ReviewTypes, DraftHashes
  <2>4. QED
    BY ONLY <1>1, <2>1, <2>2, <2>3, ReviewTypes DEF ChangeContent, ReviewTypes
<1>2. CASE ApprovePublish
  <2>1. mail' \in Queued
    BY <1>2, PostedIs, Boxes DEF ApprovePublish
  <2>2. clicks' \in ClickCounts
    <3>1. /\ clicks \in ClickCounts /\ clicks.approvals < MaxPublishApprovals
          /\ MaxPublishApprovals \in Nat /\ clicks' = [clicks EXCEPT !.approvals = @ + 1]
      BY <1>2 DEF ApprovePublish, ReviewTypes
    <3>2. QED
      BY ONLY <3>1 DEF ClickCounts
  <2>3. QED
    BY ONLY <1>2, <2>1, <2>2, ReviewTypes DEF ApprovePublish, ReviewTypes
<1>3. CASE BeginGeneration
  <2>1. mail' \in Queued
    <3>1. /\ mail["generate"][0] > 0 /\ 0 \in 0..MaxReceives
          /\ mail' = Refilled("generate", 0, mail["generate"][0] - 1)
      BY <1>3 DEF BeginGeneration, Refilled
    <3>2. QED
      BY ONLY <3>1, ReviewTypes, TakenIs, Boxes
  <2>2. model' \in ModelStates
    BY <1>3 DEF BeginGeneration, ReviewTypes, ModelStates
  <2>3. QED
    BY ONLY <1>3, <2>1, <2>2, ReviewTypes DEF BeginGeneration, ReviewTypes
<1>4. ASSUME NEW filled \in Filled, InsertDraft(filled) PROVE ReviewTypes'
  <2>1. [content |-> model.content, price |-> 0, aspects |-> filled] \in DraftRow
    BY <1>4 DEF ReviewTypes, ModelStates, DraftRow, Usd
  <2>2. drafts' \in Seq(DraftRow)
    BY <1>4, <2>1 DEF InsertDraft, ReviewTypes
  <2>3. model' \in ModelStates
    BY <1>4 DEF InsertDraft, ReviewTypes, ModelStates
  <2>4. QED
    BY ONLY <1>4, <2>2, <2>3, ReviewTypes DEF InsertDraft, ReviewTypes
<1>5. CASE EndGeneration
  <2>1. model' \in ModelStates /\ row' \in RowStates /\ generated' \subseteq DraftHashes
    BY <1>5 DEF EndGeneration, ReviewTypes, ModelStates, RowStates
  <2>2. QED
    BY ONLY <1>5, <2>1, ReviewTypes DEF EndGeneration, ReviewTypes
<1>6. CASE GenerationThrows
  <2>1. mail' \in Queued
    BY <1>6, PostedIs, Boxes DEF GenerationThrows
  <2>2. model' \in ModelStates
    BY <1>6 DEF GenerationThrows, ReviewTypes, ModelStates
  <2>3. reviewFaults' \in 0..MaxReviewFaults
    BY <1>6 DEF GenerationThrows, ReviewFault, ReviewTypes
  <2>4. QED
    BY ONLY <1>6, <2>1, <2>2, <2>3, ReviewTypes DEF GenerationThrows, ReviewTypes
<1>7. ASSUME NEW r \in Requests, NEW what \in {"price", "specifics", "apply"}, Ask(r, what)
      PROVE  ReviewTypes'
  <2> DEFINE q == [NoAsk EXCEPT !.pc = "draft", !.kind = what]
  <2>1. q \in AskStates
    BY ONLY NoAskType, what \in {"price", "specifics", "apply"} DEF AskStates
  <2>2. request' = [request EXCEPT ![r] = q] /\ request \in [Requests -> AskStates]
    BY <1>7 DEF Ask, ReviewTypes
  <2> HIDE DEF q
  <2>3. request' \in [Requests -> AskStates]
    BY <2>1, <2>2
  <2>4. clicks' \in ClickCounts
    <3>1. /\ clicks \in ClickCounts /\ clicks.requests < MaxRequests
          /\ MaxRequests \in Nat /\ clicks' = [clicks EXCEPT !.requests = @ + 1]
      BY <1>7 DEF Ask, ReviewTypes
    <3>2. QED
      BY ONLY <3>1 DEF ClickCounts
  <2>5. QED
    BY ONLY <1>7, <2>3, <2>4, ReviewTypes DEF Ask, ReviewTypes
<1>8. ASSUME NEW r \in Requests, ReadDraft(r) PROVE ReviewTypes'
  <2>1. drafts # <<>>
    BY <1>8 DEF ReadDraft, DraftThere
  <2>2. Latest.aspects \subseteq Aspects /\ Len(drafts) \in Nat
    BY <2>1, LatestIs DEF DraftRow
  <2>3. request[r] \in AskStates
    BY DEF ReviewTypes
  <2>4. PICK q \in AskStates : request' = [request EXCEPT ![r] = q]
    <3>1. CASE request[r].kind # "specifics"
      <4>1. PICK price \in 1..MaxPrice :
              request' = [request EXCEPT ![r] = [request[r] EXCEPT !.pc = "write",
                                            !.draft = Len(drafts), !.price = price]]
        BY <1>8, <3>1 DEF ReadDraft, ReviewTypes
      <4>2. [request[r] EXCEPT !.pc = "write", !.draft = Len(drafts), !.price = price]
              \in AskStates
        <5>1. price \in Usd
          BY DEF Usd
        <5>2. QED
          BY ONLY <2>2, <2>3, <5>1 DEF AskStates
      <4>3. QED
        BY <4>1, <4>2
    <3>2. CASE request[r].kind = "specifics"
      <4>1. PICK aspect \in Aspects :
              request' = [request EXCEPT ![r] = [request[r] EXCEPT !.pc = "write",
                   !.draft = Len(drafts), !.seen = Latest.aspects, !.aspect = {aspect}]]
        <5>1. PICK aspect \in Aspects :
                request' = [request EXCEPT ![r].pc = "write", ![r].draft = Len(drafts),
                              ![r].seen = Latest.aspects, ![r].aspect = {aspect}]
          BY <1>8, <3>2 DEF ReadDraft
        <5>2. QED
          BY <5>1 DEF ReviewTypes
      <4>2. [request[r] EXCEPT !.pc = "write", !.draft = Len(drafts),
                               !.seen = Latest.aspects, !.aspect = {aspect}] \in AskStates
        BY ONLY <2>2, <2>3, aspect \in Aspects DEF AskStates
      <4>3. QED
        BY <4>1, <4>2
    <3>3. QED
      BY <3>1, <3>2
  <2>5. request' \in [Requests -> AskStates]
    BY <2>4 DEF ReviewTypes
  <2>6. QED
    BY ONLY <1>8, <2>5, ReviewTypes DEF ReadDraft, ReviewTypes
<1>9. ASSUME NEW r \in Requests, WriteDraft(r) PROVE ReviewTypes'
  <2>1. request[r] \in AskStates
    BY DEF ReviewTypes
  <2>2. drafts' \in Seq(DraftRow)
    <3> DEFINE d == request[r].draft
    <3>1. CASE d \in 1..Len(drafts)
      <4>1. drafts[d] \in DraftRow
        BY <3>1 DEF ReviewTypes
      <4>2. [drafts[d] EXCEPT !.aspects = Merged(request[r])] \in DraftRow
        BY ONLY <2>1, <4>1 DEF Merged, DraftRow, AskStates
      <4>3. [drafts[d] EXCEPT !.price = request[r].price] \in DraftRow
        BY ONLY <2>1, <4>1 DEF DraftRow, AskStates
      <4>4. \/ drafts' = [drafts EXCEPT ![d] = [drafts[d] EXCEPT !.aspects = Merged(request[r])]]
            \/ drafts' = [drafts EXCEPT ![d] = [drafts[d] EXCEPT !.price = request[r].price]]
        BY <1>9, <3>1 DEF WriteDraft, ReviewTypes
      <4>5. PICK e \in DraftRow : drafts' = [drafts EXCEPT ![d] = e]
        BY ONLY <4>2, <4>3, <4>4
      <4> HIDE DEF d
      <4>6. QED
        BY ONLY <3>1, <4>5, ReviewTypes DEF ReviewTypes
    <3>2. CASE d \notin 1..Len(drafts)
      <4>1. drafts' = drafts
        BY <1>9, <3>2 DEF WriteDraft, ReviewTypes
      <4>2. QED
        BY <4>1 DEF ReviewTypes
    <3>3. QED
      BY <3>1, <3>2
  <2>3. request' \in [Requests -> AskStates]
    <3>1. [request[r] EXCEPT !.pc = "send"] \in AskStates
      BY <2>1 DEF AskStates
    <3>2. \/ request' = [request EXCEPT ![r] = [request[r] EXCEPT !.pc = "send"]]
          \/ request' = [request EXCEPT ![r] = NoAsk]
      BY <1>9 DEF WriteDraft, ReviewTypes
    <3>3. QED
      BY <3>1, <3>2, NoAskType DEF ReviewTypes
  <2>4. answered' \in SUBSET (Nat \X Aspects)
    BY <1>9, <2>1 DEF WriteDraft, ReviewTypes, AskStates
  <2>5. pending' \in {"none", "edit", "applied"}
    BY <1>9 DEF WriteDraft, ReviewTypes, Unread
  <2>6. mishap' \subseteq {"replayed", "overlap", "overwrote", "missed"}
    BY <1>9 DEF WriteDraft, ReviewTypes
  <2>7. QED
    BY ONLY <1>9, <2>2, <2>3, <2>4, <2>5, <2>6, ReviewTypes DEF WriteDraft, ReviewTypes
<1>10. ASSUME NEW r \in Requests, SendApplied(r) PROVE ReviewTypes'
  <2>1. mail' \in Queued
    BY <1>10, PostedIs, Boxes DEF SendApplied
  <2>2. request' \in [Requests -> AskStates]
    BY <1>10, NoAskType DEF SendApplied, ReviewTypes
  <2>3. QED
    BY ONLY <1>10, <2>1, <2>2, ReviewTypes DEF SendApplied, ReviewTypes
<1>11. ASSUME NEW w \in Syncers, NEW op \in {"publish", "update"},
              NEW n \in 0..(MaxReceives - 1), ReceivePush(w, op, n)
       PROVE  ReviewTypes'
  <2> DEFINE q == [NoSync EXCEPT !.pc = "claim", !.op = op, !.receives = n + 1,
                                 !.content = hash]
  <2>1. mail' \in Queued
    <3>1. /\ mail[op][n] > 0 /\ n \in 0..MaxReceives /\ op \in Mailboxes
          /\ mail' = Refilled(op, n, mail[op][n] - 1)
      BY <1>11, Boxes DEF ReceivePush, Refilled
    <3>2. QED
      BY ONLY <3>1, ReviewTypes, TakenIs
  <2>2. q \in SyncStates
    <3>1. n + 1 \in 0..MaxReceives /\ hash \in DraftHashes
      BY DEF ReviewTypes
    <3>2. QED
      BY ONLY <3>1, NoSyncType, op \in {"publish", "update"} DEF SyncStates, SyncSteps
  <2>3. syncer' = [syncer EXCEPT ![w] = q]
    BY <1>11 DEF ReceivePush
  <2> HIDE DEF q
  <2>4. syncer' \in [Syncers -> SyncStates]
    BY <2>2, <2>3, SyncPut
  <2>5. QED
    BY ONLY <1>11, <2>1, <2>4, ReviewTypes DEF ReceivePush, ReviewTypes
<1>12. ASSUME NEW w \in Syncers, ClaimPush(w) PROVE ReviewTypes'
  <2>1. \E pc \in {"read", "select"} : syncer' = [syncer EXCEPT ![w].pc = pc]
    BY <1>12 DEF ClaimPush
  <2>2. syncer' \in [Syncers -> SyncStates]
    BY <2>1, SyncMoves DEF SyncSteps
  <2>3. keys' \in [PushKey -> {"absent", "in_progress", "completed", "failed"}]
    BY <1>12 DEF ClaimPush, ReviewTypes
  <2>4. QED
    BY ONLY <1>12, <2>2, <2>3, ReviewTypes DEF ClaimPush, ReviewTypes
<1>13. ASSUME NEW w \in Syncers, ReadForPush(w) PROVE ReviewTypes'
  <2> DEFINE q == [syncer[w] EXCEPT !.pc = "call", !.draft = Latest]
  <2>1. drafts # <<>>
    BY <1>13 DEF ReadForPush, DraftThere
  <2>2. Latest \in DraftRow /\ syncer[w] \in SyncStates
    BY <2>1, LatestIs DEF ReviewTypes
  <2>3. q \in SyncStates
    BY ONLY <2>2 DEF SyncStates, SyncSteps
  <2>4. syncer' = [syncer EXCEPT ![w] = q]
    BY <1>13 DEF ReadForPush, ReviewTypes
  <2> HIDE DEF q
  <2>5. syncer' \in [Syncers -> SyncStates]
    BY <2>3, <2>4, SyncPut
  <2>6. pending' = "none" /\ mishap' \subseteq {"replayed", "overlap", "overwrote", "missed"}
    BY <1>13 DEF ReadForPush, ReviewTypes
  <2>7. QED
    BY ONLY <1>13, <2>5, <2>6, ReviewTypes DEF ReadForPush, ReviewTypes
<1>14. ASSUME NEW w \in Syncers, RefusePush(w) PROVE ReviewTypes'
  <2>1. syncer' \in [Syncers -> SyncStates]
    BY <1>14, SyncMoves DEF RefusePush, SyncSteps
  <2>2. mail' \in Queued
    BY <1>14, PostedIs, Boxes DEF RefusePush, ReviewTypes
  <2>3. QED
    BY ONLY <1>14, <2>1, <2>2, ReviewTypes DEF RefusePush, ReviewTypes
<1>15. ASSUME NEW w \in Syncers, PushToEbay(w) PROVE ReviewTypes'
  <2>1. live.price \in Usd
    BY DEF ReviewTypes, NoDraft, DraftRow, Usd
  <2>2. syncer[w].draft \in DraftRow
    BY <1>15 DEF PushToEbay, ListedOnce, OnEbay
  <2>3. live' \in DraftRow
    BY <1>15, <2>1, <2>2 DEF PushToEbay, Shown, DraftRow
  <2>4. syncer' \in [Syncers -> SyncStates]
    BY <1>15, SyncMoves DEF PushToEbay, SyncSteps
  <2>5. QED
    BY ONLY <1>15, <2>3, <2>4, ReviewTypes DEF PushToEbay, ReviewTypes
<1>16. ASSUME NEW w \in Syncers, PushFails(w) PROVE ReviewTypes'
  <2>1. syncer' \in [Syncers -> SyncStates]
    BY <1>16, SyncMoves DEF PushFails, SyncSteps
  <2>2. reviewFaults' \in 0..MaxReviewFaults
    BY <1>16 DEF PushFails, ReviewFault, ReviewTypes
  <2>3. QED
    BY ONLY <1>16, <2>1, <2>2, ReviewTypes DEF PushFails, ReviewTypes
<1>17. ASSUME NEW w \in Syncers, RecordPush(w) PROVE ReviewTypes'
  <2>1. syncer[w].draft.content \in DraftHashes
    BY <1>17 DEF RecordPush, ListedOnce, OnEbay, DraftRow
  <2>2. row' \in RowStates
    BY <1>17, <2>1 DEF RecordPush, Synced, RowStates
  <2>3. syncer' \in [Syncers -> SyncStates]
    BY <1>17, SyncMoves DEF RecordPush, SyncSteps
  <2>4. QED
    BY ONLY <1>17, <2>2, <2>3, ReviewTypes DEF RecordPush, ReviewTypes
<1>18. ASSUME NEW w \in Syncers, CompletePush(w) PROVE ReviewTypes'
  <2>1. syncer' \in [Syncers -> SyncStates]
    BY <1>18, SyncPut, NoSyncType DEF CompletePush, Done
  <2>2. QED
    BY ONLY <1>18, <2>1, ReviewTypes DEF CompletePush, Done, ReviewTypes
<1>19. ASSUME NEW w \in Syncers, ReleasePush(w) PROVE ReviewTypes'
  <2>1. syncer' \in [Syncers -> SyncStates]
    BY <1>19, SyncMoves DEF ReleasePush, SyncSteps
  <2>2. QED
    BY ONLY <1>19, <2>1, ReviewTypes DEF ReleasePush, ReviewTypes
<1>20. ASSUME NEW w \in Syncers, CatchPush(w) PROVE ReviewTypes'
  <2>1. /\ mail' \in Queued
        /\ syncer' \in [Syncers -> SyncStates]
    BY <1>20, AgainIs, SyncPut, NoSyncType DEF CatchPush
  <2>2. row' \in RowStates
    BY <1>20 DEF CatchPush, ReviewTypes, RowStates
  <2>3. QED
    BY ONLY <1>20, <2>1, <2>2, ReviewTypes DEF CatchPush, ReviewTypes
<1>21. ASSUME NEW w \in Syncers, PushRefused(w) PROVE ReviewTypes'
  <2>1. mail' \in Queued
    BY <1>21, AgainIs DEF PushRefused, Done, ReviewTypes
  <2>2. syncer' = [syncer EXCEPT ![w] = NoSync]
    BY <1>21 DEF PushRefused, Done, Again
  <2>3. syncer' \in [Syncers -> SyncStates]
    BY <2>2, NoSyncType, SyncPut
  <2>4. mishap' \subseteq {"replayed", "overlap", "overwrote", "missed"}
    BY <1>21 DEF PushRefused, ReviewTypes
  <2>5. QED
    BY ONLY <1>21, <2>1, <2>3, <2>4, ReviewTypes DEF PushRefused, ReviewTypes
<1>22. ASSUME NEW w \in Syncers, PushUnclaimed(w) PROVE ReviewTypes'
  <2>1. syncer' \in [Syncers -> SyncStates]
    BY <1>22, SyncMoves DEF PushUnclaimed, SyncSteps
  <2>2. QED
    BY ONLY <1>22, <2>1, ReviewTypes DEF PushUnclaimed, ReviewTypes
<1>23. QED
  BY ONLY ReviewNext, <1>1, <1>2, <1>3, <1>4, <1>5, <1>6, <1>7, <1>8, <1>9, <1>10, <1>11,
          <1>12, <1>13, <1>14, <1>15, <1>16, <1>17, <1>18, <1>19, <1>20, <1>21, <1>22
     DEF ReviewNext

------------------------------------------------------------------------------
(***************************************************************************)
(* What each action does to the state the invariant reads, with the places *)
(* of the messages and the fields of the executions taken apart.           *)
(***************************************************************************)

\* No message to ebay-sync-worker is taken.
MailKept == \A op \in {"publish", "update"}, n \in 0..MaxReceives : mail'[op][n] >= mail[op][n]

MailSame == mail'["publish"] = mail["publish"] /\ mail'["update"] = mail["update"]

SyncersSame(w) == \A v \in Syncers \ {w} : syncer'[v] = syncer[v]

SyncGoes(w, pc) ==
  /\ SyncersSame(w)
  /\ syncer'[w].pc = pc
  /\ syncer'[w].content = syncer[w].content
  /\ syncer'[w].draft = syncer[w].draft

AsksSame(r) == \A s \in Requests \ {r} : request'[s] = request[s]

ContentChanged ==
  /\ hash' = hash + 1
  /\ \/ row.status = "published" /\ mail'["update"][0] > 0 /\ mishap' = mishap
     \/ row.status # "published" /\ mail' = mail /\ mishap' = mishap \cup {"missed"}
  /\ row.status = "none" => mail' = mail
  /\ MailKept
  /\ UNCHANGED <<drafts, row, keys, live, request, model, syncer, answered, pending>>

GenerationBegun ==
  /\ MailSame
  /\ model' = model \/ model' = [pc |-> "insert", content |-> hash]
  /\ UNCHANGED <<hash, drafts, row, keys, live, request, syncer, answered, pending, mishap>>

DraftInserted ==
  /\ \E d \in DraftRow : d.content = model.content /\ drafts' = Append(drafts, d)
  /\ model'.content = model.content
  /\ pending' = "edit"
  /\ UNCHANGED <<hash, row, keys, mail, live, request, syncer, answered, mishap>>

GenerationEnded ==
  /\ model.pc = "rows" /\ model'.pc = "idle" /\ model'.content = model.content
  /\ row' = row \/ (row.status = "none" /\ row'.status = "pending_approval")
  /\ MailSame
  /\ UNCHANGED <<hash, drafts, keys, live, request, syncer, answered, pending, mishap>>

PublishApproved ==
  /\ row.status # "none"
  /\ MailKept
  /\ UNCHANGED <<hash, drafts, row, keys, live, request, model, syncer, answered, pending,
                 mishap>>

Asked(r) ==
  /\ drafts # <<>>
  /\ request'[r].pc = "draft" /\ request'[r].aspect = {}
  /\ request[r].pc = "idle"
  /\ AsksSame(r)
  /\ UNCHANGED <<hash, drafts, row, keys, mail, live, model, syncer, answered, pending,
                 mishap>>

DraftRead(r) ==
  /\ request[r].pc = "draft"
  /\ request'[r].pc = "write" /\ request'[r].draft = Len(drafts)
  /\ request'[r].kind = request[r].kind
  /\ request[r].kind # "specifics" => request'[r].aspect = request[r].aspect
  /\ AsksSame(r)
  /\ UNCHANGED <<hash, drafts, row, keys, mail, live, model, syncer, answered, pending,
                 mishap>>

\* The draft stays of its content; aspects are merged into what the request saw.
DraftWritten(r) ==
  LET q == request[r] IN
  /\ q.pc = "write"
  /\ \E e :
       /\ drafts' = [drafts EXCEPT ![q.draft] = e]
       /\ q.draft \in 1..Len(drafts) =>
            /\ e \in DraftRow
            /\ e.content = drafts[q.draft].content
            /\ q.kind # "specifics" => e.aspects = drafts[q.draft].aspects
            /\ q.kind = "specifics" => e.aspects = q.seen \cup q.aspect
  /\ answered' = answered \cup ({q.draft} \X q.aspect)
  /\ q.draft # Len(drafts) => pending' = pending
  /\ q.draft = Len(drafts) => pending' # "none"
  /\ pending' = "applied" => pending = "applied" \/ q.kind = "apply"
  /\ IF q.kind = "specifics" /\ drafts[q.draft].aspects # q.seen
     THEN mishap' = mishap \cup {"overwrote"} ELSE mishap' = mishap
  /\ q.kind = "apply" => request'[r].pc = "send" /\ request'[r].kind = "apply"
                         /\ request'[r].aspect = q.aspect
  /\ q.kind # "apply" => request'[r] = NoAsk
  /\ AsksSame(r)
  /\ UNCHANGED <<hash, row, keys, mail, live, model, syncer>>

AppliedSent(r) ==
  /\ request[r].pc = "send"
  /\ request'[r] = NoAsk
  /\ AsksSame(r)
  /\ mail'["update"][0] > 0
  /\ MailKept
  /\ UNCHANGED <<hash, drafts, row, keys, live, model, syncer, answered, pending, mishap>>

PushReceived(w) ==
  /\ syncer[w].pc = "idle"
  /\ SyncersSame(w)
  /\ syncer'[w].pc = "claim" /\ syncer'[w].content = hash /\ syncer'[w].draft = NoDraft
  /\ \E op \in {"publish", "update"}, m \in 0..MaxReceives :
       /\ mail[op][m] > 0
       /\ \A t \in {"publish", "update"}, n \in 0..MaxReceives :
            <<t, n>> # <<op, m>> => mail'[t][n] = mail[t][n]
  /\ UNCHANGED <<hash, drafts, row, keys, live, request, model, answered, pending, mishap>>

\* tryClaim, its select, and the push without a claim.
PushPrepared(w) ==
  /\ syncer[w].pc \in {"claim", "select"}
  /\ \E pc \in {"select", "read"} : SyncGoes(w, pc)
  /\ \A k \in PushKey : keys'[k] = "completed" => keys[k] = "completed"
  /\ UNCHANGED <<hash, drafts, row, mail, live, request, model, answered, pending, mishap>>

PushReplayed(w) ==
  /\ syncer[w].pc = "select"
  /\ SyncersSame(w) /\ syncer'[w] = NoSync
  /\ \E k \in PushKey : k.content = syncer[w].content /\ keys[k] = "completed"
  /\ mishap' = mishap \cup {"replayed"}
  /\ UNCHANGED <<hash, drafts, row, keys, mail, live, request, model, answered, pending>>

\* The message waits again, claimed by another or after the push was caught.
PushAgain(w) ==
  /\ syncer[w].pc \in {"select", "caught"}
  /\ SyncersSame(w) /\ syncer'[w] = NoSync
  /\ \E op \in {"publish", "update"}, n \in 0..MaxReceives : mail'[op][n] > 0
  /\ MailKept
  /\ row' = row \/ row'.status = "error"
  /\ syncer[w].pc = "caught" => row'.status = "error"
  /\ UNCHANGED <<hash, drafts, keys, live, request, model, answered, pending, mishap>>

PushRead(w) ==
  /\ syncer[w].pc = "read"
  /\ SyncersSame(w)
  /\ syncer'[w].pc = "call" /\ syncer'[w].content = syncer[w].content
  /\ syncer'[w].draft = Latest
  /\ Latest.content = hash
  /\ pending' = "none"
  /\ mishap' = (mishap \ {"missed"})
                 \cup (IF \E v \in Syncers \ {w} : OnEbay(v) THEN {"overlap"} ELSE {})
  /\ UNCHANGED <<hash, drafts, row, keys, mail, live, request, model, answered>>

PushGivenUp(w) ==
  /\ syncer[w].pc \in {"read", "call", "record"}
  /\ SyncGoes(w, "release")
  /\ MailSame
  /\ UNCHANGED <<hash, drafts, row, keys, live, request, model, answered, pending, mishap>>

PushMade(w) ==
  /\ syncer[w].pc = "call"
  /\ SyncGoes(w, "record")
  /\ live' \in DraftRow
  /\ live'.content = syncer[w].draft.content
  /\ live'.aspects = syncer[w].draft.aspects
  /\ syncer[w].draft.price \in {0, live'.price}
  /\ UNCHANGED <<hash, drafts, row, keys, mail, request, model, answered, pending, mishap>>

PushRecorded(w) ==
  /\ syncer[w].pc = "record"
  /\ SyncGoes(w, "complete")
  /\ row'.status = "published"
  /\ UNCHANGED <<hash, drafts, keys, mail, live, request, model, answered, pending, mishap>>

PushCompleted(w) ==
  /\ syncer[w].pc = "complete"
  /\ SyncersSame(w) /\ syncer'[w] = NoSync
  /\ \A k \in PushKey : keys'[k] = "completed" =>
       keys[k] = "completed" \/ k.content = syncer[w].content
  /\ UNCHANGED <<hash, drafts, row, mail, live, request, model, answered, pending, mishap>>

PushReleased(w) ==
  /\ syncer[w].pc = "release"
  /\ SyncGoes(w, "caught")
  /\ \A k \in PushKey : keys'[k] = "completed" => keys[k] = "completed"
  /\ UNCHANGED <<hash, drafts, row, mail, live, request, model, answered, pending, mishap>>

ReviewEffect ==
  \/ ContentChanged \/ GenerationBegun \/ DraftInserted \/ GenerationEnded
  \/ PublishApproved
  \/ \E r \in Requests : Asked(r) \/ DraftRead(r) \/ DraftWritten(r) \/ AppliedSent(r)
  \/ \E w \in Syncers :
       \/ PushReceived(w) \/ PushPrepared(w) \/ PushReplayed(w) \/ PushAgain(w)
       \/ PushRead(w) \/ PushGivenUp(w) \/ PushMade(w) \/ PushRecorded(w)
       \/ PushCompleted(w) \/ PushReleased(w)


LEMMA Unmailed ==
  ASSUME ReviewTypes, mail' = mail \/ MailSame
  PROVE  MailKept
  <1>1. \A op \in {"publish", "update"}, n \in 0..MaxReceives :
          mail[op][n] \in Nat /\ mail'[op][n] = mail[op][n]
    BY BoxType, Boxes DEF MailSame
  <1>2. QED
    BY <1>1 DEF MailKept

LEMMA MailPosted ==
  ASSUME ReviewTypes, NEW t \in {"publish", "update"}, mail' = Posted(t)
  PROVE  MailKept /\ mail'[t][0] > 0 /\ \E op \in {"publish", "update"}, n \in 0..MaxReceives : mail'[op][n] > 0
<1>1. t \in Mailboxes /\ 0 \in 0..MaxReceives
  BY Boxes, ReviewAssumption DEF ReviewAssumption
<1>2. QED
  BY <1>1, PostedIs, Boxes DEF MailKept

LEMMA GenerationPosted ==
  ASSUME ReviewTypes, mail' = Posted("generate")
  PROVE  MailSame
  BY PostedIs, Boxes DEF MailSame

LEMMA ReviewEffects == ASSUME ReviewTypes, DraftThere, ListedOnce, ReviewNext PROVE ReviewEffect
<1>1. CASE ChangeContent
  <2>1. CASE row.status = "published"
    <3>1. mail' = Posted("update") /\ mishap' = mishap
      BY <1>1, <2>1 DEF ChangeContent, Propagated
    <3>2. QED
      BY <1>1, <2>1, <3>1, MailPosted DEF ChangeContent, ContentChanged, ReviewEffect
  <2>2. CASE row.status # "published"
    BY <1>1, <2>2, Unmailed DEF ChangeContent, Propagated, ContentChanged, ReviewEffect
  <2>3. QED
    BY <2>1, <2>2
<1>2. CASE ApprovePublish
  BY <1>2, MailPosted DEF ApprovePublish, PublishApproved, ReviewEffect
<1>3. CASE BeginGeneration
  <2>1. MailSame
    <3>1. /\ mail["generate"][0] > 0 /\ 0 \in 0..MaxReceives
          /\ mail' = Refilled("generate", 0, mail["generate"][0] - 1)
      BY <1>3, ReviewAssumption DEF BeginGeneration, Refilled, ReviewAssumption
    <3>2. QED
      BY ONLY <3>1, ReviewTypes, TakenIs, Boxes DEF MailSame
  <2>2. QED
    BY <1>3, <2>1 DEF BeginGeneration, GenerationBegun, ReviewEffect
<1>4. ASSUME NEW filled \in Filled, InsertDraft(filled) PROVE ReviewEffect
  <2>1. [content |-> model.content, price |-> 0, aspects |-> filled] \in DraftRow
    BY <1>4, ReviewAssumption DEF ReviewTypes, ModelStates, DraftRow, Usd, ReviewAssumption
  <2>2. model'.content = model.content
    BY <1>4 DEF InsertDraft, ReviewTypes, ModelStates
  <2>3. QED
    BY <1>4, <2>1, <2>2 DEF InsertDraft, DraftInserted, ReviewEffect
<1>5. CASE EndGeneration
  <2>1. model'.pc = "idle" /\ model'.content = model.content
    BY <1>5 DEF EndGeneration, ReviewTypes, ModelStates
  <2>2. row' = row \/ (row.status = "none" /\ row'.status = "pending_approval")
    BY <1>5 DEF EndGeneration, ReviewTypes, RowStates
  <2>3. GenerationEnded
    BY <1>5, <2>1, <2>2 DEF EndGeneration, GenerationEnded, MailSame
  <2>4. QED
    BY <2>3 DEF ReviewEffect
<1>6. CASE GenerationThrows
  <2>1. model'.pc = "idle" /\ model'.content = model.content
    BY <1>6 DEF GenerationThrows, ReviewTypes, ModelStates
  <2>2. MailSame
    BY <1>6, GenerationPosted DEF GenerationThrows
  <2>3. GenerationEnded
    BY <1>6, <2>1, <2>2 DEF GenerationThrows, GenerationEnded
  <2>4. QED
    BY <2>3 DEF ReviewEffect
<1>7. ASSUME NEW r \in Requests, NEW what \in {"price", "specifics", "apply"}, Ask(r, what)
      PROVE  ReviewEffect
  <2>1. request'[r].pc = "draft" /\ request'[r].aspect = {} /\ AsksSame(r)
    BY <1>7 DEF Ask, ReviewTypes, NoAsk, AsksSame
  <2>2. Asked(r)
    BY <1>7, <2>1 DEF Ask, Asked
  <2>3. QED
    BY <2>2 DEF ReviewEffect
<1>8. ASSUME NEW r \in Requests, ReadDraft(r) PROVE ReviewEffect
  <2>1. request[r] \in AskStates
    BY DEF ReviewTypes
  <2>2. /\ request'[r].pc = "write" /\ request'[r].draft = Len(drafts)
        /\ request'[r].kind = request[r].kind
        /\ request[r].kind # "specifics" => request'[r].aspect = request[r].aspect
        /\ AsksSame(r)
    BY <1>8, <2>1 DEF ReadDraft, ReviewTypes, AskStates, AsksSame
  <2>3. DraftRead(r)
    BY <1>8, <2>2 DEF ReadDraft, DraftRead
  <2>4. QED
    BY <2>3 DEF ReviewEffect
<1>9. ASSUME NEW r \in Requests, WriteDraft(r) PROVE ReviewEffect
  <2> DEFINE q == request[r]
             e == IF q.kind = "specifics" THEN [drafts[q.draft] EXCEPT !.aspects = Merged(q)]
                  ELSE [drafts[q.draft] EXCEPT !.price = q.price]
  <2>1. q \in AskStates
    BY DEF ReviewTypes
  <2>2. drafts' = [drafts EXCEPT ![q.draft] = e]
    BY <1>9 DEF WriteDraft, ReviewTypes
  <2>3. q.draft \in 1..Len(drafts) =>
          /\ e \in DraftRow
          /\ e.content = drafts[q.draft].content
          /\ q.kind # "specifics" => e.aspects = drafts[q.draft].aspects
          /\ q.kind = "specifics" => e.aspects = q.seen \cup q.aspect
    <3> SUFFICES ASSUME q.draft \in 1..Len(drafts)
                 PROVE  /\ e \in DraftRow
                        /\ e.content = drafts[q.draft].content
                        /\ q.kind # "specifics" => e.aspects = drafts[q.draft].aspects
                        /\ q.kind = "specifics" => e.aspects = q.seen \cup q.aspect
      OBVIOUS
    <3>1. drafts[q.draft] \in DraftRow
      BY DEF ReviewTypes
    <3> DEFINE x == drafts[q.draft]
    <3> HIDE DEF q, x
    <3>2. QED
      BY ONLY <2>1, <3>1 DEF x, AskStates, DraftRow, Merged
  <2>4. /\ q.kind = "apply" => request'[r].pc = "send" /\ request'[r].kind = "apply"
                               /\ request'[r].aspect = q.aspect
        /\ q.kind # "apply" => request'[r] = NoAsk
        /\ AsksSame(r)
    BY <1>9, <2>1 DEF WriteDraft, ReviewTypes, AskStates, AsksSame
  <2>5. /\ q.draft # Len(drafts) => pending' = pending
        /\ q.draft = Len(drafts) => pending' # "none"
        /\ pending' = "applied" => pending = "applied" \/ q.kind = "apply"
    BY <1>9 DEF WriteDraft, Unread
  <2> HIDE DEF e
  <2>6. DraftWritten(r)
    BY <1>9, <2>2, <2>3, <2>4, <2>5 DEF WriteDraft, DraftWritten
  <2>7. QED
    BY <2>6 DEF ReviewEffect
<1>10. ASSUME NEW r \in Requests, SendApplied(r) PROVE ReviewEffect
  <2>1. request'[r] = NoAsk /\ AsksSame(r)
    BY <1>10 DEF SendApplied, ReviewTypes, AsksSame
  <2>2. AppliedSent(r)
    BY <1>10, <2>1, MailPosted DEF SendApplied, AppliedSent
  <2>3. QED
    BY <2>2 DEF ReviewEffect
<1>11. ASSUME NEW w \in Syncers, NEW op \in {"publish", "update"},
              NEW n \in 0..(MaxReceives - 1), ReceivePush(w, op, n)
       PROVE  ReviewEffect
  <2> DEFINE q == [NoSync EXCEPT !.pc = "claim", !.op = op, !.receives = n + 1,
                                 !.content = hash]
  <2>1. /\ mail[op][n] > 0 /\ n \in 0..MaxReceives /\ op \in Mailboxes
        /\ mail' = Refilled(op, n, mail[op][n] - 1)
    BY <1>11, Boxes, ReviewAssumption DEF ReceivePush, Refilled, ReviewAssumption
  <2>2. \A t \in {"publish", "update"}, m \in 0..MaxReceives :
          <<t, m>> # <<op, n>> => mail'[t][m] = mail[t][m]
    BY ONLY <2>1, ReviewTypes, TakenIs, Boxes
  <2>3. q.pc = "claim" /\ q.content = hash /\ q.draft = NoDraft
    BY DEF NoSync
  <2>4. syncer' = [syncer EXCEPT ![w] = q] /\ syncer[w].pc = "idle"
    BY <1>11 DEF ReceivePush
  <2> HIDE DEF q
  <2>5. syncer'[w] = q /\ SyncersSame(w)
    BY <2>4 DEF ReviewTypes, SyncersSame
  <2>6. PushReceived(w)
    <3>1. \E u \in {"publish", "update"}, m \in 0..MaxReceives :
            /\ mail[u][m] > 0
            /\ \A t \in {"publish", "update"}, k \in 0..MaxReceives :
                 <<t, k>> # <<u, m>> => mail'[t][k] = mail[t][k]
      BY <2>1, <2>2
    <3>2. QED
      BY <1>11, <2>3, <2>4, <2>5, <3>1 DEF ReceivePush, PushReceived
  <2>7. QED
    BY <2>6 DEF ReviewEffect
<1>12. ASSUME NEW w \in Syncers, ClaimPush(w) PROVE ReviewEffect
  <2>1. \E pc \in {"select", "read"} : SyncGoes(w, pc)
    BY <1>12, SyncMoves DEF ClaimPush, SyncSteps, SyncGoes, SyncersSame
  <2>2. \A k \in PushKey : keys'[k] = "completed" => keys[k] = "completed"
    BY <1>12 DEF ClaimPush, ReviewTypes
  <2>3. PushPrepared(w)
    BY <1>12, <2>1, <2>2 DEF ClaimPush, PushPrepared
  <2>4. QED
    BY <2>3 DEF ReviewEffect
<1>13. ASSUME NEW w \in Syncers, ReadForPush(w) PROVE ReviewEffect
  <2> DEFINE q == [syncer[w] EXCEPT !.pc = "call", !.draft = Latest]
  <2>1. Latest \in DraftRow /\ syncer[w] \in SyncStates
    BY <1>13, LatestIs DEF ReviewTypes, ReadForPush, DraftThere
  <2>2. q \in SyncStates /\ q.pc = "call" /\ q.content = syncer[w].content /\ q.draft = Latest
    BY ONLY <2>1 DEF SyncStates, SyncSteps
  <2>3. syncer' = [syncer EXCEPT ![w] = q]
    BY <1>13 DEF ReadForPush, ReviewTypes
  <2> HIDE DEF q
  <2>4. syncer'[w] = q /\ SyncersSame(w)
    BY <2>2, <2>3, SyncPut DEF SyncersSame
  <2>5. PushRead(w)
    BY <1>13, <2>2, <2>4 DEF ReadForPush, PushRead, StaleDraft, Overlapping, OnEbay
  <2>6. QED
    BY <2>5 DEF ReviewEffect
<1>14. ASSUME NEW w \in Syncers, RefusePush(w) PROVE ReviewEffect
  <2>1. SyncGoes(w, "release")
    BY <1>14, SyncMoves DEF RefusePush, SyncSteps, SyncGoes, SyncersSame
  <2>2. MailSame
    BY <1>14, GenerationPosted DEF RefusePush, MailSame
  <2>3. PushGivenUp(w)
    BY <1>14, <2>1, <2>2 DEF RefusePush, PushGivenUp
  <2>4. QED
    BY <2>3 DEF ReviewEffect
<1>15. ASSUME NEW w \in Syncers, PushToEbay(w) PROVE ReviewEffect
  <2>1. SyncGoes(w, "record")
    BY <1>15, SyncMoves DEF PushToEbay, SyncSteps, SyncGoes, SyncersSame
  <2>2. live.price \in Usd
    BY ReviewAssumption DEF ReviewTypes, NoDraft, DraftRow, Usd, ReviewAssumption
  <2>3. syncer[w].draft \in DraftRow
    BY <1>15 DEF PushToEbay, ListedOnce, OnEbay
  <2>4. /\ live' \in DraftRow
        /\ live'.content = syncer[w].draft.content
        /\ live'.aspects = syncer[w].draft.aspects
        /\ syncer[w].draft.price \in {0, live'.price}
    BY <1>15, <2>2, <2>3 DEF PushToEbay, Shown, DraftRow
  <2>5. PushMade(w)
    BY <1>15, <2>1, <2>4 DEF PushToEbay, PushMade
  <2>6. QED
    BY <2>5 DEF ReviewEffect
<1>16. ASSUME NEW w \in Syncers, PushFails(w) PROVE ReviewEffect
  <2>1. SyncGoes(w, "release")
    BY <1>16, SyncMoves DEF PushFails, SyncSteps, SyncGoes, SyncersSame
  <2>2. PushGivenUp(w)
    BY <1>16, <2>1 DEF PushFails, PushGivenUp, MailSame
  <2>3. QED
    BY <2>2 DEF ReviewEffect
<1>17. ASSUME NEW w \in Syncers, RecordPush(w) PROVE ReviewEffect
  <2>1. SyncGoes(w, "complete")
    BY <1>17, SyncMoves DEF RecordPush, SyncSteps, SyncGoes, SyncersSame
  <2>2. PushRecorded(w)
    BY <1>17, <2>1 DEF RecordPush, PushRecorded
  <2>3. QED
    BY <2>2 DEF ReviewEffect
<1>18. ASSUME NEW w \in Syncers, CompletePush(w) PROVE ReviewEffect
  <2>1. KeyOf(w) \in PushKey /\ KeyOf(w).content = syncer[w].content
    BY DEF ReviewTypes, SyncStates, KeyOf, PushKey
  <2>2. keys' = [keys EXCEPT ![KeyOf(w)] = "completed"]
    BY <1>18 DEF CompletePush
  <2>3. \A k \in PushKey : keys'[k] = "completed" =>
          keys[k] = "completed" \/ k.content = syncer[w].content
    BY <2>1, <2>2 DEF ReviewTypes
  <2>4. syncer'[w] = NoSync /\ SyncersSame(w)
    BY <1>18, NoSyncType, SyncPut DEF CompletePush, Done, SyncersSame
  <2>5. PushCompleted(w)
    BY <1>18, <2>3, <2>4 DEF CompletePush, Done, PushCompleted
  <2>6. QED
    BY <2>5 DEF ReviewEffect
<1>19. ASSUME NEW w \in Syncers, ReleasePush(w) PROVE ReviewEffect
  <2>1. KeyOf(w) \in PushKey
    BY DEF ReviewTypes, SyncStates, KeyOf, PushKey
  <2>2. keys' = [keys EXCEPT ![KeyOf(w)] = "failed"]
    BY <1>19 DEF ReleasePush
  <2>3. \A k \in PushKey : keys'[k] = "completed" => keys[k] = "completed"
    BY <2>1, <2>2 DEF ReviewTypes
  <2>4. SyncGoes(w, "caught")
    BY <1>19, SyncMoves DEF ReleasePush, SyncSteps, SyncGoes, SyncersSame
  <2>5. PushReleased(w)
    BY <1>19, <2>3, <2>4 DEF ReleasePush, PushReleased
  <2>6. QED
    BY <2>5 DEF ReviewEffect
<1>20. ASSUME NEW w \in Syncers, CatchPush(w) PROVE ReviewEffect
  <2>1. Again(w) /\ row'.status = "error"
    BY <1>20 DEF CatchPush, ReviewTypes, RowStates
  <2>2. PushAgain(w)
    BY <1>20, <2>1, AgainIs, NoSyncType, SyncPut, Boxes
       DEF CatchPush, PushAgain, SyncersSame, MailKept, ReviewTypes, SyncStates
  <2>3. QED
    BY <2>2 DEF ReviewEffect
<1>21. ASSUME NEW w \in Syncers, PushRefused(w) PROVE ReviewEffect
  <2>1. CASE keys[KeyOf(w)] = "completed" /\ Done(w) /\ mishap' = mishap \cup {"replayed"}
    <3>1. KeyOf(w) \in PushKey /\ KeyOf(w).content = syncer[w].content
      BY DEF ReviewTypes, SyncStates, KeyOf, PushKey
    <3>2. PushReplayed(w)
      BY <1>21, <2>1, <3>1, NoSyncType, SyncPut
         DEF PushRefused, Done, PushReplayed, SyncersSame
    <3>3. QED
      BY <3>2 DEF ReviewEffect
  <2>2. CASE Again(w) /\ UNCHANGED mishap
    <3>1. SyncersSame(w) /\ syncer'[w] = NoSync
      BY <2>2, AgainIs, NoSyncType, SyncPut DEF SyncersSame
    <3>2. /\ \E op \in {"publish", "update"}, n \in 0..MaxReceives : mail'[op][n] > 0
          /\ MailKept
      BY <2>2, AgainIs, Boxes DEF MailKept, ReviewTypes, SyncStates
    <3>3. PushAgain(w)
      BY <1>21, <2>2, <3>1, <3>2 DEF PushRefused, PushAgain
    <3>4. QED
      BY <3>3 DEF ReviewEffect
  <2>3. QED
    BY <1>21, <2>1, <2>2 DEF PushRefused
<1>22. ASSUME NEW w \in Syncers, PushUnclaimed(w) PROVE ReviewEffect
  <2>1. SyncGoes(w, "read")
    BY <1>22, SyncMoves DEF PushUnclaimed, SyncSteps, SyncGoes, SyncersSame
  <2>2. PushPrepared(w)
    BY <1>22, <2>1 DEF PushUnclaimed, PushPrepared
  <2>3. QED
    BY <2>2 DEF ReviewEffect
<1>23. QED
  BY ONLY ReviewNext, <1>1, <1>2, <1>3, <1>4, <1>5, <1>6, <1>7, <1>8, <1>9, <1>10, <1>11,
          <1>12, <1>13, <1>14, <1>15, <1>16, <1>17, <1>18, <1>19, <1>20, <1>21, <1>22
     DEF ReviewNext

------------------------------------------------------------------------------
\* A draft has a content, and drafts are numbered as they are added.
LEMMA DraftRowIs == \A d \in DraftRow : d # NoDraft /\ d.content \in Nat /\ d.content # 0
  BY DEF DraftRow, DraftHashes, NoDraft

ReviewNumbers ==
  /\ hash \in Nat /\ hash # 0 /\ live.content \in Nat /\ model.content \in Nat
  /\ Len(drafts) \in Nat
  /\ \A d \in 1..Len(drafts) : drafts[d].content \in Nat
  /\ \A w \in Syncers : syncer[w].content \in Nat /\ syncer[w].draft.content \in Nat

LEMMA ReviewNumbersTyped == ASSUME ReviewTypes PROVE ReviewNumbers
<1>1. hash \in Nat /\ hash # 0 /\ live.content \in Nat /\ model.content \in Nat
  BY DraftRowIs DEF ReviewTypes, DraftHashes, NoDraft, ModelStates
<1>2. Len(drafts) \in Nat /\ \A d \in 1..Len(drafts) : drafts[d].content \in Nat
  BY DraftRowIs DEF ReviewTypes
<1>3. ASSUME NEW w \in Syncers
      PROVE  syncer[w].content \in Nat /\ syncer[w].draft.content \in Nat
  <2>1. syncer[w] \in SyncStates
    BY DEF ReviewTypes
  <2>2. syncer[w].content \in DraftHashes /\ syncer[w].draft \in {NoDraft} \cup DraftRow
    BY ONLY <2>1 DEF SyncStates
  <2>3. QED
    BY <2>2, DraftRowIs DEF DraftHashes, NoDraft
<1>4. QED
  BY <1>1, <1>2, <1>3 DEF ReviewNumbers

LEMMA KeyNumbers == \A k \in PushKey : k.content \in Nat /\ k.content # 0
  BY DEF PushKey, DraftHashes

LEMMA DraftAdded ==
  ASSUME ReviewTypes, DraftInserted
  PROVE  /\ Len(drafts') = Len(drafts) + 1 /\ drafts' # <<>>
         /\ drafts'[Len(drafts')].content = model.content
         /\ \A d \in 1..Len(drafts) : drafts'[d] = drafts[d]
<1>1. PICK d \in DraftRow : d.content = model.content /\ drafts' = Append(drafts, d)
  BY DEF DraftInserted
<1>2. drafts \in Seq(DraftRow)
  BY DEF ReviewTypes
<1>3. QED
  BY ONLY <1>1, <1>2

LEMMA DraftReplaced ==
  ASSUME ReviewTypes, NEW r \in Requests, DraftWritten(r)
  PROVE  /\ Len(drafts') = Len(drafts)
         /\ \A d \in 1..Len(drafts) : drafts'[d].content = drafts[d].content
         /\ \A d \in 1..Len(drafts) : d # request[r].draft => drafts'[d] = drafts[d]
<1> DEFINE n == request[r].draft
<1>1. PICK e : /\ drafts' = [drafts EXCEPT ![n] = e]
               /\ n \in 1..Len(drafts) => e.content = drafts[n].content
  BY DEF DraftWritten
<1>2. drafts \in Seq(DraftRow)
  BY DEF ReviewTypes
<1> HIDE DEF n
<1>3. Len(drafts') = Len(drafts) /\ DOMAIN drafts = 1..Len(drafts)
  BY ONLY <1>1, <1>2
<1>4. \A d \in 1..Len(drafts) : d # n => drafts'[d] = drafts[d]
  BY ONLY <1>1, <1>3
<1>5. n \in 1..Len(drafts) => drafts'[n] = e
  BY ONLY <1>1, <1>3
<1>6. QED
  BY <1>1, <1>3, <1>4, <1>5 DEF n

\* A message that is not taken still waits.
LEMMA StillWaits == ASSUME ReviewTypes, ReviewTypes', MailKept \/ MailSame PROVE Waits => Waits'
<1>1. \A op \in {"publish", "update"}, n \in 0..MaxReceives :
        mail[op][n] \in Nat /\ mail'[op][n] \in Nat
  <2>1. ASSUME NEW op \in Mailboxes, NEW n \in 0..MaxReceives PROVE mail'[op][n] \in Nat
    <3>1. mail'[op] \in [0..MaxReceives -> Nat]
      BY DEF ReviewTypes, Queued
    <3>2. QED
      BY <3>1
  <2>2. QED
    BY <2>1, BoxType, Boxes
<1>2. QED
  BY <1>1 DEF Waits, MailKept, MailSame

LEMMA FirstPlace == 0 \in 0..MaxReceives
  BY ReviewAssumption DEF ReviewAssumption

LEMMA NowWaits ==
  ASSUME \/ mail'["update"][0] > 0
         \/ \E op \in {"publish", "update"}, n \in 0..MaxReceives : mail'[op][n] > 0
  PROVE  Waits'
  BY FirstPlace DEF Waits

\* Drafts are only added.
LEMMA DraftThereStep ==
  ASSUME ReviewTypes, ReviewTypes', DraftThere, ReviewEffect
  PROVE  DraftThere'
<1> USE DEF DraftThere, MailSame, SyncersSame, SyncGoes, AsksSame, NoAsk, NoSync, NoDraft
<1>1. CASE ContentChanged
  BY <1>1 DEF ContentChanged
<1>2. CASE GenerationBegun
  BY <1>2 DEF GenerationBegun
<1>3. CASE DraftInserted
  BY <1>3, DraftAdded DEF DraftInserted
<1>4. CASE GenerationEnded
  BY <1>4 DEF GenerationEnded
<1>5. CASE PublishApproved
  BY <1>5 DEF PublishApproved
<1>6. ASSUME NEW r \in Requests, Asked(r) PROVE DraftThere'
  BY <1>6 DEF Asked
<1>7. ASSUME NEW r \in Requests, DraftRead(r) PROVE DraftThere'
  BY <1>7 DEF DraftRead
<1>8. ASSUME NEW r \in Requests, DraftWritten(r) PROVE DraftThere'
  BY <1>8, DraftReplaced DEF DraftWritten, ReviewTypes
<1>9. ASSUME NEW r \in Requests, AppliedSent(r) PROVE DraftThere'
  BY <1>9 DEF AppliedSent
<1>10. ASSUME NEW w \in Syncers, PushReceived(w) PROVE DraftThere'
  BY <1>10 DEF PushReceived
<1>11. ASSUME NEW w \in Syncers, PushPrepared(w) PROVE DraftThere'
  BY <1>11 DEF PushPrepared
<1>12. ASSUME NEW w \in Syncers, PushReplayed(w) PROVE DraftThere'
  BY <1>12 DEF PushReplayed
<1>13. ASSUME NEW w \in Syncers, PushAgain(w) PROVE DraftThere'
  BY <1>13 DEF PushAgain
<1>14. ASSUME NEW w \in Syncers, PushRead(w) PROVE DraftThere'
  BY <1>14 DEF PushRead
<1>15. ASSUME NEW w \in Syncers, PushGivenUp(w) PROVE DraftThere'
  BY <1>15 DEF PushGivenUp
<1>16. ASSUME NEW w \in Syncers, PushMade(w) PROVE DraftThere'
  BY <1>16 DEF PushMade
<1>17. ASSUME NEW w \in Syncers, PushRecorded(w) PROVE DraftThere'
  BY <1>17 DEF PushRecorded
<1>18. ASSUME NEW w \in Syncers, PushCompleted(w) PROVE DraftThere'
  BY <1>18 DEF PushCompleted
<1>19. ASSUME NEW w \in Syncers, PushReleased(w) PROVE DraftThere'
  BY <1>19 DEF PushReleased
<1>20. QED
  BY ONLY ReviewEffect, <1>1, <1>2, <1>3, <1>4, <1>5, <1>6, <1>7, <1>8, <1>9, <1>10, <1>11,
          <1>12, <1>13, <1>14, <1>15, <1>16, <1>17, <1>18, <1>19 DEF ReviewEffect

\* A push takes a draft to eBay before it records it.
LEMMA ListedOnceStep ==
  ASSUME ReviewTypes, ReviewTypes', ListedOnce, DraftThere, ReviewEffect
  PROVE  ListedOnce'
<1> USE DEF ListedOnce, OnEbay, SyncersSame, SyncGoes, AsksSame, NoAsk, NoSync, NoDraft
<1>1. CASE ContentChanged
  BY <1>1 DEF ContentChanged
<1>2. CASE GenerationBegun
  BY <1>2 DEF GenerationBegun
<1>3. CASE DraftInserted
  BY <1>3 DEF DraftInserted
<1>4. CASE GenerationEnded
  BY <1>4 DEF GenerationEnded
<1>5. CASE PublishApproved
  BY <1>5 DEF PublishApproved
<1>6. ASSUME NEW r \in Requests, Asked(r) PROVE ListedOnce'
  BY <1>6 DEF Asked
<1>7. ASSUME NEW r \in Requests, DraftRead(r) PROVE ListedOnce'
  BY <1>7 DEF DraftRead
<1>8. ASSUME NEW r \in Requests, DraftWritten(r) PROVE ListedOnce'
  BY <1>8 DEF DraftWritten
<1>9. ASSUME NEW r \in Requests, AppliedSent(r) PROVE ListedOnce'
  BY <1>9 DEF AppliedSent
<1>10. ASSUME NEW w \in Syncers, PushReceived(w) PROVE ListedOnce'
  BY <1>10 DEF PushReceived
<1>11. ASSUME NEW w \in Syncers, PushPrepared(w) PROVE ListedOnce'
  BY <1>11 DEF PushPrepared
<1>12. ASSUME NEW w \in Syncers, PushReplayed(w) PROVE ListedOnce'
  BY <1>12 DEF PushReplayed
<1>13. ASSUME NEW w \in Syncers, PushAgain(w) PROVE ListedOnce'
  BY <1>13 DEF PushAgain
<1>14. ASSUME NEW w \in Syncers, PushRead(w) PROVE ListedOnce'
  <2>1. Latest \in DraftRow
    BY <1>14, LatestIs DEF PushRead, DraftThere
  <2>2. QED
    BY <1>14, <2>1 DEF PushRead
<1>15. ASSUME NEW w \in Syncers, PushGivenUp(w) PROVE ListedOnce'
  BY <1>15 DEF PushGivenUp
<1>16. ASSUME NEW w \in Syncers, PushMade(w) PROVE ListedOnce'
  <2>1. live' # NoDraft
    BY <1>16, DraftRowIs DEF PushMade
  <2>2. QED
    BY <1>16, <2>1 DEF PushMade
<1>17. ASSUME NEW w \in Syncers, PushRecorded(w) PROVE ListedOnce'
  BY <1>17 DEF PushRecorded
<1>18. ASSUME NEW w \in Syncers, PushCompleted(w) PROVE ListedOnce'
  BY <1>18 DEF PushCompleted
<1>19. ASSUME NEW w \in Syncers, PushReleased(w) PROVE ListedOnce'
  BY <1>19 DEF PushReleased
<1>20. QED
  BY ONLY ReviewEffect, <1>1, <1>2, <1>3, <1>4, <1>5, <1>6, <1>7, <1>8, <1>9, <1>10, <1>11,
          <1>12, <1>13, <1>14, <1>15, <1>16, <1>17, <1>18, <1>19 DEF ReviewEffect

\* Numbers of drafts stay.
LEMMA OfDraftsStep ==
  ASSUME ReviewTypes, ReviewTypes', OfDrafts, DraftThere, ReviewEffect
  PROVE  OfDrafts'
<1> USE DEF OfDrafts, SyncersSame, SyncGoes, AsksSame, NoAsk, NoSync, NoDraft
<1>1. CASE ContentChanged
  BY <1>1 DEF ContentChanged
<1>2. CASE GenerationBegun
  BY <1>2 DEF GenerationBegun
<1>3. CASE DraftInserted
  BY <1>3, DraftAdded, ReviewNumbersTyped DEF DraftInserted, ReviewNumbers
<1>4. CASE GenerationEnded
  BY <1>4 DEF GenerationEnded
<1>5. CASE PublishApproved
  BY <1>5 DEF PublishApproved
<1>6. ASSUME NEW r \in Requests, Asked(r) PROVE OfDrafts'
  BY <1>6 DEF Asked
<1>7. ASSUME NEW r \in Requests, DraftRead(r) PROVE OfDrafts'
  <2>1. Len(drafts) \in 1..Len(drafts)
    BY <1>7, LatestIs DEF DraftRead, DraftThere
  <2>2. QED
    BY <1>7, <2>1 DEF DraftRead
<1>8. ASSUME NEW r \in Requests, DraftWritten(r) PROVE OfDrafts'
  <2> DEFINE q == request[r]
  <2>1. /\ q.draft \in 1..Len(drafts) /\ Len(drafts') = Len(drafts)
        /\ q.kind # "specifics" => q.aspect = {}
    BY <1>8, DraftReplaced DEF DraftWritten
  <2>2. /\ request'[r].pc # "write"
        /\ request'[r].kind # "specifics" => request'[r].aspect = {}
        /\ request'[r].pc = "send" => request'[r].kind = "apply"
    BY <1>8, <2>1 DEF DraftWritten
  <2>3. \A x \in answered' : x[1] \in 1..Len(drafts)
    BY <1>8, <2>1 DEF DraftWritten
  <2>4. \A s \in Requests \ {r} : request'[s] = request[s]
    BY <1>8 DEF DraftWritten
  <2> HIDE DEF q
  <2>5. QED
    BY <2>1, <2>2, <2>3, <2>4
<1>9. ASSUME NEW r \in Requests, AppliedSent(r) PROVE OfDrafts'
  BY <1>9 DEF AppliedSent
<1>10. ASSUME NEW w \in Syncers, PushReceived(w) PROVE OfDrafts'
  BY <1>10 DEF PushReceived
<1>11. ASSUME NEW w \in Syncers, PushPrepared(w) PROVE OfDrafts'
  BY <1>11 DEF PushPrepared
<1>12. ASSUME NEW w \in Syncers, PushReplayed(w) PROVE OfDrafts'
  BY <1>12 DEF PushReplayed
<1>13. ASSUME NEW w \in Syncers, PushAgain(w) PROVE OfDrafts'
  BY <1>13 DEF PushAgain
<1>14. ASSUME NEW w \in Syncers, PushRead(w) PROVE OfDrafts'
  BY <1>14 DEF PushRead
<1>15. ASSUME NEW w \in Syncers, PushGivenUp(w) PROVE OfDrafts'
  BY <1>15 DEF PushGivenUp
<1>16. ASSUME NEW w \in Syncers, PushMade(w) PROVE OfDrafts'
  BY <1>16 DEF PushMade
<1>17. ASSUME NEW w \in Syncers, PushRecorded(w) PROVE OfDrafts'
  BY <1>17 DEF PushRecorded
<1>18. ASSUME NEW w \in Syncers, PushCompleted(w) PROVE OfDrafts'
  BY <1>18 DEF PushCompleted
<1>19. ASSUME NEW w \in Syncers, PushReleased(w) PROVE OfDrafts'
  BY <1>19 DEF PushReleased
<1>20. QED
  BY ONLY ReviewEffect, <1>1, <1>2, <1>3, <1>4, <1>5, <1>6, <1>7, <1>8, <1>9, <1>10, <1>11,
          <1>12, <1>13, <1>14, <1>15, <1>16, <1>17, <1>18, <1>19 DEF ReviewEffect

\* Merging aspects into what was seen loses none unless another's were not seen.
LEMMA CorrectionsKeptStep ==
  ASSUME ReviewTypes, ReviewTypes', OfDrafts, CorrectionsKept, ReviewEffect
  PROVE  CorrectionsKept'
<1> USE DEF CorrectionsKept, OfDrafts, Corrected, ReviewTypes, SyncersSame, SyncGoes, AsksSame, NoAsk, NoSync, NoDraft
<1>1. CASE ContentChanged
  BY <1>1 DEF ContentChanged
<1>2. CASE GenerationBegun
  BY <1>2 DEF GenerationBegun
<1>3. CASE DraftInserted
  BY <1>3 DEF DraftInserted
<1>4. CASE GenerationEnded
  BY <1>4 DEF GenerationEnded
<1>5. CASE PublishApproved
  BY <1>5 DEF PublishApproved
<1>6. ASSUME NEW r \in Requests, Asked(r) PROVE CorrectionsKept'
  BY <1>6 DEF Asked
<1>7. ASSUME NEW r \in Requests, DraftRead(r) PROVE CorrectionsKept'
  BY <1>7 DEF DraftRead
<1>8. ASSUME NEW r \in Requests, DraftWritten(r) PROVE CorrectionsKept'
  BY <1>8 DEF DraftWritten
<1>9. ASSUME NEW r \in Requests, AppliedSent(r) PROVE CorrectionsKept'
  BY <1>9 DEF AppliedSent
<1>10. ASSUME NEW w \in Syncers, PushReceived(w) PROVE CorrectionsKept'
  BY <1>10 DEF PushReceived
<1>11. ASSUME NEW w \in Syncers, PushPrepared(w) PROVE CorrectionsKept'
  BY <1>11 DEF PushPrepared
<1>12. ASSUME NEW w \in Syncers, PushReplayed(w) PROVE CorrectionsKept'
  BY <1>12 DEF PushReplayed
<1>13. ASSUME NEW w \in Syncers, PushAgain(w) PROVE CorrectionsKept'
  BY <1>13 DEF PushAgain
<1>14. ASSUME NEW w \in Syncers, PushRead(w) PROVE CorrectionsKept'
  BY <1>14 DEF PushRead
<1>15. ASSUME NEW w \in Syncers, PushGivenUp(w) PROVE CorrectionsKept'
  BY <1>15 DEF PushGivenUp
<1>16. ASSUME NEW w \in Syncers, PushMade(w) PROVE CorrectionsKept'
  BY <1>16 DEF PushMade
<1>17. ASSUME NEW w \in Syncers, PushRecorded(w) PROVE CorrectionsKept'
  BY <1>17 DEF PushRecorded
<1>18. ASSUME NEW w \in Syncers, PushCompleted(w) PROVE CorrectionsKept'
  BY <1>18 DEF PushCompleted
<1>19. ASSUME NEW w \in Syncers, PushReleased(w) PROVE CorrectionsKept'
  BY <1>19 DEF PushReleased
<1>20. QED
  BY ONLY ReviewEffect, <1>1, <1>2, <1>3, <1>4, <1>5, <1>6, <1>7, <1>8, <1>9, <1>10, <1>11,
          <1>12, <1>13, <1>14, <1>15, <1>16, <1>17, <1>18, <1>19 DEF ReviewEffect

\* Contents are numbered as they come.
LEMMA NotAheadStep ==
  ASSUME ReviewTypes, ReviewTypes', NotAhead, DraftThere, ReviewEffect
  PROVE  NotAhead'
<1> USE DEF NotAhead, ReviewNumbers, SyncersSame, SyncGoes, AsksSame, NoAsk, NoSync, NoDraft
<1>1. CASE ContentChanged
  <2>1. \A n \in Nat : n <= hash => n <= hash'
    BY <1>1, ReviewNumbersTyped DEF ContentChanged
  <2>2. UNCHANGED <<drafts, keys, live, model, syncer>>
    BY <1>1 DEF ContentChanged
  <2>3. QED
    BY ONLY <2>1, <2>2, ReviewTypes, NotAhead, ReviewNumbersTyped, KeyNumbers
       DEF NotAhead, ReviewNumbers
<1>2. CASE GenerationBegun
  BY <1>2, ReviewNumbersTyped, KeyNumbers DEF GenerationBegun
<1>3. CASE DraftInserted
  BY <1>3, DraftAdded, ReviewNumbersTyped DEF DraftInserted
<1>4. CASE GenerationEnded
  BY <1>4, ReviewNumbersTyped, KeyNumbers DEF GenerationEnded
<1>5. CASE PublishApproved
  BY <1>5, ReviewNumbersTyped, KeyNumbers DEF PublishApproved
<1>6. ASSUME NEW r \in Requests, Asked(r) PROVE NotAhead'
  BY <1>6, ReviewNumbersTyped, KeyNumbers DEF Asked
<1>7. ASSUME NEW r \in Requests, DraftRead(r) PROVE NotAhead'
  BY <1>7, ReviewNumbersTyped, KeyNumbers DEF DraftRead
<1>8. ASSUME NEW r \in Requests, DraftWritten(r) PROVE NotAhead'
  BY <1>8, DraftReplaced DEF DraftWritten
<1>9. ASSUME NEW r \in Requests, AppliedSent(r) PROVE NotAhead'
  BY <1>9, ReviewNumbersTyped, KeyNumbers DEF AppliedSent
<1>10. ASSUME NEW w \in Syncers, PushReceived(w) PROVE NotAhead'
  BY <1>10, ReviewNumbersTyped, KeyNumbers DEF PushReceived
<1>11. ASSUME NEW w \in Syncers, PushPrepared(w) PROVE NotAhead'
  BY <1>11, ReviewNumbersTyped, KeyNumbers DEF PushPrepared
<1>12. ASSUME NEW w \in Syncers, PushReplayed(w) PROVE NotAhead'
  BY <1>12, ReviewNumbersTyped, KeyNumbers DEF PushReplayed
<1>13. ASSUME NEW w \in Syncers, PushAgain(w) PROVE NotAhead'
  BY <1>13, ReviewNumbersTyped, KeyNumbers DEF PushAgain
<1>14. ASSUME NEW w \in Syncers, PushRead(w) PROVE NotAhead'
  BY <1>14, ReviewNumbersTyped, KeyNumbers DEF PushRead
<1>15. ASSUME NEW w \in Syncers, PushGivenUp(w) PROVE NotAhead'
  BY <1>15, ReviewNumbersTyped, KeyNumbers DEF PushGivenUp
<1>16. ASSUME NEW w \in Syncers, PushMade(w) PROVE NotAhead'
  BY <1>16, ReviewNumbersTyped, KeyNumbers DEF PushMade
<1>17. ASSUME NEW w \in Syncers, PushRecorded(w) PROVE NotAhead'
  BY <1>17, ReviewNumbersTyped, KeyNumbers DEF PushRecorded
<1>18. ASSUME NEW w \in Syncers, PushCompleted(w) PROVE NotAhead'
  BY <1>18, ReviewNumbersTyped, KeyNumbers DEF PushCompleted
<1>19. ASSUME NEW w \in Syncers, PushReleased(w) PROVE NotAhead'
  BY <1>19, ReviewNumbersTyped, KeyNumbers DEF PushReleased
<1>20. QED
  BY ONLY ReviewEffect, <1>1, <1>2, <1>3, <1>4, <1>5, <1>6, <1>7, <1>8, <1>9, <1>10, <1>11,
          <1>12, <1>13, <1>14, <1>15, <1>16, <1>17, <1>18, <1>19 DEF ReviewEffect

\* A push reads the present content's draft after the last one was recorded.
LEMMA ForwardStep ==
  ASSUME ReviewTypes, ReviewTypes', NotAhead, Forward, ListedOnce, ReviewEffect
  PROVE  Forward'
<1> USE DEF Forward, NotAhead, Alone, OnEbay, SyncersSame, SyncGoes, AsksSame, NoAsk, NoSync, NoDraft
<1>1. CASE ContentChanged
  BY <1>1 DEF ContentChanged
<1>2. CASE GenerationBegun
  BY <1>2 DEF GenerationBegun
<1>3. CASE DraftInserted
  BY <1>3 DEF DraftInserted
<1>4. CASE GenerationEnded
  BY <1>4 DEF GenerationEnded
<1>5. CASE PublishApproved
  BY <1>5 DEF PublishApproved
<1>6. ASSUME NEW r \in Requests, Asked(r) PROVE Forward'
  BY <1>6 DEF Asked
<1>7. ASSUME NEW r \in Requests, DraftRead(r) PROVE Forward'
  BY <1>7 DEF DraftRead
<1>8. ASSUME NEW r \in Requests, DraftWritten(r) PROVE Forward'
  BY <1>8 DEF DraftWritten
<1>9. ASSUME NEW r \in Requests, AppliedSent(r) PROVE Forward'
  BY <1>9 DEF AppliedSent
<1>10. ASSUME NEW w \in Syncers, PushReceived(w) PROVE Forward'
  BY <1>10 DEF PushReceived
<1>11. ASSUME NEW w \in Syncers, PushPrepared(w) PROVE Forward'
  BY <1>11 DEF PushPrepared
<1>12. ASSUME NEW w \in Syncers, PushReplayed(w) PROVE Forward'
  BY <1>12 DEF PushReplayed
<1>13. ASSUME NEW w \in Syncers, PushAgain(w) PROVE Forward'
  BY <1>13 DEF PushAgain
<1>14. ASSUME NEW w \in Syncers, PushRead(w) PROVE Forward'
  BY <1>14, ReviewNumbersTyped DEF PushRead, ReviewNumbers
<1>15. ASSUME NEW w \in Syncers, PushGivenUp(w) PROVE Forward'
  BY <1>15 DEF PushGivenUp
<1>16. ASSUME NEW w \in Syncers, PushMade(w) PROVE Forward'
  <2>1. /\ syncer[w].pc = "call" /\ syncer'[w].pc = "record"
        /\ syncer'[w].content = syncer[w].content /\ syncer'[w].draft = syncer[w].draft
        /\ \A v \in Syncers \ {w} : syncer'[v] = syncer[v]
        /\ live'.content = syncer[w].draft.content
        /\ UNCHANGED <<keys, mishap>>
    BY <1>16 DEF PushMade
  <2>2. Alone => live.content <= live'.content /\ live'.content <= live'.content
    BY <2>1, ReviewNumbersTyped DEF ReviewNumbers
  <2>3. Alone => \A k \in PushKey : keys'[k] = "completed" => k.content <= live'.content
    BY <2>1, <2>2, ReviewNumbersTyped, KeyNumbers DEF ReviewNumbers
  <2>4. Alone => \A v \in Syncers : syncer'[v].pc = "complete" =>
                  syncer'[v].content <= live'.content
    BY <2>1, <2>2, ReviewNumbersTyped DEF ReviewNumbers
  <2>5. QED
    BY <2>1, <2>3, <2>4
<1>17. ASSUME NEW w \in Syncers, PushRecorded(w) PROVE Forward'
  BY <1>17 DEF PushRecorded
<1>18. ASSUME NEW w \in Syncers, PushCompleted(w) PROVE Forward'
  BY <1>18 DEF PushCompleted
<1>19. ASSUME NEW w \in Syncers, PushReleased(w) PROVE Forward'
  BY <1>19 DEF PushReleased
<1>20. QED
  BY ONLY ReviewEffect, <1>1, <1>2, <1>3, <1>4, <1>5, <1>6, <1>7, <1>8, <1>9, <1>10, <1>11,
          <1>12, <1>13, <1>14, <1>15, <1>16, <1>17, <1>18, <1>19 DEF ReviewEffect

\* The message is sent after the price is written, and taken by whoever pushes.
LEMMA AppliedIsSentStep ==
  ASSUME ReviewTypes, ReviewTypes', AppliedIsSent, OfDrafts, ReviewEffect
  PROVE  AppliedIsSent'
<1> USE DEF AppliedIsSent, SyncersSame, SyncGoes, AsksSame, NoAsk, NoSync, NoDraft
<1>1. CASE ContentChanged
  BY <1>1, StillWaits, NowWaits DEF ContentChanged
<1>2. CASE GenerationBegun
  BY <1>2, StillWaits, NowWaits DEF GenerationBegun
<1>3. CASE DraftInserted
  BY <1>3 DEF DraftInserted, Waits
<1>4. CASE GenerationEnded
  BY <1>4, StillWaits, NowWaits DEF GenerationEnded
<1>5. CASE PublishApproved
  BY <1>5, StillWaits, NowWaits DEF PublishApproved
<1>6. ASSUME NEW r \in Requests, Asked(r) PROVE AppliedIsSent'
  BY <1>6 DEF Asked, Waits
<1>7. ASSUME NEW r \in Requests, DraftRead(r) PROVE AppliedIsSent'
  BY <1>7 DEF DraftRead, Waits
<1>8. ASSUME NEW r \in Requests, DraftWritten(r) PROVE AppliedIsSent'
  BY <1>8 DEF DraftWritten, Waits
<1>9. ASSUME NEW r \in Requests, AppliedSent(r) PROVE AppliedIsSent'
  BY <1>9, StillWaits, NowWaits DEF AppliedSent
<1>10. ASSUME NEW w \in Syncers, PushReceived(w) PROVE AppliedIsSent'
  BY <1>10 DEF PushReceived, Waits
<1>11. ASSUME NEW w \in Syncers, PushPrepared(w) PROVE AppliedIsSent'
  BY <1>11 DEF PushPrepared, Waits
<1>12. ASSUME NEW w \in Syncers, PushReplayed(w) PROVE AppliedIsSent'
  BY <1>12 DEF PushReplayed, Waits
<1>13. ASSUME NEW w \in Syncers, PushAgain(w) PROVE AppliedIsSent'
  BY <1>13, StillWaits, NowWaits DEF PushAgain
<1>14. ASSUME NEW w \in Syncers, PushRead(w) PROVE AppliedIsSent'
  BY <1>14 DEF PushRead, Waits
<1>15. ASSUME NEW w \in Syncers, PushGivenUp(w) PROVE AppliedIsSent'
  BY <1>15, StillWaits, NowWaits DEF PushGivenUp
<1>16. ASSUME NEW w \in Syncers, PushMade(w) PROVE AppliedIsSent'
  BY <1>16 DEF PushMade, Waits
<1>17. ASSUME NEW w \in Syncers, PushRecorded(w) PROVE AppliedIsSent'
  BY <1>17 DEF PushRecorded, Waits
<1>18. ASSUME NEW w \in Syncers, PushCompleted(w) PROVE AppliedIsSent'
  BY <1>18 DEF PushCompleted, Waits
<1>19. ASSUME NEW w \in Syncers, PushReleased(w) PROVE AppliedIsSent'
  BY <1>19 DEF PushReleased, Waits
<1>20. QED
  BY ONLY ReviewEffect, <1>1, <1>2, <1>3, <1>4, <1>5, <1>6, <1>7, <1>8, <1>9, <1>10, <1>11,
          <1>12, <1>13, <1>14, <1>15, <1>16, <1>17, <1>18, <1>19 DEF ReviewEffect

\* A change posts a message, and a message or an execution is only dropped for a content that is there.
LEMMA ContentArrivesStep ==
  ASSUME ReviewTypes, ReviewTypes', ContentArrives, NotAhead, Forward, ListedOnce, ReviewEffect
  PROVE  ContentArrives'
<1> USE DEF ContentArrives, WillPush, Alone, SyncersSame, SyncGoes, AsksSame, NoAsk, NoSync, NoDraft
<1>1. CASE ContentChanged
  <2>1. CASE row.status = "published"
    <3>1. live.content # 0
      BY <2>1, DraftRowIs DEF ListedOnce, ReviewTypes
    <3>2. QED
      BY <1>1, <2>1, <3>1, NowWaits DEF ContentChanged
  <2>2. CASE row.status # "published"
    BY <1>1, <2>2 DEF ContentChanged
  <2>3. QED
    BY <2>1, <2>2
<1>2. CASE GenerationBegun
  BY <1>2, StillWaits, NowWaits DEF GenerationBegun
<1>3. CASE DraftInserted
  BY <1>3 DEF DraftInserted, Waits
<1>4. CASE GenerationEnded
  BY <1>4, StillWaits, NowWaits DEF GenerationEnded
<1>5. CASE PublishApproved
  BY <1>5, StillWaits, NowWaits DEF PublishApproved
<1>6. ASSUME NEW r \in Requests, Asked(r) PROVE ContentArrives'
  BY <1>6 DEF Asked, Waits
<1>7. ASSUME NEW r \in Requests, DraftRead(r) PROVE ContentArrives'
  BY <1>7 DEF DraftRead, Waits
<1>8. ASSUME NEW r \in Requests, DraftWritten(r) PROVE ContentArrives'
  BY <1>8 DEF DraftWritten, Waits
<1>9. ASSUME NEW r \in Requests, AppliedSent(r) PROVE ContentArrives'
  BY <1>9, StillWaits, NowWaits DEF AppliedSent
<1>10. ASSUME NEW w \in Syncers, PushReceived(w) PROVE ContentArrives'
  BY <1>10 DEF PushReceived, Waits
<1>11. ASSUME NEW w \in Syncers, PushPrepared(w) PROVE ContentArrives'
  BY <1>11 DEF PushPrepared, Waits
<1>12. ASSUME NEW w \in Syncers, PushReplayed(w) PROVE ContentArrives'
  <2>1. UNCHANGED <<hash, live, mail>> /\ Waits' = Waits
    BY <1>12 DEF PushReplayed, Waits
  <2>2. Alone /\ syncer[w].content = hash => live.content = hash
    BY <1>12, ReviewNumbersTyped, KeyNumbers DEF PushReplayed, Forward, NotAhead, ReviewNumbers
  <2>3. QED
    BY <1>12, <2>1, <2>2 DEF PushReplayed
<1>13. ASSUME NEW w \in Syncers, PushAgain(w) PROVE ContentArrives'
  BY <1>13, StillWaits, NowWaits DEF PushAgain
<1>14. ASSUME NEW w \in Syncers, PushRead(w) PROVE ContentArrives'
  BY <1>14 DEF PushRead, Waits, Forward, OnEbay
<1>15. ASSUME NEW w \in Syncers, PushGivenUp(w) PROVE ContentArrives'
  BY <1>15, StillWaits, NowWaits DEF PushGivenUp
<1>16. ASSUME NEW w \in Syncers, PushMade(w) PROVE ContentArrives'
  <2>1. UNCHANGED <<hash, mail, mishap>> /\ Waits' = Waits
    BY <1>16 DEF PushMade, Waits
  <2>2. \A v \in Syncers \ {w} : WillPush(v) => WillPush(v)'
    BY <1>16, <2>1 DEF PushMade
  <2>3. /\ live'.content = syncer[w].draft.content
        /\ live'.content # 0
    BY <1>16, DraftRowIs DEF PushMade
  <2>4. Alone /\ live.content = hash => syncer[w].draft.content = hash
    BY <1>16, ReviewNumbersTyped DEF PushMade, Forward, NotAhead, ReviewNumbers
  <2>5. QED
    BY <1>16, <2>1, <2>2, <2>3, <2>4 DEF PushMade
<1>17. ASSUME NEW w \in Syncers, PushRecorded(w) PROVE ContentArrives'
  BY <1>17 DEF PushRecorded, Waits
<1>18. ASSUME NEW w \in Syncers, PushCompleted(w) PROVE ContentArrives'
  BY <1>18 DEF PushCompleted, Waits
<1>19. ASSUME NEW w \in Syncers, PushReleased(w) PROVE ContentArrives'
  BY <1>19 DEF PushReleased, Waits
<1>20. QED
  BY ONLY ReviewEffect, <1>1, <1>2, <1>3, <1>4, <1>5, <1>6, <1>7, <1>8, <1>9, <1>10, <1>11,
          <1>12, <1>13, <1>14, <1>15, <1>16, <1>17, <1>18, <1>19 DEF ReviewEffect

\* A push that is not made leaves the listing in error.
LEMMA ReadArrivesStep ==
  ASSUME ReviewTypes, ReviewTypes', ReadArrives, Forward, ListedOnce, CorrectionsKept, OfDrafts, DraftThere, ReviewEffect
  PROVE  ReadArrives'
<1> USE DEF ReadArrives, Carried, Latest, Corrected, Alone, Forward, OnEbay, CorrectionsKept, OfDrafts, DraftThere, ListedOnce, SyncersSame, SyncGoes, AsksSame, NoAsk, NoSync, NoDraft
<1>1. CASE ContentChanged
  BY <1>1 DEF ContentChanged
<1>2. CASE GenerationBegun
  BY <1>2 DEF GenerationBegun
<1>3. CASE DraftInserted
  BY <1>3 DEF DraftInserted
<1>4. CASE GenerationEnded
  BY <1>4 DEF GenerationEnded
<1>5. CASE PublishApproved
  BY <1>5 DEF PublishApproved
<1>6. ASSUME NEW r \in Requests, Asked(r) PROVE ReadArrives'
  BY <1>6 DEF Asked
<1>7. ASSUME NEW r \in Requests, DraftRead(r) PROVE ReadArrives'
  BY <1>7 DEF DraftRead
<1>8. ASSUME NEW r \in Requests, DraftWritten(r) PROVE ReadArrives'
  BY <1>8 DEF DraftWritten
<1>9. ASSUME NEW r \in Requests, AppliedSent(r) PROVE ReadArrives'
  BY <1>9 DEF AppliedSent
<1>10. ASSUME NEW w \in Syncers, PushReceived(w) PROVE ReadArrives'
  BY <1>10 DEF PushReceived
<1>11. ASSUME NEW w \in Syncers, PushPrepared(w) PROVE ReadArrives'
  BY <1>11 DEF PushPrepared
<1>12. ASSUME NEW w \in Syncers, PushReplayed(w) PROVE ReadArrives'
  BY <1>12 DEF PushReplayed
<1>13. ASSUME NEW w \in Syncers, PushAgain(w) PROVE ReadArrives'
  BY <1>13 DEF PushAgain
<1>14. ASSUME NEW w \in Syncers, PushRead(w) PROVE ReadArrives'
  BY <1>14 DEF PushRead
<1>15. ASSUME NEW w \in Syncers, PushGivenUp(w) PROVE ReadArrives'
  BY <1>15 DEF PushGivenUp
<1>16. ASSUME NEW w \in Syncers, PushMade(w) PROVE ReadArrives'
  BY <1>16 DEF PushMade
<1>17. ASSUME NEW w \in Syncers, PushRecorded(w) PROVE ReadArrives'
  BY <1>17 DEF PushRecorded
<1>18. ASSUME NEW w \in Syncers, PushCompleted(w) PROVE ReadArrives'
  BY <1>18 DEF PushCompleted
<1>19. ASSUME NEW w \in Syncers, PushReleased(w) PROVE ReadArrives'
  BY <1>19 DEF PushReleased
<1>20. QED
  BY ONLY ReviewEffect, <1>1, <1>2, <1>3, <1>4, <1>5, <1>6, <1>7, <1>8, <1>9, <1>10, <1>11,
          <1>12, <1>13, <1>14, <1>15, <1>16, <1>17, <1>18, <1>19 DEF ReviewEffect


------------------------------------------------------------------------------
\* The invariant holds at first: nobody has done anything.
LEMMA InitReview == ReviewInit => ReviewInv
<1> SUFFICES ASSUME ReviewInit PROVE ReviewInv
  OBVIOUS
<1> USE ReviewAssumption DEF ReviewAssumption
<1>1. hash \in DraftHashes /\ drafts = <<>>
  BY DEF ReviewInit, DraftHashes
<1>2. ReviewTypes
  <2>1. mail \in Queued
    BY DEF ReviewInit, Queued
  <2>2. request \in [Requests -> AskStates] /\ syncer \in [Syncers -> SyncStates]
    BY NoAskType, NoSyncType DEF ReviewInit
  <2>3. row \in RowStates /\ model \in ModelStates /\ clicks \in ClickCounts
    BY <1>1 DEF ReviewInit, RowStates, ModelStates, ClickCounts
  <2>4. drafts \in Seq(DraftRow)
    BY <1>1
  <2>5. QED
    BY <1>1, <2>1, <2>2, <2>3, <2>4 DEF ReviewInit, ReviewTypes
<1>3. DraftThere /\ ListedOnce
  BY DEF ReviewInit, DraftThere, ListedOnce, OnEbay, NoAsk, NoSync, Mailboxes
<1>4. OfDrafts /\ CorrectionsKept
  BY DEF ReviewInit, OfDrafts, CorrectionsKept, NoAsk
<1>5. NotAhead
  BY <1>1 DEF ReviewInit, NotAhead, NoDraft, NoSync, DraftHashes
<1>6. Forward
  BY DEF ReviewInit, Forward, OnEbay, NoSync
<1>7. ContentArrives /\ AppliedIsSent
  BY DEF ReviewInit, ContentArrives, AppliedIsSent, NoDraft, NoSync
<1>8. ReadArrives
  BY DEF ReviewInit, ReadArrives, NoSync
<1>9. QED
  BY <1>2, <1>3, <1>4, <1>5, <1>6, <1>7, <1>8 DEF ReviewInv

\* The parts of the invariant are kept by every step.
LEMMA NextReview == ReviewInv /\ [ReviewNext]_reviewVars => ReviewInv'
<1> SUFFICES ASSUME ReviewInv, [ReviewNext]_reviewVars PROVE ReviewInv'
  OBVIOUS
<1>1. CASE ReviewNext
  <2>1. ReviewTypes' /\ ReviewEffect
    BY <1>1, ReviewTypeStep, ReviewEffects DEF ReviewInv
  <2>2. DraftThere' /\ ListedOnce' /\ OfDrafts' /\ CorrectionsKept'
    BY <2>1, DraftThereStep, ListedOnceStep, OfDraftsStep, CorrectionsKeptStep DEF ReviewInv
  <2>3. NotAhead' /\ Forward' /\ AppliedIsSent'
    BY <2>1, NotAheadStep, ForwardStep, AppliedIsSentStep DEF ReviewInv
  <2>4. ContentArrives' /\ ReadArrives'
    BY <2>1, ContentArrivesStep, ReadArrivesStep DEF ReviewInv
  <2>5. QED
    BY <2>1, <2>2, <2>3, <2>4 DEF ReviewInv
<1>2. CASE UNCHANGED reviewVars
  <2> USE <1>2 DEF reviewVars, ReviewInv
  <2>1. ReviewTypes' /\ DraftThere' /\ ListedOnce' /\ OfDrafts' /\ CorrectionsKept'
    BY DEF ReviewTypes, DraftThere, ListedOnce, OnEbay, OfDrafts, CorrectionsKept, Corrected
  <2>2. NotAhead' /\ Forward' /\ AppliedIsSent'
    BY DEF NotAhead, Forward, Alone, OnEbay, AppliedIsSent, Waits
  <2>3. ContentArrives' /\ ReadArrives'
    BY DEF ContentArrives, WillPush, Waits, Alone, ReadArrives, Carried, Latest, Corrected
  <2>4. QED
    BY <2>1, <2>2, <2>3
<1>3. QED
  BY <1>1, <1>2

\* Together they are inductive.
THEOREM ReviewInductive == ReviewSpec => []ReviewInv
  BY InitReview, NextReview, PTL DEF ReviewSpec

\* The drafts, the requests, the executions and the messages keep their types.
THEOREM ReviewTypeCorrect == ReviewSpec => []ReviewTypeOK
<1>1. ReviewInv => ReviewTypeOK
  BY ReviewTypesNamed DEF ReviewInv
<1>2. QED
  BY <1>1, ReviewInductive, PTL

\* When nothing is under way, the published listing is of the present content and of what
\* was corrected or applied, but for what the property names: ebay-sync-worker's gates and
\* retries, admin-api's corrections and ai-generate-worker's new drafts in every order.
THEOREM ReviewArrivesHolds == ReviewSpec => []ReviewArrives
<1>1. ReviewInv => ReviewArrives
  <2> SUFFICES ASSUME ReviewInv, ReviewQuiet, row.status = "published", ~DeadPush, Alone
               PROVE  /\ "missed" \in mishap \/ live.content = hash
                      /\ \/ pending = "edit"
                         \/ pending = "applied" /\ "replayed" \in mishap
                         \/ Carried
    BY DEF ReviewArrives, Alone, Carried
  <2> USE DEF ReviewInv
  <2>1. ~Waits
    <3> SUFFICES ASSUME NEW op \in {"publish", "update"}, NEW n \in 0..MaxReceives,
                        mail[op][n] > 0
                 PROVE  FALSE
      BY DEF Waits
    <3>1. n = MaxReceives
      BY ReviewAssumption DEF ReviewQuiet, Boxes, Mailboxes, ReviewAssumption
    <3>2. MaxReceives \in 0..MaxReceives
      BY ReviewAssumption DEF ReviewAssumption
    <3>3. mail["publish"][MaxReceives] \in Nat /\ mail["update"][MaxReceives] \in Nat
      BY <3>2, BoxType, Boxes
    <3>4. QED
      BY <3>1, <3>3 DEF DeadPush
  <2>2. live.content # 0
    BY DraftRowIs DEF ListedOnce, ReviewTypes
  <2>3. "missed" \in mishap \/ live.content = hash
    BY <2>1, <2>2 DEF ContentArrives, WillPush, ReviewQuiet
  <2>4. pending = "applied" => "replayed" \in mishap
    BY <2>1 DEF AppliedIsSent, ReviewQuiet
  <2>5. pending = "none" => Carried
    BY DEF ReadArrives, ReviewQuiet
  <2>6. QED
    BY <2>3, <2>4, <2>5 DEF ReviewTypes
<1>2. QED
  BY <1>1, ReviewInductive, PTL

------------------------------------------------------------------------------
(***************************************************************************)
(* The guard of the pushes: an execution takes a key that is nobody's, or  *)
(* finds it failed after its claim was refused, and leaves it completed or *)
(* failed; every other step keeps the keys and who is under them. Nobody   *)
(* dies under a key here and no claim expires, so types are all the        *)
(* invariant the refinement needs.                                         *)
(***************************************************************************)

\* What the guard sees.
PushKeyState == [k \in PushKey |-> PushKeyIs(k)]
PushHeld     == [w \in Syncers |-> PushUnder(w)]

UnderSteps == {"read", "call", "record", "complete", "release"}

\* A step of w, or of nobody, that keeps the keys and who is under them.
PushStays == UNCHANGED <<keys, PushHeld>>

PushTakes(w) ==
  \E k \in PushKey :
    /\ PushHeld[w] = {} /\ PushHeld' = [PushHeld EXCEPT ![w] = {k}]
    /\ keys[k] \in {"absent", "failed"}
    /\ keys' = [keys EXCEPT ![k] = "in_progress"] \/ keys' = keys

PushLeaves(w) ==
  \E k \in PushKey, s \in {"completed", "failed"} :
    /\ PushHeld[w] = {k} /\ PushHeld' = [PushHeld EXCEPT ![w] = {}]
    /\ keys' = [keys EXCEPT ![k] = s]

LEMMA KeyOfType == ASSUME ReviewTypes, NEW w \in Syncers PROVE KeyOf(w) \in PushKey
<1>1. syncer[w] \in SyncStates
  BY DEF ReviewTypes
<1> QED
  BY <1>1 DEF SyncStates, KeyOf, PushKey

\* An execution that only moves on keeps its key.
LEMMA MovesHeld ==
  ASSUME ReviewTypes, NEW w \in Syncers, NEW pc \in SyncSteps,
         syncer' = [syncer EXCEPT ![w].pc = pc]
  PROVE  PushHeld' = [PushHeld EXCEPT ![w] = IF pc \in UnderSteps THEN {KeyOf(w)} ELSE {}]
<1>1. /\ syncer'[w].pc = pc /\ syncer'[w].op = syncer[w].op
      /\ syncer'[w].content = syncer[w].content
      /\ \A v \in Syncers \ {w} : syncer'[v] = syncer[v]
  BY SyncMoves
<1>2. PushUnder(w)' = IF pc \in UnderSteps THEN {KeyOf(w)} ELSE {}
  BY <1>1 DEF PushUnder, KeyOf, UnderSteps
<1>3. \A v \in Syncers \ {w} : PushUnder(v)' = PushUnder(v)
  BY <1>1 DEF PushUnder, KeyOf
<1> QED
  BY <1>2, <1>3 DEF PushHeld

LEMMA PutHeld ==
  ASSUME ReviewTypes, NEW w \in Syncers, NEW q \in SyncStates, q.pc \notin UnderSteps,
         syncer' = [syncer EXCEPT ![w] = q]
  PROVE  PushHeld' = [PushHeld EXCEPT ![w] = {}]
<1>1. syncer'[w] = q /\ \A v \in Syncers \ {w} : syncer'[v] = syncer[v]
  BY SyncPut
<1>2. PushUnder(w)' = {} /\ \A v \in Syncers \ {w} : PushUnder(v)' = PushUnder(v)
  BY <1>1 DEF PushUnder, KeyOf, UnderSteps
<1> QED
  BY <1>2 DEF PushHeld

LEMMA HeldIs ==
  ASSUME NEW w \in Syncers
  PROVE  PushHeld[w] = IF syncer[w].pc \in UnderSteps THEN {KeyOf(w)} ELSE {}
BY DEF PushHeld, PushUnder, UnderSteps

LEMMA SyncersKept == ASSUME UNCHANGED <<keys, syncer>> PROVE PushStays
BY DEF PushStays, PushHeld, PushUnder, KeyOf

\* What an execution of ebay-sync-worker does to its key.
LEMMA PushGuardStep ==
  ASSUME ReviewTypes, NEW w \in Syncers,
         \/ \E op \in {"publish", "update"}, n \in 0..(MaxReceives - 1) : ReceivePush(w, op, n)
         \/ ClaimPush(w) \/ PushRefused(w) \/ PushUnclaimed(w) \/ ReadForPush(w)
         \/ RefusePush(w) \/ PushToEbay(w) \/ PushFails(w) \/ RecordPush(w)
         \/ CompletePush(w) \/ ReleasePush(w) \/ CatchPush(w)
  PROVE  PushStays \/ PushTakes(w) \/ PushLeaves(w)
<1>k. KeyOf(w) \in PushKey /\ NoSync \in SyncStates /\ NoSync.pc \notin UnderSteps
  BY KeyOfType, NoSyncType DEF NoSync, UnderSteps
<1>t. DOMAIN PushHeld = Syncers /\ PushHeld = [v \in Syncers |-> PushHeld[v]]
  BY DEF PushHeld
<1>1. ASSUME NEW op \in {"publish", "update"}, NEW n \in 0..(MaxReceives - 1),
             ReceivePush(w, op, n)
      PROVE  PushStays
  <2> DEFINE q == [NoSync EXCEPT !.pc = "claim", !.op = op, !.receives = n + 1,
                                 !.content = hash]
  <2>1. q \in SyncStates /\ q.pc = "claim"
    <3>1. n + 1 \in 0..MaxReceives
      BY ReviewAssumption DEF ReviewAssumption
    <3>2. hash \in DraftHashes
      BY DEF ReviewTypes
    <3> QED
      BY <1>k, <3>1, <3>2 DEF SyncStates, SyncSteps, NoSync
  <2>2. syncer' = [syncer EXCEPT ![w] = q] /\ UNCHANGED keys /\ syncer[w].pc = "idle"
    BY <1>1 DEF ReceivePush
  <2> HIDE DEF q
  <2>3. PushHeld' = [PushHeld EXCEPT ![w] = {}]
    BY <2>1, <2>2, PutHeld DEF UnderSteps
  <2>4. PushHeld[w] = {}
    BY <2>2, HeldIs DEF UnderSteps
  <2> QED
    BY <1>t, <2>2, <2>3, <2>4 DEF PushStays
<1>2. CASE ClaimPush(w)
  <2>1. syncer[w].pc = "claim" /\ PushHeld[w] = {}
    BY <1>2, HeldIs DEF ClaimPush, UnderSteps
  <2>2. CASE /\ keys[KeyOf(w)] \in {"absent", "failed"}
             /\ keys' = [keys EXCEPT ![KeyOf(w)] = "in_progress"]
             /\ syncer' = [syncer EXCEPT ![w].pc = "read"]
    <3>1. PushHeld' = [PushHeld EXCEPT ![w] = {KeyOf(w)}]
      BY <2>2, MovesHeld DEF SyncSteps, UnderSteps
    <3> QED
      BY <1>k, <2>1, <2>2, <3>1 DEF PushTakes
  <2>3. CASE UNCHANGED keys /\ syncer' = [syncer EXCEPT ![w].pc = "select"]
    <3>1. PushHeld' = [PushHeld EXCEPT ![w] = {}]
      BY <2>3, MovesHeld DEF SyncSteps, UnderSteps
    <3> QED
      BY <1>t, <2>1, <2>3, <3>1 DEF PushStays
  <2> QED
    BY <1>2, <2>2, <2>3 DEF ClaimPush
<1>3. ASSUME NEW pc \in UnderSteps, syncer[w].pc \in UnderSteps, UNCHANGED keys,
             syncer' = [syncer EXCEPT ![w].pc = pc]
      PROVE  PushStays
  <2>1. PushHeld' = [PushHeld EXCEPT ![w] = {KeyOf(w)}]
    BY <1>3, MovesHeld DEF SyncSteps, UnderSteps
  <2>2. PushHeld[w] = {KeyOf(w)}
    BY <1>3, HeldIs
  <2> QED
    BY <1>3, <1>t, <2>1, <2>2 DEF PushStays
<1>4. CASE RefusePush(w) \/ PushToEbay(w) \/ PushFails(w) \/ RecordPush(w)
  <2>1. /\ UNCHANGED keys /\ syncer[w].pc \in UnderSteps
        /\ \E pc \in UnderSteps : syncer' = [syncer EXCEPT ![w].pc = pc]
    BY <1>4 DEF RefusePush, PushToEbay, PushFails, RecordPush, UnderSteps
  <2> QED
    BY <1>3, <2>1
<1>5. CASE ReadForPush(w)
  <2>1. /\ UNCHANGED keys /\ syncer[w].pc = "read"
        /\ syncer' = [syncer EXCEPT ![w] = [@ EXCEPT !.pc = "call", !.draft = Latest]]
    BY <1>5 DEF ReadForPush
  <2>2. /\ syncer[w].pc = "read" /\ syncer'[w].pc = "call"
        /\ syncer'[w].op = syncer[w].op /\ syncer'[w].content = syncer[w].content
        /\ \A v \in Syncers \ {w} : syncer'[v] = syncer[v]
    <3>1. syncer[w] \in SyncStates /\ syncer \in [Syncers -> SyncStates]
      BY DEF ReviewTypes
    <3> QED
      BY <2>1, <3>1 DEF SyncStates
  <2>3. \A v \in Syncers : PushUnder(v)' = PushUnder(v)
    BY <2>2 DEF PushUnder, KeyOf
  <2> QED
    BY <2>1, <2>3 DEF PushStays, PushHeld
<1>6. CASE CompletePush(w)
  <2>1. PushHeld[w] = {KeyOf(w)} /\ PushHeld' = [PushHeld EXCEPT ![w] = {}]
    BY <1>6, <1>k, HeldIs, PutHeld DEF CompletePush, Done, UnderSteps
  <2> QED
    BY <1>6, <1>k, <2>1 DEF CompletePush, PushLeaves
<1>7. CASE ReleasePush(w)
  <2>1. PushHeld[w] = {KeyOf(w)} /\ PushHeld' = [PushHeld EXCEPT ![w] = {}]
    BY <1>7, <1>k, HeldIs, MovesHeld DEF ReleasePush, SyncSteps, UnderSteps
  <2> QED
    BY <1>7, <1>k, <2>1 DEF ReleasePush, PushLeaves
<1>8. CASE CatchPush(w) \/ PushRefused(w)
  <2>1. /\ UNCHANGED keys /\ syncer[w].pc \in {"caught", "select"}
        /\ syncer' = [syncer EXCEPT ![w] = NoSync]
    BY <1>8 DEF CatchPush, PushRefused, Done, Again
  <2>2. PushHeld[w] = {} /\ PushHeld' = [PushHeld EXCEPT ![w] = {}]
    BY <1>k, <2>1, HeldIs, PutHeld DEF UnderSteps
  <2> QED
    BY <1>t, <2>1, <2>2 DEF PushStays
<1>9. CASE PushUnclaimed(w)
  <2>1. PushHeld[w] = {} /\ PushHeld' = [PushHeld EXCEPT ![w] = {KeyOf(w)}]
    BY <1>9, HeldIs, MovesHeld DEF PushUnclaimed, SyncSteps, UnderSteps
  <2> QED
    BY <1>9, <1>k, <2>1 DEF PushUnclaimed, PushTakes
<1> QED
  BY <1>1, <1>2, <1>4, <1>5, <1>6, <1>7, <1>8, <1>9

\* Every step of the review, by what it does to the keys.
LEMMA NextPushKeys ==
  ASSUME ReviewInv, [ReviewNext]_reviewVars
  PROVE  PushStays \/ \E w \in Syncers : PushTakes(w) \/ PushLeaves(w)
<1>0. ReviewTypes
  BY DEF ReviewInv
<1>1. CASE UNCHANGED reviewVars
  BY <1>1, SyncersKept DEF reviewVars
<1>2. ASSUME \/ ChangeContent \/ ApprovePublish
             \/ BeginGeneration \/ EndGeneration \/ GenerationThrows
             \/ \E filled \in Filled : InsertDraft(filled)
             \/ \E r \in Requests :
                  \/ \E k \in {"price", "specifics", "apply"} : Ask(r, k)
                  \/ ReadDraft(r) \/ WriteDraft(r) \/ SendApplied(r)
      PROVE  PushStays
  <2>1. UNCHANGED <<keys, syncer>>
    BY <1>2
       DEF ChangeContent, ApprovePublish, BeginGeneration, EndGeneration, GenerationThrows,
           InsertDraft, Ask, ReadDraft, WriteDraft, SendApplied
  <2> QED
    BY <2>1, SyncersKept
<1> QED
  BY <1>0, <1>1, <1>2, PushGuardStep DEF ReviewNext

LEMMA NextPushGuard ==
  ASSUME ReviewInv, [ReviewNext]_reviewVars
  PROVE  [PushGuard!Next]_(PushGuard!vars)
<1>0. ReviewTypes
  BY DEF ReviewInv
<1>1. ASSUME PushStays PROVE UNCHANGED PushGuard!vars
  BY <1>1 DEF PushStays, PushHeld, PushGuard!vars, PushKeyIs
<1>2. ASSUME NEW w \in Syncers, PushTakes(w) PROVE PushGuard!Next
  <2>1. PICK k \in PushKey :
          /\ PushHeld[w] = {} /\ PushHeld' = [PushHeld EXCEPT ![w] = {k}]
          /\ keys[k] \in {"absent", "failed"}
          /\ keys' = [keys EXCEPT ![k] = "in_progress"] \/ keys' = keys
    BY <1>2 DEF PushTakes
  <2>2. /\ PushKeyState[k] = "free"
        /\ \/ PushKeyState' = [PushKeyState EXCEPT ![k] = "claimed"]
           \/ UNCHANGED PushKeyState
    BY <1>0, <2>1 DEF PushKeyState, PushKeyIs, ReviewTypes
  <2>3. PushGuard!Claim(w, k) \/ PushGuard!Slip(w, k)
    BY <2>1, <2>2
       DEF PushGuard!Enter, PushGuard!Claim, PushGuard!Slip, PushHeld, PushKeyState
  <2>4. k \in PushHeld'[w]
    BY <2>1 DEF PushHeld
  <2> QED
    BY <2>3, <2>4 DEF PushGuard!Next, PushHeld
<1>3. ASSUME NEW w \in Syncers, PushLeaves(w) PROVE PushGuard!Next
  <2>1. PICK k \in PushKey, s \in {"completed", "failed"} :
          /\ PushHeld[w] = {k} /\ PushHeld' = [PushHeld EXCEPT ![w] = {}]
          /\ keys' = [keys EXCEPT ![k] = s]
    BY <1>3 DEF PushLeaves
  <2>2. PushKeyIs(k)' \in {"done", "free"}
    BY <1>0, <2>1 DEF PushKeyIs, ReviewTypes
  <2>3. PushKeyState' = [PushKeyState EXCEPT ![k] = PushKeyIs(k)']
    BY <1>0, <2>1 DEF PushKeyState, PushKeyIs, ReviewTypes
  <2>4. PushGuard!Leave(w, k)
    BY <2>1, <2>2, <2>3 DEF PushGuard!Leave, PushHeld, PushKeyState
  <2> QED
    BY <2>1, <2>4 DEF PushGuard!Next, PushHeld
<1> QED
  BY <1>1, <1>2, <1>3, NextPushKeys

\* The pushes of a reviewed draft run under their keys as the guard promises: begun only
\* where the key is nobody's, never under a live claim or a completed key
\* (withIdempotency in ebay-sync-worker).
THEOREM PushesAreGuarded == ReviewSpec => PushGuard!Spec
<1>1. ReviewInit => PushGuard!Init
  BY DEF ReviewInit, PushGuard!Init, PushKeyIs, PushUnder, NoSync
<1> QED
  BY <1>1, NextPushGuard, ReviewInductive, PTL DEF ReviewSpec, PushGuard!Spec

------------------------------------------------------------------------------
(***************************************************************************)
(* The composition: the parts share no variable, so a step of one is a     *)
(* stutter of the others.                                                  *)
(***************************************************************************)

\* A behaviour of the composition is one of every part.
LEMMA CommerceParts == CommerceSpec => OrderSpec /\ ListingSpec /\ ShopSpec /\ ReviewSpec
<1>1. CommerceInit => OrderInit /\ ListingInit /\ ShopInit /\ ReviewInit
  BY DEF CommerceInit
<1>2. [CommerceNext]_commerceVars =>
        /\ [OrderNext]_orderVars /\ [ListingNext]_listingVars
        /\ [ShopNext]_shopVars /\ [ReviewNext]_reviewVars
  BY DEF CommerceNext, commerceVars
<1>3. QED
  BY <1>1, <1>2, PTL DEF CommerceSpec, OrderSpec, ListingSpec, ShopSpec, ReviewSpec

\* The composition the run checks keeps the types of all its parts.
THEOREM CommerceTypeCorrect == CommerceSpec => []CommerceTypeOK
<1>1. OrderTypeOK /\ ListingTypeOK /\ ShopTypeOK /\ ReviewTypeOK => CommerceTypeOK
  BY DEF CommerceTypeOK
<1>2. QED
  BY <1>1, CommerceParts, OrderTypeCorrect, ListingTypeCorrect, ShopTypeCorrect,
     ReviewTypeCorrect, PTL

\* ... and what the parts promise: one outcome and one shipment of an order, a listing
\* whose content and price belong together, one product per content, the stock there is
\* on Shopify, and what a human corrected on eBay.
THEOREM CommerceSafe ==
  CommerceSpec => [](/\ OneOutcome /\ OneShipment /\ UploadRetryable /\ ProfitIsCurrent
                     /\ ListingCoherent /\ OneProductPerContent /\ QuantitySettles
                     /\ ReviewArrives)
BY CommerceParts, OneOutcomeHolds, OneShipmentHolds, UploadRetryableHolds,
   ProfitIsCurrentHolds, ListingCoherentHolds, OneProductPerContentHolds,
   QuantitySettlesHolds, ReviewArrivesHolds, PTL

\* Publications and updates on Shopify and the pushes of reviewed drafts keep the
\* promise of the idempotency guard, in every behaviour of the composition.
THEOREM WorkIsGuardedHolds == CommerceSpec => WorkIsGuarded
<1>1. /\ [ShopGuard!Next]_(ShopGuard!vars) =>
           [which = "shopify" => [ShopGuard!Next]_(ShopGuard!vars)]_commerceVars
      /\ [PushGuard!Next]_(PushGuard!vars) =>
           [which = "drafts" => [PushGuard!Next]_(PushGuard!vars)]_commerceVars
  OBVIOUS
<1>2. QED
  BY <1>1, CommerceParts, ShopIsGuarded, PushesAreGuarded, PTL
     DEF WorkIsGuarded, ShopGuard!Spec, PushGuard!Spec
==============================================================================
