----------------------------- MODULE MCCommerce -----------------------------
(***************************************************************************)
(* What happens to one product and its orders, side by side for TLC: an    *)
(* order's shipping, one eBay listing, one Shopify listing and the draft   *)
(* between its writers. They share no variable, a behaviour is one of      *)
(* `which` alone, and the ones that do not run keep one of their initial   *)
(* states.                                                                 *)
(***************************************************************************)
EXTENDS OrderShipping, EbayListing, ShopifySync, DraftReview, TLC

VARIABLE which

\* A step within the gate's half, and one of exactly half.
Prices    == <<100, 140, 70>>

\* The executions of shopify-sync-worker are alike.
Alike == Permutations(Runners)

commerceVars == <<which, orderVars, listingVars, shopVars, reviewVars>>

CommerceTypeOK ==
  /\ which = "order" => OrderTypeOK
  /\ which = "listing" => ListingTypeOK
  /\ which = "shopify" => ShopTypeOK
  /\ which = "drafts" => ReviewTypeOK

CommerceInit ==
  /\ which \in {"order", "listing", "shopify", "drafts"}
  /\ OrderInit /\ ListingInit /\ ShopInit /\ ReviewInit
  /\ which = "order" \/ kind = "base"
  /\ which = "drafts" \/ hash = 1

CommerceNext ==
  \/ /\ which = "order" /\ OrderNext
     /\ UNCHANGED <<which, listingVars, shopVars, reviewVars>>
  \/ /\ which = "listing" /\ ListingNext
     /\ UNCHANGED <<which, orderVars, shopVars, reviewVars>>
  \/ /\ which = "shopify" /\ ShopNext
     /\ UNCHANGED <<which, orderVars, listingVars, reviewVars>>
  \/ /\ which = "drafts" /\ ReviewNext
     /\ UNCHANGED <<which, orderVars, listingVars, shopVars>>

CommerceSpec == CommerceInit /\ [][CommerceNext]_commerceVars

\* Publications and updates on Shopify, and the pushes of a reviewed draft to eBay,
\* run under their keys as IdempotencyGuard promises: never under a live claim or a
\* completed key (withIdempotency in both sync workers).
WorkIsGuarded ==
  /\ ShopGuard!Init /\ PushGuard!Init
  /\ [][which = "shopify" => [ShopGuard!Next]_(ShopGuard!vars)]_commerceVars
  /\ [][which = "drafts" => [PushGuard!Next]_(PushGuard!vars)]_commerceVars
=============================================================================
