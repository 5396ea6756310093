\* An order on BASE or one that must ship duty paid: two requests, one retry,
\* one fee, one redelivery, two faults. eBay: three drafts, one without a price,
\* one sale, four pushes, two faults. Shopify: two contents, one stock change, two
\* approvals, two receives, one fault. Drafts: one change within or beyond the price gate, two
\* requests, two syncs, one fault.
CONSTANTS
  Kinds = {"base", "ddp"}
  Clerks = {c1, c2}
  Retries = {t1}
  MaxFees = 1
  MaxDeliveries = 1
  MaxShippingFaults = 2
  Pushes = {u1, u2}
  MaxDrafts = 3
  Unpriced = {2}
  MaxSold = 1
  MaxPushes = 4
  MaxListingFaults = 2
  Runners = {n1, n2}
  MaxContent = 2
  MaxStock = 1
  MaxApprovals = 2
  MaxShopReceives = 2
  MaxShopFaults = 1
  Requests = {r1, r2}
  Syncers = {y1, y2}
  Jpy <- Prices
  FirstContents = {1, 2}
  MaxChanges = 1
  MaxPrice = 1
  Aspects = {"brand", "size"}
  Required = {"size"}
  Filled = {{}}
  MaxRequests = 2
  MaxPublishApprovals = 1
  MaxReceives = 2
  MaxReviewFaults = 1
SPECIFICATION CommerceSpec
SYMMETRY Alike
INVARIANT OneOutcome
INVARIANT OneShipment
INVARIANT UploadRetryable
INVARIANT ProfitIsCurrent
 
INVARIANT OneProductPerContent
INVARIANT QuantitySettles
INVARIANT ReviewArrives
PROPERTY WorkIsGuarded
CHECK_DEADLOCK FALSE
