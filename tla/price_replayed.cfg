\* No failure and no overlap: a published product, two prices applied one after
\* the other.
CONSTANTS
  Requests = {r1}
  Syncers = {y1}
  Jpy <- Prices
  FirstContents = {1}
  MaxChanges = 0
  MaxPrice = 2
  Aspects = {}
  Required = {}
  Filled = {{}}
  MaxRequests = 2
  MaxPublishApprovals = 1
  MaxReceives = 2
  MaxReviewFaults = 0
  Kinds = {"base", "ddp"}
  Clerks = {c1}
  Retries = {}
  MaxFees = 0
  MaxDeliveries = 1
  MaxShippingFaults = 0
  Pushes = {u1}
  MaxDrafts = 1
  Unpriced = {}
  MaxSold = 0
  MaxPushes = 1
  MaxListingFaults = 0
  Runners = {n1}
  MaxContent = 1
  MaxStock = 0
  MaxApprovals = 0
  MaxShopReceives = 1
  MaxShopFaults = 0
SPECIFICATION CommerceSpec
INVARIANT AppliedPriceArrives
CHECK_DEADLOCK FALSE
