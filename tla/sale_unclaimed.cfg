\* A transaction is rolled back while a second copy of the sale is between the two
\* statements of tryClaim: it runs Phase A unclaimed, the first copy runs it again.
CONSTANTS
  s1 = s1
  s2 = s2
  m1 = m1
  m2 = m2
  m3 = m3
  Workers = {w1, w2}
  Sales = {s1}
  Messages = {m1, m2}
  SaleOf <- OneSale
  SoldOn <- SoldOnEbay
  Units <- UnitsOne
  Channels <- TwoChannels
  InitialQuantity = 3
  Buffer = 0
  MaxReceive = 2
  MaxAttempts = 2
  MaxCrashes = 0
  MaxUnclaimed = 1
  Environment = {"tx"}
SPECIFICATION Spec
INVARIANT AtMostOnce
CHECK_DEADLOCK FALSE
