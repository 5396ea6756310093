\* One sale delivered twice: marketplace calls fail for a while, the order record
\* may fail, a worker may die, its claim runs out and the DLQ is redriven.
CONSTANTS
  s1 = s1
  s2 = s2
  m1 = m1
  m2 = m2
  m3 = m3
  Workers = {w1}
  Sales = {s1}
  Messages = {m1, m2}
  SaleOf <- OneSale
  SoldOn <- SoldOnEbay
  Units <- UnitsOne
  Channels <- ThreeChannels
  InitialQuantity = 3
  Buffer = 1
  MaxReceive = 1
  MaxAttempts = 2
  MaxCrashes = 1
  MaxUnclaimed = 1
  Environment = {"order", "push", "ttl", "redrive"}
SPECIFICATION RecoverySpec
PROPERTY SaleIsDecided
PROPERTY PushIsDelivered
CHECK_DEADLOCK FALSE
