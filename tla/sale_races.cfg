\* Two workers, three deliveries of two sales of the last units, one crash,
\* aborted transactions, keys that cannot be given back, failing marketplace calls,
\* expiring claims, redrives; one run of each sale may be unclaimed.
CONSTANTS
  s1 = s1
  s2 = s2
  m1 = m1
  m2 = m2
  m3 = m3
  Workers = {w1, w2}
  Sales = {s1, s2}
  Messages = {m1, m2, m3}
  SaleOf <- Copies
  SoldOn <- SoldOnBoth
  Units <- UnitsBoth
  Channels <- TwoChannels
  InitialQuantity = 2
  Buffer = 1
  MaxReceive = 1
  MaxAttempts = 2
  MaxCrashes = 1
  MaxUnclaimed = 1
  Environment = {"tx", "store", "push", "ttl", "redrive"}
SPECIFICATION Spec
INVARIANT DecrementsAccounted
INVARIANT OutboxWithDecrement
INVARIANT DoubleSaleFlagged
INVARIANT NoPushForgotten
INVARIANT NoOverOffer
PROPERTY ImplementsLedger
CHECK_DEADLOCK FALSE
