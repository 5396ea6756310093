\* One eBay sale, of which BASE is told, then one poll.
CONSTANTS
  s1 = s1
  s2 = s2
  Pollers = {p1}
  Workers = {w1}
  Fixers = {}
  Sales = {s1}
  SoldOn <- OnEbay
  Units <- OneUnit
  InitialQuantity = 2
  MaxAttempts = 2
  MaxEdits = 0
  Environment = {"told"}
SPECIFICATION Spec
INVARIANT CounterIsStock
CHECK_DEADLOCK FALSE
