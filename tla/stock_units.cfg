\* Two eBay sales, of two units and one, BASE never hears of, between two edits of the item.
CONSTANTS
  s1 = s1
  s2 = s2
  Pollers = {p1, p2}
  Workers = {w1, w2}
  Fixers = {}
  Sales = {s1, s2}
  SoldOn <- BothEbay
  Units <- TwoAndOne
  InitialQuantity = 2
  MaxAttempts = 2
  MaxEdits = 2
  Environment = {"restock", "untold"}
SPECIFICATION Spec
INVARIANT EbayUnitsConsumedOnce
INVARIANT ErrorIsConsumed
INVARIANT OrderedLedgerReplays
PROPERTY ImplementsRow
CHECK_DEADLOCK FALSE
