\* From the first draft on: one approval, two changes, one failure.
SPECIFICATION DraftedSpec
CONSTANTS
  Pollers = {p1}
  AiWorkers = {a1}
  EbayWorkers = {e1}
  Contents <- MCContents
  FirstContent <- MCFirstContent
  MaxReceive = 2
  MaxEdits = 2
  MaxApprovals = 1
  MaxFailures = 1
  Environment = {"restock", "ttl"}
PROPERTIES ChangesArrive
CHECK_DEADLOCK FALSE
