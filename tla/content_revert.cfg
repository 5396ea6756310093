SPECIFICATION FairSpec
CONSTANTS
  Pollers = {p1}
  AiWorkers = {a1}
  EbayWorkers = {e1}
  Contents <- MCContents
  FirstContent <- MCFirstContent
  MaxReceive = 3
  MaxEdits = 2
  MaxApprovals = 1
  MaxFailures = 0
  Environment = {"revert"}


PROPERTIES RegenerationDelivers
CHECK_DEADLOCK FALSE
