\* One poller, two generations, two syncs, two contents and two edits; one sale of
\* two units, delivered twice to two workers, of which one may die and one may
\* slip through tryClaim's gap; a poll that may die, a worker with an eBay and a
\* BASE sale and a repair. A listing's behaviour has two edits, or one edit and one
\* failure (WithinBound). The constants of the sale and of the row are in
\* MCSyncRaces.
CONSTANTS
  Pollers = {p1}
  AiWorkers = {a1, a2}
  EbayWorkers = {e1, e2}
  Contents <- MCContents
  FirstContent <- MCFirstContent
  MaxReceive = 2
  MaxEdits = 2
  MaxApprovals = 1
  MaxFailures = 1
  Environment = {"revert", "redrive"}
  m1 = m1
  m2 = m2
  w1 = w1
  w2 = w2
SPECIFICATION RacesSpec
SYMMETRY Alike
INVARIANT CoherentOffer
PROPERTY ImplementsGuard
PROPERTY SaleGuard
PROPERTY StockRowIsAtomic
CHECK_DEADLOCK FALSE
