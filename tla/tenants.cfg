\* Signup: two codes, one guess, two faults. Connections: three tokens, two
\* purges, one fault. Usage: two plans, two months. Billing: two events to two
\* executions, two faults, an operator. Offboarding: two channels, a pass that
\* may die, a seller who connects and disconnects. Polling: one sale, two
\* changes of a marketplace's health, one invocation that dies.
CONSTANTS
  Issuers = {i1, i2}
  Requests = {r1, r2}
  MaxCodes = 2
  MaxAttempts = 1
  MaxSignupFaults = 2
  Savers = {s1, s2}
  Purgers = {p1}
  MaxTokens = 3
  MaxPurges = 2
  MaxConnectionFaults = 1
  Callers = {q1, q2}
  Importers = {m1, m2}
  Plans = {1, 2}
  MaxMonth = 1
  MaxPlanChanges = 1
  MaxLeaks = 1
  MaxEvents = 2
  Hooks = {h1, h2}
  MaxHookFaults = 2
  OperatorActs = TRUE
  Channels = {"base", "ebay"}
  MaxMarks = 3
  MaxApprovals = 1
  MaxPassFaults = 1
  SellerActs = {"connect", "disconnect"}
  Order <- BothChannels
  Sold <- OneEbaySale
  Lookback = 1
  Window = 2
  NoticeLookback = 2
  Threshold = 2
  MaxReceives = 2
  MaxMoods = 2
  MaxPollFaults = 1
SPECIFICATION TenantsSpec
INVARIANT TenantsTypeOK
INVARIANT CodeUsedOnce
INVARIANT AccountIsWhole
INVARIANT NoOrphanSecret
INVARIANT ConnectionWorks
INVARIANT QuotaHolds
INVARIANT NoEventLost
INVARIANT NewestDecides
INVARIANT PayingTenantIsKept
INVARIANT NothingAbandoned
PROPERTY EveryEventAnswered
PROPERTY WoundDown
PROPERTY MissedByOwnOutage
PROPERTY IsolationLifts
CHECK_DEADLOCK FALSE
