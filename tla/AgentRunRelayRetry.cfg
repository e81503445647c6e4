CONSTANTS
  c1 = c1
  c2 = c2
  w1 = w1
  w2 = w2
  Runs = {1, 2}
  Conversations = {c1}
  TurnLimit <- RelayOfTwo
  Workers = {w1}
  MaxReconciles = 1
  MaxCreates = 2
  MaxAbandons = 1
  LeaseCoversHandler = TRUE
  MaxTopics = 2
  Reservation = 2
  UsageAmounts = {3}
  ConcurrencyLimit = 1
  RateLimit = 2
  TokenLimit = 4
  Calendar = FALSE
  Restarts = FALSE
SPECIFICATION Spec
INVARIANTS
  OfferedRetryIsAccepted
CHECK_DEADLOCK FALSE
