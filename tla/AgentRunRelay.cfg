CONSTANTS
  c1 = c1
  c2 = c2
  w1 = w1
  w2 = w2
  Runs = {1, 2, 3}
  Conversations = {c1}
  TurnLimit <- RelayOfTwo
  Workers = {w1}
  MaxReconciles = 0
  MaxCreates = 1
  MaxAbandons = 0
  LeaseCoversHandler = TRUE
  MaxTopics = 3
  Reservation = 2
  UsageAmounts = {1, 3}
  ConcurrencyLimit = 2
  RateLimit = 3
  TokenLimit = 5
  Calendar = FALSE
  Restarts = FALSE
SPECIFICATION Spec
SYMMETRY Symmetry
INVARIANTS
  OneActivePerConversation
  RelayContinuesAnswers
  WithinTokenLimit
PROPERTIES
  ImplementsLifecycle
CHECK_DEADLOCK FALSE
