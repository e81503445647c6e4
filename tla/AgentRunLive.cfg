CONSTANTS
  c1 = c1
  c2 = c2
  w1 = w1
  w2 = w2
  Runs = {1}
  Conversations = {c1}
  TurnLimit <- DirectOnly
  Workers = {w1, w2}
  MaxReconciles = 1
  MaxCreates = 2
  MaxAbandons = 1
  LeaseCoversHandler = TRUE
  MaxTopics = 2
  Reservation = 2
  UsageAmounts = {3}
  ConcurrencyLimit = 1
  RateLimit = 2
  TokenLimit = 4
  Calendar = FALSE
  Restarts = TRUE
SPECIFICATION FairSpec
PROPERTIES
  EventsSettle
  QueuedRunsSettle
CHECK_DEADLOCK FALSE
