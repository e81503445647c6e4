CONSTANTS
  c1 = c1
  c2 = c2
  w1 = w1
  w2 = w2
  Runs = {1, 2}
  Conversations = {c1, c2}
  TurnLimit <- DirectOnly
  Workers = {w1, w2}
  MaxReconciles = 1
  MaxCreates = 2
  MaxAbandons = 1
  LeaseCoversHandler = FALSE
  MaxTopics = 2
  Reservation = 2
  UsageAmounts = {3}
  ConcurrencyLimit = 1
  RateLimit = 2
  TokenLimit = 4
  Calendar = TRUE
  Restarts = TRUE
SPECIFICATION Spec
SYMMETRY WorkerSymmetry
ACTION_CONSTRAINT OneRunOrUndisturbed
INVARIANTS
  DispatchedAtMostOnce
  OneAnswerPerSuccess
  UnfinishedHasEvent
  WithinConcurrencyLimit
PROPERTIES
  FinalIsFinal
CHECK_DEADLOCK FALSE
