CONSTANTS
  w1 = w1
  w2 = w2
  Kind = "FILE"
  MaxVersions = 1
  MaxRetries = 1
  Workers = {w1, w2}
  MaxAttempts = 2
  MaxCrashes = 1
  LeaseCoversHandler = TRUE
  BaseMoves = TRUE
SPECIFICATION FairSpec
INVARIANTS
  ProcessingHasJob
  ProcessingIsTrue
PROPERTIES
  ProcessingSettles
CHECK_DEADLOCK FALSE
