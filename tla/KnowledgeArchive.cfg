CONSTANTS
  w1 = w1
  w2 = w2
  Kind = "TEXT"
  MaxVersions = 1
  MaxRetries = 0
  Workers = {w1}
  MaxAttempts = 1
  MaxCrashes = 0
  LeaseCoversHandler = FALSE
  BaseMoves = FALSE
SPECIFICATION FairSpec
PROPERTIES
  ArchivedStaysArchived
CHECK_DEADLOCK FALSE
