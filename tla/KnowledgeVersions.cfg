CONSTANTS
  w1 = w1
  w2 = w2
  Kind = "TEXT"
  MaxVersions = 3
  MaxRetries = 0
  Workers = {w1, w2}
  MaxAttempts = 1
  MaxCrashes = 0
  LeaseCoversHandler = FALSE
  BaseMoves = FALSE
SPECIFICATION Spec
SYMMETRY WorkerSymmetry
INVARIANTS
  PublishedIsReadable
PROPERTIES
  ReadyIsForever
  ImplementsPublication
CHECK_DEADLOCK FALSE
