CONSTANTS
  MaxSessions = 2
  MaxTokens = 2
  MaxPasswords = 3
  MaxPairs = 3
  MaxReads = 3
SPECIFICATION Spec
INVARIANTS
  NothingOutlivesPassword
  OneOpenTokenPerPurpose
  ExchangedOnce
PROPERTIES
  ReactivatedOnPurpose
  ReplacedByProof
  ImplementsAccess
