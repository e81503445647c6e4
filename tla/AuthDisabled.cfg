CONSTANTS
  MaxSessions = 2
  MaxTokens = 2
  MaxPasswords = 2
  MaxPairs = 2
  MaxReads = 3
SPECIFICATION Spec
INVARIANTS
  DisabledHasNoSession
