CONSTANTS
  c1 = c1
  c2 = c2
  p1 = p1
  p2 = p2
  n1 = n1
  a1 = a1
  a2 = a2
  l1 = l1
  l2 = l2
  r1 = r1
  b1 = b1
  b2 = b2
  Replicas = {p1, p2}
  MaxAudience = 2
  MaxDeliveries = 2
  ClaimTtl = 3
  Handover = 1
  ProviderTimeout = 1
  Window = 3
  Transit = 1
  Lifetime = 5
  Backoffs = {0, 2}
  Horizon = 6
  MaxTexts = 2
  MaxKeys = 2
  MaxLeaves = 1
  Devices = {1, 2}
  MaxIssued = 2
  Calls = {c1, c2}
  MaxCrashes = 1
  Clients = {p1, p2}
  Networks = {n1}
  Accounts = {a1, a2}
  NetworkLimit = 1
  AccountLimit = 1
  BucketCapacity = 1
  PruneLimit = 1
  WindowLength = 1
  BlockLength = 1
  Retention = 1
  LastTick = 2
  Units = {1, 2, 3}
  Depts = {1}
  Locals = {l1, l2}
  Remotes = {r1}
  Admins = {p1, p2}
  RemovesMissing = TRUE
  Syncs = {p1, p2}
  Apps = {b1, b2}
  EnvironmentApp = b1
  LeaseLength = 1
  LastMoment = 2
  MaxVersion = 4
  RunIds = {1}
  MaxRateLimitRetries = 3
  MaxVisibilityRetries = 5
  MaxIncompleteRetries = 4
  MaxSilentStops = 3
  MaxCancelPolls = 5
  RemoteDepts = {"d1", "d2"}
  RemoteUsers = {"u1"}
  MaxRemoteChanges = 2
  MaxHttpRetries = 1
  Bases = {b1, b2}
  Teams = {1, 2}
  LastVersion = 2
  ItemLimit = 2
  CitationLimit = 1
  MaxEdits = 2
  Staff = {1, 2}
  Editors = {p1, p2}
  LastNumber = 3
  People = {1, 2}
  Assistants = {3, 4}
  TurnLimits = {2}
  MaxClicks = 2
  Lines <- LinesOfAllKinds
  MaxLines = 5
  MaxPages = 2
  Maximum = 5
  Overlap = 2
SPECIFICATION ServicesSpec
SYMMETRY Symmetry
INVARIANTS
  DeliveredOnce
  SentOnce
  ReplyOfOneAccount
  WithinBucketCapacity
  ActiveOwnerRemains
  DirectorySound
  EndedLeavesNoTask
  SnapshotSound
  SentWasAllowed
  ChosenIsShown
  ChunksSound
PROPERTIES
  SentWhilePending
  ShownStays
  AccountsStay
  AppliedInOrder
  ImplementsRuntime
  ConfigurationKept
CHECK_DEADLOCK FALSE
