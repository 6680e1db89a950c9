SPECIFICATION FairSpec
CONSTANTS
  f_a = f_a
  f_b = f_b
  Paths <- TwoPaths
  QueueCapacity = 1
  EventCapacity = 1
  PendingCapacity = 1
  InitialScan = TRUE
  Iterations = 2
  Heartbeats = TRUE
  MaxChanges <- OneEach
  MaxPathsPerEvent = 2
INVARIANTS
  TypeOK
  NoChangeLost
PROPERTIES
  ChangeEventuallyScanned
  ShutdownStops
