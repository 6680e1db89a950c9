SPECIFICATION Spec
CONSTANTS
  p1 = p1
  p2 = p2
  g1 = g1
  g2 = g2
  g3 = g3
  s1 = s1
  NoProc = NoProc
  NoGen = NoGen
  Procs <- TwoProcs
  Gens <- ThreeFiles
  Sinks <- OneSink
  MaxEvents = 3
  Alerts <- NoAlerts
  MaxBatch = 2
  MaxRecords = 1
  Keep = 0
  MaxPending = 2
  Days = 1
  Counters = 2
  ReuseInodes = TRUE
  OperatorRepairs = TRUE
SYMMETRY Identities
INVARIANTS
  TypeOK
  NoRecordLost
  QueueWithinCapacity
PROPERTY DeliversAtLeastOnce
