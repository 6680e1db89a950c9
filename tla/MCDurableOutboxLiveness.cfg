SPECIFICATION FairSpec
CONSTANTS
  p1 = p1
  p2 = p2
  g1 = g1
  g2 = g2
  g3 = g3
  s1 = s1
  NoProc = NoProc
  NoGen = NoGen
  Procs <- OneProc
  Gens <- ThreeFiles
  Sinks <- OneSink
  MaxEvents = 4
  Alerts <- AllButOne
  MaxBatch = 2
  MaxRecords = 2
  Keep = 0
  MaxPending = 2
  Days = 2
  Counters = 2
  ReuseInodes = FALSE
  OperatorRepairs = FALSE
INVARIANTS
  RecoveryNeverRefused
  RowsFollowEvents
PROPERTY EventuallyIngested
