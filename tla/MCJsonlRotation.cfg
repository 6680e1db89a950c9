SPECIFICATION Spec
CONSTANTS
  MaxFiles = 9
  MaxRecords = 2
  MaxBatch = 2
  Keep = 2
  Days = 3
  Counters = 4
  Faults = TRUE
INVARIANTS
  TypeOK
  RetentionLimit
PROPERTIES
  KeepsEnough
  OldestDateFirst
