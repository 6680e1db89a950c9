SPECIFICATION Spec
CONSTANTS
  s1 = s1
  s2 = s2
  Events <- TwoEvents
  SinkOrder <- TwoSinks
  Alerts <- OneAlert
  RowLimit = 2
  MaxAttempts = 2
  BaseDelay = 0
  MaxDelay = 1
  MaxTime = 2
  MaxReleases = 1
  MaxLosses = 1
INVARIANTS
  TypeOK
  RetryBudget
  ShareForEachSink
PROPERTIES
  NoResendInDispatch
  DeliversAtLeastOnce
