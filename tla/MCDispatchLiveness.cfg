SPECIFICATION FairSpec
CONSTANTS
  s1 = s1
  s2 = s2
  Events <- TwoEvents
  SinkOrder <- OneSink
  Alerts <- NoAlerts
  RowLimit = 1
  MaxAttempts = 2
  BaseDelay = 1
  MaxDelay = 2
  MaxTime = 2
  MaxReleases = 1
  MaxLosses = 1
PROPERTY EventuallySettled
