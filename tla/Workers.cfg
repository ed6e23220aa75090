SPECIFICATION MCSpec
CONSTANTS
  Keys = {k1, k2}
  MaxRevisions = 1
  MaxRuns = 2
  MaxPages = 2
  MaxEpoch = 3
  None = None
  Workers = {w1, w2}
  Rate = 1
  Alerts <- MCAlerts
  EventOf <- MCEventOf
  HashOf <- MCHashOf
  Batches <- MCBatches
  MaxDeliveries = 2
  LastManifest = 2
  MaxFaults = 2
  Dispatchers = {d1, d2}
  BatchSize = 2
INVARIANTS
  AttemptSafety
  AcknowledgedIsStarted
PROPERTY
  WorkIsTakenUp
CHECK_DEADLOCK FALSE
