CONSTANTS
  None = None
  AsyncRun <- Asyncs
  SyncRun <- Syncs
  Together <- Scenes
  MaxAttempts = 2
  ActivityBound <- Bounds
  Retention = 1
  LastDay = 1
  PageSize = 1
  FaultBound = 1
  Runs = 2
  BatchSize = 1
  RecoveryFaultBound = 1
  MoveBound = 1
  Rows = 2
  SweepBatchSize = 1
  SweepLimits = {1, 2}
  InputAge = 2
  ResultAge = 1
  MetadataAge = 1
  History = 1
  ConversationAge = 1
  DeletionGrace = 1
  LastSweepDay = 3
  SweepFaultBound = 1
  OtherBound = 1
SPECIFICATION SmallSpec
INVARIANT TimelinesConsistent
INVARIANT NothingIsPassedOver
INVARIANT AuditsTellWhatWasDone
CHECK_DEADLOCK FALSE
