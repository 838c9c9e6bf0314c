CONSTANTS
  q1 = q1
  q2 = q2
  Roles = {"api", "process-dispatcher", "process-worker", "webhook-worker", "retention-cleaner"}
  Client = {q1, q2}
  MaxExecutions = 1
  Batches = 3
  BatchesPerSweep = 2
  Watched = {"webhook-worker", "api"}
  PassBound <- Bounds
  RoleFaultBound = 1
SPECIFICATION SceneSpec
INVARIANT RolesConsistent
INVARIANT AvailableWasSeen
PROPERTY ShutdownEnds
CHECK_DEADLOCK FALSE
