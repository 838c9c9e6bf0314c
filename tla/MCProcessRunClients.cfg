CONSTANTS
  qa = qa
  qb = qb
  None = None
  Request <- Bodies
  Unservable <- BadBodies
  MaxKeys = 3
  MaxPosts = 3
  FaultBound = 2
  p1 = p1
  p2 = p2
  x1 = x1
  LastRun = 2
  ReadyBatchSize = 1
  RecoveryProcess = {p1, p2}
  Actor = {x1}
  Asked <- Lines
  RecoveryMaxAge = 0
  LastTime = 2
  RowBound = 2
SPECIFICATION SceneSpec
INVARIANT NoRunIsForgotten
INVARIANT ShownIsTrue
INVARIANT EvidenceIsTrue
INVARIANT OpenGateMeansAllWereSeen
CHECK_DEADLOCK FALSE
