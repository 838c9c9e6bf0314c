CONSTANTS
  c1 = c1
  c2 = c2
  t1 = t1
  t2 = t2
  k1 = k1
  k2 = k2
  o1 = o1
  i1 = i1
  ConversationId = {c1}
  TurnId = {t1}
  Session = {}
  Owner = {o1}
  Key = {k1}
  KeyOwner <- MCKeyOwner
  AcceptedTurn <- MCAcceptedTurn
  Input = {i1}
  None = None
  MaxTurns = 1
  CallerLimit = 2
  GlobalLimit = 2
  AttemptBound = 3
  Ordinal = {}
  w1 = w1
  w2 = w2
  Worker = {w1, w2}
  Nobody = Nobody
  MaxStalledCount = 1
  BatchSize = 2
  RecoveryBatchSize = 2
  FaultBound = 1
SPECIFICATION FairDeliverySpec
INVARIANT TurnsConsistent
PROPERTY NothingWaitsForEver
CHECK_DEADLOCK FALSE
