CONSTANTS
  Event = {v1}
  Endpoint = {e1}
  Delivery = {1, 2, 3, 4}
  Worker = {w1, w2}
  Replayer = {r1, r2}
  Relay = {p1}
  Nothing = Nothing
  MaximumAttempts = 2
  MaxStalledCount = 1
  PublishBound = 2
  FaultBound = 1
  Operator = {q1, q2}
  Url = {u1}
  Notice = {n1}
  None = None
  Overlap = {1, 2}
  RequestTime = 2
  AttemptLimit = 3
  InitialBackoff = 1
  MaximumBackoff = 2
  MaximumRetryAfter = 2
  DeliveryHorizon = 3
  JitterPercent = 50
  RetryAfter <- MCRetryAfter
  EndOfTime = 4
  CallBound = 2
SPECIFICATION SceneSpec
INVARIANT DeliveriesConsistent
INVARIANT ReplayNumbersUnique
PROPERTY ConcludedIsFinal
INVARIANT TrailTellsEndpoint
INVARIANT PostsAreSound
SYMMETRY Symmetry
CHECK_DEADLOCK FALSE
