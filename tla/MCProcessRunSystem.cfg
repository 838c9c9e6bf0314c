CONSTANTS
  c1 = c1
  f1 = f1
  Caller = {c1}
  Fingerprint = {f1}
  Requests <- MCRequests
  NoRequest = NoRequest
  Nobody = Nobody
  NoWorker = NoWorker
  Endpoint = {}
  EndpointOwner <- MCEndpointOwner
  CallerLimit = 2
  GlobalLimit = 2
  RunId = {r1}
  Api = {a1, a2}
  Key = {k1}
  Worker = {w1, w2}
  Dispatcher = {d1}
  Admission = FALSE
  AttemptBound = 3
  PublishBound = 2
  MaximumAttempts = 2
  MaxStalledCount = 1
  BatchSize = 2
  RecoveryModes = {"stale", "all"}
  FaultBound = 1
SPECIFICATION SystemSpec
INVARIANT SystemConsistent
PROPERTY OnlyOwnAttempt
SYMMETRY Symmetry
CHECK_DEADLOCK FALSE
