CONSTANTS
  r1 = r1
  r2 = r2
  a1 = a1
  a2 = a2
  c1 = c1
  c2 = c2
  k1 = k1
  k2 = k2
  f1 = f1
  f2 = f2
  e1 = e1
  RunId = {r1, r2}
  Api = {a1, a2}
  Caller = {c1, c2}
  Key = {k1, k2}
  Fingerprint = {f1, f2}
  Requests <- MCRequests
  NoRequest = NoRequest
  Nobody = Nobody
  Admission = TRUE
  Endpoint = {e1}
  EndpointOwner <- MCEndpointOwner
  CallerLimit = 1
  GlobalLimit = 2
  AttemptBound = 2
  PublishBound = 0
SPECIFICATION SceneSpec
INVARIANT HistoryConsistent
INVARIANT PromiseKept
INVARIANT BacklogBounded
INVARIANT DeliveriesFollowOutcome
INVARIANT OneRunPerKey
PROPERTY ImplementsLifecycle
SYMMETRY Symmetry
CHECK_DEADLOCK FALSE
