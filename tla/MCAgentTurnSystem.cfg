CONSTANTS
  c1 = c1
  t1 = t1
  t2 = t2
  s1 = s1
  k1 = k1
  k2 = k2
  o1 = o1
  i1 = i1
  ConversationId = {c1}
  TurnId = {t1, t2}
  Session = {s1}
  Owner = {o1}
  Key = {k1, k2}
  KeyOwner <- MCKeyOwner
  Input = {i1}
  None = None
  MaxTurns = 2
  CallerLimit = 1
  GlobalLimit = 1
  AttemptBound = 2
  Ordinal = {1}
  ToolCall <- MCToolCall
  CallsPerTurn = 1
  PricedPerTurn = 1
  PricedPerConversation = 1
  FaultBound = 2
  ServiceKey = {l1, l2}
  Sent <- MCSent
  Handler = {h1, h2}
  MaxServiceTurns = 2
  MaxHistoryTurns = 1
  MaxCallsPerTurn = 1
  MaxPricedPerTurn = 1
  ResourceFaults = 1
  Nothing = Nothing
  HistoryLimit = 3
  RegisteredPage = 2
  GlobalPage = 3
SPECIFICATION SceneSpec
INVARIANT PricedRunsOnce
INVARIANT LedgerConsistent
INVARIANT CallersSeeTheTruth
SYMMETRY Symmetry
CHECK_DEADLOCK FALSE
