CONSTANTS
  c1 = c1
  c2 = c2
  t1 = t1
  t2 = t2
  t3 = t3
  s1 = s1
  s2 = s2
  k1 = k1
  k2 = k2
  k3 = k3
  o1 = o1
  i1 = i1
  ConversationId = {c1, c2}
  TurnId = {t1, t2, t3}
  Session = {s1, s2}
  Owner = {o1}
  Key = {k1, k2, k3}
  KeyOwner <- MCKeyOwner
  Input = {i1}
  None = None
  MaxTurns = 2
  CallerLimit = 1
  GlobalLimit = 1
  AttemptBound = 1
  Ordinal = {}
SPECIFICATION Spec
INVARIANT ConversationsConsistent
INVARIANT HistoryIsLinear
PROPERTY NothingIsTakenBack
SYMMETRY Symmetry
CHECK_DEADLOCK FALSE
