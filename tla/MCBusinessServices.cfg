CONSTANTS
  Process = {"crt", "news", "photo", "emoji"}
  Digest = {g1, g2}
  MaxAttempts = 2
  CrashBound = 1
  None = None
  Tool = {content, poster, crt}
  Priced = {poster, crt}
  ImageTool = {crt}
  CommitTool = {crt}
  RetryTool = {content}
  MaxSteps = 3
  MaxPricedSteps = 1
  ToolCallSlack = 1
  MaxStepAttempts = 2
  MaxLives = 2
  Nil = Nil
  Strategy = {s1, s2}
  RenderId = {v1, v2}
  Operation = {o1, o2, o3}
  ProductionCrashBound = 2
  Unset = Unset
  Brief <- MCBrief
  Candidate <- MCCandidate
  Reply <- MCReply
  LocalMaterial = {"card"}
  MaxModelCalls = 3
  MaxSearchCalls = 1
  CallsPerAnswer = 2
  Nothing = Nothing
  References = {r1, r2}
  ReferenceTime = 1
  PrimaryTime = 12
  SubmitTime = 2
  TotalTime = 20
  Uploader = {x1, x2}
  ObjectKey = {y1, y2}
  SealedKey = {y1}
  Bytes = {b1, b2}
  Shape <- MCShape
  NoObject = NoObject
SPECIFICATION SceneSpec
INVARIANT ImageConsistent
INVARIANT TaskConsistent
INVARIANT ProductionConsistent
INVARIANT PlanConsistent
INVARIANT PictureConsistent
INVARIANT SealedUrlsKeepTheirBytes
PROPERTY NothingIsTakenBack
CHECK_DEADLOCK FALSE
