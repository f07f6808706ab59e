SPECIFICATION Spec
CONSTANTS
  c1 = c1  c2 = c2  c3 = c3  w1 = w1  w2 = w2  ca = ca  pa = pa  pb = pb  m1 = m1  m2 = m2
  Commands = {c1, c2, c3}
  Windows = {w1, w2}
  Chats = {ca}
  People = {pa, pb}
  Messages = {m1, m2}
  WindowOf <- MCWindowOf
  ChatOf <- MCChatOf
  StartOf <- MCStartOf
  Senders <- MCSenders
  Tasks <- MCTasks
  Claims <- MCClaims
  Signals <- MCSignals
  Owners = {pa}
  HasGraph = TRUE
  HasStore = TRUE
  BatchSize = 2
  MaxCopies = 2
  MaxFaults <- OneOfEach
  None = None
CONSTRAINT OneRepeat
INVARIANTS ProjectedOnce WindowWhole InteractionsCoherent OneTaskPerEvidence EmissionsFollowCommits ArtifactNeverBehind EdgeWeights CommandLossBound
PROPERTY ClosedStaysClosed
CHECK_DEADLOCK FALSE
