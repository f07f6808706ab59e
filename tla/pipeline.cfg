SPECIFICATION FairPipelineSpec
CONSTANTS
  c1 = c1  c2 = c2  c3 = c3  w1 = w1  w2 = w2  ca = ca  pa = pa
  Commands = {c1, c2, c3}
  Windows = {w1, w2}
  Chats = {ca}
  People = {pa}
  Messages = {}
  WindowOf <- MCWindowOf
  ChatOf <- MCChatOf
  StartOf <- MCStartOf
  Senders <- MCSenders
  Tasks <- MCTasks
  Claims <- MCNone
  Signals <- MCNone
  Owners = {}
  HasGraph = FALSE
  HasStore = FALSE
  BatchSize = 2
  MaxCopies = 1
  MaxFaults <- OneError
  EmbeddingModel = model
  IndexBatch = 2
  IndexFaults <- IxOneOfEach
  None = None
INVARIANT LagBound
CONSTRAINT IndexerFirst
PROPERTIES ImplementsSearchable EventuallySearchable
CHECK_DEADLOCK FALSE
