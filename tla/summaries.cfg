SPECIFICATION Spec
CONSTANTS
  m1 = m1  m2 = m2  m3 = m3  m4 = m4  f1 = f1
  Events = {m1, m2, m3, m4, f1}
  Kind <- MCKind
  Id <- MCId
  At <- MCAt
  Chat <- OneChat
  Blank = {}
  Rolls = TRUE
  Gap = 2
  WindowSize = 2
  Mode = "cloud"
  HasStore = TRUE
  BatchSize = 2
  MaxCopies = 2
  MaxFaults <- OneOfEach
CONSTRAINT SentInOrder
INVARIANTS LossBound NewestText StoresAgree
CHECK_DEADLOCK FALSE
