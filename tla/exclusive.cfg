SPECIFICATION Spec
CONSTANTS
  m1 = m1  m2 = m2  m3 = m3  m4 = m4  ca = ca  cb = cb
  Messages <- MCMessages
  TgId <- MCTgId
  At <- MCAt
  Chat <- MCChat
  Gap = 2
  Commands = {r1}
  Target <- MCTarget
  Chats = {ca, cb}
  Blank = {m3}
  Filtered = {m3}
  WindowSize = 2
  BatchSize = 2
  MaxSignals = 0
  Live = live
  Backfills = {b1}
  MaxFaults <- OneOfEach
  None = None
CONSTRAINTS FewFaults Alone
INVARIANTS WindowContentStable LossBound NoGapInsideWindow MarkedFirst CommandBacked
CHECK_DEADLOCK FALSE
