SPECIFICATION FairSpec
CONSTANTS
  m1 = m1  m2 = m2  m3 = m3  m4 = m4  ca = ca  cb = cb
  Messages <- MCMessages
  TgId <- MCTgId
  At <- MCAt
  Chat <- MCChat
  Gap = 2
  Commands = {}
  Target <- MCTarget
  Chats = {ca, cb}
  Blank = {}
  Filtered = {}
  WindowSize = 2
  BatchSize = 2
  MaxSignals = 0
  Live = live
  Backfills = {}
  MaxFaults <- OneCrash
  None = None
CONSTRAINT PublishedInOrder
PROPERTY AtLeastOnce
CHECK_DEADLOCK FALSE
