SPECIFICATION FairSpec
CONSTANTS
  m1 = m1  m2 = m2  m3 = m3  m4 = m4  ca = ca  cb = cb
  Messages <- MCMessages
  TgId <- MCTgId
  At <- MCAt
  Chat <- MCChat
  Gap = 2
  Commands = {}
  Target <- MCTarget
  Chats = {ca, cb}
  Blank = {}
  Filtered = {}
  WindowSize = 2
  BatchSize = 2
  MaxSignals = 1
  Live = live
  Backfills = {}
  MaxFaults <- NoFaults
  None = None
INVARIANT EffectivelyOnce
PROPERTIES ImplementsBatcher EveryEntryAcked FullWindowFlushed
CHECK_DEADLOCK FALSE
