SPECIFICATION FairSpec
CONSTANTS
  wormsoft = wormsoft  polza = polza  api = api
  b1 = b1  b2 = b2  b3 = b3  b4 = b4  w1 = w1  w2 = w2  m1 = m1  m2 = m2  alien = alien
  Clients = {wormsoft, polza, api}
  Parallel <- MCParallel
  Gap <- MCGap
  Providers <- MCProviders
  Briefs = {b1, b2, b3, b4}
  BriefClient = api
  Windows = {w1, w2}
  Messages <- MCMessages
  Ids = {m1, m2, alien}
  Hinted <- MCHinted
  LatinText = {w2}
  Answers <- MCAnswers
  Russian = TRUE
  None = None
CONSTRAINT Apart
INVARIANTS Grounded BestSource
PROPERTIES Paced EveryCallAnswered
CHECK_DEADLOCK FALSE
