SPECIFICATION FairSpec
CONSTANTS
  j1 = j1  j2 = j2  j3 = j3  p1 = p1  p2 = p2  ma = ma  mc = mc
  Jobs = {j1, j2, j3}
  PointOf <- MCPointOf
  Models = {ma, mc}
  ModelOf <- OneModel
  Dim <- MCDim
  BatchSize = 2
  MaxJobs = 3
  MaxFaults <- OneOfEach
  None = None
INVARIANTS PointsSound BehindOnlyByFault
PROPERTY EveryJobIndexed
CHECK_DEADLOCK FALSE
