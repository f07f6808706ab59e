SPECIFICATION Spec
CONSTANTS
  o = o  p = p  w1 = w1  w2 = w2  k1 = k1  j1 = j1  j2 = j2
  People = {o, p}
  Owners = {o}
  Windows = {w1, w2}
  Senders <- MCSenders
  Keys = {k1}
  KeyOf <- OneKey
  HasTask = {w1, w2}
  Jobs = {j1, j2}
  HasGraph = TRUE
  HasStore = TRUE
  MaxProjections = 2
  MaxFaults <- OneOfEach
  None = None
CONSTRAINT OneFault
INVARIANTS CommittedErase CleanErase OneEraser
CHECK_DEADLOCK FALSE
