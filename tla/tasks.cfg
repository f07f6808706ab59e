SPECIFICATION Spec
CONSTANTS
  e1 = e1  e2 = e2  e3 = e3  e4 = e4  x1 = x1  x2 = x2
  Events = {e1, e2, e3, e4}
  Kind <- MCKind
  Refs <- MCRefs
  ReplyTo <- MCReplyTo
  Blank = {}
  Resolving = {e2}
  Promising = {e1, e3}
  Requesting = {e2}
  Dated = {e1}
  Projected = {x1}
  MinConfidence = 40
  BatchSize = 1
  MaxCopies = 2
  MaxPatches = 2
  MaxFaults <- OneOfEach
  None = None
CONSTRAINT OneFault
INVARIANTS OneTaskPerMessage CreationLossBound ClosureLossBound LaterEventsApply
CHECK_DEADLOCK FALSE
