SPECIFICATION Spec
CONSTANTS
  e1 = e1  r1 = r1  r2 = r2
  Events = {e1}
  Runners = {r1, r2}
  MonthDays = 2
  Migrated = {0}
  Default <- MCDefault
  Stored <- MCStored
  Bad = Bad
  None = None
  MaxDay = 5
  MaxFaults = 1
SYMMETRY RunnerSymmetry
CONSTRAINT TakenTwice
INVARIANTS Writable RepeatsOnlyOld
CHECK_DEADLOCK FALSE
