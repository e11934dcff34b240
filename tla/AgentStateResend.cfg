SPECIFICATION Spec
CONSTANTS
  Modes = {"cas"}
  MaxPuts = 1
  MaxGets = 0
  MaxOthers = 0
  MaxFaults = 2
  Capacity = 3
INVARIANT AppliedIsNoConflict
CHECK_DEADLOCK FALSE
