SPECIFICATION Spec
CONSTANTS
  Modes = {"merge_by_key"}
  MaxPuts = 3
  MaxGets = 1
  MaxOthers = 0
  MaxFaults = 3
  Capacity = 3
INVARIANT ReadYourWrites
CHECK_DEADLOCK FALSE
