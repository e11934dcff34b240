SPECIFICATION Spec
CONSTANTS
  Modes = {"cas"}
  MaxPuts = 2
  MaxGets = 2
  MaxOthers = 1
  MaxFaults = 2
  Capacity = 3
PROPERTY OthersNeverLose
CHECK_DEADLOCK FALSE
