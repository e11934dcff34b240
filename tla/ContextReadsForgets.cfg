SPECIFICATION Spec
CONSTANTS
  Callers = {c1}
  AsksFrom = {0}
  MaxChanges = 1
  MaxReads = 4
  MaxFaults = 1
INVARIANT KeepsWhatItReceived
CHECK_DEADLOCK FALSE
