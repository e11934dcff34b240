SPECIFICATION Spec
CONSTANTS
  Callers = {c1}
  AsksFrom = {1}
  MaxChanges = 1
  MaxReads = 4
  MaxFaults = 0
INVARIANT NextReadSeesLevel
CHECK_DEADLOCK FALSE
