SPECIFICATION Spec
CONSTANTS
  Callers = {c1}
  AsksFrom = {0}
  MaxChanges = 1
  MaxReads = 4
  MaxFaults = 0
INVARIANT EndForgets
CHECK_DEADLOCK FALSE
