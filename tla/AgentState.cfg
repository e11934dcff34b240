SPECIFICATION FairSpec
CONSTANTS
  Modes = {"merge_by_key", "cas"}
  MaxPuts = 3
  MaxGets = 1
  MaxOthers = 1
  MaxFaults = 3
  Capacity = 3
INVARIANTS PendingBacked PendingServed
PROPERTIES CopyNeverGoesBack EveryWriteSettles
CHECK_DEADLOCK FALSE
