SPECIFICATION Spec
CONSTANTS
  Callers = {c1, c2}
  AsksFrom = {0, 1}
  MaxChanges = 1
  MaxReads = 4
  MaxFaults = 1
INVARIANTS DeltaOnce DeltaKept RefreshHonoursPurge VerifyIsSeen
CHECK_DEADLOCK FALSE
