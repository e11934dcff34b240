SPECIFICATION FairSpec
CONSTANTS
  Callers = {c1}
  Background = bg
  NoOne = none
  Async = FALSE
  MaxItems = 3
  MaxBeats = 1
  MaxFlushes = 1
  MaxFaults = 1
  Capacity = 2
  BatchSize = 2
  BatchLimit = 2
  Refusable = {2}
PROPERTY EventuallySettled
CHECK_DEADLOCK FALSE
