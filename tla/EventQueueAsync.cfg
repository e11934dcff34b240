SPECIFICATION Spec
CONSTANTS
  Callers = {c1}
  Background = bg
  NoOne = none
  Async = TRUE
  MaxItems = 4
  MaxBeats = 1
  MaxFlushes = 2
  MaxFaults = 1
  Capacity = 3
  BatchSize = 2
  BatchLimit = 2
  Refusable = {2}
INVARIANTS NothingLost OneInFlight FlushMeansAnswered HeartbeatsHonest
PROPERTY KeepsPromise
CHECK_DEADLOCK FALSE
