SPECIFICATION FairSpec
CONSTANTS
    NoOne = none
    Callers = {c1}
    Capacity = 2
    MaxWrites = 3
    MaxFlushes = 2
    MaxFaults = 2
INVARIANTS Accounted InOrder FlushMeansSettled
PROPERTY WritesSettle
CHECK_DEADLOCK FALSE
