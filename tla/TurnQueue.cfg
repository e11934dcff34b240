SPECIFICATION FairSpec
CONSTANTS
    MaxSubmits = 3
    Flagged = {2}
    Invalid = {3}
    MaxBytes = 3
    MaxTurns = 2
    Limit = 2
    MaxFlushes = 1
    MaxFaults = 2
INVARIANTS Accounted FlushMeansSettled
PROPERTY TurnsSettle
CHECK_DEADLOCK FALSE
