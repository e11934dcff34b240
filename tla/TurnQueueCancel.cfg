SPECIFICATION Spec
CONSTANTS
    MaxSubmits = 4
    Flagged = {2}
    Invalid = {3}
    MaxBytes = 5
    MaxTurns = 3
    Limit = 3
    MaxFlushes = 1
    MaxFaults = 2
CHECK_DEADLOCK FALSE
INVARIANT NothingVanishes
