SPECIFICATION Spec
CONSTANTS
    NoOne = none
    Callers = {c1}
    Capacity = 2
    MaxWrites = 3
    MaxFlushes = 2
    MaxFaults = 2
INVARIANT OnlyOnce
CHECK_DEADLOCK FALSE
