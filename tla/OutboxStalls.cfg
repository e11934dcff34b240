SPECIFICATION FairSpec
CONSTANTS
    NoOne = none
    Callers = {c1}
    Capacity = 2
    MaxWrites = 2
    MaxFlushes = 2
    MaxFaults = 1
PROPERTY SentInTheEnd
CHECK_DEADLOCK FALSE
