SPECIFICATION Spec
CONSTANTS
    u1 = u1
    Utterances <- MCUtterances
    Lengths <- MCLengths
    Said <- MCSaid
    MinPart = 3
    Whole = 4
    MaxReads = 2
    MaxStarted = 3
    MaxTurns = 1
    MaxHeard = 2
    MaxFaults = 0
    MaxVerified = 0
INVARIANT NothingAfterEnd
CHECK_DEADLOCK FALSE
