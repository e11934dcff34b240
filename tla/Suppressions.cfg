SPECIFICATION ListFairSpec
CONSTANTS
    Entries = {e1, e2}
    Open = {e2}
    Callers = {c1, c2}
    Page = 2
    MaxPages = 2
    FirstRounds = 2
    MaxChanges = 2
    MaxTurnovers = 1
    MaxGone = 1
    MaxFailed = 1
    MaxAges = 1
PROPERTIES CopyInStep OptOutHolds CopyComes
CHECK_DEADLOCK FALSE
