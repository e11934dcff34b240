SPECIFICATION Spec
CONSTANTS
    Sessions = {s1, s2}
    MaxChecks = 3
    MaxFaults = 2
INVARIANTS NeverSentAgain NiadraKnows
CHECK_DEADLOCK FALSE
