SPECIFICATION Spec
CONSTANTS
    Sessions = {s1, s2}
    MaxChecks = 3
    MaxFaults = 2
INVARIANT SentOnce
CHECK_DEADLOCK FALSE
