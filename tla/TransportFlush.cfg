SPECIFICATION Spec
CONSTANTS
    chat = chat
    other = other
    Callers = {other}
    Retried = {"batch"}
    Makes <- MCMakes
    Budget <- MCBudget
    Timeout <- MCTimeout
    MaxAttempts <- MCMaxAttempts
    Voice = {"voice"}
    Statuses = {"ok", "refused", "moved", "limited", "failing"}
    Async = FALSE
    OwnsClient = TRUE
    Workers = 1
    Allowance = 1
    KeepAlive = 1
    BaseDelay = 1
    MaxDelay = 1
    ConnectTime = 1
    Patience = 2
    MaxRetryAfter = 3
    MaxFaults = 0
    MayClose = FALSE
INVARIANT FlushInTime
CHECK_DEADLOCK FALSE
