SPECIFICATION FairSpec
CONSTANTS
    chat = chat
    other = other
    Callers = {chat, other}
    Retried = {"read", "batch"}
    Makes <- MCMakes
    Budget <- MCBudget
    Timeout <- MCTimeout
    MaxAttempts <- MCMaxAttempts
    Voice = {"voice"}
    Statuses = {"ok", "refused", "moved", "limited", "failing"}
    Async = FALSE
    OwnsClient = TRUE
    Workers = 1
    Allowance = 1
    KeepAlive = 2
    BaseDelay = 1
    MaxDelay = 1
    ConnectTime = 1
    Patience = 0
    MaxRetryAfter = 1
    MaxFaults = 1
    MayClose = TRUE
INVARIANTS InTime OncePerOutage
PROPERTY EveryCallEnds
CHECK_DEADLOCK FALSE
