SPECIFICATION FairSpec
CONSTANTS
    chat = chat
    other = other
    Callers = {chat}
    Retried = {}
    Makes <- MCMakes
    Budget <- MCBudget
    Timeout <- MCTimeout
    MaxAttempts <- MCMaxAttempts
    Voice = {"voice"}
    Statuses = {"ok"}
    Async = TRUE
    OwnsClient = TRUE
    Workers = 1
    Allowance = 2
    KeepAlive = 1
    BaseDelay = 1
    MaxDelay = 1
    ConnectTime = 2
    Patience = 0
    MaxRetryAfter = 0
    MaxFaults = 1
    MayClose = FALSE
PROPERTY AnswersComeBack
CHECK_DEADLOCK FALSE
