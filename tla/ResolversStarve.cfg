SPECIFICATION ResolversFairSpec
CONSTANTS
    r1 = r1
    r2 = r2
    r3 = r3
    r4 = r4
    quote = quote
    stock = stock
    q1 = q1
    c1 = c1
    QuotesOnly = TRUE
    Slow = 3
    Requests <- MCRequests
    TypeOf <- MCTypeOf
    ObjectOf <- MCObjectOf
    Rank <- MCRank
    Resolvable = {quote}
    Interval <- MCInterval
    Lease = 3
    Limit = 4
    PushMax = 1
    Budget = 1
    Poll = 1
    MaxPause = 2
    Failures = 2
    Window = 2
    Open = 2
    PoolSize = 1
    Claimants = {}
    ClaimBudget = 1
    Allowance = 1
    SlotCap = 12
    MaxMishaps = 0

PROPERTY EveryRequestSettles
CHECK_DEADLOCK FALSE
