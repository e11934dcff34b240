SPECIFICATION ResolversSpec
CONSTANTS
    r1 = r1
    r2 = r2
    r3 = r3
    r4 = r4
    quote = quote
    stock = stock
    q1 = q1
    c1 = c1
    QuotesOnly = FALSE
    Slow = 1
    Requests <- MCRequests
    TypeOf <- MCTypeOf
    ObjectOf <- MCObjectOf
    Rank <- MCRank
    Resolvable = {quote, stock}
    Interval <- MCInterval
    Lease = 2
    Limit = 4
    PushMax = 1
    Budget = 2
    Poll = 1
    MaxPause = 2
    Failures = 2
    Window = 2
    Open = 2
    PoolSize = 1
    Claimants = {c1}
    ClaimBudget = 1
    Allowance = 1
    SlotCap = 5
    MaxMishaps = 1

PROPERTY OpensForItsOwn
CHECK_DEADLOCK FALSE
