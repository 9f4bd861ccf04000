\* One session of one market with a single trade.
SPECIFICATION Spec
CONSTANTS
    a = a
    b = b
    c = c
    m1 = m1
    m2 = m2
    Markets = {m1}
    Trades = {a}
    MarketOf <- MCOneMarket
    MaxSessions = 1
    FailAt = {}
    MaxFailures = 0
    CrashAt = {}
INVARIANT SavedKept
CHECK_DEADLOCK FALSE
