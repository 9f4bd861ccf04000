\* Three sessions that may crash while the strategy runs, two markets.
SPECIFICATION FairSpec
CONSTANTS
    a = a
    b = b
    c = c
    m1 = m1
    m2 = m2
    Markets = {m1, m2}
    Trades = {a, b, c}
    MarketOf <- MCMarketOf
    MaxSessions = 3
    FailAt = {"insert", "select"}
    MaxFailures = 2
    CrashAt = {"running"}
INVARIANTS TypeOK ManagedOnce
PROPERTIES ClearedWhenLoaded LoadAnswered
CHECK_DEADLOCK FALSE
