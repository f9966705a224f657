CONSTANTS
    c1 = c1
    c2 = c2
    c3 = c3
    w1 = w1
    NoConn = NoConn
    Conns = {c1, c2, c3}
    Workers = {w1}
    ChanCap = 1
    MaxConnections = 2
    RateLimited = TRUE
    Bypass = TRUE
    LogClientSNI = TRUE
SPECIFICATION FairSpec
INVARIANTS QueuedAccounting OneOwner DrainComplete
PROPERTIES ShutdownCompletes HandledOnce
