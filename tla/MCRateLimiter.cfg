CONSTANTS
    NoIp = NoIp
    a = a
    b1 = b1
    Ips = {a, b1}
    Limit = 1
    Window = 1
    Stale = 2
SPECIFICATION LimiterFairSpec
INVARIANTS OnlyStraysExceed StraysBounded
PROPERTIES Forgotten
