CONSTANTS
    a = a
    b = b
    k1 = k1
    k2 = k2
    k3 = k3
    Keys = {k1, k2, k3}
    Callers = {a, b}
    Cap = 2
    Ttl = 0
    MaxRuns = 3
SPECIFICATION Spec
SYMMETRY Symmetry
INVARIANTS CacheConsistent CachedWorked OneHop CountsAgree SnapshotConsistent
CHECK_DEADLOCK FALSE
