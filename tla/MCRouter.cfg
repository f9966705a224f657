CONSTANTS
    h1 = h1
    h2 = h2
    Handlers = {h1, h2}
    N = 1
    Threshold = 2
    Cooldown = 1
    MaxAttempts = 2
    Samples = {1, 3}
    Lo = 1
    Hi = 3
SPECIFICATION FairSpec
INVARIANTS BreakerConsistent OvershootBounded
PROPERTIES LeavesOpen EwmaBounded OpenIsTemporary DialReturns
