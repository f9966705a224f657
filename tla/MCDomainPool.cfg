CONSTANTS
    NoDomain = NoDomain
    Pool <- MCPool
    Lats = {1, 2}
    Cap = 4
SPECIFICATION FairSpec
INVARIANTS BestIsFastest
PROPERTIES Recovers FailsOver
CHECK_DEADLOCK FALSE
