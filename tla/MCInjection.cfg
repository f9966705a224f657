CONSTANTS
    Seqs = 16
    Sums = 3
    MaxLen = 10
    MaxFrag = 11
    Window = 3
SPECIFICATION Spec
INVARIANTS Tiles BelowStream OnlyZeroSumSurvives
CHECK_DEADLOCK FALSE
