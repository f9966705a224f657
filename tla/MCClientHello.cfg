CONSTANTS
    NameLens = {0, 1, 12, 200, 236, 253}
    Draws = {0, 32}
    Reads = {3, 260}
    Wrong = {0, 68, 60000}
    WrongLens = {12}
    Noise = {0, 3, 600}
SPECIFICATION Spec
INVARIANTS FoundAtTheEnd StaysInside SizeHidesName
CHECK_DEADLOCK FALSE
