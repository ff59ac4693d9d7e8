CONSTANTS
    r1 = r1
    r2 = r2
    Requests = {r1, r2}
    DrainSettings = {TRUE, FALSE}
    DrainMax = 2
    Settle = 1
    Grace = 4
SYMMETRY Symmetry
SPECIFICATION Spec
INVARIANTS
    ReadyWasTrue
CHECK_DEADLOCK FALSE
