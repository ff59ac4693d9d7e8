SPECIFICATION Spec
INVARIANTS
    OneMatrixAtATime
CHECK_DEADLOCK FALSE
CONSTANTS
    i1 = i1
    i2 = i2
    i3 = i3
    Invocations = {i1, i2, i3}
    Stoppable = FALSE
