SPECIFICATION Spec
INVARIANTS
    TypeOK
    OverlapNeedsUnlink
    LockAvailable
    
CHECK_DEADLOCK FALSE
CONSTANTS
    i1 = i1
    i2 = i2
    Invocations = {i1, i2}
    Stoppable = TRUE
