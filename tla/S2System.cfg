SPECIFICATION Spec

    
PROPERTIES
    ImplementsPodController
CHECK_DEADLOCK FALSE
CONSTANTS
    pod = pod
    r1 = r1
    Requests = {r1}
    DrainSettings = {TRUE}
    DrainMax = 1
    SettleTime = 1
    Grace = 2
    DeleteGraces = {2}
    KillSlack = 0
    MaxDisruptions = 1
    MaxBehind = 0
