CONSTANTS
    p1 = p1
    Pods = {p1}
    Gated = {p1}
    OtherFinalizers = {}
    StartPolicies <- OnlyDrainVerification
    MaxUid = 1
    MaxDisruptions = 0
    MaxBehind = 1
    Grace = 2
    DeleteGraces = {1, 2}
    KillSlack = 1
    IpReuse = FALSE
SPECIFICATION Spec
PROPERTIES
    DeadPodReleasedAtGrace
CHECK_DEADLOCK FALSE
