CONSTANTS
    p1 = p1
    Pods = {p1}
    Gated = {p1}
    OtherFinalizers = {}
    StartPolicies <- OnlyDrainVerification
    MaxUid = 1
    MaxDisruptions = 0
    MaxBehind = 0
    Grace = 2
    DeleteGraces = {1, 2}
    KillSlack = 1
    IpReuse = TRUE
SPECIFICATION FairSpec
PROPERTIES
    HeldPodReleased
CHECK_DEADLOCK FALSE
