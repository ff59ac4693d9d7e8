CONSTANTS
    p1 = p1
    Pods = {p1}
    Gated = {p1}
    OtherFinalizers = {}
    StartPolicies <- SwitchToBaseline
    MaxUid = 1
    MaxDisruptions = 1
    MaxBehind = 0
    Grace = 2
    DeleteGraces = {1, 2}
    KillSlack = 1
    IpReuse = FALSE
SPECIFICATION FairSpec
PROPERTIES
    HeldPodReleased
CHECK_DEADLOCK FALSE
