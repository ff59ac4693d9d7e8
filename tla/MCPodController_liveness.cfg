CONSTANTS
    p1 = p1
    Pods = {p1}
    Gated = {p1}
    OtherFinalizers = {"other"}
    StartPolicies <- OnlyDrainVerification
    MaxUid = 1
    MaxDisruptions = 1
    MaxBehind = 0
    Grace = 1
    DeleteGraces = {1}
    KillSlack = 0
    IpReuse = FALSE
SPECIFICATION FairSpec
PROPERTIES
    HeldPodReleased
    RunningPodProtected
    ReadySettles
    GateDropped
    ReleaseKeepsOthers
    ImplementsGate
CHECK_DEADLOCK FALSE
