CONSTANTS
    p1 = p1
    Pods = {p1}
    Gated = {p1}
    OtherFinalizers = {}
    StartPolicies <- OnlyDrainVerification
    MaxUid = 2
    MaxDisruptions = 0
    MaxBehind = 0
    Grace = 1
    DeleteGraces = {1}
    KillSlack = 0
    IpReuse = TRUE
SPECIFICATION Spec
INVARIANTS
    ForcedOnlyAfterKill
    VerifiedOnlyAfterSigterm
CHECK_DEADLOCK FALSE
