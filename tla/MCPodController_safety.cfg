CONSTANTS
    p1 = p1
    Pods = {p1}
    Gated = {p1}
    OtherFinalizers = {}
    StartPolicies <- AllStrategies
    MaxUid = 1
    MaxDisruptions = 1
    MaxBehind = 1
    Grace = 2
    DeleteGraces = {1, 2}
    KillSlack = 1
    IpReuse = TRUE
SPECIFICATION Spec
INVARIANTS
    TypeOK
    GatedUntilReleased
    ForcedOnlyAfterKill
    VerifiedOnlyAfterSigterm
    AllowedAnnotationEarned
PROPERTIES
    NeverReleasesActivePod
    ImplementsGate
CHECK_DEADLOCK FALSE
