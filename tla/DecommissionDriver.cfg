SPECIFICATION Spec
INVARIANTS
    TypeOK
    AllowedNeedsEvidence
PROPERTIES
    BackOnlyWhenStale
