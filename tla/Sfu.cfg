CONSTANTS
    Obj <- Objects
    IdOf <- Ids
    None = None
    RouterRoom = {r}
    TreeRoom = {t}
    Fanout = 2
    ViewersPerNode = 2
    Capacity <- Capacities
    Viewers = {3}
    FailThreshold = 2
    RecoverThreshold = 2
    MaxCalls = 3
SPECIFICATION Spec
INVARIANTS
    TypeOK
    AssignmentsServed
    TrackingMatches
PROPERTY
    FailureNeedsEvidence
CHECK_DEADLOCK FALSE
