CONSTANTS
    Node <- Nodes
    Seeds <- SeedOfAll
    Weight <- Weights
    Capacity <- Capacities
    Score <- Scores
    Routers = {1, 2}
    MaxInc = 3
    MaxTick = 2
    MaxNet = 1
    MaxEvents = 2
SPECIFICATION Spec
INVARIANTS
    TypeOK
    SaturatedAgree
    RoomHasOneOwner
CHECK_DEADLOCK FALSE
