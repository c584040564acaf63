CONSTANTS
    Total = 2
    Parallel = 2
    MaxBatches = 2
    MaxEdits = 1
    MaxEvents = 2
SPECIFICATION Spec
INVARIANTS
    TypeOK
    CompletedIsWhole
    NoFalseMismatch
    TransferEnds
CHECK_DEADLOCK FALSE
