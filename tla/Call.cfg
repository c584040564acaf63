CONSTANTS
    Tracks = {t1, t2}
    NegTimeout = TRUE
    MaxIceRestarts = 1
    MaxPending = 1
    MaxConns = 2
    MaxEvents = 2
SPECIFICATION Spec
INVARIANTS
    TypeOK
    AnswerMatchesOffer
    GlareSettles
    TimerMeansWaiting
    CandidatesDrained
    SendersFollowRegistry
CHECK_DEADLOCK FALSE
