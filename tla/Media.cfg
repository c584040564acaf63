CONSTANTS
    Room = {i, j}
    Peer = {a, b}
    Worker = {w1, w2, w3}
    Router = {r1, r2}
    Transport = {t1, t2}
    Producer = {p1}
    Consumer = {c1}
    None = None
    NumWorkers = 2
    LimitBitrate = TRUE
    MaxEvents = 5
SPECIFICATION Spec
SYMMETRY ObjectSymmetry
INVARIANTS
    TypeOK
    RoutersFollowRooms
    MediaFollowsPeers
CHECK_DEADLOCK FALSE
