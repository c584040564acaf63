CONSTANTS
    Conn = {c1, c2, c3}
    Room = {r1, r2, r3}
    RoomId = {i1}
    PeerId = {p1, p2, p3}
    NoConn = NoConn
    NoRoom = NoRoom
    NoRoomId = NoRoomId
    NoPeerId = NoPeerId
    MaxPeers = 2
    MaxRooms = 1
    MaxConnections = 3
    SlowConn = {c1}
    MuteConn = {c2}
    HasIdle = TRUE
    HasDuration = TRUE
SPECIFICATION Spec
SYMMETRY Symmetry
INVARIANTS
    TypeOK
    OpenPeerIsMember
    CreatingRoomHasCreator
    NoMissingPeers
    TimersMatchState
PROPERTY
    ImplementsSeats
