CONSTANTS
    Conn = {c1, c2}
    Room = {r1, r2}
    RoomId = {i1, i2, i3}
    PeerId = {p1, p2}
    NoConn = NoConn
    NoRoom = NoRoom
    NoRoomId = NoRoomId
    NoPeerId = NoPeerId
    MaxPeers = 2
    MaxRooms = 2
    MaxConnections = 2
    SlowConn = {}
    MuteConn = {c1}
    HasIdle = FALSE
    HasDuration = FALSE
SPECIFICATION FairSpec
INVARIANTS
    RegistryConsistent
    RejectedIsClosing
    SenderIsKnown
PROPERTIES
    SilentPeerLeaves
    StopCompletes
