CONSTANTS
    Conn = {c1, c2, c3}
    Room = {r1, r2, r3}
    RoomId = {i1}
    PeerId = {p1, p2}
    NoConn = NoConn
    NoRoom = NoRoom
    NoRoomId = NoRoomId
    NoPeerId = NoPeerId
    MaxPeers = 2
    MaxRooms = 1
    MaxConnections = 3
    SlowConn = {}
    MuteConn = {}
    HasIdle = FALSE
    HasDuration = FALSE
SPECIFICATION Spec
PROPERTIES
    RollbackOwnRoomOnly
