SPECIFICATION Spec
CONSTANTS
    Conns = {c1, c2, c3}
    Rooms = {r1}
    AuxIndices = {1}
    NoConn = NoConn
    MaxWaiting = 1
    MaxWorkers = 2
    RoomsExpire = TRUE
    MayStall = {c1, c2, c3}
SYMMETRY Permuted
VIEW Untold
INVARIANTS
    OneOwner
    RoomClaimedOnce
    SocketsAccounted
    StoppedClean
CHECK_DEADLOCK FALSE
