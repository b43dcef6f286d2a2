SPECIFICATION FairSpec
CONSTANTS
    Conns = {c1, c2}
    Rooms = {r1}
    AuxIndices = {1}
    NoConn = NoConn
    MaxWaiting = 1
    MaxWorkers = 2
    RoomsExpire = TRUE
    MayStall = {c1, c2}
PROPERTIES
    StopCompletes
    HangupFreesRoom
    WaitersResolve
CHECK_DEADLOCK FALSE
