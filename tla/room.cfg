SPECIFICATION Spec
CONSTANTS
    a = a
    b = b
    c = c
    Peers = {a, b, c}
    Casts <- RoomCasts
INVARIANTS QuietMeansSynced NoLoopback NoDoubleSend
CHECK_DEADLOCK FALSE
