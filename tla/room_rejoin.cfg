SPECIFICATION Spec
CONSTANTS
    a = a
    b = b
    c = c
    Peers = {a, b, c}
    Casts <- RejoinCasts
INVARIANT RejoinSynced
CHECK_DEADLOCK FALSE
