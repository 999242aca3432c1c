SPECIFICATION Spec
CONSTANTS
    a = a
    b = b
    c = c
    Peers = {a, b}
    Casts <- LiveCasts
PROPERTY ComesToRest
CHECK_DEADLOCK FALSE
