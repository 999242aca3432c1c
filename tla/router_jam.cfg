SPECIFICATION Spec
CONSTANTS
    Subs = {s}
    s = s
    Cap = 1
    MaxUps = 1
    MaxPackets = 2
    MaxDown = 0
PROPERTIES HandlerCalled
CHECK_DEADLOCK FALSE
