SPECIFICATION CalcSpec
CONSTANTS
    Half = 8
    Cycles = 4
    MaxSteps = 4
    MaxNackTimes = 2
    MaxNackCache = 3
    BlpBits = 3
    Late = 3
    Jump = 3
    MaxIdx = 20
    MaxWrites = 6
    ProbeWindow = 25
    Origins = {2, 13}
    Kinds = {"media"}
    NackChoices = {TRUE}
    DueChoices = {FALSE}
    Leftovers = {0}
INVARIANTS NackCacheBounded
CHECK_DEADLOCK FALSE
