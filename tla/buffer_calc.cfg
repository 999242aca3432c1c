SPECIFICATION CalcSpec
CONSTANTS
    Half = 8
    Cycles = 4
    MaxSteps = 2
    MaxNackTimes = 2
    MaxNackCache = 5
    BlpBits = 3
    Late = 3
    Jump = 3
    MaxIdx = 20
    MaxWrites = 5
    ProbeWindow = 25
    Origins = {10}
    Kinds = {"unparsable", "padding", "media"}
    NackChoices = {TRUE}
    DueChoices = {FALSE, TRUE}
    Leftovers = {12}
INVARIANTS CalcTypeOK HeadExtended RingFinds NackOnlyMissing NeverForgotten NackRounds RtxWasStored
PROPERTIES RepeatDropped LostExact
CHECK_DEADLOCK FALSE
