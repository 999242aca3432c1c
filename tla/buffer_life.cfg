SPECIFICATION BufferSpec
CONSTANTS
    Half = 4
    Cycles = 4
    MaxSteps = 1
    MaxNackTimes = 2
    MaxNackCache = 8
    BlpBits = 2
    Late = 1
    Jump = 2
    MaxIdx = 9
    MaxWrites = 4
    ProbeWindow = 25
    Origins = {5}
    Kinds = {"media"}
    NackChoices = {FALSE}
    DueChoices = {FALSE}
    Leftovers = {0}
INVARIANTS HandledInOrder PayloadAlive
PROPERTIES NoWriteAfterReturn ReadersStop ImplementsCalc ImplementsPipe
CHECK_DEADLOCK FALSE
