SPECIFICATION Spec
CONSTANTS
    c1 = c1
    c2 = c2
    t1 = t1
    t2 = t2
    t3 = t3
    r1 = r1
    r2 = r2
    Parts = {"helpers"}
    Cands = {"a", "b", "c"}
    MaxDescriptions = 2
    AudioTracks = {t1, t2, t3}
    StreamOf <- TestStreamOf
    Levels = {0, 1, 3}
    Threshold = 2
    ExpectedTotal = 2
    MaxObserved = 4
    MaxCalcs = 2
    Visits = {"v1", "v2", "d"}
    VisitSets <- TestVisitSets
    SsrcOf <- TestSsrcOf
    Sent = {"d"}
    Tracks = {r1, r2}
    MaxCalls = 3
    Calls = {c1, c2}
    Attempts = 2
    Scenarios <- TestScenarios
    Second = 10
    Fraction = 16
    Chunks = 3
    ClockRate = 3
    MaxElapsed = 40
    TsBits = 8
    MaxGap = 64
    MaxUnits = 3
    MaxSources = 10
INVARIANT LaterTimestamp
CHECK_DEADLOCK FALSE
