SPECIFICATION Spec
CONSTANTS
    Subs = {s}
    s = s
    Cap = 2
    MaxUps = 1
    MaxPackets = 2
    MaxDown = 2
INVARIANTS OneTrackPerSub ClosedBeforeGone
PROPERTIES TrackEndsCleanly CloseReturns
CHECK_DEADLOCK FALSE
