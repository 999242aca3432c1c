SPECIFICATION Spec
CONSTANTS
    Half = 4
    Cycles = 4
    MaxTrack = 3
    IgnoreRetransmission = 1
    Late = 1
    Jump = 2
    Plans <- TestPlans
INVARIANTS StartsOnKeyFrame SequencerFinds RtxRepeatsSent RtxThrottled
PROPERTIES HeadsAdvance
CHECK_DEADLOCK FALSE
