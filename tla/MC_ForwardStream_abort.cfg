CONSTANTS
    NStreams = 1
    OutCap = 1
    InCap = 1
    WireCap = 1
    CtrlCap = 6
    MaxPendingFc = 1
    Scenarios <- LateReset
SPECIFICATION FairSpec
PROPERTIES
    AbortEnds
CHECK_DEADLOCK FALSE
