CONSTANTS
    NStreams = 2
    OutCap = 1
    InCap = 1
    WireCap = 1
    CtrlCap = 6
    MaxPendingFc = 1
    Scenarios <- LiveScenarios
SPECIFICATION FairSpec
PROPERTIES
    StreamsEnd
CHECK_DEADLOCK FALSE
