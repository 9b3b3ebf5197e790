CONSTANTS
    NStreams = 2
    OutCap = 1
    InCap = 1
    WireCap = 1
    CtrlCap = 6
    MaxPendingFc = 1
    Scenarios <- SafetyScenarios
SPECIFICATION Spec
INVARIANTS
    StreamIntact
    LimitsKept
CHECK_DEADLOCK FALSE
