CONSTANTS
    Callers = {ann, bob}
    JoinSlots = {s1, s2}
    Pinned = {ann}
    Nobody = Nobody
    Joins = 2
    MaxDials = 3
    OneShotTries = 2
    RefusedCap = 4
    SetupBound = 2
    Teardown = 1
    GrantEnds = {2, 4}
    DcutrTime = 7
    ListenerIds = {i1, i2}
    SwarmDials = 2
    Units = {1, 2, 3}
    Members <- AllMembers
    DrainTime = 3
    Debounce = 2
    MaxTime = 6
    Holders = {m1, m2}
    ReadyGrace = 2
    HealthTime = 4
    Peers = {"p", "q"}
    Channels = {"c", "d"}
    OwnChannel = "c"
    ToolCalls = 2
    StdinLines = 2
    LineCap = 2
    HandlerTimeout = 1
    CallSessions = 2
    Needy = {t1, t2, cli}
    AgentTasks = {t1, t2}
    RetryTries = 2
    RefreshTokens = 3
SPECIFICATION MCSpec
INVARIANTS
    JoinSound
    LeavesNothing
    NeverBlockEachOther
    StreamReachesItsUser
    DrainSound
    NotReadyIsTrue
    BridgeHonest
    RepliesMatch
    DegradedHasCause
CHECK_DEADLOCK FALSE
