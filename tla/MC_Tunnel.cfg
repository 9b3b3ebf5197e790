CONSTANTS
    Interval = 1
    DeadAfter = 2
    IdleBound = 2
    QueueCap = 1
    DialBound = 1
    Frames = 2
    Replies = 1
    RelayTime = 3
    PoolSize = 2
    MaxServing = 1
    Rungs = 1
    Attempts = 1
    RefusalsBeforeRevoked = 2
    Strikes = 1
    Ids = 3
    BindAttempts = 1
    FlapBound = 1
    Direct = {c1, c2}
    MaxConnections = 1
    SetupTime = 2
    LingerTime = 1
    PumpCapacity = 1
    PollAttempts = 2
    Capsules = 2
    Outgoing <- MCOutgoing
    Lines = {l1, l2}
    Anchors = {a1, a2, a3}
    MemoCap = 2
    Pings = 2
    Dials = 3
    LanClients = {p1, p2, p3}
    ClientCap = 2
    Upstreams = 4
    SshBytes = 2
SPECIFICATION MCSpec
INVARIANTS
    RelaySound
    MappingsLive
    SessionWhole
    ParkedKeptUp
    HandOverClean
    StrangersHoldBriefly
    DatagramsAccounted
    LinksKeptApart
CHECK_DEADLOCK FALSE
