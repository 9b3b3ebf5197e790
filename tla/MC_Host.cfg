CONSTANTS
    Writers = {w1}
    Writes = 4
    FileValues = {a, b}
    NoValue = NoValue
    BaseDelay = 1
    MaxDelay = 2
    Healthy = 2
    Grace = 1
    PumpWait = 1
    Doublings = 2
    Releases <- MCReleases
    Signed <- MCSigned
    AgentIds = {"a", "b"}
    Redemptions = 3
    Activators = {x, y}
    Manifests = {m1, m2}
    NoManifest = NoManifest
    Activations = 4
    Addresses = {"a1", "a2", "b1"}
    HostOf <- MCHostOf
    OrderAttempts = 2
    Orders = 3
    EventTasks = {t1, t2}
    BudgetLimit = 2
    RingCap = 2
    Events = 5
    Windows = 2
    Shown = 3
    Maxima = {1, 2}
    Retry = 2
    RefusedCap = 6
    EofCap = 4
    TransientCap = 3
    FlapCap = 4
    Threshold = 1
    Budget = 1
    Expiries = {1, 5}
    MaxTime = 7
    GateTasks = {t1, t2, t3}
    MaxFailures = 2
    Window = 1
    Lockout = 1
    LimiterTime = 4
    LinkTasks = {t1, t2}
    Cli = cli
    LinkIds = {k1, k2}
    MaxActive = 1
    MaxSessions = 1
    LinkOps = 5
    Identities = 4
SPECIFICATION MCSpec
INVARIANTS
    InstallSound
    SupervisionHolds
    RunsAsOneOnboarding
    TaskOnItsOwnBundle
    PairComesRight
    EventsAccounted
    LoopSound
    OwnCapabilityServed
    GuessesBounded
    OnceMeansOnce
PROPERTIES
    Implements
    AskedWhereServed
CHECK_DEADLOCK FALSE
