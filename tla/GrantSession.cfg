CONSTANTS
    MaxTime = 7
    Expiries = {2, 5}
    Prelude = 2
    NetCap = 1
    GrantTimeout = 2
    Interval = 1
    Grace = 1
    RequestTimeout = 1
    FailGrace = 2
    FailDrain = 1
    RelayDrain = 2
    Setups <- AllSetups
    Require = TRUE
    Kinds = {"ok", "down", "old"}
SPECIFICATION Spec
INVARIANTS
    OnlyWithinGrants
    WatchHolds
    EndsRightly
CHECK_DEADLOCK FALSE
