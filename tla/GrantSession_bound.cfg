CONSTANTS
    MaxTime = 7
    Expiries = {3, 6}
    Prelude = 2
    NetCap = 1
    GrantTimeout = 2
    Interval = 1
    Grace = 1
    RequestTimeout = 1
    FailGrace = 1
    FailDrain = 1
    RelayDrain = 2
    Setups <- Checked
    Require = TRUE
    Kinds = {"ok", "down", "old"}
SPECIFICATION Spec
INVARIANTS
    EndsWithinBound
CHECK_DEADLOCK FALSE
