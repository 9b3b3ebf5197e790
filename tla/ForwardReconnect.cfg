CONSTANTS
    Min = 2
    Max = 8
    Budget = 2
    Expiries = {0, 5, 24}
    Policies = {"exit", "refuse"}
    MaxTime = 30
SPECIFICATION FairSpec
INVARIANTS
    EndsWithOwn
    BackoffGrows
PROPERTIES
    ConnectionAnswered
CHECK_DEADLOCK FALSE
