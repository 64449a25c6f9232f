CONSTANTS
    Request = {r1, r2}
    Key = {k1}
    Instance = {i1, i2}
    NoReq = NoReq
    Shared = TRUE
    TTL = 3
    Budget = 1
    MaxRecords = 1
    SweepBudget = 1
    MaxTime = 3
    MaxCrashes = 0
SPECIFICATION Spec
INVARIANT ReplayReturnsOutcome
CHECK_DEADLOCK FALSE
