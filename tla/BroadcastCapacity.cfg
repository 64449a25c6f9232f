CONSTANTS
    Request = {r1, r2, r3}
    Key = {k1, k2}
    Instance = {i1, i2}
    NoReq = NoReq
    Shared = TRUE
    TTL = 2
    Budget = 1
    MaxRecords = 1
    SweepBudget = 1
    MaxTime = 3
    MaxCrashes = 0
SPECIFICATION Spec
SYMMETRY Symmetry
INVARIANTS ReplyAttribution LocalBound EvictableIsSafe
CHECK_DEADLOCK FALSE
