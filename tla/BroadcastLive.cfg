CONSTANTS
    Request = {r1, r2}
    Key = {k1}
    Instance = {i1, i2}
    NoReq = NoReq
    Shared = TRUE
    TTL = 2
    Budget = 1
    MaxRecords = 1
    SweepBudget = 1
    MaxTime = 3
    MaxCrashes = 1
SPECIFICATION FairSpec
PROPERTY Answered
CHECK_DEADLOCK FALSE
