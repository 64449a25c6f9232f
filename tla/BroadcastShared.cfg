\* Two processes behind one Redis, two POSTs of one payload and one crash.
CONSTANTS
    Request = {r1, r2, r3}
    Key = {k1}
    Instance = {i1, i2}
    NoReq = NoReq
    Shared = TRUE
    TTL = 2
    Budget = 1
    MaxRecords = 1
    SweepBudget = 1
    MaxTime = 4
    MaxCrashes = 1
SPECIFICATION Spec
SYMMETRY Symmetry
INVARIANTS TypeOK OncePerWindow ReplyAge
PROPERTY ImplementsOnce
CHECK_DEADLOCK FALSE
