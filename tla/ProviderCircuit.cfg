CONSTANTS
    Worker = {w1, w2}
    Token = {t1}
    Official = {t1}
    Kind = {"found", "unsafe"}
    Threshold = 2
    OpenFor = 1
    CacheTTL = 1
    Budget = 1
    MaxTime = 4
SPECIFICATION FairSpec
INVARIANTS Sheltered ProbeOwned VerdictIsEvidence
PROPERTIES StaleCannotClose ProbeReleased
CHECK_DEADLOCK FALSE
