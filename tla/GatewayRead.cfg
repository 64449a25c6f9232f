CONSTANTS
    Worker = {w1, w2}
    Cooldown = 2
    OpBudget = 1
    Endpoints = 2
    Prefix = 2
    FailThreshold = 2
    OpenDuration = 2
    AttemptBudget = 1
    TTL = 2
    MaxTime = 5
SPECIFICATION ReadSpec
SYMMETRY Symmetry
INVARIANTS ProbeRunsAlone ProbeSlot WindowIsEarned WindowShelters AttemptBound AnswersAreFresh
PROPERTIES CooldownHolds RedisSpec PoolSpec
CHECK_DEADLOCK FALSE
