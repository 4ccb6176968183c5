SPECIFICATION Spec
CONSTANTS
    Tasks = {t1, t2}
    Callers = {c1, c2}
    Priorities = {1, 2}
    MaxRetries = 1
    Timeout = 1
    MaxTime = 2
    MaxFaults = 1
    Agents = {a1, a2}
    PoolCallers = {p1, p2}
    Serves <- ServesAll
    MaxAgents = 2
    MaxFailures = 2
SYMMETRY Symmetry
INVARIANTS
    QueueTypeOK
    ClaimedOnce
    RetryBudget
    OnePlace
    LostInTransit
    PoolTypeOK
    HolderOwns
    BusyIsHeld
    RedisFollows
CHECK_DEADLOCK FALSE
