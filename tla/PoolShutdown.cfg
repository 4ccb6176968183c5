SPECIFICATION Spec
CONSTANTS
    Tasks = {t1}
    Callers = {c1}
    Priorities = {2}
    MaxRetries = 0
    Timeout = 1
    MaxTime = 0
    MaxFaults = 0
    Agents = {a1}
    PoolCallers = {p1, p2}
    Serves <- ServesAll
    MaxAgents = 1
    MaxFailures = 0
PROPERTIES
    ShutdownIsFinal
CHECK_DEADLOCK FALSE
