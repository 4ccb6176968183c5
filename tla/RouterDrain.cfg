SPECIFICATION FairSpec
CONSTANTS
    Tasks = {t1, t2}
    MaxLanes = 1
    MaxQueueSize = 1
    Priorities = {0}
    MaxTenantTasks = 2
    FaultKinds = {}
    MaxFaults = 0
PROPERTIES
    BusyLaneDrains
CHECK_DEADLOCK FALSE
