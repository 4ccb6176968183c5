SPECIFICATION Spec
CONSTANTS
    Tasks = {t1, t2}
    MaxLanes = 1
    MaxQueueSize = 1
    Priorities = {0}
    MaxTenantTasks = 2
    FaultKinds = {}
    MaxFaults = 0
SYMMETRY Symmetry
INVARIANTS
    WaitingLaneIsBusy
CHECK_DEADLOCK FALSE
