SPECIFICATION BoundedSpec
CONSTANTS
    Tasks = {t1, t2, t3, t4}
    MaxLanes = 1
    MaxQueueSize = 2
    Priorities = {0, 1}
    MaxTenantTasks = 4
    FaultKinds = {"crash", "failure", "lapse"}
    MaxFaults = 2
SYMMETRY Symmetry
INVARIANTS
    RestartRestores
    NoOvertaking
    HandedOnce
    LaneSerial
    SavedLaneBusy
PROPERTIES
    ImplementsSchedule
CHECK_DEADLOCK FALSE
