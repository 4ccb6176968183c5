SPECIFICATION QueueSpec
CONSTANTS
    Tasks = {t1}
    Callers = {c1, c2}
    Priorities = {2}
    MaxRetries = 1
    Timeout = 1
    MaxTime = 2
    MaxFaults = 1
INVARIANTS
    RecoveryKeepsTasks
CHECK_DEADLOCK FALSE
