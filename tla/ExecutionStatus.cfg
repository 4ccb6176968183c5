SPECIFICATION RuntimeSpec
CONSTANTS
    Agents = {a1}
    Seeded = {a1}
    Deletes = {d1}
    NewStatuses = {"paused"}
    ConfigTTL = 1
    MaxEdits = 1
    MaxAgentTime = 1
    Calls = {c1}
    KindsOf <- ExecutionsOnly
    MaxChunks = 1
INVARIANTS
    FailureIsRecorded
CHECK_DEADLOCK FALSE
