SPECIFICATION Spec
CONSTANTS
    Agents = {a1, a2}
    Seeded = {a1}
    Deletes = {d1}
    NewStatuses = {"deprecated"}
    ConfigTTL = 1
    MaxEdits = 1
    MaxAgentTime = 1
    Calls = {c1, c2}
    KindsOf <- TwoKindsOf
    c1 = c1
    c2 = c2
    MaxChunks = 1
    Apps = {p1}
    Convs = {v1}
    Adds = {m1, m2, m3}
    Runs = {u1}
    Removals = {x1}
    Adders = {"a1", "a2", "a3"}
    Clearers = {"x1"}
    Summarisers = {"s1"}
    Importances = {0, 1}
    Sizes = {1, 2}
    Keep = 2
    SummaryFrom = 2
    Budget = 3
    MaxCrashes = 1
    Publishes = {"p1", "p2"}
    PluginName <- OneName
    Installs = {"i1", "i2", "i3"}
    Uninstalls = {"u1", "u2"}
    OfPlugin <- FirstPlugin
    OfTenant <- TwoTenants
    MaxStatusEdits = 1
    NodeIds = {"a", "b"}
    PageCalls = {"add", "replace", "delete", "update", "validate"}
    PageCallOf <- PageEdits
    FirstPages <- SmallTrees
    ToolIndexes = {0, 1}
    MaxChunksSent = 4
    MaxAnswers = 2
INVARIANTS
    TypesOK
    StatusTellsOutcome
    LaterMessagesLater
    DeletedWithApp
    MemoryKept
    CountsInstallations
    WalksFit
    ProtocolKept
PROPERTIES
    StaleForTTL
    ImplementsEventStream
CHECK_DEADLOCK FALSE
