SPECIFICATION PlanningSpec
CONSTANTS
    Chats = {h1, h2}
    Requests = {r1, r2}
    Keys = {k1}
    k1 = k1
    KeyOf <- SameKey
    MaxRetries = 1
    BaseDelay = 1
    MaxDelay = 1
    AnswerTTL = 1
    MaxChatTime = 2
    Routings = {"c1", "c2"}
    Intents = {"information_query", "multi_step"}
    Decompositions <- SmallPlans
    MailRoles = {"code", "doc"}
    Posts = {"p1", "p2", "p3", "p4"}
    PostKind <- SmallKinds
    PostTo <- SmallTo
    Readers = {"a1", "a2"}
    ReaderOf <- SmallReaders
INVARIANT ClientErrorsNotRetried
CHECK_DEADLOCK FALSE
