SPECIFICATION Spec
CONSTANTS
    SocketIds = {"s1", "s2", "s3", "s4"}
    Clients = {"c1", "c2"}
    SocketApps = {"a1", "a2"}
    ClientOf <- SocketClient
    AppOf <- SocketApp
    SessionKeys = {"k1", "k2"}
    PingTimeout = 1
    IdleTimeout = 3
    MaxMissed = 1
    MaxRounds = 5
    MaxConnects = 2
    PipeRequests = {"q1", "q2", "q3"}
    MaxNotes = 1
    Servers = {"x1", "x2"}
    ServerNames = {"n1"}
    NameOf <- OneServerName
    ServerCalls = {"c1", "c2"}
    MaxLaunches = 2
    MaxRowEdits = 1
    AuthCalls = {"r1", "r2", "o1", "o2", "l1", "q1", "f1", "w1"}
    AuthKind <- Kinds
    EmailOf <- OneEmail
    TenantOf <- FirstIsPersonal
    Personal = "personal"
    GivenTenants = {"t1"}
    SlugOf <- OneSlug
    OAuthStates = {"x1"}
    StateOf <- OneState
    MaxOff = 1
    MaxArrivals = 4
    SessionIds = {"s1", "s2"}
    SessionCalls = {"n1", "n2", "u1", "f1", "d1", "g1"}
    CallOf <- SessionKinds
    SessionOf <- SessionsAsked
INVARIANTS
    TypesOK
    SocketsKept
    AnswersFit
    ServersAccounted
    GoneStaysGone
    AccountsKept
    OutStaysOut
PROPERTIES
    OnlySilentGivenUp
CHECK_DEADLOCK FALSE
