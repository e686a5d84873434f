SPECIFICATION FairSpec
CONSTANTS
    MaxTime = 3
    MaxDelay = 0
    Second = 1
    Prs = {p1}
    MaxPastes = 1
    MinCandidates = 2
    MaxCandidates = 4
    Addr = {a1}
    Unit = 1
    RateBurst = 1
    RefillRate = 1
    BlockAfter = 2
    BlockWindow = 2
    BlockFor = 2
    GlobalBurst = 1
    GlobalRate = 1
    Conn = {c1}
    Request = {r1, r2}
    Shares = {"good"}
    GetLimits = {1}
    Ttls = {1}
    MaxConns = 1
    PakeTimeout = 0
    IoTimeout = 1
    IdleTimeout = 1
    LastArrival = 1
    Interrupts = TRUE
PROPERTIES
    IdleDecisionSound
    HandlersReturn
    PostsAnswered
    UnusedDaemonExits
