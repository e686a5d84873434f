SPECIFICATION Spec
SYMMETRY Symmetry
CONSTANTS
    MaxTime = 5
    MaxDelay = 0
    Second = 1
    Prs = {p1}
    MaxPastes = 1
    MinCandidates = 2
    MaxCandidates = 4
    Addr = {a1}
    Unit = 1
    RateBurst = 1
    RefillRate = 1
    BlockAfter = 2
    BlockWindow = 2
    BlockFor = 2
    GlobalBurst = 1
    GlobalRate = 1
    Conn = {c1}
    Request = {r1}
    Shares = {"good"}
    GetLimits = {1}
    Ttls = {1, 3}
    MaxConns = 2
    PakeTimeout = 1
    IoTimeout = 1
    IdleTimeout = 1
    LastArrival = 3
    Interrupts = TRUE
INVARIANT
    NeverStopsHoldingPaste
