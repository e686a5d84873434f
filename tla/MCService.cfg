SPECIFICATION Spec
SYMMETRY Symmetry
CONSTANTS
    MaxTime = 1
    MaxDelay = 0
    Second = 4
    Prs = {p1, p2}
    MaxPastes = 2
    MinCandidates = 2
    MaxCandidates = 4
    Addr = {a1}
    Unit = 1
    RateBurst = 3
    RefillRate = 1
    BlockAfter = 2
    BlockWindow = 2
    BlockFor = 2
    GlobalBurst = 3
    GlobalRate = 1
    Conn = {c1, c2}
    Request = {r1, r2}
    Shares = {"good"}
    GetLimits = {0, 1}
    Ttls = {1}
    MaxConns = 2
    PakeTimeout = 1
    IoTimeout = 1
    IdleTimeout = 5
    LastArrival = 0
    Interrupts = FALSE
INVARIANTS
    TypeOK
    AtMostMaxGets
    GetsAreTakers
    RightBody
    NoResidue
    OfferHidesCount
    SlotsHeld
PROPERTY
    ImplementsService
