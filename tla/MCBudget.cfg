SPECIFICATION BudgetSpec
CONSTANTS
    MaxTime = 7
    MaxDelay = 1
    Second = 1
    Addr = {a1}
    Unit = 2
    RateBurst = 1
    RefillRate = 1
    BlockAfter = 3
    BlockWindow = 4
    BlockFor = 3
    GlobalBurst = 2
    GlobalRate = 1
INVARIANTS
    BudgetTypeOK
    GuessBound
    PeerBound
