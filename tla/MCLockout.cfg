SPECIFICATION LockoutSpec
CONSTANTS
    MaxTime = 16
    MaxDelay = 1
    Second = 1
    Addr = {a1}
    Unit = 1
    RateBurst = 1
    RefillRate = 1
    BlockAfter = 8
    BlockWindow = 6
    BlockFor = 7
    GlobalBurst = 1
    GlobalRate = 0
    PakeTimeout = 1
    MaxPending = 2
INVARIANTS
    LockoutTypeOK
    SweepUnnoticed
