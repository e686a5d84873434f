SPECIFICATION FairSpec
CONSTANTS
    Daemon = {d1, d2, d3}
    Command = {c1, c2}
    MaxStarting = 1
    DialErrors = TRUE
CHECK_DEADLOCK FALSE
INVARIANTS
    LifecycleTypeOK
    Reachable
    IdentityPersisted
PROPERTY
    CommandsEnd
