SPECIFICATION Spec
SYMMETRY Symmetry
CONSTANTS
    Daemon = {d1, d2}
    Command = {c1, c2}
    MaxStarting = 2
    DialErrors = FALSE
CHECK_DEADLOCK FALSE
INVARIANT
    OneDaemon
