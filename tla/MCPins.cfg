SPECIFICATION Spec
SYMMETRY Symmetry
CONSTANTS
    Proc = {p1, p2}
    Host = {h1, h2}
    Name = {n1}
    Spaced = {s1}
    MaxSaves = 6
INVARIANTS
    PinTypeOK
    ReadBack
    BoundedHistory
