SPECIFICATION FairSpec
CONSTANTS
    Cand = {c1, c2, c3}
    Local = {c3}
    MinFanOut = 2
    MaxFanOut = 2
    Timeout = 2
    DialTimeout = 1
    PakeTimeout = 1
    IoTimeout = 2
    MaxTime = 6
INVARIANTS
    FetchTypeOK
    NothingDropped
    RefusalHonest
    AnswerPinned
    ReturnsByDeadlines
PROPERTY
    AllEnd
