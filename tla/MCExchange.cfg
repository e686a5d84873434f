SPECIFICATION Spec
CONSTANTS
    Prs <- SmallPrs
    MaxPastes = 4
    MinCandidates = 2
    MaxCandidates = 8
    Words <- SmallWords
    Digit = {"0", "1"}
    Capital <- SmallCapital
    GroupLen = 1
    Codes <- SmallCodes
    GetLimits = {1}
    MaxSessions = 3
    PointLen = 32
    MacLen = 32
    Byte = 3
    MaxPasteSize = 1048576
    AeadOverhead = 16
    FrameRoom = 65536
CHECK_DEADLOCK FALSE
INVARIANTS
    ExchangeTypeOK
    OfferSmallest
    NeverAnotherCode
    FoundIfThere
    HonestNeverFails
    DeliveredAsPosted
