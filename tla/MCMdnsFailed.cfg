SPECIFICATION Spec
CONSTANTS
    Host = {h1}
    Watched = {h1}
    Iface = {w}
    Lan = {n1, n2}
    Home = n1
    Plugged = {w}
    Ip <- MCDistinctIp
    w = w
    n2 = n2
    Bursts = 1
    AnnounceMin = 1
    AnnounceMax = 2
    PeerLifetime = 4
    MaxFaults = 2
INVARIANT
    NetLoopSurvives
