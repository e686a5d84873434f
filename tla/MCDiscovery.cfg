SPECIFICATION FairSpec
CONSTANTS
    Host = {h1, h2}
    Watched = {h1}
    Iface = {w, e}
    Lan = {n1, n2}
    Home = n1
    Plugged = {w}
    Ip <- MCIp
    w = w
    n2 = n2
    Bursts = 2
    AnnounceMin = 1
    AnnounceMax = 2
    PeerLifetime = 4
    MaxFaults = 2
INVARIANTS
    DiscoveryTypeOK
    KeptAlive
    EntriesExpire
PROPERTY
    Converges
