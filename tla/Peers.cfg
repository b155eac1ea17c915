SPECIFICATION MCSpec
CONSTANTS
    Addrs = {a1, a2}
    Conns = {k1, k2}
    Dialers = {d1}
    MaxPeers = 0
    MaxTries = 2
    None = None
    Peers = {p1, p2}
    Servers = {p1}
    Xds = {p2}
    SameId = {p2}
    Slices = 2
    Exact = FALSE
    MaxFaults = 1
CHECK_DEADLOCK FALSE
INVARIANTS BothTypeOK TablesMatch InboundBound NoGhostPeers InstalledIsGood
PROPERTIES ClosingEnds InfoArrives
