SPECIFICATION Spec
CHECK_DEADLOCK FALSE
CONSTANTS
    Clients = {c1}
    Peer = Peer
    c1 = c1
    NullKey = NullKey
    None = None
    Address <- OneAddress
    MaxShares = 2
    MaxSessions = 2
    MaxSends <- FirstTwice
    MaxCloses = 1
    MaxDepth = 4
INVARIANTS
    UsedStaysOpen
