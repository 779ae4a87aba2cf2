SPECIFICATION Spec
CHECK_DEADLOCK FALSE
CONSTANTS
    Clients = {c1, c2}
    Peer = Peer
    c1 = c1
    NullKey = NullKey
    None = None
    Address <- OneAddress
    MaxShares = 3
    MaxSessions = 3
    MaxSends <- FirstTwice
    MaxCloses = 2
    MaxDepth = 4
INVARIANTS
    TypeOK
    YoungStaysOpen
    OpenIsRegistered
    UnusedIsClosed
