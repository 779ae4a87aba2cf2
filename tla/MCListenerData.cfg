SPECIFICATION Spec
CONSTANTS
    Null = Null
    r1 = r1
    r2 = r2
    w1 = w1
    w2 = w2
    k1 = k1
    Receivers = {r1, r2}
    Workers = {w1, w2}
    Datagrams <- OneSource
    MaxArrivals = 3
    MaxClosings = 1
INVARIANTS
    TypeOK
    FlagMeansWorker
    AloneOnQueue
    InOrder
    OneSession
    SweptHasMap
PROPERTIES
    Drained
\* behaviours end when MaxArrivals datagrams were handled
CHECK_DEADLOCK FALSE
