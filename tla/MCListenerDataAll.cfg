SPECIFICATION Spec
CONSTANTS
    Null = Null
    r1 = r1
    r2 = r2
    w1 = w1
    w2 = w2
    k1 = k1
    Receivers = {r1}
    Workers = {w1}
    Datagrams <- OneSource
    MaxArrivals = 2
    MaxClosings = 0
PROPERTIES
    AllHandled
\* behaviours end when MaxArrivals datagrams were handled
CHECK_DEADLOCK FALSE
