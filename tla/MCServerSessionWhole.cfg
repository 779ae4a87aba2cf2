SPECIFICATION Spec
CONSTANTS
    Null = Null
    BufSize = 2
    MaxReadNull = 2
    Packets <- PairPackets
    MaxCopies = 1
INVARIANTS
    PostedWhole
\* behaviours end when every packet has arrived MaxCopies times
CHECK_DEADLOCK FALSE
