SPECIFICATION Spec
CONSTANTS
    Null = Null
    BufSize = 2
    MaxReadNull = 1
    Packets <- SinglePackets
    MaxCopies = 2
INVARIANTS
    TypeOK
    OneReader
    NoDuplicateDelivery
PROPERTIES
    StoredIsRead
\* behaviours end when every packet has arrived MaxCopies times
CHECK_DEADLOCK FALSE
