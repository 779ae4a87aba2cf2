SPECIFICATION Spec
CONSTANTS
    Null = Null
    Size = 3
    InitSeq = 1
    Data <- MCData
    Offerers = {o1}
    MaxOffers = 6
INVARIANTS
    TypeOK
    CountBounded
    NoHiddenChunk
    CountIsBalance
PROPERTIES
    CyclicOrder
    HeadIsRead
    ImplementsChunkStore
\* behaviours end when MaxOffers offers were accepted and the reader is gone
CHECK_DEADLOCK FALSE
