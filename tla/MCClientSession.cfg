SPECIFICATION Spec
CONSTANTS
    Null = Null
    s1 = s1
    s2 = s2
    Senders = {s1, s2}
    LengthOf <- TwoAndOne
    StreamSize = 50
    MaxLosses = 1
    MaxNumber = 4
    MaxStored = 1
INVARIANTS
    TypeOK
    ReuseBounded
    EndForgets
    LostOnlyToEnds
PROPERTIES
    ResendAnswered
\* threads block when the numbers are used up
CHECK_DEADLOCK FALSE
