SPECIFICATION StoreSpec
CONSTANTS
    None = None
    p1 = p1
    p2 = p2
    r1 = r1
    k1 = k1
    k2 = k2
    DataDir = DataDir
    WorkDir = WorkDir
    Keys = {k1, k2}
    Putters = {p1, p2}
    Readers = {r1}
    LenOf <- FirstLong
    StoreAt = 1
    FileMax = 1
    KeepFiles = 1
    MaxFiles = 3
INVARIANTS
    StoreTypeOK
    ThrowsJustified
    IndexTruthful
SYMMETRY ThreadsAlike
CHECK_DEADLOCK FALSE
