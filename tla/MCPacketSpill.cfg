SPECIFICATION Spec
CONSTANTS
    s1 = s1
    s2 = s2
    None = None
    DataDir = DataDir
    WorkDir = WorkDir
    Keys = {1, 2}
    Putters = {s1, s2}
    OwnerOf <- OneEach
    Readers = {}
    LenOf <- OneCell
    StoreAt = 9
    FileMax = 1
    KeepFiles = 1
    MaxFiles = 2
    Overhead = 1
    MaxMemory = 1
    Slack = 1
    LowWater = 1
    VarSize = 1
INVARIANTS
    NothingLost
    AccountBalanced
PROPERTIES
    WaitEnds
CHECK_DEADLOCK FALSE
