SPECIFICATION Spec
CONSTANTS
    Null = Null
    BufSize = 5
    MaxReadNull = 1
    Packets <- MixedPackets
    MaxCopies = 1
INVARIANTS
    ResultsCoherent
    SingleAckTruthful
PROPERTIES
    ListenerSurvives
    ExactlyOnceAtRest
    EndAckOnce
    AccountKept
\* behaviours end when every packet has arrived MaxCopies times
CHECK_DEADLOCK FALSE
