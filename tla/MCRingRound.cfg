SPECIFICATION FairSpec
CONSTANTS
    N = 2
    MaxFaults = 3
INVARIANTS
    TypeOK
    TxImpliesChannels
    CancelMeansUnsigned
PROPERTIES
    ImplementsAtomicRing
    RoundCompletes
CHECK_DEADLOCK FALSE
