CONSTANTS
    FirstEnd = "out"
    MaxFaults = 1
    MaxCrashes = 1
SPECIFICATION Spec
INVARIANTS
    TypeOK
    SignatureImpliesChannels
    RetiredNoOutgoing
    ReleasedImpliesUnsigned
PROPERTIES
    SignedNeverRetires
