CONSTANTS
    FirstEnd = "in"
    MaxFaults = 1
    MaxCrashes = 1
SPECIFICATION FairSpec
PROPERTIES
    RetirementCompletes
    UnsignedOrphanRetires
