SPECIFICATION Spec
CONSTANTS
    s1 = s1
    s2 = s2
    i1 = i1
    i2 = i2
    Sessions <- TwoSessions
    Inputs <- OneInput
    MaxRevision = 1
    MaxActive = 2
    MaxVerified = 1
    MaxCrashes = 0
INVARIANT ActiveKeepsInputs
