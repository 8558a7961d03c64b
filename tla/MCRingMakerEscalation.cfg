CONSTANTS
    FirstEnd = "out"
    MaxFaults = 1
    MaxCrashes = 0
SPECIFICATION Spec
PROPERTIES
    LiveNeverEscalated
