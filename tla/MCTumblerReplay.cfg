SPECIFICATION Spec
CONSTANTS
  Kinds <- MCKinds
  MaxRetries = 0
  MaxPlans = 1
  MaxCrashes = 1
  MaxResumes = 1
INVARIANTS
  NoReplay
