SPECIFICATION Spec
CONSTANTS
  Kinds <- MCKinds
  MaxRetries = 1
  MaxPlans = 2
  MaxCrashes = 0
  MaxResumes = 0
INVARIANTS
  RunningPlanProtected
