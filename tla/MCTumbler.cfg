SPECIFICATION FairSpec
CONSTANTS
  Kinds <- MCKinds
  MaxRetries = 1
  MaxPlans = 1
  MaxCrashes = 1
  MaxResumes = 1
INVARIANTS
  TypeOK
  GateKept
  ReplayNeedsStop
  RetryBudget
  CompletedIsPaid
PROPERTIES
  FinishedStays
  StopEnds
