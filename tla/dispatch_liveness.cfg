SPECIFICATION FairSpec
CONSTANTS
  Jobs = {j1}
  Callers = {c1}
  Killers = {c1}
  Cap = 1
  MaxAttempts = 2
  MaxCrashes = 2
  WriteFaults = FALSE
  None = None
INVARIANTS
  SpawnsBounded
  BackendHoldsSlot
PROPERTIES
  NoLaterWrite
  LaunchResolves
  RunningResolves
  SuccessIsHarvested
CHECK_DEADLOCK FALSE
