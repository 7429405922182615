SPECIFICATION Spec
CONSTANTS
  Jobs = {j1}
  Callers = {c1, c2}
  Killers = {c2}
  Cap = 1
  MaxAttempts = 2
  MaxCrashes = 0
  WriteFaults = TRUE
  None = None
INVARIANTS
  OneBackendPerJob
  ResultOfItsLaunch
PROPERTIES
  VerdictsStand
  ImplementsLedger
  NonceStartsOnce
CHECK_DEADLOCK FALSE
