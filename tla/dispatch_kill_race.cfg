SPECIFICATION Spec
CONSTANTS
  Jobs = {j1}
  Callers = {c1, c2}
  Killers = {c2}
  Cap = 1
  MaxAttempts = 1
  MaxCrashes = 0
  WriteFaults = FALSE
  None = None
INVARIANTS
  KilledAfterExit
CHECK_DEADLOCK FALSE
