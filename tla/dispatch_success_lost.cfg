SPECIFICATION Spec
CONSTANTS
  Jobs = {j1}
  Callers = {c1}
  Killers = {}
  Cap = 1
  MaxAttempts = 1
  MaxCrashes = 0
  WriteFaults = FALSE
  None = None
INVARIANTS
  DeliverableKept
CHECK_DEADLOCK FALSE
