SPECIFICATION FairSpec
CONSTANTS
  f1 = f1
  f2 = f2
  f3 = f3
  b1 = b1
  pf = pf
  pg = pg
  pb = pb
  None = None
  Threads = {f1, f2}
  Processes = {pf}
  ProcessOf <- OneProcess
  Background = {}
  DefaultGrace = FALSE
  MarkerFaults = TRUE
  MaxDepth = 1
PROPERTIES
  ForegroundAdmitted
CHECK_DEADLOCK FALSE
