SPECIFICATION FairSpec
CONSTANTS
  f1 = f1
  f2 = f2
  f3 = f3
  b1 = b1
  pf = pf
  pg = pg
  pb = pb
  None = None
  Threads = {f1, f2, b1}
  Processes = {pf, pb}
  ProcessOf <- Small
  Background = {pb}
  DefaultGrace = FALSE
  MarkerFaults = FALSE
  MaxDepth = 2
INVARIANTS
  TypeOK
  MutualExclusion
  RetainedHoldsSlot
PROPERTIES
  BackgroundYields
  ForegroundAdmitted
  RetainedRefuses
  BackgroundProceeds
CHECK_DEADLOCK FALSE
