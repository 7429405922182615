SPECIFICATION FairSpec
CONSTANTS
  c1 = c1
  c2 = c2
  d1 = d1
  p = p
  q = q
  None = None
  Contexts = {c1, c2, d1}
  Processes = {p, q}
  ProcessOf <- TwoProcesses
  Leases = {l1, l2, l3, l4, l5}
  Capacity = 1
  MaxDepth = 2
  MaxLeaves = 2
INVARIANTS
  HolderHasSlot
  HolderNeverQueues
  PermitsConserved
PROPERTIES
  QueueMoves
CHECK_DEADLOCK FALSE
