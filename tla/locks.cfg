SPECIFICATION Spec
CONSTANTS
  guard = guard
  tool = tool
  worker = worker
  runner = runner
  dir = dir
  f = f
  g = g
  old = old
  NoOne = NoOne
  Actors <- Agents
  Procs = {runner}
  ProcOf <- OneProc
  Owners <- OldAndAgents
  OwnerOf <- OwnIds
  Terminals = {guard}
  Forcing = {}
  Paths <- Tree
  Within <- Below
  ReadFaults = FALSE
  FlockFaults = TRUE
INVARIANTS
  GrantsDisjoint
  TerminalStands
PROPERTIES
  LeaseStands
CHECK_DEADLOCK FALSE
