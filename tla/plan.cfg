SPECIFICATION FairSpec
CONSTANTS
  goal = goal
  helper = helper
  None = None
  Nodes = {goal, helper}
  Order <- ListOrder
  FileOf <- TwoFiles
  ParentOf <- SplitParents
  Generated = {helper}
  Uncertain = {}
  Writers = {w}
  Rewires <- ProofEdge
  ExternalClaim = FALSE
  MaxChanges = 3
INVARIANTS
  TypeOK
PROPERTIES
  ImplementsNodeLife
  SyncGrounded
  StaleProofFalls
  SolvedIsProved
CHECK_DEADLOCK FALSE
