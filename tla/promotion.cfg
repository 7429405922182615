SPECIFICATION FairSpec
CONSTANTS
  goal = goal
  helper = helper
  None = None
  Nodes = {goal, helper}
  Order <- ListOrder
  FileOf <- TwoFiles
  ParentOf <- SplitParents
  Generated = {helper}
  Uncertain = {}
  Ids = {1, 2}
  Written = {"stated", "proved"}
  MaxUserEdits = 2
  MaxGraphEdits = 1
  MaxCrashes = 1
  MaxOutages = 1
INVARIANTS
  FalsityHasRecord
PROPERTIES
  CommitsAgreedGraph
  WithdrawalReopens
  AlignedSettles
