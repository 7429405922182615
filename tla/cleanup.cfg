SPECIFICATION FairSpec
CONSTANTS
  Runners = {r1}
  None = None
  MaxUserEdits = 2
  MaxGraphEdits = 2
  MaxCrashes = 2
  MaxRetries = 1
INVARIANTS
  TypeOK
  StoppedHasRow
PROPERTIES
  CleanAtCommit
  ImplementsCleanupLife
  PendingSettles
