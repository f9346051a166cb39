SPECIFICATION FairSpec
CONSTANTS
  None = None
  Block1MaxPasses = 2
  MaxPreGateRefines = 1
  MaxBacktracks = 2
  MaxOrphans = 1
INVARIANTS WalksTheApprovedPlan WalksItsOwnSession NoSessionIsForgotten
  StatusTellsTheStory CompletedClosesTheRun
PROPERTY RunEnds
