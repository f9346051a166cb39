SPECIFICATION FairSpec
CONSTANTS
  Calls = {c1, c2, c3}
  c1 = c1
  c2 = c2
  c3 = c3
  Attempts = 2
  FailureThreshold = 2
  Window = 1
  Cooldown = 1
  MaxTime = 3
  None = None
INVARIANTS
  ProbeIsAccountedFor
PROPERTIES OpensOnRecentFailures EveryCallEnds
CHECK_DEADLOCK FALSE
