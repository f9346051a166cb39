SPECIFICATION StreamSpec
CONSTANTS
  Calls = {c1}
  c1 = c1
  Attempts = 2
  FailureThreshold = 1
  Window = 1
  Cooldown = 1
  MaxTime = 1
  None = None
  MaxEvents = 2
INVARIANT FeedShowsTheResult
CHECK_DEADLOCK FALSE
