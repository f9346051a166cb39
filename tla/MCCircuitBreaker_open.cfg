SPECIFICATION Spec
CONSTANTS
  Calls = {c1, c2, c3}
  c1 = c1
  c2 = c2
  c3 = c3
  Attempts = 2
  FailureThreshold = 1
  Window = 1
  Cooldown = 1
  MaxTime = 2
  None = None
PROPERTY OpenCircuitIsObserved
CHECK_DEADLOCK FALSE
