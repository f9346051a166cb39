SPECIFICATION Spec
CONSTANTS
  None = None
  Block1MaxPasses = 2
  MaxPreGateRefines = 1
  MaxBacktracks = 1
  MaxOrphans = 1
\* Each is violated; to see one, leave it alone uncommented.
INVARIANT RefinesWithinOneCap
\* PROPERTY AcceptedMeansOk
