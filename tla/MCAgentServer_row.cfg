SPECIFICATION ServerSpec
CONSTANTS
  reviewGate = reviewGate
  p1 = p1
  p2 = p2
  k1 = k1
  None = None
  Gates <- MCGates
  Submissions <- MCSubmissions
  Posted <- MCPosted
  TargetOf <- MCTargetOf
  Keys <- MCKeys
  KeyOf <- MCKeyOf
  MaxSlots = 2
  MaxSends = 1
  LastFile = 1
  MaxFaults = 0
INVARIANTS RowIsCurrent
CHECK_DEADLOCK FALSE
