SPECIFICATION Spec
CONSTANTS
  reviewGate = reviewGate
  humanVerifyGate = humanVerifyGate
  s1 = s1
  s2 = s2
  s3 = s3
  s4 = s4
  k1 = k1
  k2 = k2
  None = None
  Gates <- MCGates
  Submissions <- MCSubmissions
  TargetOf <- MCTargetOf
  Keys <- MCKeys
  KeyOf <- MCKeyOf
  MaxSlots = 3
  MaxSends = 2
PROPERTY RetryDecidesNothing
CHECK_DEADLOCK FALSE
