SPECIFICATION FairServerSpec
CONSTANTS
  reviewGate = reviewGate
  p1 = p1
  p2 = p2
  k1 = k1
  None = None
  Gates <- MCGates
  Submissions <- MCSubmissions
  Posted <- MCPosted
  TargetOf <- MCTargetOf
  Keys <- MCKeys
  KeyOf <- MCKeyOf
  MaxSlots = 2
  MaxSends = 2
  LastFile = 2
  MaxFaults = 1
INVARIANTS AnswersAreTrue AcceptedIsOnRecord MigratedOnce DroppedRunIsClosed
PROPERTY BootServes
CHECK_DEADLOCK FALSE
