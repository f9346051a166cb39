SPECIFICATION Spec
CONSTANTS
  Clients = {c1, c2}
  MaxBufferSize = 2
  Persisting = TRUE
  MaxFrames = 3
  MaxConnects = 2
  None = None
  c1 = c1
  c2 = c2
SYMMETRY ClientSymmetry
INVARIANTS
  SubscriberIsCurrent
  GapsAreEvictions
  AuditGapsAreVisible
PROPERTIES
  StreamsFollowTheLog
CHECK_DEADLOCK FALSE
