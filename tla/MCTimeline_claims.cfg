SPECIFICATION Spec
CONSTANTS
  Clients = {c1}
  MaxBufferSize = 1
  Persisting = TRUE
  MaxFrames = 4
  MaxConnects = 2
  None = None
  c1 = c1
\* Each is violated; to see one, leave it alone uncommented.
INVARIANT SequenceIsMonotonic
\* INVARIANT StoredInSequence
\* INVARIANT FailureIsTheEnd
\* INVARIANT HolesAreAnnounced
CHECK_DEADLOCK FALSE
