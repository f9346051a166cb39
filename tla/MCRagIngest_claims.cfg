SPECIFICATION FairSpec
CONSTANTS
  appended = appended
  fresh = fresh
  Files <- MCFiles
  Watched <- MCFiles
  Tagged <- MCTagged
  MaxUploads = 2
  MaxCopies = 2
  MaxFaults = 1
  QueueSize = 2
  InitialCleaners = 1
  MaxCleaners = 2
  QueueThreshold = 0
\* Each is violated; to see one, leave it alone uncommented.
INVARIANT AckedIsKept
\* INVARIANT EmbeddedOnce
\* PROPERTY EveryUploadIsEmbedded
CHECK_DEADLOCK FALSE
