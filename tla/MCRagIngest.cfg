SPECIFICATION FairSpec
CONSTANTS
  appended = appended
  fresh = fresh
  Files <- MCFiles
  Watched <- MCFiles
  Tagged <- MCTagged
  MaxUploads = 2
  MaxCopies = 2
  MaxFaults = 1
  QueueSize = 1
  InitialCleaners = 1
  MaxCleaners = 2
  QueueThreshold = 0
INVARIANTS NothingIsDestroyed OneCleanerPerPath
PROPERTY UploadsGoThrough
CHECK_DEADLOCK FALSE
