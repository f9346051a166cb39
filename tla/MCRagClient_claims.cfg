SPECIFICATION Spec
CONSTANTS
  run1 = run1
  run2 = run2
  runbooks = runbooks
  Runs <- MCRuns
  Collections <- MCCollections
  Requests <- MCRequests
  MaxCalls = 2
  Retries = 1
  MaxFaults = 1
\* Each is violated; to see one, leave it alone uncommented.
PROPERTY EmptyMeansMissing
\* PROPERTY FoundIsKept
CHECK_DEADLOCK FALSE
