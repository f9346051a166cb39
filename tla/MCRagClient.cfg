SPECIFICATION FairSpec
CONSTANTS
  run1 = run1
  run2 = run2
  runbooks = runbooks
  Runs <- MCRuns
  Collections <- MCCollections
  Requests <- MCRequests
  MaxCalls = 1
  Retries = 1
  MaxFaults = 2
INVARIANTS PoolIsWhole BuiltOnce QuietServiceIsAskedOnce
PROPERTY EveryRetrievalEnds
CHECK_DEADLOCK FALSE
