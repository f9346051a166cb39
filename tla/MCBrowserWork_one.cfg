SPECIFICATION Spec
CONSTANTS
  MaxSessions = 2
  MaxIterations = 1
  MaxCalls = 1
  CalledTools = {"click"}
  MaxRounds = 1
  None = None
INVARIANT OneSubprocess
