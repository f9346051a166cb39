SPECIFICATION FairSpec
CONSTANTS
  MaxSessions = 4
  MaxIterations = 3
  MaxCalls = 2
  CalledTools = {"navigate", "snapshot", "click"}
  MaxRounds = 2
  None = None
INVARIANTS ProfileIsOwn DestructiveFollowsThePlan RefsAreCurrent
PROPERTY NothingSurvivesTheRun
