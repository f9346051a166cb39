SPECIFICATION FairSpec
CONSTANTS
  anna = anna
  ben = ben
  None = None
  Pages <- MCPages
  MaxPlans = 2
  MaxClicks = 2
INVARIANT PanelIsTruthful
PROPERTY EditUnlocks
CHECK_DEADLOCK FALSE
