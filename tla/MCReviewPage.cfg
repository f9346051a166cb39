SPECIFICATION FairSpec
CONSTANTS
  anna = anna
  ben = ben
  None = None
  Pages <- OnePage
  MaxPlans = 2
  MaxClicks = 3
INVARIANT PanelIsTruthful
PROPERTY EditUnlocks
CHECK_DEADLOCK FALSE
