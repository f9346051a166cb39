SPECIFICATION Spec
CONSTANTS
  anna = anna
  ben = ben
  None = None
  Pages <- OnePage
  MaxPlans = 2
  MaxClicks = 3
INVARIANT PanelFollowsTheGate
CHECK_DEADLOCK FALSE
