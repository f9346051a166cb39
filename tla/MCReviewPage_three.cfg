SPECIFICATION Spec
CONSTANTS
  anna = anna
  ben = ben
  None = None
  Pages <- MCPages
  MaxPlans = 2
  MaxClicks = 3
SYMMETRY PageSymmetry
INVARIANTS TypeOK PanelIsTruthful LockIsTruthful
CHECK_DEADLOCK FALSE
