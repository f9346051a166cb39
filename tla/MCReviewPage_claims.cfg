SPECIFICATION Spec
CONSTANTS
  anna = anna
  ben = ben
  None = None
  Pages <- OnePage
  MaxPlans = 2
  MaxClicks = 3
\* Each is violated; to see one, leave it alone uncommented.
INVARIANT StaleClickIsDiscarded
\* INVARIANT AwaitingIsShown
CHECK_DEADLOCK FALSE
