SPECIFICATION Spec
CONSTANTS
  MaxPods = 3
  Scenarios <- FlipScenarios
INVARIANT OneChangeAtATime
CHECK_DEADLOCK FALSE
