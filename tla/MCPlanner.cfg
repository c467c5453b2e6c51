SPECIFICATION FairSpec
CONSTANTS
  MaxPods = 4
  Scenarios <- MCScenarios
INVARIANTS TypeOK OneChangeAtATime ConfigMapNotBehind RemovedHaveDrained NeverUnexplained
PROPERTIES LeaversComeBackEmpty TemplateWhenStable Settles
CHECK_DEADLOCK FALSE
