CONSTANTS
  a = a b = b c = c
  Node = {a, b, c}
  MaxMissed = 1
  Write = {w1}
  Ring <- MCRing
  Scenarios <- MCScenarios
SPECIFICATION FairSpec
INVARIANTS TypeOK SeenIsHeld HandoffComplete StoppedLosesNothing StoppedIsUnused
PROPERTIES ViewsKept ViewsSpread LeaversDrain
CHECK_DEADLOCK FALSE
