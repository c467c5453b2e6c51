SPECIFICATION Spec
CONSTANTS
  ClockIDs = {A, B}
  Value = {v, u}
  MaxCount = 1
  MaxLayers = 3
  Lists <- MCLists
  Ids = {1, 2, 3}
  Positions = 4
  VNodes = 2
  TreeKeys <- MCKeys
  NumBuckets = 16
INVARIANTS LoopIsMergeSiblings FoldIsMergeAll
INVARIANTS RingIsItsMembers ListIsNearest
INVARIANTS WalkMissesNothing
PROPERTIES JoinsKeepOrder
CHECK_DEADLOCK FALSE
