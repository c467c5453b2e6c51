SPECIFICATION Spec
CONSTANTS
  ClockIDs <- MCClockIDs
  Value <- MCValue
  Item <- TwoItems
  Key = {k1}
  Writer = {w1, w2}
  MaxBatch = 2
  MinTier = 2
  Faults = {"torn"}
  MaxFlush = 2
  MaxSuffix = 1
  MaxRestart = 1
SYMMETRY Symmetry
INVARIANT Recoverable
CHECK_DEADLOCK FALSE
