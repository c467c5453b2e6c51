SPECIFICATION FairSpec
CONSTANTS
  ClockIDs <- MCClockIDs
  Value <- MCValue
  Item <- OneItem
  Key = {k1}
  Writer = {w1, w2}
  MaxBatch = 2
  MinTier = 2
  Faults = {"wal", "sstable"}
  MaxFlush = 2
  MaxSuffix = 2
  MaxRestart = 1
PROPERTIES WritesAnswered CloseReturns
CHECK_DEADLOCK FALSE
