SPECIFICATION Spec
CONSTANTS
  ClockIDs <- MCClockIDs
  Value <- MCValue
  Item <- TwoItems
  Key = {k1}
  Writer = {w1, w2}
  MaxBatch = 2
  MinTier = 2
  Faults = {"wal", "rotate", "seal", "sstable", "manifest", "unlink", "undelete"}
  MaxFlush = 2
  MaxSuffix = 2
  MaxRestart = 1
SYMMETRY Symmetry
INVARIANTS TypeOK Recoverable AckedVisible RestoreHides SSTablesInPlace RestartChangesNothing OpenSucceeds
CHECK_DEADLOCK FALSE
