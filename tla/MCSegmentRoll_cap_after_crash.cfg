\* Retention of one file by a writer that crashes between a roll and its prune.
CONSTANTS
  Readers = {r1}
  KeepFiles = 1
  MaxSeq = 3
  MaxFiles = 5
  MaxRecords = 1
  MaxCrashes = 1
  MaxEpochs = 0
SPECIFICATION Spec
INVARIANT RetainedWindow
CHECK_DEADLOCK FALSE
