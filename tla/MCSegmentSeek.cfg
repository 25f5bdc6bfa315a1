\* Retention of three files by a writer that does not crash, and a reader that opens and seeks.
CONSTANTS
  Readers = {r1}
  KeepFiles = 3
  MaxSeq = 5
  MaxFiles = 6
  MaxRecords = 1
  MaxCrashes = 0
  MaxEpochs = 0
SPECIFICATION SeekSpec
INVARIANTS
  RetainsNewest
  LiveJoinsTail
  SeekExact
CHECK_DEADLOCK FALSE
