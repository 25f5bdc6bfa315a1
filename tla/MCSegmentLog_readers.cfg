\* A segment that never rolls by size, so that the file grows a region at a time, and a reader
\* beside its writers: two records, one crash.
CONSTANTS
  RegionSize = 4096
  FileRollSize = 0
  Sizes <- MCSizesEdge
  Metas = {1}
  Readers = {r1}
  MaxRecords = 2
  MaxCrashes = 1
SPECIFICATION FairSpec
INVARIANTS
  ChainWellFormed
  ReaderExact
  RollContinuous
PROPERTIES
  ImplementsLog
  Delivered
  LiveOpenEnds
CHECK_DEADLOCK FALSE
