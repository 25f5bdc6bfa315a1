\* A segment of two and a half regions and its writers: three records, two crashes.
CONSTANTS
  RegionSize = 4096
  FileRollSize = 10240
  Sizes <- MCSizes
  Metas = {1}
  Readers = {}
  MaxRecords = 3
  MaxCrashes = 2
SPECIFICATION Spec
INVARIANTS
  ChainIsWalk
  RecoveryAccepts
  RollHasRoom
  PairExact
PROPERTY CommittedForGood
CHECK_DEADLOCK FALSE
