\* Rolls, retention of one file, crashes at any step, a cleanup and a new channel, and a reader.
CONSTANTS
  Readers = {r1}
  KeepFiles = 1
  MaxSeq = 2
  MaxFiles = 6
  MaxRecords = 1
  MaxCrashes = 2
  MaxEpochs = 1
SPECIFICATION FairSpec
INVARIANTS
  RollLeadsOn
  NoSplice
  ErrorOnlyAfterCleanup
  RecoveryAccepts
  NoRollStranded
PROPERTIES
  FinalForGood
  RollFollowed
CHECK_DEADLOCK FALSE
