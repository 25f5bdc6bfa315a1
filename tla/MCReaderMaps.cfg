SPECIFICATION FairSpec
CONSTANTS
  Layout <- MCLayout
  Unmap = "AtFileRoll"
  Batches = {2}
  FileRegions = 2
  MaxSeq = 2
  MaxDiscards = 1
  MaxFaults = 1
INVARIANTS
  MappedIsRead
  GivenOnce
  KeptUntilRoll
PROPERTY FollowsRolls
CHECK_DEADLOCK FALSE
