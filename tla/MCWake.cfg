\* Two segments, three records in each, writers that wake and that do not, two crashes or closes.
CONSTANTS
  Readers = {r1}
  MaxSeg = 1
  ChannelOf <- MCChannelOf
  Reads <- MCReads
  MaxRecords <- MCMaxRecords
  MaxCrashes = 2
SPECIFICATION FairSpec
INVARIANTS
  NoLostWake
  TrustKept
  SlowAtMostTwice
PROPERTY NeverHangs
CHECK_DEADLOCK FALSE
