\* A group of two readers of two channels: one of two segments, 0 with no record and 1 with one,
\* and one of one segment, 2 with two records; one crash or close of either writer.
CONSTANTS
  r1 = r1
  r2 = r2
  Readers = {r1, r2}
  Group <- MCGroup
  MaxSeg = 2
  ChannelOf <- MCChannelOf
  Reads <- MCReads
  MaxRecords <- MCMaxRecords
  MaxCrashes = 1
SPECIFICATION AnyFairSpec
INVARIANT GroupNoLostWake
PROPERTY GroupNeverHangs
CHECK_DEADLOCK FALSE
