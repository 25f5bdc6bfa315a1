SPECIFICATION Spec
CONSTANTS
  MaxSeq = 2
  MaxIndex = 3
  RetireBound = 1
  FileBound = 1
INVARIANTS
  MappedInFile
  ReleasedInTime
PROPERTIES
  NeverTruncates
CHECK_DEADLOCK FALSE
