SPECIFICATION FairSpec
CONSTANTS
  Keep = 1
  DoomedQueue = 1
  MaxSeq = 4
INVARIANTS
  NoResurrection
  WritesWhatIsNamed
  ClosedExact
  ExceedsByQueues
PROPERTIES
  DoomedDeleted
  CloseEnds
CHECK_DEADLOCK FALSE
