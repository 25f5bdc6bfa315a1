SPECIFICATION LiveSpec
CONSTANTS
  Keep = 1
  DoomedQueue = 2
  MaxSeq = 3
INVARIANT
  JoinsTail
CHECK_DEADLOCK FALSE
