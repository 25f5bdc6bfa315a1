\* DOOMED_QUEUE at its value in prefault.rs.
SPECIFICATION Spec
CONSTANTS
  Keep = 1
  DoomedQueue = 2
  MaxSeq = 3
INVARIANT ExceedsByQueue
CHECK_DEADLOCK FALSE
