CONSTANTS
  FinalVal = 2
  Interrupts = FALSE
  MaxStarts = 2
  MaxKeys = 2
SPECIFICATION Spec
INVARIANTS Exclusive
CHECK_DEADLOCK FALSE
