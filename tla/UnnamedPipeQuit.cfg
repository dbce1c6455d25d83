CONSTANTS
  Ten = 2
  PipeSize = 1
  MaxKeys = 3
SPECIFICATION Spec
PROPERTIES QuitEnds
CHECK_DEADLOCK FALSE
