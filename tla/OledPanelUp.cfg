CONSTANTS
  Width = 3
  Pages = 1
  PageRows = 2
  Wrap = 4
  MaxCalls = 2
SPECIFICATION Spec
PROPERTIES UpKeyMovesUp
CHECK_DEADLOCK FALSE
