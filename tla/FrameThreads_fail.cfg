\* A slice may fail with frame threads: does the close return?
CONSTANTS
  N = 2
  NumRef = 2
  Rows = 3
  Reach = 0
  CanFail = TRUE
SPECIFICATION FairSpec
CHECK_DEADLOCK TRUE
PROPERTIES
  CloseReturns
