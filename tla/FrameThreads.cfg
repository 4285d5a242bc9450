\* Two contexts, two references, failing allocations.
CONSTANTS
  N = 2
  NumRef = 2
  Rows = 3
  Reach = 0
  CanFail = TRUE
SPECIFICATION FairSpec
INVARIANTS
  TypeOK
  FramesAccounted
  NoRecycledInUse
  ReadsOnlyWritten
CHECK_DEADLOCK TRUE
PROPERTIES
  CallsReturn
