\* No lookahead thread, one frame at a time, up to two B-refs in a mini-GOP.
CONSTANTS
  SlicetypeLength = 3
  SyncLookahead = 0
  ThreadFrames = 1
  VfrInput = 1
  BFrames = 3
  Pyramid = 2
  References = 5
  GivenTypes = TRUE
  BRefBeforeIdr = FALSE
  MaxFrames = 9
  Pts <- MCPts
SPECIFICATION FairSpec
INVARIANTS
  InlineGuarantees
PROPERTIES
  FlushEnds
CHECK_DEADLOCK TRUE
