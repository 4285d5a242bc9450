\* As without a lookahead thread, a B-ref may be given before an IDR frame.
CONSTANTS
  SlicetypeLength = 3
  SyncLookahead = 0
  ThreadFrames = 1
  VfrInput = 1
  BFrames = 3
  Pyramid = 2
  References = 5
  GivenTypes = TRUE
  BRefBeforeIdr = TRUE
  MaxFrames = 6
  Pts <- MCPts
SPECIFICATION Spec
INVARIANTS
  FramesConserved
CHECK_DEADLOCK TRUE
