\* A lookahead thread and three frame threads, enough frames to go once around
\* the ring with every list in use.  Both threads are scheduled fairly.
CONSTANTS
  SlicetypeLength = 2
  SyncLookahead = 2
  ThreadFrames = 3
  VfrInput = 1
  BFrames = 2
  Pyramid = 2
  References = 3
  GivenTypes = FALSE
  BRefBeforeIdr = FALSE
  MaxFrames = 11
  Pts <- MCPts
SPECIFICATION FairSpec
INVARIANTS
  TypeOK
  FramesConserved
  ShiftsFit
  NeverStarves
  DelayBounded
  OutputInCodedOrder
  DecodedBeforeShown
PROPERTIES
  EncodeReturns
  FlushEnds
  CloseReturns
CHECK_DEADLOCK TRUE
