\* The same encoder in a build that reads the count again.
CONSTANTS
  SlicetypeLength = 2
  SyncLookahead = 1
  ThreadFrames = 2
  BFrames = 2
  ReadsAgain = TRUE
  MaxPictures = 9
SPECIFICATION Spec
INVARIANT HeldWhenReleased
CHECK_DEADLOCK TRUE
