\* Two frame threads, nine pictures, at most two B-frames in a row;
\* the build loads a count once.
CONSTANTS
  SlicetypeLength = 2
  SyncLookahead = 1
  ThreadFrames = 2
  BFrames = 2
  ReadsAgain = FALSE
  MaxPictures = 9
SPECIFICATION Spec
INVARIANTS NotReusedInUse HeldWhenReleased
CHECK_DEADLOCK TRUE
