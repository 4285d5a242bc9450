\* Four slices.
CONSTANT NSlices = 4
SPECIFICATION FairSpec
INVARIANT PassesOfThisPicture
PROPERTIES
  FailureStops
  CallsReturn
CHECK_DEADLOCK TRUE
