\* Four jobs, two of which share a temporary file.
CONSTANTS
  w1 = w1
  w2 = w2
  low = low
  high = high
  other = other
  empty = empty
  piece = piece
  audio1 = audio1
  audio2 = audio2
  Workers = {w1, w2}
  Jobs = {low, high, other, empty}
  NoFile = NoFile
  Partial = Partial
  NoJob = NoJob
  FirstPiece <- MCFirstPiece
  Folder <- MCFolder
  MaxCrashes = 2
SPECIFICATION Spec
INVARIANT MovieIsOwn
SYMMETRY Symmetry
CHECK_DEADLOCK TRUE
