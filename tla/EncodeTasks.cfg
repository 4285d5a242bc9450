\* Two processes on one machine, two encodings of one piece and a sound track.
CONSTANTS
  w1 = w1
  w2 = w2
  v1 = v1
  v2 = v2
  a1 = a1
  machine = machine
  piece = piece
  source = source
  NoTask = NoTask
  Partial = Partial
  Workers <- MCWorkers
  Tasks <- MCTasks
  Machine <- MCMachine
  Kind <- MCKind
  Input <- MCInput
  MaxTick = 1
  MaxCrashes = 1
SPECIFICATION FairSpec
INVARIANTS
  EachTaskOnce
  OutputIsOwn
  NoTempLeft
PROPERTIES
  TaskSettles
CHECK_DEADLOCK TRUE
