\* Four threads, each of which may wait, broadcast and signal.
\* All of them may come to sleep, and then nothing happens any more.
CONSTANTS
  Threads = {t1, t2, t3, t4}
  NoThread = NoThread
SPECIFICATION FairSpec
PROPERTIES
  ImplementsCondVar
  BroadcastEnds
CHECK_DEADLOCK FALSE
