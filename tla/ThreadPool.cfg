\* Three threads, the smallest pool in which one worker sleeps, one runs and
\* one is between its push and its broadcast, and two contexts.  Every thread
\* is scheduled fairly.
CONSTANTS
  Threads = 3
  a1 = a1
  a2 = a2
  Args <- MCArgs
  NoArg = NoArg
  NoJob = NoJob
SPECIFICATION FairSpec
INVARIANTS
  TypeOK
  JobsConserved
  NoLostWakeup
  DoneArgsDistinct
  WaitReturnsOwnResult
  DeleteFreesEveryJob
  NoSleepForRoom
PROPERTIES
  WaitReturns
  DeleteReturns
  QueuedJobStarts
  ImplementsTaskPool
CHECK_DEADLOCK TRUE
