CONSTANTS
  Threads = {t1, t2, t3}
  NumThreads = 2
  MaxTasks = 1
  MaxStarts = 2
  NoTask = NoTask
SPECIFICATION FairSpec
INVARIANT IsWorkingTellsAll
CHECK_DEADLOCK FALSE
