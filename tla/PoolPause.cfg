CONSTANTS
  Threads = {t1}
  NumThreads = 1
  MaxTasks = 1
  MaxStarts = 1
  NoTask = NoTask
SPECIFICATION FairSpec
PROPERTY PauseEnds
CHECK_DEADLOCK FALSE
