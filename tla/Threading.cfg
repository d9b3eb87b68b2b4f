CONSTANTS
  MINIMUM_LIST_SIZE = 3
  MaxBlocks = 5
  MaxItems = 3
  MaxClears = 1
  NoBlock = NoBlock
  Threads = {t1, t2, t3}
  NumThreads = 2
  MaxTasks = 2
  MaxStarts = 2
  NoTask = NoTask
  Servers = {"server"}
  ClientPrograms = {"c1"}
  PortLimit = 4
  NoPort = NoPort
  AssertsIn = {"server"}
  MaxOthers = 2
SPECIFICATION Spec
INVARIANT TypeOK
INVARIANT RingInOrder
INVARIANT EachTaskOnce
INVARIANT QuietWhenSaid
PROPERTY GrowsOnlyWhenFull
PROPERTY EveryItemIsRead
PROPERTY PoolGoesOn
PROPERTY PortsFound
CHECK_DEADLOCK FALSE
