CONSTANTS
  Pages = {p1, p2, p3}
  PageSizes = {2}
  DS_MEMORY_POOL_MAX_FREE_PAGES = 2
  NoPage = NoPage
  Threads = {t1, t2}
  Removers = {t1}
  NoBlock = NoBlock
  Data = {d, e}
  NoData = NoData
  FirstAllocation = 2
  KeptAllocation = 2
  ForcedSizes = {0, 1, 3}
  MaxSize = 3
  NoItem = NoItem
  Unset = Unset
  Keys = {1, 2, 3}
  HASH_SIZE = 2
  MaxBits = {30, 45}
  NoNode = NoNode
  order = 2
  MaxPages = 12
SYMMETRY PageSymmetry
SPECIFICATION Spec
INVARIANT TypeOK
INVARIANT BlocksAccountedFor
INVARIANT PagesKept
INVARIANT StreamCarries
INVARIANT KeysKept
INVARIANT ShortestFound
PROPERTY SequencesKept
PROPERTY OrderedListIsMap
PROPERTY HeapIsPriorityQueue
PROPERTY HashIsStacks
PROPERTY RangesKept
PROPERTY LinkedListIsCursorList
PROPERTY TreeIsSet
CHECK_DEADLOCK FALSE
