\* Two calls of pool_map with failures of the function, of malloc and of
\* pthread_create, also with more arguments than the pool has room for. A pool
\* that has lost its threads, or its room, stops: no deadlock check.
CONSTANTS
  pool_size = 2
  WorkBlocks = 1
  ResultBlocks = 1
  TaskMayFail = TRUE
  MallocMayFail = TRUE
  MaxArgs = 5
  MaxMaps = 2
SPECIFICATION FairSpec
INVARIANTS TypeOK EachTaskInOnePlace StoredAtItsPlace DestroyedClean
PROPERTIES IsParallelMap EveryCallReturns MapReturns
CHECK_DEADLOCK FALSE
