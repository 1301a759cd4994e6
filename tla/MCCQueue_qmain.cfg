\* The workload of qmain.c on one block: as many dequeues as enqueues, so that
\* every thread must return.
SPECIFICATION FairSpec
CONSTANTS
  Producers = {p1, p2}
  Consumers = {c1, c2}
  Others = {}
  Threads <- MCThreads
  Calls <- MCCalls
  Timed = {}
  NumBlocks = 1
  BlockSize = 1
  Sizes = {1}
  MallocMayFail = FALSE
  MaxCalls = 2
  NoItem = NoItem
INVARIANTS TypeOK LockHeldByOne NoLostWakeUp
PROPERTIES DrainsAndStops
