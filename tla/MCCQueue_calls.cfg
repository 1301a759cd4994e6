\* Every call with every size and error, time-outs of the futex and a thread
\* that mixes the calls. The calls need not match: no deadlock check.
SPECIFICATION Spec
CONSTANTS
  Producers = {p}
  Consumers = {c}
  Others = {o}
  Threads <- MCThreads
  Calls <- MCCalls
  Timed = {p, o}
  NumBlocks = 2
  BlockSize = 2
  Sizes = {0, 1, 2}
  MallocMayFail = TRUE
  MaxCalls = 2
  NoItem = NoItem
INVARIANTS LockHeldByOne RingConsistent
PROPERTIES IsFifo WakeUpsLostByFailuresOnly
CHECK_DEADLOCK FALSE
