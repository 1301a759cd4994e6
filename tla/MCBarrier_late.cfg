\* One thread more than the limit, each calling once. The thread waits for a
\* number forever, which is the point: no deadlock check.
SPECIFICATION FairSpec
CONSTANTS
  Threads = {t1, t2, t3}
  threads_limit = 2
  MallocMayFail = FALSE
  ActionMayFail = FALSE
  MaxCalls = 1
PROPERTIES EveryThreadReturns
CHECK_DEADLOCK FALSE
