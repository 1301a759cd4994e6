\* One thread more than the limit, each calling up to twice, while the action
\* and malloc may fail. A thread may wait forever for a number, or for an action
\* that failed: no deadlock check.
SPECIFICATION FairSpec
CONSTANTS
  Threads = {t1, t2, t3, t4}
  threads_limit = 3
  MallocMayFail = TRUE
  ActionMayFail = TRUE
  MaxCalls = 2
INVARIANTS TypeOK WakesMatchWaiters
PROPERTIES ReleasedAfterAction IsOneShotBarrier WaitersReleased
CHECK_DEADLOCK FALSE
