\* One thread, one argument, a function that may fail, and nothing else that
\* does. The pool may stop when it has no room: no deadlock check.
CONSTANTS
  pool_size = 1
  WorkBlocks = 1
  ResultBlocks = 1
  TaskMayFail = TRUE
  MallocMayFail = FALSE
  MaxArgs = 1
  MaxMaps = 2
SPECIFICATION Spec
INVARIANTS SuccessFillsResults
CHECK_DEADLOCK FALSE
