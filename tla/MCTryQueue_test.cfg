\* The program of cqueuetest.c with two threads on each side and a ring of two
\* blocks; every call may also fail.
SPECIFICATION FairSpec
CONSTANTS
  e1 = e1
  e2 = e2
  d1 = d1
  d2 = d2
  Enqueuers = {e1, e2}
  Dequeuers = {d1, d2}
  JoinOrder <- Joins
  NumItems = 2
  NumBlocks = 2
  BlockSize = 2
  Sizes <- SizesPassed
  MallocMayFail = TRUE
  NoItem = NoItem
INVARIANTS TypeOK EachItemOnce
PROPERTIES IsTryFifo TestPasses
