\* Three threads, one of them with a timeout.
CONSTANTS
  t1 = t1
  t2 = t2
  t3 = t3
  Threads <- SomeThreads
  Timed <- OneTimed
  Iterations = 2
SPECIFICATION FairSpec
INVARIANTS TypeOK NoLostUpdate
PROPERTIES CountsAll
