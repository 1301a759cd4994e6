\* A thread that counts and one whose timed acquire may run out.
CONSTANTS
  Threads = {t1, t2}
  Timed = {t2}
  Tickets = 16
  Iterations = 2
SPECIFICATION FairSpec
PROPERTIES CountsAll
CHECK_DEADLOCK FALSE
