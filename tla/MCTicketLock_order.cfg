\* Threads that come back forever, one of them with timeouts; the tickets wrap
\* after four.
CONSTANTS
  Threads = {t1, t2, t3}
  Timed = {t3}
  Tickets = 4
  Iterations = 0
SPECIFICATION FairSpec
INVARIANTS TypeOK NoLostUpdate
PROPERTIES IsFifoLock NobodyStarves
CHECK_DEADLOCK FALSE
