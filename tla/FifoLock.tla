-------------------------------- MODULE FifoLock --------------------------------
(***************************************************************************)
(* A lock that serves its callers in the order in which they asked for it: *)
(* the first in the queue may enter, and leaves the queue when it releases *)
(* the lock.                                                               *)
(***************************************************************************)
EXTENDS Sequences

CONSTANT Threads

VARIABLES queue,   \* the threads that have asked, the first first
          inside   \* the threads in the critical section

vars == <<queue, inside>>

Init == queue = <<>> /\ inside = {}

Ask(t) == /\ \A p \in DOMAIN queue : queue[p] # t
          /\ queue' = Append(queue, t)
          /\ UNCHANGED inside

Enter(t) == /\ queue # <<>>
            /\ t = Head(queue)
            /\ inside = {}
            /\ inside' = {t}
            /\ UNCHANGED queue

Leave(t) == /\ inside = {t}
            /\ queue' = Tail(queue)
            /\ inside' = {}

Next == \E t \in Threads : Ask(t) \/ Enter(t) \/ Leave(t)

Spec == Init /\ [][Next]_vars
===============================================================================
