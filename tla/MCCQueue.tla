------------------------------- MODULE MCCQueue -------------------------------
(***************************************************************************)
(* Instances of CQueue for TLC.                                            *)
(***************************************************************************)
EXTENDS CQueue, TLC

CONSTANTS Producers, Consumers, Others

\* The test program's threads (qmain.c) each make one kind of call; Others
\* mix all three.
MCCalls == [t \in Producers |-> {"enqueue"}]
           @@ [t \in Consumers |-> {"dequeue"}]
           @@ [t \in Others |-> Operations]
MCThreads == Producers \cup Consumers \cup Others
===============================================================================
