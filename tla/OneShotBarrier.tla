---------------------------- MODULE OneShotBarrier ----------------------------
(***************************************************************************)
(* What a barrier that breaks once promises: nobody passes before Limit    *)
(* threads have arrived; after that everybody may.                         *)
(***************************************************************************)
EXTENDS Naturals, FiniteSets

CONSTANTS Threads,  \* the threads that may arrive
          Limit     \* how many must arrive before any passes

VARIABLES arrived,  \* the threads that have arrived
          passed,   \* the threads that have passed
          broken    \* whether the barrier lets threads pass

vars == <<arrived, passed, broken>>

Init == /\ arrived = {}
        /\ passed = {}
        /\ broken = (Limit = 0)

Arrive(t) == /\ arrived' = arrived \cup {t}
             /\ UNCHANGED <<passed, broken>>

Break == /\ Cardinality(arrived) >= Limit
         /\ broken' = TRUE
         /\ UNCHANGED <<arrived, passed>>

Pass(t) == /\ broken
           /\ t \in arrived
           /\ passed' = passed \cup {t}
           /\ UNCHANGED <<arrived, broken>>

Next == Break \/ \E t \in Threads : Arrive(t) \/ Pass(t)

Spec == Init /\ [][Next]_vars
===============================================================================
