------------------------------ MODULE ParallelMap ------------------------------
(***************************************************************************)
(* What pool_map promises: a call with n arguments applies the function    *)
(* once to each of them, in any order, stores each result at the place of  *)
(* its argument, and returns when all of them are stored.  It promises     *)
(* this until a call breaks off; then it promises nothing more.            *)
(***************************************************************************)
EXTENDS Naturals

CONSTANT MaxArgs   \* the most arguments a call may have

VARIABLES n,         \* how many arguments the call has
          mapping,   \* whether a call is under way
          computed,  \* the arguments the function has been applied to
          stored,    \* those whose result the caller has
          broken     \* whether a call has broken off

vars == <<n, mapping, computed, stored, broken>>

Init == /\ n = 0
        /\ mapping = FALSE
        /\ computed = {}
        /\ stored = {}
        /\ broken = FALSE

Start == /\ ~mapping
         /\ mapping' = TRUE
         /\ n' \in 0 .. MaxArgs
         /\ computed' = {}
         /\ stored' = {}

Compute(k) == /\ mapping
              /\ k \notin computed
              /\ computed' = computed \cup {k}
              /\ UNCHANGED <<n, mapping, stored>>

Store(k) == /\ mapping
            /\ k \in computed \ stored
            /\ stored' = stored \cup {k}
            /\ UNCHANGED <<n, mapping, computed>>

Return == /\ mapping
          /\ stored = 0 .. n - 1
          /\ mapping' = FALSE
          /\ UNCHANGED <<n, computed, stored>>

\* A call breaks off, or one has broken off before.
BreakOff == broken'

Next == \/ /\ broken' = broken
           /\ Start \/ Return \/ \E k \in 0 .. n - 1 : Compute(k) \/ Store(k)
        \/ BreakOff

Spec == Init /\ [][Next]_vars
===============================================================================
