-------------------------------- MODULE SpinLock --------------------------------
(***************************************************************************)
(* The test-and-set lock of cspinlock/spinlock.c and of                    *)
(* java/Locks/SpinLock.java, with the test of each: threads that add to a  *)
(* counter they share, each addition under the lock.  The Java lock also   *)
(* has a timed acquire; a thread whose time is up leaves.                  *)
(***************************************************************************)
EXTENDS Integers, FiniteSets, Functions

CONSTANTS Threads,     \* the threads that use the lock
          Timed,       \* those that call acquire(timeOut)
          Iterations   \* how often each of them adds 1

ASSUME ConstantsAssumption ==
          /\ IsFiniteSet(Threads)
          /\ Timed \subseteq Threads
          /\ Iterations \in Nat \ {0}

VARIABLES lock,     \* the flag: 1 while the lock is taken
          pc,       \* where each thread is
          seen,     \* the counter as the thread's counter++ has read it
          counter,  \* the counter the threads share
          done      \* how many iterations each thread has finished

vars == <<lock, pc, seen, counter, done>>

Init == /\ lock = 0
        /\ pc = [t \in Threads |-> "acquire"]
        /\ seen = [t \in Threads |-> 0]
        /\ counter = 0
        /\ done = [t \in Threads |-> 0]
-------------------------------------------------------------------------------
At(t, from, to) == pc[t] = from /\ pc' = [pc EXCEPT ![t] = to]

\* Mutant: the flag is read and then set, as with a plain variable: another
\* thread may have set it in between.
AcquireUntested(t) ==
  /\ At(t, "acquire", "read")
  /\ lock' = 1
  /\ UNCHANGED <<seen, counter, done>>

\* The caller has the lock if test-and-set finds the flag clear; an attempt
\* that finds it set changes nothing and is not a step.
Acquire(t) ==
  /\ lock = 0
  /\ lock' = 1
  /\ At(t, "acquire", "read")
  /\ UNCHANGED <<seen, counter, done>>

\* Mutant: the exception comes from a finally that releases the lock.
TimesOutReleases(t) ==
  /\ t \in Timed
  /\ lock = 1
  /\ At(t, "acquire", "ended")
  /\ lock' = 0
  /\ UNCHANGED <<seen, counter, done>>

\* A TimeoutException, after a failed attempt; the caller goes without.
TimesOut(t) ==
  /\ t \in Timed
  /\ lock = 1
  /\ At(t, "acquire", "ended")
  /\ UNCHANGED <<lock, seen, counter, done>>

\* counter++ is a read and a write.
ReadCounter(t) ==
  /\ At(t, "read", "write")
  /\ seen' = [seen EXCEPT ![t] = counter]
  /\ UNCHANGED <<lock, counter, done>>

WriteCounter(t) ==
  /\ At(t, "write", "release")
  /\ counter' = seen[t] + 1
  /\ UNCHANGED <<lock, seen, done>>

\* Mutant: "<=" for "<", one iteration too many.
ReleaseOneMore(t) ==
  /\ At(t, "release", IF done[t] < Iterations THEN "acquire" ELSE "ended")
  /\ lock' = 0
  /\ done' = [done EXCEPT ![t] = @ + 1]
  /\ UNCHANGED <<seen, counter>>

Release(t) ==
  /\ At(t, "release", IF done[t] + 1 < Iterations THEN "acquire" ELSE "ended")
  /\ lock' = 0
  /\ done' = [done EXCEPT ![t] = @ + 1]
  /\ UNCHANGED <<seen, counter>>
-------------------------------------------------------------------------------
Step(t) == \/ Acquire(t) \/ TimesOut(t) \/ ReadCounter(t) \/ WriteCounter(t)
           \/ Release(t)

\* main joins the threads.
Done == \A t \in Threads : pc[t] = "ended"
Terminating == Done /\ UNCHANGED vars

Next == (\E t \in Threads : Step(t)) \/ Terminating

Spec == Init /\ [][Next]_vars

FairSpec == Spec /\ \A t \in Threads : WF_vars(Step(t))
-------------------------------------------------------------------------------
Inside == {"read", "write", "release"}

\* The type invariant.
TypeOK == /\ lock \in {0, 1}
          /\ pc \in [Threads -> Inside \cup {"acquire", "ended"}]
          /\ seen \in [Threads -> Nat]
          /\ counter \in Nat
          /\ done \in [Threads -> 0 .. Iterations]

\* The counter a thread has read is still the counter when it writes: no
\* addition of another thread is lost (spintest.c:87-93, SpinLock.java:13-23).
NoLostUpdate == \A t \in Threads : pc[t] = "write" => seen[t] = counter

\* The threads end, and the counter is the number of all their iterations
\* (spintest.c:152-156, SpinLock.java:83-88).
CountsAll ==
  <>(/\ Done
     /\ \A t \in Threads \ Timed : done[t] = Iterations
     /\ counter = FoldFunction(+, 0, done))
===============================================================================
