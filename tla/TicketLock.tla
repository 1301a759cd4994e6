------------------------------- MODULE TicketLock -------------------------------
(***************************************************************************)
(* The ticket lock of java/Locks/TicketLock.java, with its test: threads   *)
(* that add to a counter they share, each addition under the lock.  A      *)
(* thread whose timed acquire has run out leaves.                          *)
(***************************************************************************)
EXTENDS Integers, FiniteSets, Functions

CONSTANTS Threads,    \* the threads that use the lock
          Timed,      \* those that call acquire(timeOut)
          Tickets,    \* how many values an int has: 2^32 in Java
          Iterations  \* how often each thread adds 1; 0 is forever

ASSUME ConstantsAssumption ==
          /\ IsFiniteSet(Threads)
          /\ Timed \subseteq Threads
          /\ Tickets \in Nat /\ Tickets > Cardinality(Threads)
          /\ Iterations \in Nat

VARIABLES nextTicket,  \* the next ticket to hand out
          nowServing,  \* the ticket that may enter
          pc,          \* where each thread is
          myTicket,    \* the ticket each thread has taken
          seen,        \* the count as the thread's count += 1 has read it
          count,       \* the counter the threads share, an int too
          done         \* how many iterations each thread has finished

vars == <<nextTicket, nowServing, pc, myTicket, seen, count, done>>

Init == /\ nextTicket = 0
        /\ nowServing = 0
        /\ pc = [t \in Threads |-> "acquire"]
        /\ myTicket = [t \in Threads |-> 0]
        /\ seen = [t \in Threads |-> 0]
        /\ count = 0
        /\ done = [t \in Threads |-> 0]
-------------------------------------------------------------------------------
\* Mutant: the int does not wrap.
IncrementUnbounded(n) == n + 1

\* int arithmetic wraps.
Increment(n) == (n + 1) % Tickets

At(t, from, to) == pc[t] = from /\ pc' = [pc EXCEPT ![t] = to]

\* Mutant: get() and set() for getAndIncrement(): an increment may be lost.
TakeTicketTwice(t) ==
  /\ At(t, "acquire", "wait")
  /\ myTicket' = [myTicket EXCEPT ![t] = nextTicket]
  /\ nextTicket' \in {nextTicket, Increment(nextTicket)}
  /\ UNCHANGED <<nowServing, seen, count, done>>

TakeTicket(t) ==
  /\ At(t, "acquire", "wait")
  /\ myTicket' = [myTicket EXCEPT ![t] = nextTicket]
  /\ nextTicket' = Increment(nextTicket)
  /\ UNCHANGED <<nowServing, seen, count, done>>

Enter(t) ==
  /\ nowServing = myTicket[t]
  /\ At(t, "wait", "read")
  /\ UNCHANGED <<nextTicket, nowServing, myTicket, seen, count, done>>

\* Mutant: the thread gives its turn back, which it does not have yet.
TimesOutReleases(t) ==
  /\ t \in Timed
  /\ nowServing # myTicket[t]
  /\ At(t, "wait", "ended")
  /\ nowServing' = Increment(nowServing)
  /\ UNCHANGED <<nextTicket, myTicket, seen, count, done>>

\* The look at nowServing that precedes a TimeoutException, and the exception:
\* nothing shared is touched in between.  Nobody has the ticket from now on.
TimesOut(t) ==
  /\ t \in Timed
  /\ nowServing # myTicket[t]
  /\ At(t, "wait", "ended")
  /\ UNCHANGED <<nextTicket, nowServing, myTicket, seen, count, done>>

\* count += 1 is a read and a write.
ReadCount(t) ==
  /\ At(t, "read", "write")
  /\ seen' = [seen EXCEPT ![t] = count]
  /\ UNCHANGED <<nextTicket, nowServing, myTicket, count, done>>

WriteCount(t) ==
  /\ At(t, "write", "release")
  /\ count' = Increment(seen[t])
  /\ UNCHANGED <<nextTicket, nowServing, myTicket, seen, done>>

LastIteration(t) == Iterations # 0 /\ done[t] + 1 = Iterations

\* Mutant: the ticket counter wraps a value early.
ReleaseWrapsEarly(t) ==
  /\ At(t, "release", IF LastIteration(t) THEN "ended" ELSE "acquire")
  /\ nowServing' = (nowServing + 1) % (Tickets - 1)
  /\ done' = [done EXCEPT ![t] = IF Iterations = 0 THEN 0 ELSE @ + 1]
  /\ UNCHANGED <<nextTicket, myTicket, seen, count>>

Release(t) ==
  /\ At(t, "release", IF LastIteration(t) THEN "ended" ELSE "acquire")
  /\ nowServing' = Increment(nowServing)
  /\ done' = [done EXCEPT ![t] = IF Iterations = 0 THEN 0 ELSE @ + 1]
  /\ UNCHANGED <<nextTicket, myTicket, seen, count>>
-------------------------------------------------------------------------------
\* What a thread does without end; how long a timeout is, is left open, so
\* running out of time is never forced.
Goes(t) == \/ TakeTicket(t) \/ Enter(t)
           \/ ReadCount(t) \/ WriteCount(t) \/ Release(t)

Step(t) == Goes(t) \/ TimesOut(t)

\* main joins the threads.
Done == \A t \in Threads : pc[t] = "ended"

Next == \E t \in Threads : Step(t)

Spec == Init /\ [][Next]_vars

FairSpec == Spec /\ \A t \in Threads : WF_vars(Goes(t))
-------------------------------------------------------------------------------
Inside == {t \in Threads : pc[t] \in {"read", "write", "release"}}

\* The type invariant.
TypeOK == /\ nextTicket \in 0 .. Tickets - 1
          /\ nowServing \in 0 .. Tickets - 1
          /\ pc \in [Threads -> {"acquire", "wait", "read", "write", "release",
                                 "ended"}]
          /\ myTicket \in [Threads -> 0 .. Tickets - 1]
          /\ seen \in [Threads -> 0 .. Tickets - 1]
          /\ count \in 0 .. Tickets - 1
          /\ done \in [Threads -> 0 .. Iterations]

\* The count a thread has read is still the count when it writes, timed
\* acquires or not: no addition of another thread is lost
\* (TicketLock.java:13-23).
NoLostUpdate == \A t \in Threads : pc[t] = "write" => seen[t] = count

\* The threads whose timed acquire has run out.
GaveUp == {t \in Timed : pc[t] = "ended" /\ (Iterations = 0 \/ done[t] < Iterations)}

\* The threads in line, in the order of the tickets; one that has given up
\* keeps its place.
Holder(ticket) ==
  CHOOSE t \in Threads :
     /\ pc[t] \in {"wait", "read", "write", "release"} \/ t \in GaveUp
     /\ myTicket[t] = ticket

Queue == [k \in 1 .. (nextTicket - nowServing) % Tickets |->
            Holder((nowServing + k - 1) % Tickets)]

\* One thread at a time is inside, and they enter in the order in which they
\* took their tickets, also when the ticket counters wrap (TicketLock.java:
\* 34-47).
Abstract == INSTANCE FifoLock WITH queue <- Queue, inside <- Inside
IsFifoLock == Abstract!Spec

\* A thread that waits gets in, however often the others come back, unless
\* somebody's timed acquire has run out (TicketLock.java:34-43).
NobodyStarves == \A t \in Threads : pc[t] = "wait" ~> pc[t] = "read" \/ GaveUp # {}

\* The threads end, and each addition has been counted: the test joins them
\* and expects the sum, after a timed acquire that has run out
\* (TicketLock.java:56-65, 78-88).
CountsAll ==
  <>(Done /\ count = FoldFunction(+, 0, done) % Tickets
          /\ \A t \in Threads \ Timed : done[t] = Iterations)
===============================================================================
