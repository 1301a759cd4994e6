-------------------------------- MODULE Barrier --------------------------------
(***************************************************************************)
(* The barrier of cbarrier/barrier.c, built from two blocking queues.  One *)
(* holds the numbers 1 .. threads_limit: a thread that arrives takes the   *)
(* next.  The thread that takes the last number runs the action and puts   *)
(* one message for each of the others in the second queue, from which they *)
(* are waiting to dequeue.                                                 *)
(*                                                                         *)
(* A call on a queue is one step here, the step at which CQueue shows it   *)
(* takes effect (CQueue!IsFifo); a dequeue from an empty queue waits.      *)
(***************************************************************************)
EXTENDS Integers, Sequences, FiniteSets

CONSTANTS Threads,         \* the threads that call barrier_wait
          threads_limit,   \* barrier->threads_limit
          MallocMayFail,   \* whether cqueue_dequeue may return OutOfMemory
          ActionMayFail,   \* whether action_fun may return an error
          MaxCalls         \* bound: how often each thread calls barrier_wait

ASSUME ConstantsAssumption ==
          /\ IsFiniteSet(Threads)
          /\ threads_limit \in Nat
          /\ MallocMayFail \in BOOLEAN
          /\ ActionMayFail \in BOOLEAN
          /\ MaxCalls \in Nat

VARIABLES
  threads_at_barrier_queue,  \* the numbers not yet taken
  thread_blocking_queue,     \* the messages that end a wait
  pc,                        \* where each thread is in barrier_wait
  threads_at_barrier,        \* the number each thread took; 0 if none
  i,                         \* the loop counter of the thread that wakes
  action_runs,               \* how often action_fun has returned Success
  calls,                     \* how many calls each thread has made
  arrived,                   \* history: the threads that called
  passed,                    \* history: the threads told Success
  errors                     \* history: how many calls failed, and where

queues == <<threads_at_barrier_queue, thread_blocking_queue>>
history == <<calls, arrived, passed, errors>>
vars == <<queues, pc, threads_at_barrier, i, action_runs, history>>

FailPlaces == {"take", "block", "act"}

\* barrier_create has filled the first queue.
Init == /\ threads_at_barrier_queue = [k \in 1 .. threads_limit |-> k]
        /\ thread_blocking_queue = <<>>
        /\ pc = [t \in Threads |-> "idle"]
        /\ threads_at_barrier = [t \in Threads |-> 0]
        /\ i = 0
        /\ action_runs = 0
        /\ calls = [t \in Threads |-> 0]
        /\ arrived = {}
        /\ passed = {}
        /\ errors = [place \in FailPlaces |-> 0]
-------------------------------------------------------------------------------
At(t, from, to) == pc[t] = from /\ pc' = [pc EXCEPT ![t] = to]

\* The call returns Success, or an error.
Succeed(t, from) == /\ At(t, from, "idle")
                    /\ passed' = passed \cup {t}
                    /\ UNCHANGED errors
Fail(t, from) == /\ At(t, from, "idle")
                 /\ errors' = [errors EXCEPT ![from] = @ + 1]
                 /\ UNCHANGED passed

Call(t) ==
  /\ At(t, "idle", "size")
  /\ calls[t] < MaxCalls
  /\ calls' = [calls EXCEPT ![t] = @ + 1]
  /\ arrived' = arrived \cup {t}
  /\ UNCHANGED <<queues, threads_at_barrier, i, action_runs, passed, errors>>

\* Mutant: the last number counts as none.
CheckBrokenEarly(t) ==
  /\ Len(threads_at_barrier_queue) <= 1
  /\ Succeed(t, "size")
  /\ UNCHANGED <<queues, threads_at_barrier, i, action_runs, calls, arrived>>

\* No number is left: the barrier is broken, the thread goes through.
CheckBroken(t) ==
  /\ threads_at_barrier_queue = <<>>
  /\ Succeed(t, "size")
  /\ UNCHANGED <<queues, threads_at_barrier, i, action_runs, calls, arrived>>

\* A number was left when cqueue_size looked.
CheckWhole(t) ==
  /\ threads_at_barrier_queue # <<>>
  /\ At(t, "size", "take")
  /\ UNCHANGED <<queues, threads_at_barrier, i, action_runs, history>>

Take(t) ==
  /\ threads_at_barrier_queue # <<>>
  /\ At(t, "take", IF Head(threads_at_barrier_queue) < threads_limit
                   THEN "block" ELSE "act")
  /\ threads_at_barrier' =
        [threads_at_barrier EXCEPT ![t] = Head(threads_at_barrier_queue)]
  /\ threads_at_barrier_queue' = Tail(threads_at_barrier_queue)
  /\ UNCHANGED <<thread_blocking_queue, i, action_runs, history>>

TakeFails(t) ==
  /\ MallocMayFail
  /\ threads_at_barrier_queue # <<>>
  /\ Fail(t, "take")
  /\ UNCHANGED <<queues, threads_at_barrier, i, action_runs, calls, arrived>>

Block(t) ==
  /\ thread_blocking_queue # <<>>
  /\ Succeed(t, "block")
  /\ thread_blocking_queue' = Tail(thread_blocking_queue)
  /\ UNCHANGED <<threads_at_barrier_queue, threads_at_barrier, i, action_runs,
                 calls, arrived>>

BlockFails(t) ==
  /\ MallocMayFail
  /\ thread_blocking_queue # <<>>
  /\ Fail(t, "block")
  /\ UNCHANGED <<queues, threads_at_barrier, i, action_runs, calls, arrived>>

\* Mutant: the loop starts at 0, one message too many.
ActFromZero(t) ==
  /\ At(t, "act", "wake")
  /\ action_runs' = action_runs + 1
  /\ i' = 0
  /\ UNCHANGED <<queues, threads_at_barrier, history>>

Act(t) ==
  /\ At(t, "act", "wake")
  /\ action_runs' = action_runs + 1
  /\ i' = 1
  /\ UNCHANGED <<queues, threads_at_barrier, history>>

\* Mutant: the error of action_fun is not looked at.
ActFailsUnnoticed(t) ==
  /\ ActionMayFail
  /\ At(t, "act", "wake")
  /\ i' = 1
  /\ UNCHANGED <<queues, threads_at_barrier, action_runs, history>>

\* The error is returned before anybody is woken.
ActFails(t) ==
  /\ ActionMayFail
  /\ Fail(t, "act")
  /\ UNCHANGED <<queues, threads_at_barrier, i, action_runs, calls, arrived>>

\* Mutant: "i <= threads_limit".
WakeOneTooMany(t) ==
  /\ pc[t] = "wake"
  /\ i <= threads_limit
  /\ Len(thread_blocking_queue) < threads_limit
  /\ thread_blocking_queue' = Append(thread_blocking_queue, 0)
  /\ i' = i + 1
  /\ UNCHANGED <<threads_at_barrier_queue, pc, threads_at_barrier, action_runs,
                 history>>

\* One turn of the loop; the second queue holds threads_limit messages.
WakeOne(t) ==
  /\ pc[t] = "wake"
  /\ i < threads_limit
  /\ Len(thread_blocking_queue) < threads_limit
  /\ thread_blocking_queue' = Append(thread_blocking_queue, 0)
  /\ i' = i + 1
  /\ UNCHANGED <<threads_at_barrier_queue, pc, threads_at_barrier, action_runs,
                 history>>

\* Mutant: "i < threads_limit - 1", one message too few.
WakeDoneEarly(t) ==
  /\ i >= threads_limit - 1
  /\ Succeed(t, "wake")
  /\ UNCHANGED <<queues, threads_at_barrier, i, action_runs, calls, arrived>>

WakeDone(t) ==
  /\ i >= threads_limit
  /\ Succeed(t, "wake")
  /\ UNCHANGED <<queues, threads_at_barrier, i, action_runs, calls, arrived>>
-------------------------------------------------------------------------------
Step(t) == \/ Call(t) \/ CheckBroken(t) \/ CheckWhole(t)
           \/ Take(t) \/ TakeFails(t) \/ Block(t) \/ BlockFails(t)
           \/ Act(t) \/ ActFails(t) \/ WakeOne(t) \/ WakeDone(t)

\* main joins the threads (barriertest.c:67-69).
Done == \A t \in Threads : pc[t] = "idle" /\ calls[t] = MaxCalls
Terminating == Done /\ UNCHANGED vars

Next == (\E t \in Threads : Step(t)) \/ Terminating

Spec == Init /\ [][Next]_vars

FairSpec == Spec /\ \A t \in Threads : WF_vars(Step(t))
-------------------------------------------------------------------------------
\* The type invariant.
TypeOK == /\ threads_at_barrier_queue \in Seq(1 .. threads_limit)
          /\ Len(threads_at_barrier_queue) <= threads_limit
          /\ thread_blocking_queue \in Seq({0})
          /\ Len(thread_blocking_queue) <= threads_limit
          /\ pc \in [Threads -> {"idle", "size", "take", "block", "act", "wake"}]
          /\ threads_at_barrier \in [Threads -> 0 .. threads_limit]
          /\ i \in 0 .. threads_limit
          /\ action_runs \in {0, 1}
          /\ calls \in [Threads -> 0 .. MaxCalls]
          /\ passed \subseteq arrived
          /\ arrived \subseteq Threads
          /\ errors \in [FailPlaces -> Nat]

Waiting == {t \in Threads : pc[t] = "block"}
Waking == \E t \in Threads : pc[t] = "wake"

\* The second queue never holds a message too many or too few: once the
\* action has run, the messages it holds and those the waking thread has still
\* to put are as many as the threads that wait, and one more for each whose
\* wait failed; before, there is none.  A message more would let a thread
\* through that nobody counted; one less leaves a waiter behind
\* (barrier.c:78-104).
WakesMatchWaiters ==
  IF action_runs = 0
  THEN thread_blocking_queue = <<>>
  ELSE Cardinality(Waiting) + errors["block"] =
         Len(thread_blocking_queue) + IF Waking THEN threads_limit - i ELSE 0

\* A wait ends only after the action has returned Success; when it fails, the
\* error is returned and nobody is let go (barrier.c:87-104).
ReleasedAfterAction ==
  [][\A t \in Threads : pc[t] = "block" /\ pc'[t] = "idle" => action_runs = 1]_vars

\* Nobody passes before threads_limit threads have called, whatever way it
\* takes through barrier_wait and whichever call fails.
Abstract == INSTANCE OneShotBarrier
              WITH Limit <- threads_limit,
                   broken <- threads_at_barrier_queue = <<>>
IsOneShotBarrier == Abstract!Spec

\* However many threads come, all that wait return once the action has run,
\* also when the wait of one fails; and the action runs once threads_limit
\* threads have called, unless a call failed on its way there.
WaitersReleased ==
  /\ action_runs = 1 ~> Waiting = {}
  /\ Waiting # {} /\ Cardinality(arrived) >= threads_limit
       ~> action_runs = 1 \/ errors["take"] + errors["act"] > 0

\* Every thread returns, also those beyond threads_limit: the test starts 30
\* threads at a barrier of 15 and joins them all (barriertest.c:49-69).
EveryThreadReturns == <>Done
===============================================================================
