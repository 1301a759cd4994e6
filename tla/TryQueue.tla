------------------------------- MODULE TryQueue -------------------------------
(***************************************************************************)
(* The queue of cqueue/cqueue.c, whose calls return QueueFull or           *)
(* QueueEmpty and never wait, with the program that tests it,              *)
(* cqueue/cqueuetest.c: threads that enqueue or dequeue and try again when *)
(* refused, and main, which joins them and looks whether the queue is      *)
(* empty.  The lock guards the whole ring, and nobody calls cqueue_size    *)
(* before the threads have ended, so the stores of a call are one step.    *)
(***************************************************************************)
EXTENDS Integers, Sequences, FiniteSets

CONSTANTS Enqueuers, Dequeuers,  \* the test's threads
          JoinOrder,      \* the order in which main joins them
          NumItems,       \* NUM_ITEMS_PER_THREAD
          NumBlocks,      \* attrs->num_blocks
          BlockSize,      \* attrs->block_size
          Sizes,          \* Sizes[t]: the item sizes, or max_sizes, t passes
          MallocMayFail,  \* whether malloc may return NULL
          NoItem          \* a block, or a thread's item, not yet written

Threads == Enqueuers \cup Dequeuers

Item == [from : Enqueuers, n : 1 .. NumItems, size : 1 .. BlockSize]

ASSUME ConstantsAssumption ==
          /\ Enqueuers \cap Dequeuers = {}
          /\ JoinOrder \in Seq(Threads)
          /\ \A t \in Threads : \E j \in 1 .. Len(JoinOrder) : JoinOrder[j] = t
          /\ NumItems \in Nat
          /\ NumBlocks \in Nat \ {0}
          /\ BlockSize \in Nat
          /\ Sizes \in [Threads -> SUBSET Nat]
          /\ MallocMayFail \in BOOLEAN
          /\ NoItem \notin Item

VARIABLES head, tail, count,  \* obj->head, obj->tail and obj->count
          data,               \* obj->data, the blocks
          lock,               \* the flag of obj->lock_obj
          pc,                 \* where each thread is
          item,               \* the item a thread puts, or the last it got
          max_size,           \* the max_size of each dequeuer's call
          k,                  \* how many of its calls each thread has finished
          main,               \* "joining", or how the test has ended
          joined,             \* how many threads main has joined
          received            \* history: how often each item was dequeued

ring == <<head, tail, count, data>>
vars == <<ring, lock, pc, item, max_size, k, main, joined, received>>

Blocks == 0 .. NumBlocks - 1

Init == /\ head = 0
        /\ tail = 0
        /\ count = 0
        /\ data = [b \in Blocks |-> NoItem]
        /\ lock = 0
        /\ pc = [t \in Threads |-> "loop"]
        /\ item = [t \in Threads |-> NoItem]
        /\ max_size = [t \in Dequeuers |-> 0]
        /\ k = [t \in Threads |-> 0]
        /\ main = "joining"
        /\ joined = 0
        /\ received = [m \in Enqueuers \X (1 .. NumItems) |-> 0]
-------------------------------------------------------------------------------
Goto(t, label) == pc' = [pc EXCEPT ![t] = label]
At(t, from, to) == pc[t] = from /\ Goto(t, to)

\* The caller has the lock if test-and-set finds the flag clear; it then looks
\* at count, which only holders of the lock change.
Acquire == lock = 0 /\ lock' = 1
Release == lock' = 0

\* The thread's for loop ends, or a call returned an error: "failed".
LoopEnds(t) ==
  /\ At(t, "loop", "ended")
  /\ k[t] = NumItems
  /\ UNCHANGED <<ring, lock, item, max_size, k, received>>

CallEnqueue(t) ==
  /\ k[t] < NumItems
  /\ \E s \in Sizes[t] :
        \/ /\ s = 0 \/ s > BlockSize
           /\ At(t, "loop", "failed")
           /\ UNCHANGED item
        \/ /\ s # 0 /\ s <= BlockSize
           /\ At(t, "loop", "acquire")
           /\ item' = [item EXCEPT ![t] = [from |-> t, n |-> k[t] + 1, size |-> s]]
  /\ UNCHANGED <<ring, lock, max_size, k, received>>

\* Mutant: ">" for "==", so the check comes one item late.
EnqAcquireLate(t) ==
  /\ At(t, "acquire", IF count > NumBlocks THEN "full" ELSE "store")
  /\ Acquire
  /\ UNCHANGED <<ring, item, max_size, k, received>>

EnqAcquire(t) ==
  /\ At(t, "acquire", IF count = NumBlocks THEN "full" ELSE "store")
  /\ Acquire
  /\ UNCHANGED <<ring, item, max_size, k, received>>

\* Mutant: the test goes on to its next item.
EnqFullGivesUp(t) ==
  /\ At(t, "full", "loop")
  /\ Release
  /\ k' = [k EXCEPT ![t] = @ + 1]
  /\ UNCHANGED <<ring, item, max_size, received>>

\* QueueFull: the test tries again with the same item.
EnqFull(t) ==
  /\ At(t, "full", "acquire")
  /\ Release
  /\ UNCHANGED <<ring, item, max_size, k, received>>

EnqStore(t) ==
  /\ At(t, "store", "release")
  /\ data' = [data EXCEPT ![head] = item[t]]
  /\ head' = (head + 1) % NumBlocks
  /\ count' = count + 1
  /\ UNCHANGED <<tail, lock, item, max_size, k, received>>

CallDequeue(t) ==
  /\ k[t] < NumItems
  /\ \E m \in Sizes[t] :
        \/ m = 0 /\ At(t, "loop", "failed") /\ UNCHANGED <<item, max_size>>
        \/ /\ m # 0
           /\ At(t, "loop", "acquire")
           /\ max_size' = [max_size EXCEPT ![t] = m]
           /\ item' = [item EXCEPT ![t] = NoItem]
  /\ UNCHANGED <<ring, lock, k, received>>

DeqAcquire(t) ==
  /\ At(t, "acquire", IF count = 0 THEN "empty" ELSE "take")
  /\ Acquire
  /\ UNCHANGED <<ring, item, max_size, k, received>>

\* Mutant: the lock is kept on the way out.
DeqEmptyKeepsLock(t) ==
  /\ At(t, "empty", "acquire")
  /\ UNCHANGED <<ring, lock, item, max_size, k, received>>

\* QueueEmpty: the test tries again.
DeqEmpty(t) ==
  /\ At(t, "empty", "acquire")
  /\ Release
  /\ UNCHANGED <<ring, item, max_size, k, received>>

\* InvalidArgument, because the item is larger than max_size, or OutOfMemory.
DeqFails(t) ==
  /\ At(t, "take", "failed")
  /\ data[tail].size > max_size[t] \/ MallocMayFail
  /\ Release
  /\ UNCHANGED <<ring, item, max_size, k, received>>

\* Mutant: the item is taken from the end where items are put.
DeqTakeNewest(t) ==
  /\ At(t, "take", "release")
  /\ LET newest == (head + NumBlocks - 1) % NumBlocks IN
        /\ data[newest].size <= max_size[t]
        /\ item' = [item EXCEPT ![t] = data[newest]]
        /\ received' =
              [received EXCEPT ![<<data[newest].from, data[newest].n>>] = @ + 1]
        /\ head' = newest
  /\ count' = count - 1
  /\ UNCHANGED <<tail, data, lock, max_size, k>>

DeqTake(t) ==
  /\ At(t, "take", "release")
  /\ data[tail].size <= max_size[t]
  /\ item' = [item EXCEPT ![t] = data[tail]]
  /\ received' = [received EXCEPT ![<<data[tail].from, data[tail].n>>] = @ + 1]
  /\ tail' = (tail + 1) % NumBlocks
  /\ count' = count - 1
  /\ UNCHANGED <<head, data, lock, max_size, k>>

\* Success, of either call.
Return(t) ==
  /\ At(t, "release", "loop")
  /\ Release
  /\ k' = [k EXCEPT ![t] = @ + 1]
  /\ UNCHANGED <<ring, item, max_size, received>>
-------------------------------------------------------------------------------
\* pthread_join, and the thread's result.
Join ==
  /\ joined < Len(JoinOrder)
  /\ LET t == JoinOrder[joined + 1] IN
        \/ pc[t] = "ended" /\ joined' = joined + 1 /\ UNCHANGED main
        \/ pc[t] = "failed" /\ main' = "failed" /\ UNCHANGED joined

\* All threads have ended: cqueue_size must give 0 and a dequeue QueueEmpty.
LookEmpty ==
  /\ joined = Len(JoinOrder)
  /\ lock = 0
  /\ main' = IF count = 0 THEN "success" ELSE "failed"
  /\ UNCHANGED joined

TryLock(t) == \/ t \in Enqueuers /\ EnqAcquire(t)
              \/ t \in Dequeuers /\ DeqAcquire(t)

Enqueue(t) == CallEnqueue(t) \/ EnqFull(t) \/ EnqStore(t)
Dequeue(t) == CallDequeue(t) \/ DeqEmpty(t) \/ DeqFails(t) \/ DeqTake(t)

Step(t) == \/ TryLock(t)
           \/ t \in Enqueuers /\ Enqueue(t)
           \/ t \in Dequeuers /\ Dequeue(t)
           \/ LoopEnds(t)
           \/ Return(t)

\* When main returns the process ends, and with it every thread.
Threading(t) == main = "joining" /\ Step(t) /\ UNCHANGED <<main, joined>>

Main == /\ main = "joining"
        /\ Join \/ LookEmpty
        /\ UNCHANGED <<ring, lock, pc, item, max_size, k, received>>

Terminating == main # "joining" /\ UNCHANGED vars

Next == (\E t \in Threads : Threading(t)) \/ Main \/ Terminating

Spec == Init /\ [][Next]_vars

\* Every thread runs on, and one that keeps trying finds the lock free at
\* last: whoever was refused sleeps before it takes the lock again.
FairSpec == /\ Spec
            /\ WF_vars(Main)
            /\ \A t \in Threads : /\ WF_vars(Threading(t))
                                  /\ SF_vars(Threading(t) /\ TryLock(t))
-------------------------------------------------------------------------------
Labels == {"loop", "acquire", "full", "store", "empty", "take", "release",
           "ended", "failed"}

\* The type invariant.
TypeOK == /\ head \in Blocks
          /\ tail \in Blocks
          /\ count \in 0 .. NumBlocks
          /\ data \in [Blocks -> Item \cup {NoItem}]
          /\ lock \in {0, 1}
          /\ pc \in [Threads -> Labels]
          /\ item \in [Threads -> Item \cup {NoItem}]
          /\ max_size \in [Dequeuers -> Nat]
          /\ k \in [Threads -> 0 .. NumItems]
          /\ main \in {"joining", "success", "failed"}
          /\ joined \in 0 .. Len(JoinOrder)
          /\ received \in [Enqueuers \X (1 .. NumItems) -> Nat]

\* The items in the ring, oldest first.
Contents == [j \in 1 .. count |-> data[(tail + (j - 1)) % NumBlocks]]

\* How many items a thread has put, also if the call has yet to return.
Puts(e) == k[e] + IF pc[e] = "release" THEN 1 ELSE 0

\* However often a thread is refused and tries again, each item is put once
\* and dequeued once: it is in the ring or with a dequeuer if its enqueue has
\* stored it, and in neither if not (cqueuetest.c:40-50, 65-76).
EachItemOnce ==
  \A e \in Enqueuers, n \in 1 .. NumItems :
     received[<<e, n>>] + Cardinality({j \in 1 .. count : /\ Contents[j].from = e
                                                      /\ Contents[j].n = n})
       = IF n <= Puts(e) THEN 1 ELSE 0

\* The ring under its lock is a FIFO queue whose calls are refused only when
\* it is really full or empty at that moment (cqueue.c:137-263).
CallStatus(t) ==
  LET puts == t \in Enqueuers IN
  CASE pc[t] \in {"acquire", "store", "take"} -> IF puts THEN "putting" ELSE "getting"
    [] pc[t] = "full" -> "put_refused"
    [] pc[t] = "empty" -> "get_refused"
    [] pc[t] = "release" -> "done"
    [] OTHER -> "idle"

Fifo == INSTANCE TryFifo
          WITH Items <- Item, Capacity <- NumBlocks,
               queue <- Contents, value <- item,
               status <- [t \in Threads |-> CallStatus(t)],
               length <- [t \in Threads |-> 0]
IsTryFifo == Fifo!TrySpec

\* The test ends, and with "Tests Completed Successfully", unless a call
\* returned an error: as many items are dequeued as were enqueued and nobody
\* tries forever (cqueuetest.c:112-153).
TestPasses == <>(main = "success" \/ \E t \in Threads : pc[t] = "failed")
===============================================================================
