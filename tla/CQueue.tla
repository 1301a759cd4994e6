-------------------------------- MODULE CQueue --------------------------------
(***************************************************************************)
(* The blocking queue of cpool/cqueue.c (cbarrier/cqueue.c is the same     *)
(* file): a ring of num_blocks blocks guarded by the spinlock of           *)
(* cpool/spinlock.c, whose callers sleep in the kernel on a futex while    *)
(* the ring is full or empty.  The two futex words are the ring's own      *)
(* counters, which the kernel reads without the lock, so every store to a  *)
(* counter is a step of its own.  What a thread reads under the lock is    *)
(* read in the step that takes the lock: only lock holders write it.       *)
(***************************************************************************)
EXTENDS Integers, Sequences, FiniteSets

CONSTANTS Threads,      \* the threads that share the queue's handle
          Calls,          \* Calls[t]: the operations thread t calls
          Timed,          \* the threads that pass a timeout, not NULL
          NumBlocks,      \* attrs->num_blocks
          BlockSize,      \* attrs->block_size
          Sizes,          \* the item sizes and the max_sizes callers pass
          MallocMayFail,  \* whether malloc may return NULL
          MaxCalls,       \* bound: how many calls each thread makes
          NoItem          \* a block, or a caller's buffer, never written

Operations == {"enqueue", "dequeue", "size"}

\* The n-th call of thread "from" enqueues "size" bytes.
Item == [from : Threads, n : 1..MaxCalls, size : Sizes]

ASSUME ConstantsAssumption ==
          /\ Calls \in [Threads -> SUBSET Operations]
          /\ Timed \subseteq Threads
          /\ NumBlocks \in Nat \ {0}
          /\ BlockSize \in Nat
          /\ Sizes \subseteq Nat
          /\ MallocMayFail \in BOOLEAN
          /\ MaxCalls \in Nat
          /\ NoItem \notin Item

VARIABLES
  head, tail,      \* obj->head and obj->tail, block indices
  available_msgs,  \* obj->available_msgs, the futex word of dequeuers
  free_blocks,     \* obj->free_blocks, the futex word of enqueuers
  data,            \* obj->data, the blocks
  lock,            \* obj->lock_obj.lock, 0 or 1
  asleep,          \* the kernel's wait queue of each futex word
  pc,              \* where each thread is
  item,            \* the item each thread enqueues, or last dequeued
  max_size,        \* the max_size of each thread's dequeue
  size,            \* what each thread's last cqueue_size reported
  rc,              \* what each thread's last call returned
  calls            \* how many calls each thread has made

obj_vars == <<head, tail, available_msgs, free_blocks, data>>
call_vars == <<item, max_size, size, calls>>
vars == <<obj_vars, lock, asleep, pc, call_vars, rc>>

Words == {"available_msgs", "free_blocks"}
Blocks == 0 .. NumBlocks - 1

\* cqueue_init on malloc'ed memory: the blocks hold whatever was there.
Init == /\ head = 0
        /\ tail = 0
        /\ available_msgs = 0
        /\ free_blocks = NumBlocks
        /\ data = [b \in Blocks |-> NoItem]
        /\ lock = 0
        /\ asleep = [w \in Words |-> {}]
        /\ pc = [t \in Threads |-> "idle"]
        /\ item = [t \in Threads |-> NoItem]
        /\ max_size = [t \in Threads |-> 0]
        /\ size = [t \in Threads |-> 0]
        /\ rc = [t \in Threads |-> "Success"]
        /\ calls = [t \in Threads |-> 0]
-------------------------------------------------------------------------------
Goto(t, label) == pc' = [pc EXCEPT ![t] = label]
At(t, from, to) == pc[t] = from /\ Goto(t, to)
ReturnRc(t, code) == rc' = [rc EXCEPT ![t] = code]

\* spinlock_acquire: a failed compare-exchange sleeps and changes nothing.
Acquire == lock = 0 /\ lock' = 1

\* spinlock_release: fails, and says so, when the lock is not held at all.
Release == lock' = 0
ReleaseRc(code) == IF lock = 1 THEN code ELSE "InvalidOperation"

\* FUTEX_WAIT(word, 0): sleep if the word is still 0, else return EAGAIN.
\* The word is compared and the caller queued in one step of the kernel.
FutexWait(t, word, value, slept, again) ==
  \/ /\ value = 0
     /\ asleep' = [asleep EXCEPT ![word] = @ \cup {t}]
     /\ Goto(t, slept)
  \/ /\ value # 0
     /\ Goto(t, again)
     /\ UNCHANGED asleep

\* A timeout ends FUTEX_WAIT.  syscall() then returns -1 and leaves
\* ETIMEDOUT in errno; cqueue.c compares what it returned with ETIMEDOUT.
ETIMEDOUT == 110
SyscallTimedOut == -1

FutexTimeout(t, word, again) ==
  /\ t \in Timed \cap asleep[word]
  /\ asleep' = [asleep EXCEPT ![word] = @ \ {t}]
  /\ IF SyscallTimedOut = ETIMEDOUT
     THEN Goto(t, "idle") /\ ReturnRc(t, "Timeout")
     ELSE Goto(t, again) /\ UNCHANGED rc

\* FUTEX_WAKE(word, 1): wake one sleeper, which the kernel chooses, and
\* which then goes back to its label "again"; the caller returns.
FutexWake(t, word, again) ==
  \/ /\ asleep[word] = {}
     /\ Goto(t, "idle")
     /\ UNCHANGED asleep
  \/ \E s \in asleep[word] :
        /\ asleep' = [asleep EXCEPT ![word] = @ \ {s}]
        /\ pc' = [pc EXCEPT ![t] = "idle", ![s] = again]
-------------------------------------------------------------------------------
(***************************************************************************)
(* cqueue_enqueue.                                                         *)
(***************************************************************************)
CallEnqueue(t) ==
  /\ "enqueue" \in Calls[t]
  /\ pc[t] = "idle"
  /\ calls[t] < MaxCalls
  /\ calls' = [calls EXCEPT ![t] = @ + 1]
  /\ \E s \in Sizes :
        \/ /\ s = 0 \/ s > BlockSize
           /\ ReturnRc(t, "InvalidArgument")
           /\ UNCHANGED <<pc, item>>
        \/ /\ s # 0 /\ s <= BlockSize
           /\ item' = [item EXCEPT ![t] =
                         [from |-> t, n |-> calls[t] + 1, size |-> s]]
           /\ Goto(t, "enq_acquire")
           /\ UNCHANGED rc
  /\ UNCHANGED <<obj_vars, lock, asleep, max_size, size>>

\* Mutant: "if" for "while", so an enqueue that has waited does not look again.
EnqAcquireOnce(t) ==
  /\ At(t, "enq_acquire", "enq_copy")
  /\ Acquire
  /\ UNCHANGED <<obj_vars, asleep, call_vars, rc>>

EnqAcquire(t) ==
  /\ pc[t] = "enq_acquire"
  /\ Acquire
  /\ Goto(t, IF free_blocks = 0 THEN "enq_full" ELSE "enq_copy")
  /\ UNCHANGED <<obj_vars, asleep, call_vars, rc>>

\* The ring is full: the lock is given up before the thread sleeps.
EnqFull(t) ==
  /\ At(t, "enq_full", "enq_wait")
  /\ Release
  /\ UNCHANGED <<obj_vars, asleep, call_vars, rc>>

\* Mutant: the thread sleeps without the comparison with 0.
EnqWaitUnchecked(t) ==
  /\ pc[t] = "enq_wait"
  /\ FutexWait(t, "free_blocks", 0, "enq_asleep", "enq_acquire")
  /\ UNCHANGED <<obj_vars, lock, call_vars, rc>>

EnqWait(t) ==
  /\ pc[t] = "enq_wait"
  /\ FutexWait(t, "free_blocks", free_blocks, "enq_asleep", "enq_acquire")
  /\ UNCHANGED <<obj_vars, lock, call_vars, rc>>

EnqTimeout(t) ==
  /\ FutexTimeout(t, "free_blocks", "enq_acquire")
  /\ UNCHANGED <<obj_vars, lock, call_vars>>

EnqCopy(t) ==
  /\ At(t, "enq_copy", "enq_avail")
  /\ data' = [data EXCEPT ![head] = item[t]]
  /\ head' = (head + 1) % NumBlocks
  /\ UNCHANGED <<tail, available_msgs, free_blocks, lock, asleep, call_vars, rc>>

EnqAvail(t) ==
  /\ At(t, "enq_avail", "enq_free")
  /\ available_msgs' = available_msgs + 1
  /\ UNCHANGED <<head, tail, free_blocks, data, lock, asleep, call_vars, rc>>

EnqFree(t) ==
  /\ At(t, "enq_free", "enq_release")
  /\ free_blocks' = free_blocks - 1
  /\ UNCHANGED <<head, tail, available_msgs, data, lock, asleep, call_vars, rc>>

EnqRelease(t) ==
  /\ At(t, "enq_release", "enq_wake")
  /\ Release
  /\ ReturnRc(t, ReleaseRc("Success"))
  /\ UNCHANGED <<obj_vars, asleep, call_vars>>

\* Mutant: the enqueue wakes the wrong futex.
EnqWakeOwnWord(t) ==
  /\ pc[t] = "enq_wake"
  /\ FutexWake(t, "free_blocks", "enq_acquire")
  /\ UNCHANGED <<obj_vars, lock, call_vars, rc>>

EnqWake(t) ==
  /\ pc[t] = "enq_wake"
  /\ FutexWake(t, "available_msgs", "deq_acquire")
  /\ UNCHANGED <<obj_vars, lock, call_vars, rc>>
-------------------------------------------------------------------------------
(***************************************************************************)
(* cqueue_dequeue.                                                         *)
(***************************************************************************)
CallDequeue(t) ==
  /\ "dequeue" \in Calls[t]
  /\ pc[t] = "idle"
  /\ calls[t] < MaxCalls
  /\ calls' = [calls EXCEPT ![t] = @ + 1]
  /\ \E m \in Sizes :
        \/ /\ m = 0
           /\ ReturnRc(t, "InvalidArgument")
           /\ UNCHANGED <<pc, item, max_size>>
        \/ /\ m # 0
           /\ max_size' = [max_size EXCEPT ![t] = m]
           /\ item' = [item EXCEPT ![t] = NoItem]
           /\ Goto(t, "deq_acquire")
           /\ UNCHANGED rc
  /\ UNCHANGED <<obj_vars, lock, asleep, size>>

DeqAcquire(t) ==
  /\ pc[t] = "deq_acquire"
  /\ Acquire
  /\ Goto(t, IF available_msgs = 0 THEN "deq_empty" ELSE "deq_take")
  /\ UNCHANGED <<obj_vars, asleep, call_vars, rc>>

DeqEmpty(t) ==
  /\ At(t, "deq_empty", "deq_wait")
  /\ Release
  /\ UNCHANGED <<obj_vars, asleep, call_vars, rc>>

\* Mutant: the lock is not taken again after the wait.
DeqWaitNoReacquire(t) ==
  /\ pc[t] = "deq_wait"
  /\ FutexWait(t, "available_msgs", available_msgs, "deq_asleep", "deq_take")
  /\ UNCHANGED <<obj_vars, lock, call_vars, rc>>

DeqWait(t) ==
  /\ pc[t] = "deq_wait"
  /\ FutexWait(t, "available_msgs", available_msgs, "deq_asleep", "deq_acquire")
  /\ UNCHANGED <<obj_vars, lock, call_vars, rc>>

DeqTimeout(t) ==
  /\ FutexTimeout(t, "available_msgs", "deq_acquire")
  /\ UNCHANGED <<obj_vars, lock, call_vars>>

\* Mutant: the tail is not wrapped around.
DeqTakeNoWrap(t) ==
  /\ At(t, "deq_take", "deq_avail")
  /\ data[tail].size <= max_size[t]
  /\ item' = [item EXCEPT ![t] = data[tail]]
  /\ tail' = IF tail + 1 < NumBlocks THEN tail + 1 ELSE tail
  /\ UNCHANGED <<head, available_msgs, free_blocks, data, lock, asleep,
                 max_size, size, calls, rc>>

\* The oldest item is copied out and the tail moved past it.
DeqTake(t) ==
  /\ At(t, "deq_take", "deq_avail")
  /\ data[tail].size <= max_size[t]
  /\ item' = [item EXCEPT ![t] = data[tail]]
  /\ tail' = (tail + 1) % NumBlocks
  /\ UNCHANGED <<head, available_msgs, free_blocks, data, lock, asleep,
                 max_size, size, calls, rc>>

\* Mutant: the item the caller cannot take is dropped.
DeqTooLargeDrops(t) ==
  /\ At(t, "deq_take", "idle")
  /\ data[tail].size > max_size[t]
  /\ Release
  /\ tail' = (tail + 1) % NumBlocks
  /\ available_msgs' = available_msgs - 1
  /\ free_blocks' = free_blocks + 1
  /\ ReturnRc(t, "InvalidArgument")
  /\ UNCHANGED <<head, data, asleep, call_vars>>

\* The oldest item is larger than the caller takes: it stays where it is.
DeqTooLarge(t) ==
  /\ At(t, "deq_take", "idle")
  /\ data[tail].size > max_size[t]
  /\ Release
  /\ ReturnRc(t, "InvalidArgument")
  /\ UNCHANGED <<obj_vars, asleep, call_vars>>

\* Mutant: the out-of-memory path keeps the lock.
DeqOutOfMemoryKeepsLock(t) ==
  /\ MallocMayFail
  /\ At(t, "deq_take", "idle")
  /\ data[tail].size <= max_size[t]
  /\ ReturnRc(t, "OutOfMemory")
  /\ UNCHANGED <<obj_vars, lock, asleep, call_vars>>

DeqOutOfMemory(t) ==
  /\ MallocMayFail
  /\ At(t, "deq_take", "idle")
  /\ data[tail].size <= max_size[t]
  /\ Release
  /\ ReturnRc(t, "OutOfMemory")
  /\ UNCHANGED <<obj_vars, asleep, call_vars>>

DeqAvail(t) ==
  /\ At(t, "deq_avail", "deq_free")
  /\ available_msgs' = available_msgs - 1
  /\ UNCHANGED <<head, tail, free_blocks, data, lock, asleep, call_vars, rc>>

DeqFree(t) ==
  /\ At(t, "deq_free", "deq_release")
  /\ free_blocks' = free_blocks + 1
  /\ UNCHANGED <<head, tail, available_msgs, data, lock, asleep, call_vars, rc>>

DeqRelease(t) ==
  /\ At(t, "deq_release", "deq_wake")
  /\ Release
  /\ ReturnRc(t, ReleaseRc("Success"))
  /\ UNCHANGED <<obj_vars, asleep, call_vars>>

\* Mutant: an enqueuer is woken only when the ring is no longer full.
DeqWakeAtFirst(t) ==
  /\ pc[t] = "deq_wake"
  /\ \/ free_blocks = 1 /\ FutexWake(t, "free_blocks", "enq_acquire")
     \/ free_blocks # 1 /\ Goto(t, "idle") /\ UNCHANGED asleep
  /\ UNCHANGED <<obj_vars, lock, call_vars, rc>>

DeqWake(t) ==
  /\ pc[t] = "deq_wake"
  /\ FutexWake(t, "free_blocks", "enq_acquire")
  /\ UNCHANGED <<obj_vars, lock, call_vars, rc>>
-------------------------------------------------------------------------------
(***************************************************************************)
(* cqueue_size.                                                            *)
(***************************************************************************)
CallSize(t) ==
  /\ "size" \in Calls[t]
  /\ At(t, "idle", "size_acquire")
  /\ calls[t] < MaxCalls
  /\ calls' = [calls EXCEPT ![t] = @ + 1]
  /\ UNCHANGED <<obj_vars, lock, asleep, item, max_size, size, rc>>

SizeAcquire(t) ==
  /\ At(t, "size_acquire", "size_release")
  /\ Acquire
  /\ size' = [size EXCEPT ![t] = available_msgs]
  /\ UNCHANGED <<obj_vars, asleep, item, max_size, calls, rc>>

SizeRelease(t) ==
  /\ At(t, "size_release", "idle")
  /\ Release
  /\ ReturnRc(t, ReleaseRc("Success"))
  /\ UNCHANGED <<obj_vars, asleep, call_vars>>
-------------------------------------------------------------------------------
Call(t) == CallEnqueue(t) \/ CallDequeue(t) \/ CallSize(t)

Enqueue(t) == \/ EnqAcquire(t) \/ EnqFull(t) \/ EnqWait(t) \/ EnqTimeout(t)
              \/ EnqCopy(t) \/ EnqAvail(t) \/ EnqFree(t)
              \/ EnqRelease(t) \/ EnqWake(t)

Dequeue(t) == \/ DeqAcquire(t) \/ DeqEmpty(t) \/ DeqWait(t) \/ DeqTimeout(t)
              \/ DeqTake(t) \/ DeqTooLarge(t) \/ DeqOutOfMemory(t)
              \/ DeqAvail(t) \/ DeqFree(t) \/ DeqRelease(t) \/ DeqWake(t)

Step(t) == Call(t) \/ Enqueue(t) \/ Dequeue(t) \/ SizeAcquire(t) \/ SizeRelease(t)

\* The program ends when every thread has made its calls.
Done == \A t \in Threads : pc[t] = "idle" /\ calls[t] = MaxCalls
Terminating == Done /\ UNCHANGED vars

Next == (\E t \in Threads : Step(t)) \/ Terminating

Spec == Init /\ [][Next]_vars

\* The operating system keeps running every thread that can run.
FairSpec == Spec /\ \A t \in Threads : WF_vars(Step(t))
-------------------------------------------------------------------------------
Labels == {"idle",
           "enq_acquire", "enq_full", "enq_wait", "enq_asleep", "enq_copy",
           "enq_avail", "enq_free", "enq_release", "enq_wake",
           "deq_acquire", "deq_empty", "deq_wait", "deq_asleep", "deq_take",
           "deq_avail", "deq_free", "deq_release", "deq_wake",
           "size_acquire", "size_release"}

\* The type invariant.  A counter may be one beyond NumBlocks, or one below
\* zero, never: not even between the two stores that move a block.
TypeOK == /\ head \in Blocks
          /\ tail \in Blocks
          /\ available_msgs \in 0 .. NumBlocks
          /\ free_blocks \in 0 .. NumBlocks
          /\ data \in [Blocks -> Item \cup {NoItem}]
          /\ lock \in {0, 1}
          /\ asleep \in [Words -> SUBSET Threads]
          /\ pc \in [Threads -> Labels]
          /\ item \in [Threads -> Item \cup {NoItem}]
          /\ max_size \in [Threads -> Sizes \cup {0}]
          /\ size \in [Threads -> 0 .. NumBlocks]
          /\ rc \in [Threads -> {"Success", "InvalidArgument", "OutOfMemory",
                                 "InvalidOperation", "Timeout"}]
          /\ calls \in [Threads -> 0 .. MaxCalls]

HoldsLock(t) == pc[t] \in {"enq_full", "enq_copy", "enq_avail", "enq_free",
                           "enq_release", "deq_empty", "deq_take", "deq_avail",
                           "deq_free", "deq_release", "size_release"}

\* Two threads are never between spinlock_acquire and spinlock_release, the
\* lock is taken exactly while one is, on every path through the three
\* operations, the waiting and error paths included; and so no release finds
\* the lock free (spinlock.c:98-101).
LockHeldByOne == /\ \A s, t \in Threads : HoldsLock(s) /\ HoldsLock(t) => s = t
                 /\ lock = 1 <=> \E t \in Threads : HoldsLock(t)
                 /\ \A t \in Threads : rc[t] # "InvalidOperation"

\* 1 while some thread is at the label, else 0.
One(label) == IF \E t \in Threads : pc[t] = label THEN 1 ELSE 0

\* How many items the ring holds; DeqTake has already passed one that
\* available_msgs still counts.
Stored == available_msgs - One("deq_avail")

\* The block that holds the i-th oldest item, from 0.
BlockOf(i) == (tail + i) % NumBlocks

\* Four integers describe the ring and must never disagree: the counters
\* add up to NumBlocks but for the store in progress, head is the block
\* after the newest item, and a block is written or taken only when there
\* is one.  (cqueue.c keeps all four by hand at 199-201 and 275-277.)
RingConsistent ==
  /\ available_msgs + free_blocks = NumBlocks + One("enq_free") - One("deq_free")
  /\ head = (tail + Stored + One("enq_avail")) % NumBlocks
  /\ Stored \in 0 .. NumBlocks
  /\ \A t \in Threads : /\ pc[t] = "enq_copy" => free_blocks > 0
                        /\ pc[t] = "enq_avail" => Stored < NumBlocks
                        /\ pc[t] = "deq_take" => available_msgs > 0
  /\ \A i \in 0 .. Stored - 1 : data[BlockOf(i)] # NoItem

\* Threads that have added a message, or freed a block, and have still to
\* call FUTEX_WAKE for it.
WillWake(word) ==
  {t \in Threads : pc[t] \in IF word = "available_msgs"
                             THEN {"enq_free", "enq_release", "enq_wake"}
                             ELSE {"deq_release", "deq_wake"}}

\* Threads that want a message, or a block, and are not asleep.
Awake(word) ==
  {t \in Threads : pc[t] \in IF word = "available_msgs"
                             THEN {"deq_acquire", "deq_empty", "deq_wait",
                                   "deq_take", "deq_avail"}
                             ELSE {"enq_acquire", "enq_full", "enq_wait",
                                   "enq_copy", "enq_avail", "enq_free"}}

Counter(word) == IF word = "available_msgs" THEN available_msgs ELSE free_blocks

\* No wake-up is lost: while a thread sleeps on a word, every unit of that
\* word is either about to be announced by FUTEX_WAKE or has an awake
\* thread on its way to take it.  The lock does not cover the sleep
\* (cqueue.c:181-182 and 244-245); only the kernel's comparison does.
NoLostWakeUp ==
  \A w \in Words : asleep[w] # {} =>
     Counter(w) <= Cardinality(WillWake(w)) + Cardinality(Awake(w))

\* How many units of a word nobody will announce and nobody is on the way to
\* take, although a thread sleeps on it.
Unannounced(w) ==
  LET known == Cardinality(WillWake(w)) + Cardinality(Awake(w)) IN
  IF asleep[w] # {} /\ Counter(w) > known THEN Counter(w) - known ELSE 0

\* With errors and time-outs too, the only step that may lose a wake-up is that
\* of a dequeuer which finds an item and returns an error without taking it
\* (cqueue.c:259-271), and it loses one: no other step strands a sleeper.
WakeUpsLostByFailuresOnly ==
  [][\A w \in Words : Unannounced(w)' > Unannounced(w) =>
        /\ w = "available_msgs"
        /\ Unannounced(w)' = Unannounced(w) + 1
        /\ \E t \in Threads : pc[t] = "deq_take" /\ pc'[t] = "idle"]_vars

-------------------------------------------------------------------------------
(***************************************************************************)
(* The ring implements the queue its callers were promised.  An enqueue    *)
(* takes effect when it counts its message, a dequeue when it copies the   *)
(* oldest block out, cqueue_size when it reads the counter.                *)
(***************************************************************************)
Contents == [i \in 1 .. Stored |-> data[BlockOf(i - 1)]]

CallStatus(t) ==
  CASE pc[t] \in {"enq_acquire", "enq_full", "enq_wait", "enq_asleep",
                  "enq_copy", "enq_avail"} -> "putting"
    [] pc[t] \in {"deq_acquire", "deq_empty", "deq_wait", "deq_asleep",
                  "deq_take"} -> "getting"
    [] pc[t] = "size_acquire" -> "sizing"
    [] pc[t] = "idle" -> "idle"
    [] OTHER -> "done"

Fifo == INSTANCE BoundedFifo
          WITH Items <- Item, Capacity <- NumBlocks, queue <- Contents,
               status <- [t \in Threads |-> CallStatus(t)],
               value <- item, length <- size

\* Every behaviour of the ring is one of a FIFO queue of NumBlocks items in
\* which each call takes effect at one instant between its start and its
\* return: no item is lost, duplicated, overtaken or invented.
IsFifo == Fifo!Spec

\* The blocking calls return: with as many dequeues as enqueues asked for,
\* every call returns and the queue ends empty, as the test program expects
\* (qmain.c:104-132).
DrainsAndStops == <>(Done /\ available_msgs = 0 /\ free_blocks = NumBlocks)
===============================================================================
