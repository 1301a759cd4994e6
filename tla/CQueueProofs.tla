----------------------------- MODULE CQueueProofs -----------------------------
(***************************************************************************)
(* Theorems about the blocking queue of CQueue: its invariants, its        *)
(* wake-ups, and that it implements the queue of BoundedFifo.              *)
(***************************************************************************)
EXTENDS CQueue, FiniteSetTheorems, SequenceTheorems, TLAPS

\* An index that runs at most once past the end of the ring.
LEMMA Wrap ==
  \A n \in Nat \ {0} : \A a \in 0 .. 2 * n - 1 :
     a % n = IF a < n THEN a ELSE a - n
<1> SUFFICES ASSUME NEW n \in Nat \ {0}, NEW a \in 0 .. 2 * n - 1
             PROVE  a % n = IF a < n THEN a ELSE a - n
  OBVIOUS
<1>1. CASE a < n
  BY <1>1
<1>2. CASE a >= n
  BY <1>2
<1> QED
  BY <1>1, <1>2

\* Moving an index once past k items is moving it past k + 1.
LEMMA Advance ==
  ASSUME NEW n \in Nat \ {0}, NEW a \in 0 .. n - 1, NEW k \in 0 .. n - 1
  PROVE  /\ (((a + k) % n) + 1) % n = (a + k + 1) % n
         /\ (((a + 1) % n) + k) % n = (a + k + 1) % n
<1>1. PICK b \in 0 .. 2 * n - 1 : b = a + k
  OBVIOUS
<1>2. PICK c \in 0 .. 2 * n - 1 : c = a + 1
  OBVIOUS
<1>3. PICK d \in 0 .. 2 * n - 1 : d = a + k + 1
  OBVIOUS
<1>4. /\ b % n = IF b < n THEN b ELSE b - n
      /\ c % n = IF c < n THEN c ELSE c - n
      /\ d % n = IF d < n THEN d ELSE d - n
  BY Wrap
<1>5. PICK e \in 0 .. 2 * n - 1 : e = (b % n) + 1
  BY <1>1, <1>4
<1>6. PICK f \in 0 .. 2 * n - 1 : f = (c % n) + k
  <2>1. c % n \in 0 .. n - 1
    BY <1>2, <1>4
  <2>2. (c % n) + k \in 0 .. 2 * n - 1
    BY <2>1
  <2> QED
    BY <2>2
<1>7. /\ e % n = IF e < n THEN e ELSE e - n
      /\ f % n = IF f < n THEN f ELSE f - n
  BY Wrap
<1>8. e % n = d % n
  BY <1>1, <1>3, <1>4, <1>5, <1>7
<1>9. f % n = d % n
  BY <1>2, <1>3, <1>4, <1>6, <1>7
<1> QED
  BY <1>1, <1>2, <1>3, <1>5, <1>6, <1>8, <1>9

\* Within one lap of the ring two positions are two blocks.
LEMMA BlocksDiffer ==
  ASSUME NEW n \in Nat \ {0}, NEW a \in 0 .. n - 1,
         NEW j \in 0 .. n - 1, NEW k \in 0 .. n - 1, j # k
  PROVE  (a + j) % n # (a + k) % n
<1>1. PICK b \in 0 .. 2 * n - 1 : b = a + j
  OBVIOUS
<1>2. PICK c \in 0 .. 2 * n - 1 : c = a + k
  OBVIOUS
<1>3. /\ b % n = IF b < n THEN b ELSE b - n
      /\ c % n = IF c < n THEN c ELSE c - n
  BY Wrap
<1>4. b % n # c % n
  BY <1>1, <1>2, <1>3
<1> QED
  BY <1>1, <1>2, <1>4

\* A function on 1 .. n is a sequence of length n.
LEMMA FunctionIsSeq ==
  ASSUME NEW S, NEW n \in Nat, NEW f \in [1 .. n -> S]
  PROVE  f \in Seq(S) /\ Len(f) = n
<1>1. f \in Seq(S)
  BY SeqDef
<1>2. DOMAIN f = 1 .. Len(f) /\ Len(f) \in Nat
  BY <1>1, LenProperties
<1>3. \A m \in Nat : 1 .. n = 1 .. m => n = m
  OBVIOUS
<1> QED
  BY <1>1, <1>2, <1>3
-------------------------------------------------------------------------------
\* A thread is in a word's wait queue exactly while it is at the label where
\* it sleeps on that word.
SleepersAsleep ==
  /\ \A t \in Threads : t \in asleep["free_blocks"] <=> pc[t] = "enq_asleep"
  /\ \A t \in Threads : t \in asleep["available_msgs"] <=> pc[t] = "deq_asleep"

Putting == {"enq_acquire", "enq_full", "enq_wait", "enq_asleep", "enq_copy",
            "enq_avail"}

\* A thread inside cqueue_enqueue has an item to put.
PutsAnItem == \A t \in Threads : pc[t] \in Putting => item[t] \in Item

\* Between the copy and the store that counts it, the new item is already in
\* the block after the ones counted.
CopiedItem ==
  \A t \in Threads : pc[t] = "enq_avail" => data[BlockOf(Stored)] = item[t]

\* The inductive invariant.  The counters stay in range (TypeOK) because the
\* ring is consistent, which depends on the lock, whose owner is told by pc.
IInv == /\ TypeOK
        /\ LockHeldByOne
        /\ SleepersAsleep
        /\ PutsAnItem
        /\ CopiedItem
        /\ RingConsistent
-------------------------------------------------------------------------------
LEMMA InitIInv == Init => IInv
<1> SUFFICES ASSUME Init PROVE IInv
  OBVIOUS
<1> USE ConstantsAssumption
<1>1. TypeOK
  BY DEF Init, TypeOK, Blocks, Labels, Words
<1>2. LockHeldByOne
  BY DEF Init, LockHeldByOne, HoldsLock
<1>3. SleepersAsleep
  BY DEF Init, SleepersAsleep, Words
<1>4. PutsAnItem
  BY DEF Init, PutsAnItem, Putting
<1>6. CopiedItem
  BY DEF Init, CopiedItem
<1>5. RingConsistent
  <2>1. \A l : l # "idle" => One(l) = 0
    BY DEF Init, One
  <2>2. Stored = 0
    BY <2>1 DEF Init, Stored
  <2>3. (0 + 0 + 0) % NumBlocks = 0
    OBVIOUS
  <2> QED
    BY <2>1, <2>2, <2>3 DEF Init, RingConsistent
<1> QED
  BY <1>1, <1>2, <1>3, <1>4, <1>5, <1>6 DEF IInv
-------------------------------------------------------------------------------
\* While t is inside the lock no other thread is at a label inside it.
LEMMA Alone ==
  ASSUME LockHeldByOne, NEW t \in Threads, HoldsLock(t),
         NEW l, l # pc[t],
         l \in {"enq_full", "enq_copy", "enq_avail", "enq_free",
                "enq_release", "deq_empty", "deq_take", "deq_avail",
                "deq_free", "deq_release", "size_release"}
  PROVE  One(l) = 0
BY DEF LockHeldByOne, HoldsLock, One

\* What the lock's owner knows of the counter it is about to store.
LEMMA OwnerFacts ==
  ASSUME IInv, NEW t \in Threads
  PROVE  /\ pc[t] = "enq_avail" => available_msgs < NumBlocks
         /\ pc[t] = "enq_free" => free_blocks > 0
         /\ pc[t] = "deq_avail" => available_msgs > 0
         /\ pc[t] = "deq_free" => free_blocks < NumBlocks
<1> USE ConstantsAssumption DEF IInv, TypeOK, RingConsistent, Stored
<1>1. ASSUME pc[t] = "enq_avail" PROVE available_msgs < NumBlocks
  <2>1. One("deq_avail") = 0
    BY <1>1, Alone DEF HoldsLock
  <2> QED
    BY <1>1, <2>1
<1>2. ASSUME pc[t] = "enq_free" PROVE free_blocks > 0
  <2>1. One("enq_free") = 1 /\ One("deq_free") = 0
    BY <1>2, Alone DEF HoldsLock, One
  <2> QED
    BY <2>1
<1>3. ASSUME pc[t] = "deq_avail" PROVE available_msgs > 0
  <2>1. One("deq_avail") = 1
    BY <1>3 DEF One
  <2> QED
    BY <2>1
<1>4. ASSUME pc[t] = "deq_free" PROVE free_blocks < NumBlocks
  <2>1. One("enq_free") = 0 /\ One("deq_free") = 1
    BY <1>4, Alone DEF HoldsLock, One
  <2> QED
    BY <2>1
<1> QED
  BY <1>1, <1>2, <1>3, <1>4

LEMMA TypeOKStep == IInv /\ [Next]_vars => TypeOK'
<1> SUFFICES ASSUME IInv, [Next]_vars PROVE TypeOK'
  OBVIOUS
<1> USE ConstantsAssumption DEF TypeOK
<1>0. TypeOK
  BY DEF IInv
<1>1. CASE UNCHANGED vars
  BY <1>0, <1>1 DEF vars, obj_vars, call_vars
<1>2. ASSUME NEW t \in Threads, Step(t) PROVE TypeOK'
  <2>1. CASE CallEnqueue(t)
    BY <1>0, <2>1 DEF CallEnqueue, Goto, ReturnRc, obj_vars, Labels, Item
  <2>2. CASE CallDequeue(t)
    BY <1>0, <2>2 DEF CallDequeue, Goto, ReturnRc, obj_vars, Labels
  <2>3. CASE CallSize(t)
    BY <1>0, <2>3 DEF CallSize, At, Goto, obj_vars, Labels
  <2>4. CASE EnqAcquire(t) \/ EnqFull(t) \/ DeqAcquire(t) \/ DeqEmpty(t)
    BY <1>0, <2>4 DEF EnqAcquire, EnqFull, DeqAcquire, DeqEmpty, Acquire,
                      Release, At, Goto, obj_vars, call_vars, Labels
  <2>5. CASE EnqWait(t) \/ DeqWait(t)
    BY <1>0, <2>5 DEF EnqWait, DeqWait, FutexWait, Goto, obj_vars, call_vars,
                      Labels, Words
  <2>6. CASE EnqTimeout(t) \/ DeqTimeout(t)
    BY <1>0, <2>6 DEF EnqTimeout, DeqTimeout, FutexTimeout, Goto, ReturnRc,
                      obj_vars, call_vars, Labels, Words
  <2>7. CASE EnqWake(t) \/ DeqWake(t)
    BY <1>0, <2>7 DEF EnqWake, DeqWake, FutexWake, Goto, obj_vars, call_vars,
                      Labels, Words
  <2>8. CASE EnqCopy(t)
    <3>1. head' \in Blocks
      BY <1>0, <2>8 DEF EnqCopy, Blocks
    <3> QED
      BY <1>0, <2>8, <3>1 DEF EnqCopy, At, Goto, call_vars, Labels
  <2>9. CASE DeqTake(t)
    <3>1. tail' \in Blocks
      BY <1>0, <2>9 DEF DeqTake, Blocks
    <3> QED
      BY <1>0, <2>9, <3>1 DEF DeqTake, At, Goto, Labels
  <2>10. CASE EnqAvail(t) \/ EnqFree(t) \/ DeqAvail(t) \/ DeqFree(t)
    BY <1>0, <2>10, OwnerFacts DEF EnqAvail, EnqFree, DeqAvail, DeqFree, At,
                                   Goto, call_vars, Labels
  <2>11. CASE EnqRelease(t) \/ DeqRelease(t) \/ SizeRelease(t)
    BY <1>0, <2>11 DEF EnqRelease, DeqRelease, SizeRelease, At, Goto, Release,
                       ReleaseRc, ReturnRc, obj_vars, call_vars, Labels
  <2>12. CASE DeqTooLarge(t) \/ DeqOutOfMemory(t)
    BY <1>0, <2>12 DEF DeqTooLarge, DeqOutOfMemory, At, Goto, Release,
                       ReturnRc, obj_vars, call_vars, Labels
  <2>13. CASE SizeAcquire(t)
    BY <1>0, <2>13 DEF SizeAcquire, At, Goto, Acquire, obj_vars, Labels
  <2> QED
    BY <1>2, <2>1, <2>2, <2>3, <2>4, <2>5, <2>6, <2>7, <2>8, <2>9, <2>10,
       <2>11, <2>12, <2>13 DEF Step, Call, Enqueue, Dequeue
<1> QED
  BY <1>1, <1>2 DEF Next, Terminating

\* spinlock_acquire needs the lock free and spinlock_release needs it held,
\* so the lock passes from owner to owner.
LEMMA LockStep == IInv /\ [Next]_vars => LockHeldByOne'
<1> SUFFICES ASSUME IInv, [Next]_vars PROVE LockHeldByOne'
  OBVIOUS
<1>0. TypeOK /\ LockHeldByOne /\ SleepersAsleep
  BY DEF IInv
<1>1. CASE UNCHANGED vars
  BY <1>0, <1>1 DEF vars, call_vars, LockHeldByOne, HoldsLock
<1>2. ASSUME NEW t \in Threads, Step(t) PROVE LockHeldByOne'
  <2> USE DEF LockHeldByOne, HoldsLock
  <2>2. CASE CallEnqueue(t) \/ CallDequeue(t) \/ CallSize(t)
    BY <1>0, <2>2 DEF CallEnqueue, CallDequeue, CallSize, At, Goto, ReturnRc,
                      TypeOK
  <2>3. CASE EnqAcquire(t) \/ DeqAcquire(t) \/ SizeAcquire(t)
    BY <1>0, <2>3 DEF EnqAcquire, DeqAcquire, SizeAcquire, Acquire, At, Goto,
                      TypeOK
  <2>4. CASE EnqFull(t) \/ DeqEmpty(t)
    BY <1>0, <2>4 DEF EnqFull, DeqEmpty, Release, At, Goto, TypeOK
  <2>5. CASE EnqWait(t) \/ DeqWait(t)
    BY <1>0, <2>5 DEF EnqWait, DeqWait, FutexWait, Goto, TypeOK
  <2>6. CASE EnqTimeout(t) \/ DeqTimeout(t)
    BY <1>0, <2>6 DEF EnqTimeout, DeqTimeout, FutexTimeout, SleepersAsleep,
                      Goto, ReturnRc, TypeOK
  <2>7. CASE EnqWake(t) \/ DeqWake(t)
    BY <1>0, <2>7 DEF EnqWake, DeqWake, FutexWake, SleepersAsleep, Goto, TypeOK,
                      Words
  <2>8. CASE EnqCopy(t) \/ EnqAvail(t) \/ EnqFree(t)
    BY <1>0, <2>8 DEF EnqCopy, EnqAvail, EnqFree, At, Goto, TypeOK
  <2>9. CASE DeqTake(t) \/ DeqAvail(t) \/ DeqFree(t)
    BY <1>0, <2>9 DEF DeqTake, DeqAvail, DeqFree, At, Goto, TypeOK
  <2>10. CASE EnqRelease(t) \/ DeqRelease(t) \/ SizeRelease(t)
    BY <1>0, <2>10 DEF EnqRelease, DeqRelease, SizeRelease, At, Goto, Release,
                       ReleaseRc, ReturnRc, TypeOK
  <2>11. CASE DeqTooLarge(t) \/ DeqOutOfMemory(t)
    BY <1>0, <2>11 DEF DeqTooLarge, DeqOutOfMemory, At, Goto, Release,
                       ReturnRc, TypeOK
  <2> QED
    BY <1>2, <2>2, <2>3, <2>4, <2>5, <2>6, <2>7, <2>8, <2>9, <2>10, <2>11
       DEF Step, Call, Enqueue, Dequeue
<1> QED
  BY <1>1, <1>2 DEF Next, Terminating

LEMMA SleepersStep == IInv /\ [Next]_vars => SleepersAsleep'
<1> SUFFICES ASSUME IInv, [Next]_vars PROVE SleepersAsleep'
  OBVIOUS
<1>0. TypeOK /\ SleepersAsleep
  BY DEF IInv
<1> USE DEF SleepersAsleep, TypeOK, Words
<1>1. CASE UNCHANGED vars
  BY <1>0, <1>1 DEF vars
<1>2. ASSUME NEW t \in Threads, Step(t) PROVE SleepersAsleep'
  <2>1. CASE EnqWait(t) \/ DeqWait(t)
    BY <1>0, <2>1 DEF EnqWait, DeqWait, FutexWait, Goto
  <2>2. CASE EnqTimeout(t) \/ DeqTimeout(t)
    BY <1>0, <2>2 DEF EnqTimeout, DeqTimeout, FutexTimeout, Goto
  <2>3. CASE EnqWake(t) \/ DeqWake(t)
    BY <1>0, <2>3 DEF EnqWake, DeqWake, FutexWake, Goto
  <2>4. CASE Call(t) \/ SizeAcquire(t) \/ SizeRelease(t)
    BY <1>0, <2>4 DEF Call, CallEnqueue, CallDequeue, CallSize, SizeAcquire,
                      SizeRelease, At, Goto
  <2>5. CASE \/ EnqAcquire(t) \/ EnqFull(t) \/ EnqCopy(t) \/ EnqAvail(t)
             \/ EnqFree(t) \/ EnqRelease(t)
    BY <1>0, <2>5 DEF EnqAcquire, EnqFull, EnqCopy, EnqAvail, EnqFree,
                      EnqRelease, At, Goto
  <2>6. CASE \/ DeqAcquire(t) \/ DeqEmpty(t) \/ DeqTake(t) \/ DeqTooLarge(t)
             \/ DeqOutOfMemory(t) \/ DeqAvail(t) \/ DeqFree(t) \/ DeqRelease(t)
    BY <1>0, <2>6 DEF DeqAcquire, DeqEmpty, DeqTake, DeqTooLarge,
                      DeqOutOfMemory, DeqAvail, DeqFree, DeqRelease, At, Goto
  <2> QED
    BY <1>2, <2>1, <2>2, <2>3, <2>4, <2>5, <2>6 DEF Step, Enqueue, Dequeue
<1> QED
  BY <1>1, <1>2 DEF Next, Terminating

LEMMA PutsStep == IInv /\ [Next]_vars => PutsAnItem'
<1> SUFFICES ASSUME IInv, [Next]_vars PROVE PutsAnItem'
  OBVIOUS
<1>0. TypeOK /\ SleepersAsleep /\ PutsAnItem
  BY DEF IInv
<1> USE DEF PutsAnItem, Putting, TypeOK
<1>1. CASE UNCHANGED vars
  BY <1>0, <1>1 DEF vars, call_vars
<1>2. ASSUME NEW t \in Threads, Step(t) PROVE PutsAnItem'
  <2>1. CASE CallEnqueue(t)
    <3>1. calls[t] + 1 \in 1 .. MaxCalls
      BY <1>0, <2>1, ConstantsAssumption DEF CallEnqueue
    <3> QED
      BY <1>0, <2>1, <3>1 DEF CallEnqueue, Item, Goto
  <2>2. CASE CallDequeue(t) \/ CallSize(t) \/ SizeAcquire(t) \/ SizeRelease(t)
    BY <1>0, <2>2 DEF CallDequeue, CallSize, SizeAcquire, SizeRelease, At, Goto,
                      call_vars
  <2>3. CASE EnqWait(t) \/ DeqWait(t)
    BY <1>0, <2>3 DEF EnqWait, DeqWait, FutexWait, Goto, call_vars
  <2>4. CASE EnqTimeout(t) \/ DeqTimeout(t)
    BY <1>0, <2>4 DEF EnqTimeout, DeqTimeout, FutexTimeout, SleepersAsleep,
                      Goto, call_vars
  <2>5. CASE EnqWake(t) \/ DeqWake(t)
    BY <1>0, <2>5 DEF EnqWake, DeqWake, FutexWake, SleepersAsleep, Goto,
                      call_vars, Words
  <2>6. CASE \/ EnqAcquire(t) \/ EnqFull(t) \/ EnqCopy(t) \/ EnqAvail(t)
             \/ EnqFree(t) \/ EnqRelease(t)
    BY <1>0, <2>6 DEF EnqAcquire, EnqFull, EnqCopy, EnqAvail, EnqFree,
                      EnqRelease, At, Goto, call_vars
  <2>7. CASE \/ DeqAcquire(t) \/ DeqEmpty(t) \/ DeqTake(t) \/ DeqTooLarge(t)
             \/ DeqOutOfMemory(t) \/ DeqAvail(t) \/ DeqFree(t) \/ DeqRelease(t)
    BY <1>0, <2>7 DEF DeqAcquire, DeqEmpty, DeqTake, DeqTooLarge,
                      DeqOutOfMemory, DeqAvail, DeqFree, DeqRelease, At, Goto,
                      call_vars
  <2> QED
    BY <1>2, <2>1, <2>2, <2>3, <2>4, <2>5, <2>6, <2>7
       DEF Step, Call, Enqueue, Dequeue
<1> QED
  BY <1>1, <1>2 DEF Next, Terminating
-------------------------------------------------------------------------------
(***************************************************************************)
(* The ring.                                                               *)
(***************************************************************************)
\* The labels at which the ring's indices do not add up.
Storing == {"enq_avail", "enq_free", "deq_avail", "deq_free"}

\* The ring is consistent again after a step that leaves it alone.
LEMMA RingUntouched ==
  ASSUME IInv, UNCHANGED obj_vars,
         \A s \in Threads : pc'[s] # pc[s] =>
            /\ pc[s] \notin Storing /\ pc'[s] \notin Storing
            /\ pc'[s] = "enq_copy" => free_blocks > 0
            /\ pc'[s] = "deq_take" => available_msgs > 0,
         \A s \in Threads : pc[s] = "enq_avail" => item'[s] = item[s]
  PROVE  RingConsistent' /\ CopiedItem'
<1>1. \A l \in Storing : One(l)' = One(l)
  BY DEF One
<1>2. Stored' = Stored
  BY <1>1 DEF Stored, Storing, obj_vars
<1>3. \A i : BlockOf(i)' = BlockOf(i)
  BY DEF BlockOf, obj_vars
<1>4. CopiedItem'
  BY <1>2, <1>3 DEF IInv, CopiedItem, Storing, obj_vars
<1>5. RingConsistent'
  <2>1. \A s \in Threads : /\ pc'[s] = "enq_copy" => free_blocks' > 0
                           /\ pc'[s] = "enq_avail" => Stored' < NumBlocks
                           /\ pc'[s] = "deq_take" => available_msgs' > 0
    BY <1>2 DEF IInv, RingConsistent, Storing, obj_vars
  <2> QED
    BY <1>1, <1>2, <1>3, <2>1 DEF IInv, RingConsistent, Storing, obj_vars
<1> QED
  BY <1>4, <1>5

\* The owner of the lock, and where it goes, are all that One can see.
LEMMA OwnerMoves ==
  ASSUME TypeOK, LockHeldByOne, NEW t \in Threads, HoldsLock(t),
         NEW to \in Labels, Goto(t, to)
  PROVE  /\ \A l \in Storing : One(l) = IF pc[t] = l THEN 1 ELSE 0
         /\ \A l \in Storing : One(l)' = IF to = l THEN 1 ELSE 0
         /\ \A s \in Threads : s # t =>
              ~HoldsLock(s) /\ ~HoldsLock(s)' /\ pc'[s] = pc[s]
         /\ pc'[t] = to
<1>1. \A s \in Threads : s # t =>
         ~HoldsLock(s) /\ ~HoldsLock(s)' /\ pc'[s] = pc[s]
  BY DEF LockHeldByOne, HoldsLock, Goto, TypeOK
<1>2. pc'[t] = to
  BY DEF Goto, TypeOK
<1> QED
  BY <1>1, <1>2 DEF One, Storing, HoldsLock

LEMMA RingStep == IInv /\ [Next]_vars => RingConsistent' /\ CopiedItem'
<1> SUFFICES ASSUME IInv, [Next]_vars PROVE RingConsistent' /\ CopiedItem'
  OBVIOUS
<1> USE ConstantsAssumption
<1>0. TypeOK /\ LockHeldByOne /\ SleepersAsleep /\ PutsAnItem /\ RingConsistent
      /\ CopiedItem
  BY DEF IInv
<1>1. CASE UNCHANGED vars
  BY <1>0, <1>1, RingUntouched DEF vars, obj_vars, call_vars
<1>2. ASSUME NEW t \in Threads, Step(t) PROVE RingConsistent' /\ CopiedItem'
  <2>1. CASE CallEnqueue(t) \/ CallDequeue(t)
    <3>1. /\ UNCHANGED obj_vars
          /\ pc' = pc \/ pc' = [pc EXCEPT ![t] = "enq_acquire"]
                      \/ pc' = [pc EXCEPT ![t] = "deq_acquire"]
          /\ pc[t] = "idle"
      BY <2>1 DEF CallEnqueue, CallDequeue, Goto
    <3>2. \A s \in Threads : s # t => item'[s] = item[s]
      BY <1>0, <2>1 DEF CallEnqueue, CallDequeue, TypeOK
    <3> QED
      BY <1>0, <3>1, <3>2, RingUntouched DEF TypeOK, Storing
  <2>14. CASE CallSize(t) \/ SizeAcquire(t) \/ SizeRelease(t)
    BY <1>0, <2>14, RingUntouched
       DEF CallSize, SizeAcquire, SizeRelease, At, Goto, obj_vars, call_vars,
           TypeOK, Storing
  <2>2. CASE EnqAcquire(t) \/ EnqFull(t) \/ EnqRelease(t)
    BY <1>0, <2>2, RingUntouched
       DEF EnqAcquire, EnqFull, EnqRelease, At, Goto, obj_vars, call_vars,
           TypeOK, Storing
  <2>3. CASE DeqAcquire(t) \/ DeqEmpty(t) \/ DeqRelease(t)
    BY <1>0, <2>3, RingUntouched
       DEF DeqAcquire, DeqEmpty, DeqRelease, At, Goto, obj_vars, call_vars,
           TypeOK, Storing
  <2>4. CASE DeqTooLarge(t) \/ DeqOutOfMemory(t)
    BY <1>0, <2>4, RingUntouched
       DEF DeqTooLarge, DeqOutOfMemory, At, Goto, obj_vars, call_vars, TypeOK,
           Storing
  <2>5. CASE EnqWait(t) \/ DeqWait(t)
    BY <1>0, <2>5, RingUntouched
       DEF EnqWait, DeqWait, FutexWait, Goto, obj_vars, call_vars, TypeOK,
           Storing
  <2>6. CASE EnqTimeout(t) \/ DeqTimeout(t)
    BY <1>0, <2>6, RingUntouched
       DEF EnqTimeout, DeqTimeout, FutexTimeout, SleepersAsleep, Goto, obj_vars,
           call_vars, TypeOK, Storing
  <2>7. CASE EnqWake(t) \/ DeqWake(t)
    BY <1>0, <2>7, RingUntouched
       DEF EnqWake, DeqWake, FutexWake, SleepersAsleep, Goto, obj_vars,
           call_vars, TypeOK, Storing
  <2>8. CASE EnqCopy(t)
    <3>1. HoldsLock(t) /\ Goto(t, "enq_avail") /\ pc[t] = "enq_copy"
      BY <2>8 DEF EnqCopy, At, HoldsLock
    <3>2. /\ \A l \in Storing : One(l) = 0
          /\ \A l \in Storing : One(l)' = IF l = "enq_avail" THEN 1 ELSE 0
          /\ \A s \in Threads : s # t => ~HoldsLock(s)'
          /\ pc'[t] = "enq_avail"
      BY <1>0, <3>1, OwnerMoves DEF Labels, Storing
    <3>3. /\ Stored = available_msgs /\ Stored' = Stored
          /\ Stored < NumBlocks /\ Stored \in Nat
      BY <1>0, <2>8, <3>1, <3>2
         DEF EnqCopy, Stored, Storing, TypeOK, RingConsistent
    <3>4. head = BlockOf(Stored)
      BY <1>0, <3>2, <3>3 DEF RingConsistent, Storing, BlockOf, TypeOK
    <3>5. head' = (tail + Stored + 1) % NumBlocks
      <4>1. PICK k \in 0 .. NumBlocks - 1 : k = Stored
        BY <3>3
      <4>2. (((tail + k) % NumBlocks) + 1) % NumBlocks = (tail + k + 1) % NumBlocks
        BY <1>0, Advance DEF TypeOK, Blocks
      <4> QED
        BY <2>8, <3>4, <4>1, <4>2 DEF EnqCopy, BlockOf
    <3>6. item[t] \in Item /\ item[t] # NoItem
      BY <1>0, <3>1 DEF PutsAnItem, Putting
    <3>7. /\ data'[head] = item[t]
          /\ \A b \in Blocks : b # head => data'[b] = data[b]
      BY <1>0, <2>8 DEF EnqCopy, TypeOK
    <3>8. \A j : BlockOf(j)' = BlockOf(j)
      BY <2>8 DEF EnqCopy, BlockOf
    <3>9. CopiedItem'
      <4>1. data'[BlockOf(Stored)'] = item'[t]
        BY <2>8, <3>3, <3>4, <3>7, <3>8 DEF EnqCopy, call_vars
      <4> QED
        BY <3>2, <3>3, <4>1, <3>8 DEF CopiedItem, HoldsLock
    <3>10. \A j \in 0 .. Stored - 1 : data'[BlockOf(j)'] # NoItem
      <4>1. \A j \in 0 .. Stored - 1 : BlockOf(j) \in Blocks
        BY <1>0, <3>3 DEF BlockOf, Blocks, TypeOK
      <4> QED
        BY <1>0, <3>6, <3>7, <3>8, <4>1 DEF RingConsistent
    <3> QED
      BY <1>0, <2>8, <3>2, <3>3, <3>5, <3>9, <3>10
         DEF EnqCopy, RingConsistent, HoldsLock, TypeOK, Storing
  <2>9. CASE EnqAvail(t)
    <3>1. HoldsLock(t) /\ Goto(t, "enq_free") /\ pc[t] = "enq_avail"
      BY <2>9 DEF EnqAvail, At, HoldsLock
    <3>2. /\ \A l \in Storing : One(l) = IF l = "enq_avail" THEN 1 ELSE 0
          /\ \A l \in Storing : One(l)' = IF l = "enq_free" THEN 1 ELSE 0
          /\ \A s \in Threads : s # t => ~HoldsLock(s)'
          /\ pc'[t] = "enq_free"
      BY <1>0, <3>1, OwnerMoves DEF Labels, Storing
    <3>3. /\ Stored' = Stored + 1
          /\ Stored < NumBlocks /\ Stored \in Nat
      BY <1>0, <2>9, <3>1, <3>2
         DEF EnqAvail, Stored, Storing, TypeOK, RingConsistent
    <3>4. \A j : BlockOf(j)' = BlockOf(j)
      BY <2>9 DEF EnqAvail, BlockOf
    <3>5. data[BlockOf(Stored)] # NoItem
      BY <1>0, <3>1 DEF CopiedItem, PutsAnItem, Putting
    <3>6. \A j \in 0 .. Stored' - 1 : data'[BlockOf(j)'] # NoItem
      BY <1>0, <2>9, <3>3, <3>4, <3>5 DEF EnqAvail, RingConsistent
    <3>7. CopiedItem'
      BY <3>2 DEF CopiedItem, HoldsLock
    <3> QED
      BY <1>0, <2>9, <3>2, <3>3, <3>6, <3>7
         DEF EnqAvail, RingConsistent, HoldsLock, TypeOK, Storing
  <2>10. CASE EnqFree(t)
    <3>1. HoldsLock(t) /\ Goto(t, "enq_release") /\ pc[t] = "enq_free"
      BY <2>10 DEF EnqFree, At, HoldsLock
    <3>2. /\ \A l \in Storing : One(l) = IF l = "enq_free" THEN 1 ELSE 0
          /\ \A l \in Storing : One(l)' = 0
          /\ \A s \in Threads : s # t => ~HoldsLock(s)'
          /\ pc'[t] = "enq_release"
      BY <1>0, <3>1, OwnerMoves DEF Labels, Storing
    <3>3. Stored' = Stored
      BY <2>10, <3>2 DEF EnqFree, Stored, Storing
    <3>4. \A j : BlockOf(j)' = BlockOf(j)
      BY <2>10 DEF EnqFree, BlockOf
    <3>5. CopiedItem'
      BY <3>2 DEF CopiedItem, HoldsLock
    <3> QED
      BY <1>0, <2>10, <3>2, <3>3, <3>4, <3>5
         DEF EnqFree, RingConsistent, HoldsLock, TypeOK, Storing
  <2>11. CASE DeqTake(t)
    <3>1. HoldsLock(t) /\ Goto(t, "deq_avail") /\ pc[t] = "deq_take"
      BY <2>11 DEF DeqTake, At, HoldsLock
    <3>2. /\ \A l \in Storing : One(l) = 0
          /\ \A l \in Storing : One(l)' = IF l = "deq_avail" THEN 1 ELSE 0
          /\ \A s \in Threads : s # t => ~HoldsLock(s)'
          /\ pc'[t] = "deq_avail"
      BY <1>0, <3>1, OwnerMoves DEF Labels, Storing
    <3>3. /\ Stored = available_msgs /\ Stored' = Stored - 1
          /\ Stored \in 1 .. NumBlocks
      BY <1>0, <2>11, <3>1, <3>2
         DEF DeqTake, Stored, Storing, TypeOK, RingConsistent
    <3>4. \A j \in 0 .. NumBlocks - 1 : BlockOf(j)' = BlockOf(j + 1)
      <4>1. ASSUME NEW j \in 0 .. NumBlocks - 1
            PROVE  BlockOf(j)' = BlockOf(j + 1)
        <5>1. (((tail + 1) % NumBlocks) + j) % NumBlocks = (tail + j + 1) % NumBlocks
          BY <1>0, Advance DEF TypeOK, Blocks
        <5>2. tail + j + 1 = tail + (j + 1)
          BY <1>0 DEF TypeOK, Blocks
        <5> QED
          BY <2>11, <5>1, <5>2 DEF DeqTake, BlockOf
      <4> QED
        BY <4>1
    <3>5. head' = (tail' + Stored') % NumBlocks
      <4>1. head = BlockOf(Stored)
        BY <1>0, <3>2, <3>3 DEF RingConsistent, Storing, BlockOf, TypeOK
      <4>2. PICK j \in 0 .. NumBlocks - 1 : j = Stored - 1
        BY <3>3
      <4>3. BlockOf(j)' = BlockOf(j + 1) /\ j + 1 = Stored
        BY <3>3, <3>4, <4>2
      <4> QED
        BY <2>11, <3>3, <4>1, <4>2, <4>3 DEF DeqTake, BlockOf
    <3>6. \A j \in 0 .. Stored' - 1 : data'[BlockOf(j)'] # NoItem
      BY <1>0, <2>11, <3>3, <3>4 DEF DeqTake, RingConsistent
    <3>7. CopiedItem'
      BY <3>2 DEF CopiedItem, HoldsLock
    <3> QED
      BY <1>0, <2>11, <3>2, <3>3, <3>5, <3>6, <3>7
         DEF DeqTake, RingConsistent, HoldsLock, TypeOK, Storing
  <2>12. CASE DeqAvail(t)
    <3>1. HoldsLock(t) /\ Goto(t, "deq_free") /\ pc[t] = "deq_avail"
      BY <2>12 DEF DeqAvail, At, HoldsLock
    <3>2. /\ \A l \in Storing : One(l) = IF l = "deq_avail" THEN 1 ELSE 0
          /\ \A l \in Storing : One(l)' = IF l = "deq_free" THEN 1 ELSE 0
          /\ \A s \in Threads : s # t => ~HoldsLock(s)'
          /\ pc'[t] = "deq_free"
      BY <1>0, <3>1, OwnerMoves DEF Labels, Storing
    <3>3. Stored' = Stored
      BY <1>0, <2>12, <3>2 DEF DeqAvail, Stored, Storing, TypeOK
    <3>4. \A j : BlockOf(j)' = BlockOf(j)
      BY <2>12 DEF DeqAvail, BlockOf
    <3>5. CopiedItem'
      BY <3>2 DEF CopiedItem, HoldsLock
    <3> QED
      BY <1>0, <2>12, <3>2, <3>3, <3>4, <3>5
         DEF DeqAvail, RingConsistent, HoldsLock, TypeOK, Storing
  <2>13. CASE DeqFree(t)
    <3>1. HoldsLock(t) /\ Goto(t, "deq_release") /\ pc[t] = "deq_free"
      BY <2>13 DEF DeqFree, At, HoldsLock
    <3>2. /\ \A l \in Storing : One(l) = IF l = "deq_free" THEN 1 ELSE 0
          /\ \A l \in Storing : One(l)' = 0
          /\ \A s \in Threads : s # t => ~HoldsLock(s)'
          /\ pc'[t] = "deq_release"
      BY <1>0, <3>1, OwnerMoves DEF Labels, Storing
    <3>3. Stored' = Stored
      BY <2>13, <3>2 DEF DeqFree, Stored, Storing
    <3>4. \A j : BlockOf(j)' = BlockOf(j)
      BY <2>13 DEF DeqFree, BlockOf
    <3>5. CopiedItem'
      BY <3>2 DEF CopiedItem, HoldsLock
    <3> QED
      BY <1>0, <2>13, <3>2, <3>3, <3>4, <3>5
         DEF DeqFree, RingConsistent, HoldsLock, TypeOK, Storing
  <2> QED
    BY <1>2, <2>1, <2>2, <2>3, <2>4, <2>5, <2>6, <2>7, <2>8, <2>9, <2>10,
       <2>11, <2>12, <2>13, <2>14 DEF Step, Call, Enqueue, Dequeue
<1> QED
  BY <1>1, <1>2 DEF Next, Terminating
-------------------------------------------------------------------------------
\* The inductive invariant: types, the lock, the sleepers, what each thread
\* holds between two stores, and the ring (cqueue.c:151-319).
THEOREM Invariance == Spec => []IInv
<1>1. IInv /\ [Next]_vars => IInv'
  BY TypeOKStep, LockStep, SleepersStep, PutsStep, RingStep DEF IInv
<1> QED
  BY InitIInv, <1>1, PTL DEF Spec

\* Type correctness; in particular the two counters never leave
\* 0 .. NumBlocks, not even between the two stores that move a block
\* (cqueue.c:200-201 and 276-277).
THEOREM TypeCorrect == Spec => []TypeOK
BY Invariance, PTL DEF IInv

\* The spinlock is exclusive on every path of the three operations, and no
\* release finds it free (spinlock.c:80-102 as cqueue.c uses it).
THEOREM MutualExclusion == Spec => []LockHeldByOne
BY Invariance, PTL DEF IInv

\* The ring's four integers always agree (cqueue.c:199-201 and 275-277).
THEOREM RingIntegrity == Spec => []RingConsistent
BY Invariance, PTL DEF IInv
-------------------------------------------------------------------------------
(***************************************************************************)
(* Wake-ups.  The threads that NoLostWakeUp counts for a word, together.   *)
(***************************************************************************)
Interest(w) ==
  IF w = "available_msgs"
  THEN {"enq_free", "enq_release", "enq_wake",
        "deq_acquire", "deq_empty", "deq_wait", "deq_take", "deq_avail"}
  ELSE {"deq_release", "deq_wake",
        "enq_acquire", "enq_full", "enq_wait", "enq_copy", "enq_avail", "enq_free"}
Known(w) == {t \in Threads : pc[t] \in Interest(w)}

\* A dequeuer that has found an item returns an error and leaves it there.
GivesUp(w) ==
  /\ w = "available_msgs"
  /\ Unannounced(w)' <= Unannounced(w) + 1
  /\ \E t \in Threads : pc[t] = "deq_take" /\ pc'[t] = "idle"

\* What the sum in NoLostWakeUp is: the size of one set.
Tallied ==
  \A w \in Words :
     /\ IsFiniteSet(Known(w)) /\ Cardinality(Known(w)) \in Nat
     /\ Counter(w) \in Nat /\ Unannounced(w) \in Nat
     /\ Cardinality(WillWake(w)) + Cardinality(Awake(w)) = Cardinality(Known(w))
     /\ Unannounced(w) = IF asleep[w] # {} /\ Counter(w) > Cardinality(Known(w))
                         THEN Counter(w) - Cardinality(Known(w)) ELSE 0

LEMMA KnownCount == IsFiniteSet(Threads) /\ TypeOK => Tallied
<1> SUFFICES ASSUME IsFiniteSet(Threads), TypeOK, NEW w \in Words
             PROVE  /\ IsFiniteSet(Known(w)) /\ Cardinality(Known(w)) \in Nat
                    /\ Counter(w) \in Nat /\ Unannounced(w) \in Nat
                    /\ Cardinality(WillWake(w)) + Cardinality(Awake(w)) = Cardinality(Known(w))
                    /\ Unannounced(w) = IF asleep[w] # {} /\ Counter(w) > Cardinality(Known(w))
                                        THEN Counter(w) - Cardinality(Known(w)) ELSE 0
  BY DEF Tallied
<1>1. /\ Known(w) \in SUBSET Threads
      /\ WillWake(w) \in SUBSET Threads /\ Awake(w) \in SUBSET Threads
  BY DEF Known, WillWake, Awake
<1>2. /\ IsFiniteSet(Known(w)) /\ IsFiniteSet(WillWake(w)) /\ IsFiniteSet(Awake(w))
      /\ Cardinality(Known(w)) \in Nat
      /\ Cardinality(WillWake(w)) \in Nat /\ Cardinality(Awake(w)) \in Nat
  BY <1>1, FS_Subset, FS_CardinalityType
<1>3. Known(w) = WillWake(w) \cup Awake(w) /\ WillWake(w) \cap Awake(w) = {}
  BY DEF Known, WillWake, Awake, Interest
<1>4. Cardinality(WillWake(w)) + Cardinality(Awake(w)) = Cardinality(Known(w))
  <2>1. Cardinality(WillWake(w) \cap Awake(w)) = 0
    BY <1>3, FS_EmptySet
  <2>2. Cardinality(WillWake(w) \cup Awake(w)) = Cardinality(WillWake(w))
          + Cardinality(Awake(w)) - Cardinality(WillWake(w) \cap Awake(w))
    BY <1>2, FS_Union
  <2> QED BY <1>2, <1>3, <2>1, <2>2
<1>5. Counter(w) \in Nat
  BY ConstantsAssumption DEF Counter, TypeOK
<1> QED BY <1>2, <1>4, <1>5 DEF Unannounced

\* A step leaves no more unannounced units if nobody sleeps after it or there
\* are none, or if it puts nobody to sleep and the threads that know of the
\* units change as their number does.
LEMMA NoneStranded ==
  ASSUME IsFiniteSet(Threads), TypeOK, TypeOK', NEW w \in Words,
         \/ asleep'[w] = {}
         \/ Counter(w)' = 0
         \/ /\ asleep'[w] \subseteq asleep[w]
            /\ \/ /\ Counter(w)' = Counter(w)
                  /\ \/ Known(w)' = Known(w)
                     \/ \E t \in Threads : Known(w)' = Known(w) \cup {t}
                     \/ \E s \in Threads \ Known(w), t \in Known(w) :
                           Known(w)' = (Known(w) \ {t}) \cup {s}
               \/ /\ Counter(w)' = Counter(w) + 1
                  /\ \E t \in Threads \ Known(w) : Known(w)' = Known(w) \cup {t}
               \/ /\ Counter(w)' = Counter(w) - 1
                  /\ \E t \in Known(w) : Known(w)' = Known(w) \ {t}
  PROVE  Unannounced(w)' <= Unannounced(w)
<1> DEFINE k == Cardinality(Known(w))
           k2 == Cardinality(Known(w)')
<1>1. /\ IsFiniteSet(Known(w)) /\ k \in Nat
      /\ Counter(w) \in Nat /\ Unannounced(w) \in Nat
      /\ Unannounced(w) = IF asleep[w] # {} /\ Counter(w) > k THEN Counter(w) - k ELSE 0
  BY KnownCount DEF Tallied
<1>2. /\ k2 \in Nat /\ Counter(w)' \in Nat
      /\ Unannounced(w)' = IF asleep'[w] # {} /\ Counter(w)' > k2 THEN Counter(w)' - k2 ELSE 0
  <2>1. (IsFiniteSet(Threads) /\ TypeOK => Tallied)'
    BY KnownCount, PTL
  <2> QED BY <2>1 DEF Tallied
<1>3. CASE asleep'[w] = {} \/ Counter(w)' = 0
  BY <1>1, <1>2, <1>3
<1>4. CASE /\ asleep'[w] \subseteq asleep[w]
           /\ Counter(w)' - k2 <= Counter(w) - k
  BY <1>1, <1>2, <1>4
<1>5. \A t \in Threads : Cardinality(Known(w) \cup {t}) = IF t \in Known(w) THEN k ELSE k + 1
  BY <1>1, FS_AddElement
<1>6. \A t \in Known(w) : IsFiniteSet(Known(w) \ {t}) /\ Cardinality(Known(w) \ {t}) = k - 1
  BY <1>1, FS_RemoveElement
<1>7. \A s \in Threads \ Known(w), t \in Known(w) :
         Cardinality((Known(w) \ {t}) \cup {s}) = k
  <2> SUFFICES ASSUME NEW s \in Threads \ Known(w), NEW t \in Known(w)
               PROVE  Cardinality((Known(w) \ {t}) \cup {s}) = k
    OBVIOUS
  <2>1. IsFiniteSet(Known(w) \ {t}) /\ Cardinality(Known(w) \ {t}) = k - 1
    BY <1>6
  <2>2. Cardinality((Known(w) \ {t}) \cup {s}) = Cardinality(Known(w) \ {t}) + 1
    BY <2>1, FS_AddElement
  <2>3. k \in Nat
    BY <1>1
  <2> QED BY <2>1, <2>2, <2>3
<1>8. CASE /\ asleep'[w] \subseteq asleep[w]
           /\ Counter(w)' = Counter(w)
           /\ \/ Known(w)' = Known(w)
              \/ \E t \in Threads : Known(w)' = Known(w) \cup {t}
              \/ \E s \in Threads \ Known(w), t \in Known(w) :
                    Known(w)' = (Known(w) \ {t}) \cup {s}
  <2>1. k2 >= k
    BY <1>1, <1>5, <1>7, <1>8
  <2> QED BY <1>1, <1>2, <1>4, <1>8, <2>1
<1>9. CASE /\ asleep'[w] \subseteq asleep[w]
           /\ Counter(w)' = Counter(w) + 1
           /\ \E t \in Threads \ Known(w) : Known(w)' = Known(w) \cup {t}
  <2>1. k2 = k + 1
    BY <1>5, <1>9
  <2> QED BY <1>1, <1>2, <1>4, <1>9, <2>1
<1>10. CASE /\ asleep'[w] \subseteq asleep[w]
            /\ Counter(w)' = Counter(w) - 1
            /\ \E t \in Known(w) : Known(w)' = Known(w) \ {t}
  <2>1. k2 = k - 1
    BY <1>6, <1>10
  <2> QED BY <1>1, <1>2, <1>4, <1>10, <2>1
<1> QED BY <1>3, <1>8, <1>9, <1>10

\* How a step of one thread changes the set of those that know.
LEMMA KnownMoves ==
  ASSUME TypeOK, NEW t \in Threads, NEW to, Goto(t, to), NEW w \in Words
  PROVE  /\ t \in Known(w) <=> pc[t] \in Interest(w)
         /\ Known(w)' = IF to \in Interest(w) THEN Known(w) \cup {t} ELSE Known(w) \ {t}
<1>1. Interest(w)' = Interest(w)
  BY DEF Interest
<1> QED BY <1>1 DEF Known, Goto, TypeOK

LEMMA StrandStep ==
  ASSUME IsFiniteSet(Threads), IInv, TypeOK', [Next]_vars, NEW w \in Words
  PROVE  Unannounced(w)' <= Unannounced(w) \/ GivesUp(w)
<1>0. TypeOK /\ SleepersAsleep
  BY DEF IInv
<1>1. CASE UNCHANGED vars
  <2>1. Known(w)' = Known(w) /\ Counter(w)' = Counter(w) /\ asleep' = asleep
    BY <1>1 DEF vars, obj_vars, Known, Counter, Interest
  <2> QED BY <1>0, <2>1, NoneStranded
<1>2. ASSUME NEW t \in Threads, Step(t)
      PROVE  Unannounced(w)' <= Unannounced(w) \/ GivesUp(w)
  <2> DEFINE Inside(to) == pc[t] \in Interest(w) <=> to \in Interest(w)
  <2>0. ASSUME NEW to, Goto(t, to)
        PROVE  /\ t \in Known(w) <=> pc[t] \in Interest(w)
               /\ Known(w)' = IF to \in Interest(w) THEN Known(w) \cup {t} ELSE Known(w) \ {t}
    BY <1>0, <2>0, KnownMoves
  <2>1. CASE CallEnqueue(t) \/ CallDequeue(t)
    <3>1. /\ UNCHANGED <<asleep, obj_vars>>
          /\ pc' = pc \/ Goto(t, "enq_acquire") \/ Goto(t, "deq_acquire")
          /\ pc[t] = "idle"
      BY <2>1 DEF CallEnqueue, CallDequeue
    <3>2. Counter(w)' = Counter(w)
      BY <3>1 DEF Counter, obj_vars
    <3>3. \/ Known(w)' = Known(w)
          \/ \E u \in Threads : Known(w)' = Known(w) \cup {u}
      <4>1. CASE pc' = pc
        BY <4>1 DEF Known, Interest
      <4>2. CASE Goto(t, "enq_acquire") \/ Goto(t, "deq_acquire")
        BY <2>0, <3>1, <4>2 DEF Interest
      <4> QED BY <3>1, <4>1, <4>2
    <3> QED BY <1>0, <3>1, <3>2, <3>3, NoneStranded
  <2>2. CASE \/ EnqAcquire(t) \/ DeqAcquire(t) \/ EnqFull(t) \/ DeqEmpty(t)
             \/ EnqCopy(t) \/ DeqTake(t) \/ EnqRelease(t) \/ DeqRelease(t)
             \/ CallSize(t) \/ SizeAcquire(t) \/ SizeRelease(t)
    <3>1. /\ UNCHANGED <<asleep, available_msgs, free_blocks>>
          /\ \E to \in Labels : Goto(t, to) /\ Inside(to)
      BY <2>2 DEF EnqAcquire, DeqAcquire, EnqFull, DeqEmpty, EnqCopy, DeqTake, EnqRelease,
                  DeqRelease, CallSize, SizeAcquire, SizeRelease, At, Goto, Interest, Labels, obj_vars
    <3>2. Counter(w)' = Counter(w)
      BY <3>1 DEF Counter
    <3>3. Known(w)' = Known(w)
      BY <2>0, <3>1
    <3> QED BY <1>0, <3>1, <3>2, <3>3, NoneStranded
  <2>3. CASE EnqWait(t) \/ DeqWait(t)
    <3>1. \/ Counter(w)' = 0
          \/ /\ asleep'[w] = asleep[w]
             /\ \E to \in Labels : Goto(t, to) /\ Inside(to)
      BY <1>0, <2>3 DEF EnqWait, DeqWait, FutexWait, Counter, obj_vars, Interest, Labels,
                        Words, TypeOK
    <3>2. Counter(w)' = Counter(w)
      BY <2>3 DEF EnqWait, DeqWait, Counter, obj_vars
    <3>3. CASE \E to \in Labels : Goto(t, to) /\ Inside(to)
      <4>1. Known(w)' = Known(w)
        BY <2>0, <3>3
      <4> QED BY <1>0, <3>1, <3>2, <4>1, NoneStranded
    <3>4. CASE Counter(w)' = 0
      BY <1>0, <3>4, NoneStranded
    <3> QED BY <3>1, <3>3, <3>4
  <2>4. CASE EnqTimeout(t) \/ DeqTimeout(t)
    <3>1. /\ asleep'[w] \subseteq asleep[w] /\ UNCHANGED obj_vars
          /\ \/ pc[t] = "enq_asleep" /\ Goto(t, "enq_acquire")
             \/ pc[t] = "deq_asleep" /\ Goto(t, "deq_acquire")
      BY <1>0, <2>4 DEF EnqTimeout, DeqTimeout, FutexTimeout, SyscallTimedOut, ETIMEDOUT,
                        SleepersAsleep, Words, TypeOK
    <3>2. Counter(w)' = Counter(w)
      BY <3>1 DEF Counter, obj_vars
    <3>3. \/ Known(w)' = Known(w)
          \/ Known(w)' = Known(w) \cup {t}
      BY <2>0, <3>1 DEF Interest
    <3> QED BY <1>0, <3>1, <3>2, <3>3, NoneStranded
  <2>5. ASSUME NEW word \in Words, NEW again, FutexWake(t, word, again), UNCHANGED obj_vars,
               \/ word = "available_msgs" /\ again = "deq_acquire" /\ pc[t] = "enq_wake"
               \/ word = "free_blocks" /\ again = "enq_acquire" /\ pc[t] = "deq_wake"
        PROVE  Unannounced(w)' <= Unannounced(w)
    <3>1. Counter(w)' = Counter(w)
      BY <2>5 DEF Counter, obj_vars
    <3>2. CASE asleep[word] = {} /\ Goto(t, "idle") /\ UNCHANGED asleep
      <4>1. CASE w = word
        BY <1>0, <3>2, <4>1, NoneStranded
      <4>2. CASE w # word
        <5>1. pc[t] \notin Interest(w) /\ "idle" \notin Interest(w)
          BY <2>5, <4>2 DEF Interest, Words
        <5>2. Known(w)' = Known(w)
          BY <2>0, <3>2, <5>1
        <5> QED BY <1>0, <3>1, <3>2, <5>2, NoneStranded
      <4> QED BY <4>1, <4>2
    <3>3. ASSUME NEW s \in asleep[word],
                 asleep' = [asleep EXCEPT ![word] = @ \ {s}],
                 pc' = [pc EXCEPT ![t] = "idle", ![s] = again]
          PROVE  Unannounced(w)' <= Unannounced(w)
      <4>1. s \in Threads /\ s # t
            /\ pc[s] = IF word = "available_msgs" THEN "deq_asleep" ELSE "enq_asleep"
        BY <1>0, <2>5, <3>3 DEF SleepersAsleep, TypeOK, Words
      <4>2. /\ pc'[t] = "idle" /\ pc'[s] = again
            /\ \A u \in Threads \ {s, t} : pc'[u] = pc[u]
        BY <1>0, <3>3, <4>1 DEF TypeOK
      <4>3. asleep'[w] \subseteq asleep[w]
        BY <1>0, <3>3 DEF TypeOK
      <4>4. Interest(w)' = Interest(w)
        BY DEF Interest
      <4>5. CASE w = word
        <5>1. /\ pc[t] \in Interest(w) /\ pc[s] \notin Interest(w)
              /\ "idle" \notin Interest(w) /\ again \in Interest(w)
          BY <2>5, <4>1, <4>5 DEF Interest
        <5>2. /\ s \in Threads \ Known(w) /\ t \in Known(w)
              /\ Known(w)' = (Known(w) \ {t}) \cup {s}
          BY <4>1, <4>2, <4>4, <5>1 DEF Known
        <5> QED BY <1>0, <3>1, <4>3, <5>2, NoneStranded
      <4>6. CASE w # word
        <5>1. /\ pc[t] \notin Interest(w) /\ pc[s] \notin Interest(w)
              /\ "idle" \notin Interest(w) /\ again \notin Interest(w)
          BY <2>5, <4>1, <4>6 DEF Interest, Words
        <5>2. Known(w)' = Known(w)
          BY <4>1, <4>2, <4>4, <5>1 DEF Known
        <5> QED BY <1>0, <3>1, <4>3, <5>2, NoneStranded
      <4> QED BY <4>5, <4>6
    <3> QED BY <2>5, <3>2, <3>3 DEF FutexWake
  <2>6. CASE EnqWake(t) \/ DeqWake(t)
    BY <2>5, <2>6 DEF EnqWake, DeqWake, Words
  <2>7. CASE EnqAvail(t) \/ EnqFree(t) \/ DeqAvail(t) \/ DeqFree(t)
    <3>1. /\ UNCHANGED asleep
          /\ \E to \in Labels :
                /\ Goto(t, to)
                /\ \/ Counter(w)' = Counter(w) /\ Inside(to)
                   \/ /\ Counter(w)' = Counter(w) + 1
                      /\ pc[t] \notin Interest(w) /\ to \in Interest(w)
                   \/ /\ Counter(w)' = Counter(w) - 1
                      /\ pc[t] \in Interest(w) /\ to \notin Interest(w)
      <4>1. CASE EnqAvail(t)
        BY <4>1 DEF EnqAvail, At, Counter, Interest, Labels, Words
      <4>2. CASE EnqFree(t)
        BY <4>2 DEF EnqFree, At, Counter, Interest, Labels, Words
      <4>3. CASE DeqAvail(t)
        BY <4>3 DEF DeqAvail, At, Counter, Interest, Labels, Words
      <4>4. CASE DeqFree(t)
        BY <4>4 DEF DeqFree, At, Counter, Interest, Labels, Words
      <4> QED BY <2>7, <4>1, <4>2, <4>3, <4>4
    <3>2. \/ Counter(w)' = Counter(w) /\ Known(w)' = Known(w)
          \/ Counter(w)' = Counter(w) + 1 /\ t \notin Known(w) /\ Known(w)' = Known(w) \cup {t}
          \/ Counter(w)' = Counter(w) - 1 /\ t \in Known(w) /\ Known(w)' = Known(w) \ {t}
      BY <2>0, <3>1
    <3> QED BY <1>0, <3>1, <3>2, NoneStranded
  <2>8. CASE DeqTooLarge(t) \/ DeqOutOfMemory(t)
    <3>1. /\ UNCHANGED <<asleep, obj_vars>>
          /\ pc[t] = "deq_take" /\ Goto(t, "idle") /\ pc'[t] = "idle"
      BY <1>0, <2>8 DEF DeqTooLarge, DeqOutOfMemory, At, Goto, TypeOK
    <3>2. Counter(w)' = Counter(w)
      BY <3>1 DEF Counter, obj_vars
    <3>3. CASE w = "free_blocks"
      <4>1. Known(w)' = Known(w)
        BY <2>0, <3>1, <3>3 DEF Interest
      <4> QED BY <1>0, <3>1, <3>2, <4>1, NoneStranded
    <3>4. CASE w = "available_msgs"
      <4>1. t \in Known(w) /\ Known(w)' = Known(w) \ {t}
        BY <2>0, <3>1, <3>4 DEF Interest
      <4>2. Tallied /\ Tallied'
        <5>1. (IsFiniteSet(Threads) /\ TypeOK => Tallied)'
          BY KnownCount, PTL
        <5> QED BY <1>0, <5>1, KnownCount
      <4>3. Cardinality(Known(w)') = Cardinality(Known(w)) - 1
        BY <4>1, <4>2, FS_RemoveElement DEF Tallied
      <4>4. Unannounced(w)' <= Unannounced(w) + 1
        BY <3>1, <3>2, <4>2, <4>3 DEF Tallied
      <4> QED BY <3>1, <3>4, <4>4 DEF GivesUp
    <3> QED BY <3>3, <3>4 DEF Words
  <2> QED
    BY <1>2, <2>1, <2>2, <2>3, <2>4, <2>6, <2>7, <2>8 DEF Step, Call, Enqueue, Dequeue
<1> QED
  BY <1>1, <1>2 DEF Next, Terminating

\* The only step that may lose a wake-up is that of a dequeuer that returns an
\* error although it has found an item, and it loses one: sleeping outside the
\* lock (cqueue.c:181-182, 244-245) and waking after its release (209, 286)
\* lose none, with time-outs, failures of malloc and items of any size.
THEOREM WakeUpsLost ==
  ASSUME IsFiniteSet(Threads) PROVE Spec => WakeUpsLostByFailuresOnly
<1> DEFINE A == \A w \in Words : Unannounced(w)' > Unannounced(w) =>
                  /\ w = "available_msgs"
                  /\ Unannounced(w)' = Unannounced(w) + 1
                  /\ \E t \in Threads : pc[t] = "deq_take" /\ pc'[t] = "idle"
<1>1. IInv /\ [Next]_vars => [A]_vars
  <2> SUFFICES ASSUME IInv, [Next]_vars, NEW w \in Words,
                      Unannounced(w)' > Unannounced(w)
               PROVE  /\ w = "available_msgs"
                      /\ Unannounced(w)' = Unannounced(w) + 1
                      /\ \E t \in Threads : pc[t] = "deq_take" /\ pc'[t] = "idle"
    OBVIOUS
  <2>1. TypeOK /\ TypeOK'
    BY TypeOKStep DEF IInv
  <2>2. Tallied /\ Tallied'
    <3>1. (IsFiniteSet(Threads) /\ TypeOK => Tallied)'
      BY KnownCount, PTL
    <3> QED BY <2>1, <3>1, KnownCount
  <2>3. Unannounced(w) \in Nat /\ Unannounced(w)' \in Nat
    BY <2>2 DEF Tallied
  <2>4. ~(Unannounced(w)' <= Unannounced(w))
    BY <2>3
  <2>5. GivesUp(w)
    BY <2>1, <2>4, StrandStep
  <2> QED BY <2>3, <2>5 DEF GivesUp
<1> QED BY <1>1, Invariance, PTL DEF Spec, WakeUpsLostByFailuresOnly
-------------------------------------------------------------------------------
\* No dequeue fails once it has found an item: malloc succeeds, and whoever
\* dequeues takes whatever fits in a block.  The pool's own calls are such:
\* every item and every max_size is the size of one structure (pool.c:72-75).
DequeuesSucceed ==
  /\ ~MallocMayFail
  /\ \A s \in Sizes, m \in Sizes \ {0} : s <= BlockSize => s <= m

Taking == {"deq_acquire", "deq_empty", "deq_wait", "deq_asleep", "deq_take"}

\* What is put fits in a block; a dequeue that has passed its argument checks
\* has a max_size (cqueue.c:164-172, 227-230).
ArgumentsChecked ==
  /\ \A b \in Blocks : data[b] # NoItem => data[b].size <= BlockSize
  /\ \A t \in Threads : pc[t] \in Putting => item[t].size <= BlockSize
  /\ \A t \in Threads : pc[t] \in Taking => max_size[t] # 0

LEMMA ArgumentsStep == IInv /\ ArgumentsChecked /\ [Next]_vars => ArgumentsChecked'
<1> USE ConstantsAssumption DEF ArgumentsChecked
<1> SUFFICES ASSUME IInv, ArgumentsChecked, [Next]_vars PROVE ArgumentsChecked'
  OBVIOUS
<1>0. TypeOK /\ SleepersAsleep /\ PutsAnItem
  BY DEF IInv
<1>1. CASE UNCHANGED vars
  BY <1>1 DEF vars, obj_vars, call_vars
<1>2. ASSUME NEW t \in Threads, Step(t) PROVE ArgumentsChecked'
  <2>1. CASE CallEnqueue(t)
    <3>1. UNCHANGED <<data, max_size>>
          /\ \/ UNCHANGED <<pc, item>>
             \/ \E s \in Sizes :
                   /\ s <= BlockSize /\ Goto(t, "enq_acquire")
                   /\ item' = [item EXCEPT ![t] = [from |-> t, n |-> calls[t] + 1, size |-> s]]
      BY <2>1 DEF CallEnqueue, obj_vars
    <3> QED BY <1>0, <3>1 DEF Goto, TypeOK, Putting, Taking
  <2>2. CASE CallDequeue(t)
    <3>1. UNCHANGED data
          /\ \/ UNCHANGED <<pc, item, max_size>>
             \/ \E m \in Sizes :
                   /\ m # 0 /\ Goto(t, "deq_acquire")
                   /\ max_size' = [max_size EXCEPT ![t] = m]
                   /\ item' = [item EXCEPT ![t] = NoItem]
      BY <2>2 DEF CallDequeue, obj_vars
    <3> QED BY <1>0, <3>1 DEF Goto, TypeOK, Putting, Taking
  <2>3. CASE EnqCopy(t)
    <3>1. item[t] \in Item /\ item[t].size <= BlockSize /\ pc'[t] = "enq_avail"
      BY <1>0, <2>3 DEF EnqCopy, At, Goto, TypeOK, PutsAnItem, Putting
    <3>2. data' = [data EXCEPT ![head] = item[t]] /\ UNCHANGED <<item, max_size>>
          /\ pc' = [pc EXCEPT ![t] = "enq_avail"]
      BY <2>3 DEF EnqCopy, At, Goto, call_vars
    <3> QED BY <1>0, <2>3, <3>1, <3>2 DEF EnqCopy, At, TypeOK, Putting, Taking
  <2>4. CASE DeqTake(t)
    BY <1>0, <2>4 DEF DeqTake, At, Goto, TypeOK, Putting, Taking
  <2>5. ASSUME NEW to, Goto(t, to), UNCHANGED <<data, item, max_size>>,
               to \in Putting => pc[t] \in Putting,
               to \in Taking => pc[t] \in Taking
        PROVE  ArgumentsChecked'
    BY <1>0, <2>5 DEF Goto, TypeOK
  <2>6. CASE \/ EnqAcquire(t) \/ EnqFull(t) \/ EnqWait(t) \/ EnqTimeout(t)
             \/ EnqAvail(t) \/ EnqFree(t) \/ EnqRelease(t)
    <3>1. UNCHANGED <<data, item, max_size>> /\ pc[t] \in Putting \cup {"enq_free", "enq_release"}
          /\ \E to \in Labels : Goto(t, to) /\ (to \in Putting => pc[t] \in Putting) /\ to \notin Taking
      BY <1>0, <2>6 DEF EnqAcquire, EnqFull, EnqWait, FutexWait, EnqTimeout, FutexTimeout,
                  EnqAvail, EnqFree, EnqRelease, SyscallTimedOut, ETIMEDOUT, SleepersAsleep, At,
                  obj_vars, call_vars, Putting, Taking, Labels
    <3> QED BY <2>5, <3>1
  <2>7. CASE \/ DeqAcquire(t) \/ DeqEmpty(t) \/ DeqWait(t) \/ DeqTimeout(t)
             \/ DeqTooLarge(t) \/ DeqOutOfMemory(t)
             \/ DeqAvail(t) \/ DeqFree(t) \/ DeqRelease(t)
             \/ CallSize(t) \/ SizeAcquire(t) \/ SizeRelease(t)
    <3>1. UNCHANGED <<data, item, max_size>>
          /\ \E to \in Labels : Goto(t, to) /\ to \notin Putting /\ (to \in Taking => pc[t] \in Taking)
      BY <1>0, <2>7 DEF DeqAcquire, DeqEmpty, DeqWait, FutexWait, DeqTimeout, FutexTimeout,
                  DeqTooLarge, DeqOutOfMemory, DeqAvail, DeqFree, DeqRelease, CallSize,
                  SizeAcquire, SizeRelease, SyscallTimedOut, ETIMEDOUT, SleepersAsleep, At,
                  obj_vars, call_vars, Putting, Taking, Labels
    <3> QED BY <2>5, <3>1
  <2>8. CASE EnqWake(t) \/ DeqWake(t)
    <3>1. UNCHANGED <<data, item, max_size>>
      BY <2>8 DEF EnqWake, DeqWake, obj_vars, call_vars
    <3>2. \A u \in Threads : /\ pc'[u] \in Putting => pc[u] \in Putting
                             /\ pc'[u] \in Taking => pc[u] \in Taking
      BY <1>0, <2>8 DEF EnqWake, DeqWake, FutexWake, Goto, SleepersAsleep, TypeOK, Putting, Taking
    <3> QED BY <3>1, <3>2
  <2> QED
    BY <1>2, <2>1, <2>2, <2>3, <2>4, <2>6, <2>7, <2>8 DEF Step, Call, Enqueue, Dequeue
<1> QED BY <1>1, <1>2 DEF Next, Terminating

\* The thread at deq_take finds an item there, which is no larger than it takes.
LEMMA TakesOldest ==
  ASSUME IInv, ArgumentsChecked, DequeuesSucceed, NEW t \in Threads, pc[t] = "deq_take"
  PROVE  ~DeqTooLarge(t) /\ ~DeqOutOfMemory(t)
<1> USE ConstantsAssumption
<1>1. One("deq_avail") = 0
  BY Alone DEF IInv, One, HoldsLock
<1>2. Stored > 0 /\ Stored \in Nat
  BY <1>1 DEF IInv, RingConsistent, Stored, TypeOK
<1>3. BlockOf(0) = tail
  <2>1. tail \in 0 .. NumBlocks - 1
    BY DEF IInv, TypeOK, Blocks
  <2>2. PICK b \in 0 .. 2 * NumBlocks - 1 : b = tail + 0
    BY <2>1
  <2>3. b % NumBlocks = b
    BY <2>1, <2>2, Wrap
  <2> QED BY <2>1, <2>2, <2>3 DEF BlockOf
<1>4. data[tail] # NoItem
  BY <1>2, <1>3 DEF IInv, RingConsistent
<1>5. /\ data[tail].size \in Sizes /\ data[tail].size <= BlockSize
      /\ max_size[t] \in Sizes \ {0}
  BY <1>4 DEF IInv, TypeOK, Item, ArgumentsChecked, Taking
<1>6. data[tail].size <= max_size[t]
  BY <1>5 DEF DequeuesSucceed
<1>7. ~(data[tail].size > max_size[t])
  <2>1. data[tail].size \in Nat /\ max_size[t] \in Nat
    BY <1>5
  <2> HIDE <1>5
  <2>2. \A a, b \in Nat : a <= b => ~(a > b)
    OBVIOUS
  <2> QED BY <1>6, <2>1, <2>2
<1> QED BY <1>7 DEF DeqTooLarge, DeqOutOfMemory, DequeuesSucceed

\* Who leaves the loop that has found an item and returns is one of the two
\* error paths.
LEMMA FailsAtTake ==
  ASSUME IInv, [Next]_vars, NEW t \in Threads, pc[t] = "deq_take", pc'[t] = "idle"
  PROVE  DeqTooLarge(t) \/ DeqOutOfMemory(t)
<1>0. TypeOK /\ SleepersAsleep
  BY DEF IInv
<1>1. PICK u \in Threads : Step(u)
  BY DEF Next, Terminating, vars
<1>2. CASE EnqWake(u) \/ DeqWake(u)
  BY <1>0, <1>2 DEF EnqWake, DeqWake, FutexWake, Goto, SleepersAsleep, TypeOK, Words
<1>3. ASSUME NEW to, Goto(u, to) PROVE u = t
  BY <1>0, <1>3 DEF Goto, TypeOK
<1>4. CASE Call(u) \/ Enqueue(u) \/ SizeAcquire(u) \/ SizeRelease(u)
  <2>1. CASE pc' = pc
    BY <2>1
  <2>2. CASE EnqTimeout(u)
    BY <1>0, <1>3, <2>2 DEF EnqTimeout, FutexTimeout, SleepersAsleep, TypeOK
  <2> QED
    BY <1>2, <1>3, <1>4, <2>1, <2>2
       DEF Call, CallEnqueue, CallDequeue, CallSize, Enqueue, EnqAcquire, EnqFull, EnqWait,
           FutexWait, EnqCopy, EnqAvail, EnqFree, EnqRelease, SizeAcquire, SizeRelease, At
<1>5. CASE Dequeue(u)
  <2>1. CASE DeqTimeout(u)
    BY <1>0, <1>3, <2>1 DEF DeqTimeout, FutexTimeout, SleepersAsleep, TypeOK
  <2>2. CASE DeqTake(u)
    BY <1>0, <2>2 DEF DeqTake, At, Goto, TypeOK
  <2> QED
    BY <1>2, <1>3, <1>5, <2>1, <2>2
       DEF Dequeue, DeqAcquire, DeqEmpty, DeqWait, FutexWait, DeqTooLarge, DeqOutOfMemory,
           DeqAvail, DeqFree, DeqRelease, At
<1> QED BY <1>1, <1>4, <1>5 DEF Step

\* No wake-up is ever lost, with whatever time-outs and however the threads
\* interleave, if no dequeue fails once it has found an item
\* (cqueue.c:181-182, 209, 244-245, 286).
THEOREM NoWakeUpLost ==
  ASSUME IsFiniteSet(Threads), DequeuesSucceed PROVE Spec => []NoLostWakeUp
<1> DEFINE NoneLost == \A w \in Words : Unannounced(w) = 0
<1>1. Init => ArgumentsChecked /\ NoneLost
  BY ConstantsAssumption DEF Init, ArgumentsChecked, Putting, Taking, Unannounced, Words
<1>2. IInv /\ ArgumentsChecked /\ NoneLost /\ [Next]_vars => NoneLost'
  <2> SUFFICES ASSUME IInv, ArgumentsChecked, NoneLost, [Next]_vars, NEW w \in Words
               PROVE  Unannounced(w)' = 0
    BY DEF Words
  <2>1. TypeOK /\ TypeOK'
    BY TypeOKStep DEF IInv
  <2>2. Unannounced(w)' \in Nat
    <3>1. (IsFiniteSet(Threads) /\ TypeOK => Tallied)'
      BY KnownCount, PTL
    <3> QED BY <2>1, <3>1 DEF Tallied
  <2>3. ~GivesUp(w)
    BY TakesOldest, FailsAtTake DEF GivesUp
  <2>4. Unannounced(w)' <= 0
    BY <2>1, <2>3, StrandStep
  <2> QED BY <2>2, <2>4
<1>3. IInv /\ NoneLost => NoLostWakeUp
  <2> SUFFICES ASSUME IInv, NoneLost, NEW w \in Words, asleep[w] # {}
               PROVE  Counter(w) <= Cardinality(WillWake(w)) + Cardinality(Awake(w))
    BY DEF NoLostWakeUp
  <2>1. Tallied
    BY KnownCount DEF IInv
  <2> QED BY <2>1 DEF Tallied
<1> QED
  BY <1>1, <1>2, <1>3, ArgumentsStep, Invariance, PTL DEF Spec
-------------------------------------------------------------------------------
(* The ring implements the queue of BoundedFifo. *)

\* Contents is a sequence of items, one for each message stored.
LEMMA ContentsType ==
  IInv => /\ Stored \in 0 .. NumBlocks
          /\ Contents \in Seq(Item)
          /\ Len(Contents) = Stored
<1> SUFFICES ASSUME IInv
             PROVE  /\ Stored \in 0 .. NumBlocks
                    /\ Contents \in Seq(Item)
                    /\ Len(Contents) = Stored
  OBVIOUS
<1>1. Stored \in 0 .. NumBlocks
  BY DEF IInv, RingConsistent
<1>2. \A j \in 1 .. Stored : data[BlockOf(j - 1)] \in Item
  <2>1. ASSUME NEW j \in 1 .. Stored PROVE data[BlockOf(j - 1)] \in Item
    <3>1. PICK k \in 0 .. Stored - 1 : k = j - 1
      BY <1>1
    <3>2. BlockOf(k) \in Blocks
      BY <1>1, ConstantsAssumption DEF IInv, TypeOK, BlockOf, Blocks
    <3>3. data[BlockOf(k)] \in Item
      BY <3>2 DEF IInv, TypeOK, RingConsistent
    <3> QED
      BY <3>1, <3>3
  <2> QED
    BY <2>1
<1>3. Contents \in [1 .. Stored -> Item]
  BY <1>2 DEF Contents
<1> QED
  BY <1>1, <1>3, FunctionIsSeq, ConstantsAssumption
-------------------------------------------------------------------------------
Status == [t \in Threads |-> CallStatus(t)]

\* Only DeqTake and EnqAvail change what the ring holds.
LEMMA SameContents ==
  ASSUME UNCHANGED obj_vars,
         \A s \in Threads : pc'[s] = "deq_avail" <=> pc[s] = "deq_avail"
  PROVE  Contents' = Contents
<1>1. Stored' = Stored
  BY DEF Stored, One, obj_vars
<1>2. \A j : BlockOf(j)' = BlockOf(j)
  BY DEF BlockOf, obj_vars
<1> QED
  BY <1>1, <1>2 DEF Contents, obj_vars

\* A step in which one thread moves changes the status of that thread only.
LEMMA StatusMoves ==
  ASSUME TypeOK, NEW t \in Threads, NEW to \in Labels, Goto(t, to)
  PROVE  Status' = [Status EXCEPT ![t] = CallStatus(t)']
<1>1. \A s \in Threads \ {t} : pc'[s] = pc[s]
  BY DEF Goto, TypeOK
<1>2. \A s \in Threads \ {t} : CallStatus(s)' = CallStatus(s)
  BY <1>1 DEF CallStatus
<1> QED
  BY <1>2 DEF Status

\* A thread that moves within one status makes no step of the queue.
LEMMA StatusStays ==
  ASSUME TypeOK, NEW t \in Threads, NEW to \in Labels, Goto(t, to),
         CallStatus(t)' = CallStatus(t)
  PROVE  Status' = Status
BY StatusMoves DEF Status

LEMMA InitFifo == Init => Fifo!Init
<1> SUFFICES ASSUME Init PROVE Fifo!Init
  OBVIOUS
<1>1. Stored = 0
  <2>1. One("deq_avail") = 0
    BY DEF Init, One
  <2> QED
    BY <2>1 DEF Init, Stored
<1>2. Contents = <<>>
  <2>1. IInv
    BY InitIInv
  <2>2. Contents \in Seq(Item) /\ Len(Contents) = 0
    BY <1>1, <2>1, ContentsType
  <2> QED
    BY <2>2, EmptySeq
<1>3. Status = [t \in Threads |-> "idle"]
  BY DEF Init, Status, CallStatus
<1> QED
  BY <1>2, <1>3 DEF Init, Fifo!Init, Status
-------------------------------------------------------------------------------
(***************************************************************************)
(* The three steps at which a call takes effect.                           *)
(***************************************************************************)
LEMMA EnqAvailPuts ==
  ASSUME IInv, IInv', NEW t \in Threads, EnqAvail(t)
  PROVE  Fifo!Put(t)
<1>0. TypeOK /\ LockHeldByOne /\ RingConsistent /\ CopiedItem /\ PutsAnItem
  BY DEF IInv
<1>1. HoldsLock(t) /\ Goto(t, "enq_free") /\ pc[t] = "enq_avail"
  BY DEF EnqAvail, At, HoldsLock
<1>2. /\ \A l \in Storing : One(l) = IF l = "enq_avail" THEN 1 ELSE 0
      /\ \A l \in Storing : One(l)' = IF l = "enq_free" THEN 1 ELSE 0
      /\ pc'[t] = "enq_free"
  BY <1>0, <1>1, OwnerMoves DEF Labels, Storing
<1>3. Stored' = Stored + 1 /\ Stored < NumBlocks /\ Stored \in Nat
  BY <1>0, <1>1, <1>2 DEF EnqAvail, Stored, Storing, TypeOK, RingConsistent
<1>4. data[BlockOf(Stored)] = item[t] /\ item[t] \in Item
  BY <1>0, <1>1 DEF CopiedItem, PutsAnItem, Putting
<1>5. \A j : BlockOf(j)' = BlockOf(j)
  BY DEF EnqAvail, BlockOf
<1>6. Contents' = Append(Contents, item[t])
  <2>1. Contents \in Seq(Item) /\ Len(Contents) = Stored
    BY ContentsType
  <2>2. Contents' \in Seq(Item) /\ Len(Contents') = Stored + 1
    <3>1. IInv' => (Contents \in Seq(Item) /\ Len(Contents) = Stored)'
      BY ContentsType, PTL
    <3> QED
      BY <1>3, <3>1
  <2>3. /\ Append(Contents, item[t]) \in Seq(Item)
        /\ Len(Append(Contents, item[t])) = Stored + 1
        /\ \A j \in 1 .. Stored : Append(Contents, item[t])[j] = Contents[j]
        /\ Append(Contents, item[t])[Stored + 1] = item[t]
    BY <1>4, <2>1, AppendProperties
  <2>4. ASSUME NEW j \in 1 .. Stored + 1
        PROVE  Contents'[j] = Append(Contents, item[t])[j]
    <3>1. Contents'[j] = data[BlockOf(j - 1)]
      BY <1>3, <1>5 DEF Contents, EnqAvail
    <3>2. CASE j \in 1 .. Stored
      BY <2>3, <3>1, <3>2 DEF Contents
    <3>3. CASE j = Stored + 1
      BY <1>3, <1>4, <2>3, <3>1, <3>3
    <3>4. j \in 1 .. Stored \/ j = Stored + 1
      BY <1>3
    <3> QED
      BY <3>2, <3>3, <3>4
  <2> QED
    BY <2>2, <2>3, <2>4, SeqEqual
<1>7. Status' = [Status EXCEPT ![t] = "done"] /\ Status[t] = "putting"
  BY <1>0, <1>1, <1>2, StatusMoves DEF Labels, CallStatus, Status
<1> QED
  BY <1>3, <1>6, <1>7, ContentsType DEF Fifo!Put, Status, EnqAvail, call_vars

LEMMA DeqTakeGets ==
  ASSUME IInv, IInv', NEW t \in Threads, DeqTake(t)
  PROVE  Fifo!Get(t)
<1>0. TypeOK /\ LockHeldByOne /\ RingConsistent
  BY DEF IInv
<1>1. HoldsLock(t) /\ Goto(t, "deq_avail") /\ pc[t] = "deq_take"
  BY DEF DeqTake, At, HoldsLock
<1>2. /\ \A l \in Storing : One(l) = 0
      /\ \A l \in Storing : One(l)' = IF l = "deq_avail" THEN 1 ELSE 0
      /\ pc'[t] = "deq_avail"
  BY <1>0, <1>1, OwnerMoves DEF Labels, Storing
<1>3. /\ Stored = available_msgs /\ Stored' = Stored - 1
      /\ Stored \in 1 .. NumBlocks
  BY <1>0, <1>1, <1>2 DEF DeqTake, Stored, Storing, TypeOK, RingConsistent
<1>4. Contents \in Seq(Item) /\ Len(Contents) = Stored /\ Contents # <<>>
  BY <1>3, ContentsType, EmptySeq
<1>5. Contents[1] = data[tail]
  <2>1. tail % NumBlocks = tail
    <3>1. tail \in 0 .. 2 * NumBlocks - 1 /\ tail < NumBlocks
      BY <1>0, ConstantsAssumption DEF TypeOK, Blocks
    <3> QED
      BY <3>1, Wrap, ConstantsAssumption
  <2>2. Contents[1] = data[BlockOf(1 - 1)]
    BY <1>3 DEF Contents
  <2>3. BlockOf(1 - 1) = tail
    BY <1>0, <2>1 DEF BlockOf, TypeOK, Blocks
  <2> QED
    BY <2>2, <2>3
<1>6. Contents' = Tail(Contents)
  <2>1. Contents' \in Seq(Item) /\ Len(Contents') = Stored - 1
    <3>1. IInv' => (Contents \in Seq(Item) /\ Len(Contents) = Stored)'
      BY ContentsType, PTL
    <3> QED
      BY <1>3, <3>1
  <2>2. /\ Tail(Contents) \in Seq(Item)
        /\ Len(Tail(Contents)) = Stored - 1
        /\ \A j \in 1 .. Stored - 1 : Tail(Contents)[j] = Contents[j + 1]
    BY <1>4, HeadTailProperties
  <2>3. ASSUME NEW j \in 1 .. Stored - 1
        PROVE  Contents'[j] = Tail(Contents)[j]
    <3>1. PICK k \in 0 .. NumBlocks - 1 : k = j - 1
      BY <1>3, ConstantsAssumption
    <3>2. Contents'[j] = data[BlockOf(k)']
      BY <1>3, <3>1 DEF Contents, DeqTake
    <3>3. BlockOf(k)' = BlockOf(k + 1)
      <4>1. (((tail + 1) % NumBlocks) + k) % NumBlocks = (tail + k + 1) % NumBlocks
        BY <1>0, ConstantsAssumption, Advance DEF TypeOK, Blocks
      <4>2. tail + k + 1 = tail + (k + 1)
        BY <1>0 DEF TypeOK, Blocks
      <4> QED
        BY <4>1, <4>2 DEF DeqTake, BlockOf
    <3>4. Contents[j + 1] = data[BlockOf(j + 1 - 1)]
      BY <1>3 DEF Contents
    <3>5. j + 1 - 1 = k + 1
      BY <3>1
    <3> QED
      BY <2>2, <3>2, <3>3, <3>4, <3>5
  <2> QED
    BY <2>1, <2>2, <2>3, SeqEqual
<1>7. Status' = [Status EXCEPT ![t] = "done"] /\ Status[t] = "getting"
  BY <1>0, <1>1, <1>2, StatusMoves DEF Labels, CallStatus, Status
<1>8. Head(Contents) = data[tail]
  BY <1>4, <1>5
<1> QED
  BY <1>4, <1>6, <1>7, <1>8 DEF Fifo!Get, Status, DeqTake

LEMMA SizeAcquireSizes ==
  ASSUME IInv, NEW t \in Threads, SizeAcquire(t)
  PROVE  Fifo!Size(t)
<1>0. TypeOK /\ LockHeldByOne
  BY DEF IInv
<1>1. Goto(t, "size_release") /\ pc[t] = "size_acquire" /\ pc'[t] = "size_release"
  BY <1>0 DEF SizeAcquire, At, Goto, TypeOK
<1>2. Contents' = Contents
  BY <1>0, <1>1, SameContents DEF SizeAcquire, Goto, TypeOK
<1>3. One("deq_avail") = 0
  BY <1>0 DEF SizeAcquire, Acquire, LockHeldByOne, HoldsLock, One
<1>4. Len(Contents) = available_msgs
  BY <1>0, <1>3, ContentsType DEF Stored, TypeOK
<1>5. Status' = [Status EXCEPT ![t] = "done"] /\ Status[t] = "sizing"
  BY <1>0, <1>1, StatusMoves DEF Labels, CallStatus, Status
<1> QED
  BY <1>2, <1>4, <1>5 DEF Fifo!Size, Status, SizeAcquire

\* EnqCopy writes the block after the items: none that the queue holds.
LEMMA EnqCopyStutters ==
  ASSUME IInv, IInv', NEW t \in Threads, EnqCopy(t)
  PROVE  Contents' = Contents /\ Status' = Status
<1>0. TypeOK /\ LockHeldByOne /\ RingConsistent
  BY DEF IInv
<1>1. HoldsLock(t) /\ Goto(t, "enq_avail") /\ pc[t] = "enq_copy"
  BY DEF EnqCopy, At, HoldsLock
<1>2. /\ \A l \in Storing : One(l) = 0
      /\ \A l \in Storing : One(l)' = IF l = "enq_avail" THEN 1 ELSE 0
      /\ pc'[t] = "enq_avail"
  BY <1>0, <1>1, OwnerMoves DEF Labels, Storing
<1>3. Stored' = Stored /\ Stored \in 0 .. NumBlocks - 1
  <2>1. Stored = available_msgs /\ Stored' = Stored
    BY <1>0, <1>2 DEF EnqCopy, Stored, Storing, TypeOK
  <2>2. available_msgs + free_blocks = NumBlocks /\ free_blocks > 0
    BY <1>0, <1>1, <1>2, ConstantsAssumption DEF RingConsistent, Storing
  <2> QED
    BY <1>0, <2>1, <2>2, ConstantsAssumption DEF TypeOK
<1>4. head = BlockOf(Stored)
  BY <1>0, <1>2, <1>3 DEF RingConsistent, Storing, BlockOf, TypeOK
<1>5. ASSUME NEW j \in 1 .. Stored
      PROVE  data'[BlockOf(j - 1)'] = data[BlockOf(j - 1)]
  <2>1. PICK k \in 0 .. NumBlocks - 1 : k = j - 1 /\ k # Stored
    BY <1>3, ConstantsAssumption
  <2>2. BlockOf(k) # BlockOf(Stored)
    BY <1>0, <1>3, <2>1, BlocksDiffer, ConstantsAssumption
       DEF BlockOf, TypeOK, Blocks
  <2>3. BlockOf(k) \in Blocks
    BY <1>0, <1>3, ConstantsAssumption DEF BlockOf, Blocks, TypeOK
  <2>4. data'[BlockOf(k)] = data[BlockOf(k)]
    BY <1>0, <1>4, <2>2, <2>3 DEF EnqCopy, TypeOK
  <2> QED
    BY <2>1, <2>4 DEF EnqCopy, BlockOf
<1>6. Contents' = Contents
  BY <1>3, <1>5 DEF Contents
<1>7. Status' = Status
  BY <1>0, <1>1, <1>2, StatusStays DEF Labels, CallStatus
<1> QED
  BY <1>6, <1>7
-------------------------------------------------------------------------------
\* The state the abstract queue sees.
FifoVars == <<Contents, Status, item, size>>

\* Every step of the ring is a step of the queue or changes nothing of it.
LEMMA StepFifo ==
  ASSUME IInv, IInv', NEW t \in Threads, Step(t)
  PROVE  Fifo!Next \/ UNCHANGED FifoVars
<1>0. TypeOK /\ SleepersAsleep
  BY DEF IInv
<1> USE DEF FifoVars
<1>1. CASE CallEnqueue(t)
  <2>1. Contents' = Contents
    BY <1>0, <1>1, SameContents DEF CallEnqueue, Goto, TypeOK
  <2>2. CASE pc' = pc /\ item' = item
    BY <1>1, <2>1, <2>2 DEF CallEnqueue, Status, CallStatus
  <2>3. CASE /\ Goto(t, "enq_acquire")
             /\ \E s \in Sizes : item' = [item EXCEPT ![t] =
                                 [from |-> t, n |-> calls[t] + 1, size |-> s]]
    <3>1. /\ Status' = [Status EXCEPT ![t] = "putting"]
          /\ Status[t] = "idle"
      <4>1. pc'[t] = "enq_acquire" /\ pc[t] = "idle"
        BY <1>0, <1>1, <2>3 DEF CallEnqueue, Goto, TypeOK
      <4> QED
        BY <1>0, <2>3, <4>1, StatusMoves DEF Labels, CallStatus, Status
    <3>2. \E m \in Item : item' = [item EXCEPT ![t] = m]
      <4>1. calls[t] + 1 \in 1 .. MaxCalls
        BY <1>0, <1>1, ConstantsAssumption DEF CallEnqueue, TypeOK
      <4> QED
        BY <2>3, <4>1 DEF Item
    <3>3. Fifo!InvokePut(t)
      BY <1>1, <2>1, <3>1, <3>2 DEF Fifo!InvokePut, CallEnqueue, Status
    <3> QED
      BY <3>3 DEF Fifo!Next
  <2> QED
    BY <1>1, <2>2, <2>3 DEF CallEnqueue
<1>2. CASE CallDequeue(t)
  <2>1. Contents' = Contents
    BY <1>0, <1>2, SameContents DEF CallDequeue, Goto, TypeOK
  <2>2. CASE pc' = pc /\ item' = item
    BY <1>2, <2>1, <2>2 DEF CallDequeue, Status, CallStatus
  <2>3. CASE Goto(t, "deq_acquire") /\ item' = [item EXCEPT ![t] = NoItem]
    <3>1. /\ Status' = [Status EXCEPT ![t] = "getting"]
          /\ Status[t] = "idle"
      <4>1. pc'[t] = "deq_acquire" /\ pc[t] = "idle"
        BY <1>0, <1>2, <2>3 DEF CallDequeue, Goto, TypeOK
      <4> QED
        BY <1>0, <2>3, <4>1, StatusMoves DEF Labels, CallStatus, Status
    <3>2. Fifo!InvokeGet(t)
      BY <1>2, <2>1, <2>3, <3>1 DEF Fifo!InvokeGet, CallDequeue, Status
    <3> QED
      BY <3>2 DEF Fifo!Next
  <2> QED
    BY <1>2, <2>2, <2>3 DEF CallDequeue
<1>3. CASE CallSize(t)
  <2>1. /\ Goto(t, "size_acquire") /\ pc[t] = "idle"
        /\ pc'[t] = "size_acquire"
    BY <1>0, <1>3 DEF CallSize, At, Goto, TypeOK
  <2>2. Contents' = Contents
    BY <1>0, <1>3, <2>1, SameContents DEF CallSize, Goto, TypeOK
  <2>3. Status' = [Status EXCEPT ![t] = "sizing"] /\ Status[t] = "idle"
    BY <1>0, <2>1, StatusMoves DEF Labels, CallStatus, Status
  <2>4. Fifo!InvokeSize(t)
    BY <1>3, <2>2, <2>3 DEF Fifo!InvokeSize, CallSize, Status
  <2> QED
    BY <2>4 DEF Fifo!Next
<1>4. CASE EnqAvail(t) \/ DeqTake(t) \/ SizeAcquire(t)
  BY <1>4, EnqAvailPuts, DeqTakeGets, SizeAcquireSizes DEF Fifo!Next
<1>5. CASE EnqCopy(t)
  BY <1>5, EnqCopyStutters DEF EnqCopy, call_vars
<1>6. CASE DeqAvail(t)
  <2>1. Contents' = Contents
    <3>1. HoldsLock(t) /\ Goto(t, "deq_free") /\ pc[t] = "deq_avail"
      BY <1>6 DEF DeqAvail, At, HoldsLock
    <3>2. One("deq_avail") = 1 /\ One("deq_avail")' = 0
      BY <1>0, <3>1, OwnerMoves DEF IInv, Labels, Storing
    <3>3. Stored' = Stored
      BY <1>0, <1>6, <3>2 DEF DeqAvail, Stored, TypeOK
    <3> QED
      BY <1>6, <3>3 DEF Contents, BlockOf, DeqAvail
  <2>2. Status' = Status
    <3>1. Goto(t, "deq_free") /\ pc[t] = "deq_avail" /\ pc'[t] = "deq_free"
      BY <1>0, <1>6 DEF DeqAvail, At, Goto, TypeOK
    <3> QED
      BY <1>0, <3>1, StatusStays DEF Labels, CallStatus
  <2> QED
    BY <1>6, <2>1, <2>2 DEF DeqAvail, call_vars
<1>7. CASE EnqFree(t) \/ DeqFree(t)
  <2>1. Contents' = Contents
    <3>1. Stored' = Stored
      BY <1>0, <1>7 DEF EnqFree, DeqFree, At, Goto, Stored, One, TypeOK
    <3> QED
      BY <1>7, <3>1 DEF Contents, BlockOf, EnqFree, DeqFree
  <2>2. CASE EnqFree(t)
    <3>1. /\ Goto(t, "enq_release")
          /\ pc[t] = "enq_free" /\ pc'[t] = "enq_release"
      BY <1>0, <2>2 DEF EnqFree, At, Goto, TypeOK
    <3>2. Status' = Status
      BY <1>0, <3>1, StatusStays DEF Labels, CallStatus
    <3> QED
      BY <2>1, <2>2, <3>2 DEF EnqFree, call_vars
  <2>3. CASE DeqFree(t)
    <3>1. /\ Goto(t, "deq_release")
          /\ pc[t] = "deq_free" /\ pc'[t] = "deq_release"
      BY <1>0, <2>3 DEF DeqFree, At, Goto, TypeOK
    <3>2. Status' = Status
      BY <1>0, <3>1, StatusStays DEF Labels, CallStatus
    <3> QED
      BY <2>1, <2>3, <3>2 DEF DeqFree, call_vars
  <2> QED
    BY <1>7, <2>2, <2>3
<1>8. ASSUME UNCHANGED <<obj_vars, item, size>>, NEW to \in Labels, Goto(t, to),
             pc[t] # "deq_avail", to # "deq_avail",
             CallStatus(t)' = CallStatus(t)
      PROVE  UNCHANGED FifoVars
  <2>1. Contents' = Contents
    BY <1>0, <1>8, SameContents DEF Goto, TypeOK
  <2>2. Status' = Status
    BY <1>0, <1>8, StatusStays
  <2> QED
    BY <1>8, <2>1, <2>2
<1>9. CASE EnqAcquire(t) \/ DeqAcquire(t)
  <2>1. PICK to \in Labels : Goto(t, to) /\ to # "deq_avail"
                             /\ CallStatus(t)' = CallStatus(t)
    <3>1. CASE EnqAcquire(t)
      BY <1>0, <3>1 DEF EnqAcquire, Goto, Labels, CallStatus, TypeOK
    <3>2. CASE DeqAcquire(t)
      BY <1>0, <3>2 DEF DeqAcquire, Goto, Labels, CallStatus, TypeOK
    <3> QED
      BY <1>9, <3>1, <3>2
  <2> QED
    BY <1>8, <1>9, <2>1 DEF EnqAcquire, DeqAcquire, call_vars
<1>10. CASE EnqFull(t) \/ DeqEmpty(t) \/ EnqRelease(t) \/ DeqRelease(t)
  <2>1. PICK to \in Labels : Goto(t, to) /\ to # "deq_avail"
                             /\ CallStatus(t)' = CallStatus(t)
    <3>1. CASE EnqFull(t)
      BY <1>0, <3>1 DEF EnqFull, At, Goto, Labels, CallStatus, TypeOK
    <3>2. CASE DeqEmpty(t)
      BY <1>0, <3>2 DEF DeqEmpty, At, Goto, Labels, CallStatus, TypeOK
    <3>3. CASE EnqRelease(t)
      BY <1>0, <3>3 DEF EnqRelease, At, Goto, Labels, CallStatus, TypeOK
    <3>4. CASE DeqRelease(t)
      BY <1>0, <3>4 DEF DeqRelease, At, Goto, Labels, CallStatus, TypeOK
    <3> QED
      BY <1>10, <3>1, <3>2, <3>3, <3>4
  <2> QED
    BY <1>8, <1>10, <2>1
       DEF EnqFull, DeqEmpty, EnqRelease, DeqRelease, At, call_vars
<1>11. CASE EnqWait(t) \/ DeqWait(t)
  <2>1. PICK to \in Labels : Goto(t, to) /\ to # "deq_avail"
                             /\ CallStatus(t)' = CallStatus(t)
    <3>1. CASE EnqWait(t)
      BY <1>0, <3>1 DEF EnqWait, FutexWait, Goto, Labels, CallStatus, TypeOK
    <3>2. CASE DeqWait(t)
      BY <1>0, <3>2 DEF DeqWait, FutexWait, Goto, Labels, CallStatus, TypeOK
    <3> QED
      BY <1>11, <3>1, <3>2
  <2> QED
    BY <1>8, <1>11, <2>1 DEF EnqWait, DeqWait, call_vars
<1>12. CASE EnqTimeout(t)
  <2>1. Goto(t, "enq_acquire") /\ pc[t] = "enq_asleep"
    BY <1>0, <1>12 DEF EnqTimeout, FutexTimeout, SleepersAsleep, ETIMEDOUT,
                       SyscallTimedOut
  <2>2. CallStatus(t)' = CallStatus(t)
    BY <1>0, <2>1 DEF Goto, TypeOK, CallStatus
  <2> QED
    BY <1>8, <1>12, <2>1, <2>2 DEF EnqTimeout, call_vars, Labels
<1>13. CASE DeqTimeout(t)
  <2>1. Goto(t, "deq_acquire") /\ pc[t] = "deq_asleep"
    BY <1>0, <1>13 DEF DeqTimeout, FutexTimeout, SleepersAsleep, ETIMEDOUT,
                       SyscallTimedOut
  <2>2. CallStatus(t)' = CallStatus(t)
    BY <1>0, <2>1 DEF Goto, TypeOK, CallStatus
  <2> QED
    BY <1>8, <1>13, <2>1, <2>2 DEF DeqTimeout, call_vars, Labels
<1>14. CASE EnqWake(t) \/ DeqWake(t)
  <2>1. /\ pc[t] \in {"enq_wake", "deq_wake"} /\ pc'[t] = "idle"
        /\ \A s \in Threads \ {t} :
             \/ pc'[s] = pc[s]
             \/ pc[s] = "deq_asleep" /\ pc'[s] = "deq_acquire"
             \/ pc[s] = "enq_asleep" /\ pc'[s] = "enq_acquire"
    <3>1. CASE EnqWake(t)
      BY <1>0, <3>1 DEF EnqWake, FutexWake, SleepersAsleep, Goto, TypeOK, Words
    <3>2. CASE DeqWake(t)
      BY <1>0, <3>2 DEF DeqWake, FutexWake, SleepersAsleep, Goto, TypeOK, Words
    <3> QED
      BY <1>14, <3>1, <3>2
  <2>2. Contents' = Contents
    BY <1>14, <2>1, SameContents DEF EnqWake, DeqWake
  <2>3. \A s \in Threads \ {t} : CallStatus(s)' = CallStatus(s)
    BY <2>1 DEF CallStatus
  <2>4. CallStatus(t)' = "idle" /\ CallStatus(t) = "done"
    BY <2>1 DEF CallStatus
  <2>5. Status' = [Status EXCEPT ![t] = "idle"] /\ Status[t] = "done"
    BY <2>3, <2>4 DEF Status
  <2>6. Fifo!Return(t)
    BY <1>14, <2>2, <2>5 DEF Fifo!Return, Status, EnqWake, DeqWake, call_vars
  <2> QED
    BY <2>6 DEF Fifo!Next
<1>15. CASE DeqTooLarge(t) \/ DeqOutOfMemory(t)
  <2>1. Goto(t, "idle") /\ pc[t] = "deq_take" /\ pc'[t] = "idle"
    BY <1>0, <1>15 DEF DeqTooLarge, DeqOutOfMemory, At, Goto, TypeOK
  <2>2. Contents' = Contents
    BY <1>0, <1>15, <2>1, SameContents
       DEF DeqTooLarge, DeqOutOfMemory, Goto, TypeOK
  <2>3. Status' = [Status EXCEPT ![t] = "idle"] /\ Status[t] = "getting"
    BY <1>0, <2>1, StatusMoves DEF Labels, CallStatus, Status
  <2>4. Fifo!GiveUp(t)
    BY <1>15, <2>2, <2>3
       DEF Fifo!GiveUp, Status, DeqTooLarge, DeqOutOfMemory, call_vars
  <2> QED
    BY <2>4 DEF Fifo!Next
<1>16. CASE SizeRelease(t)
  <2>1. Goto(t, "idle") /\ pc[t] = "size_release" /\ pc'[t] = "idle"
    BY <1>0, <1>16 DEF SizeRelease, At, Goto, TypeOK
  <2>2. Contents' = Contents
    BY <1>0, <1>16, <2>1, SameContents DEF SizeRelease, Goto, TypeOK
  <2>3. Status' = [Status EXCEPT ![t] = "idle"] /\ Status[t] = "done"
    BY <1>0, <2>1, StatusMoves DEF Labels, CallStatus, Status
  <2>4. Fifo!Return(t)
    BY <1>16, <2>2, <2>3 DEF Fifo!Return, Status, SizeRelease, call_vars
  <2> QED
    BY <2>4 DEF Fifo!Next
<1> QED
  BY <1>1, <1>2, <1>3, <1>4, <1>5, <1>6, <1>7, <1>9, <1>10, <1>11, <1>12,
     <1>13, <1>14, <1>15, <1>16 DEF Step, Call, Enqueue, Dequeue

\* Every behaviour of the ring, the spinlock and the futexes, for any threads,
\* any number of blocks and any mix of calls, time-outs and malloc failures,
\* is a behaviour of the FIFO queue its callers were promised
\* (cqueue.c:151-319).
THEOREM Refinement == Spec => IsFifo
<1>1. Init => Fifo!Init
  BY InitFifo
<1>2. IInv /\ IInv' /\ [Next]_vars => [Fifo!Next]_(Fifo!vars)
  <2> SUFFICES ASSUME IInv, IInv', [Next]_vars
               PROVE  Fifo!Next \/ UNCHANGED FifoVars
    BY DEF Fifo!vars, FifoVars, Status
  <2>1. CASE UNCHANGED vars
    <3>1. UNCHANGED <<obj_vars, pc, item, size>>
      BY <2>1 DEF vars, call_vars
    <3>2. Contents' = Contents
      BY <3>1, SameContents
    <3>3. Status' = Status
      BY <3>1 DEF Status, CallStatus
    <3> QED
      BY <3>1, <3>2, <3>3 DEF FifoVars
  <2>2. ASSUME NEW t \in Threads, Step(t)
        PROVE  Fifo!Next \/ UNCHANGED FifoVars
    BY <2>2, StepFifo
  <2> QED
    BY <2>1, <2>2 DEF Next, Terminating
<1>3. Spec => []IInv
  BY Invariance
<1> QED
  BY <1>1, <1>2, <1>3, PTL DEF Spec, IsFifo, Fifo!Spec
===============================================================================
