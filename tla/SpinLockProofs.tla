---------------------------- MODULE SpinLockProofs ----------------------------
(***************************************************************************)
(* Theorems about the test-and-set lock of SpinLock, for any number of     *)
(* threads, with timeouts or without.                                      *)
(***************************************************************************)
EXTENDS SpinLock, FiniteSetTheorems, TLAPS

\* The flag is set exactly while a thread is inside, and one at most is.
OneInside == /\ lock = 1 <=> \E t \in Threads : pc[t] \in Inside
             /\ \A s, t \in Threads : pc[s] \in Inside /\ pc[t] \in Inside => s = t

\* A thread inside has an iteration to finish, and so has one that waits.
Unfinished == \A t \in Threads : pc[t] \in Inside \cup {"acquire"} => done[t] < Iterations

IInv == TypeOK /\ OneInside /\ Unfinished /\ NoLostUpdate

LEMMA InitIInv == Init => IInv
  BY ConstantsAssumption
     DEF Init, IInv, TypeOK, OneInside, Unfinished, NoLostUpdate, Inside

LEMMA StepTypeOK ==
  ASSUME IInv, NEW t \in Threads, Step(t)
  PROVE  TypeOK' /\ Unfinished'
<1> USE ConstantsAssumption DEF IInv, TypeOK, Unfinished, Inside, At
<1>1. CASE Acquire(t) \/ TimesOut(t)
  BY <1>1 DEF Acquire, TimesOut
<1>2. CASE ReadCounter(t) \/ WriteCounter(t)
  BY <1>2 DEF ReadCounter, WriteCounter
<1>3. CASE Release(t)
  BY <1>3 DEF Release
<1> QED
  BY <1>1, <1>2, <1>3 DEF Step

LEMMA StepOneInside ==
  ASSUME IInv, NEW t \in Threads, Step(t)
  PROVE  OneInside'
<1> USE DEF IInv, TypeOK, OneInside, Inside, At
<1>1. CASE Acquire(t) \/ TimesOut(t)
  BY <1>1 DEF Acquire, TimesOut
<1>2. CASE ReadCounter(t) \/ WriteCounter(t)
  BY <1>2 DEF ReadCounter, WriteCounter
<1>3. CASE Release(t)
  BY <1>3 DEF Release
<1> QED
  BY <1>1, <1>2, <1>3 DEF Step

\* Only the thread inside changes the counter, and it reads it first.
LEMMA StepNoLostUpdate ==
  ASSUME IInv, NEW t \in Threads, Step(t)
  PROVE  NoLostUpdate'
<1> USE DEF IInv, TypeOK, OneInside, NoLostUpdate, Inside, At
<1>1. CASE Acquire(t) \/ TimesOut(t) \/ Release(t)
  BY <1>1 DEF Acquire, TimesOut, Release
<1>2. CASE ReadCounter(t)
  BY <1>2 DEF ReadCounter
<1>3. CASE WriteCounter(t)
  BY <1>3 DEF WriteCounter
<1> QED
  BY <1>1, <1>2, <1>3 DEF Step

LEMMA Invariance == Spec => []IInv
<1>1. IInv /\ [Next]_vars => IInv'
  <2> SUFFICES ASSUME IInv, [Next]_vars PROVE IInv'
    OBVIOUS
  <2>1. CASE UNCHANGED vars
    BY <2>1 DEF vars, IInv, TypeOK, OneInside, Unfinished, NoLostUpdate
  <2>2. ASSUME NEW t \in Threads, Step(t) PROVE IInv'
    BY <2>2, StepTypeOK, StepOneInside, StepNoLostUpdate DEF IInv
  <2> QED
    BY <2>1, <2>2 DEF Next, Terminating
<1> QED
  BY InitIInv, <1>1, PTL DEF Spec

\* The flag and every thread's place, and no thread adds more often than the
\* test asks it to (spinlock.c:128-155, spintest.c:85-97).
THEOREM SpinTypeCorrect == Spec => []TypeOK
  BY Invariance, PTL DEF IInv

\* The lock is exclusive, so the counter a thread has read is still the
\* counter when it writes (spintest.c:87-93, SpinLock.java:13-23).
THEOREM SpinNoLostUpdate == Spec => []NoLostUpdate
  BY Invariance, PTL DEF IInv
-------------------------------------------------------------------------------
\* The additions made so far: t's k-th has been written.
Written == {a \in Threads \X (1 .. Iterations) :
              a[2] <= done[a[1]] + IF pc[a[1]] = "release" THEN 1 ELSE 0}

ExactCount == counter = Cardinality(Written)

LEMMA WrittenFinite ==
  /\ IsFiniteSet(Threads \X (1 .. Iterations))
  /\ Cardinality(Threads \X (1 .. Iterations)) = Cardinality(Threads) * Iterations
  /\ IsFiniteSet(Written) /\ Cardinality(Written) \in Nat
<1>1. IsFiniteSet(1 .. Iterations) /\ Cardinality(1 .. Iterations) = Iterations
  <2>1. 1 \in Int /\ Iterations \in Int /\ ~(1 > Iterations) /\ Iterations - 1 + 1 = Iterations
    BY ConstantsAssumption
  <2> QED
    BY <2>1, FS_Interval
<1>2. /\ IsFiniteSet(Threads \X (1 .. Iterations))
      /\ Cardinality(Threads \X (1 .. Iterations)) = Cardinality(Threads) * Iterations
  BY <1>1, ConstantsAssumption, FS_Product
<1>3. Written \in SUBSET (Threads \X (1 .. Iterations))
  BY DEF Written
<1> QED
  BY <1>2, <1>3, FS_Subset, FS_CardinalityType

\* A write adds 1 to the counter, as nobody has written since the thread read
\* it; no other step changes either side.
LEMMA StepExactCount ==
  ASSUME IInv, ExactCount, NEW t \in Threads, Step(t)
  PROVE  ExactCount'
<1> USE ConstantsAssumption
<1>1. CASE WriteCounter(t)
  <2> DEFINE a == <<t, done[t] + 1>>
  <2>1. counter' = counter + 1
    BY <1>1 DEF IInv, NoLostUpdate, WriteCounter, At
  <2>2. done[t] + 1 \in 1 .. Iterations /\ done[t] \in Nat
    BY <1>1 DEF IInv, TypeOK, Unfinished, Inside, WriteCounter, At
  <2>3. a \notin Written
    BY <1>1, <2>2 DEF Written, WriteCounter, At
  <2>4. Written' = Written \cup {a}
    <3>1. ASSUME NEW s \in Threads, NEW k \in 1 .. Iterations
          PROVE  <<s, k>> \in Written' <=> <<s, k>> \in Written \/ <<s, k>> = a
      <4>1. done' = done /\ done[s] \in Nat
        BY <1>1 DEF IInv, TypeOK, WriteCounter
      <4>2. CASE s = t
        BY <1>1, <2>2, <4>1, <4>2 DEF Written, IInv, TypeOK, WriteCounter, At
      <4>3. CASE s # t
        BY <1>1, <4>1, <4>3 DEF Written, IInv, TypeOK, WriteCounter, At
      <4> QED
        BY <4>2, <4>3
    <3>2. Written' \subseteq Threads \X (1 .. Iterations) /\ a \in Threads \X (1 .. Iterations)
      BY <2>2 DEF Written
    <3> QED
      BY <3>1, <3>2 DEF Written
  <2> QED
    BY <2>1, <2>3, <2>4, WrittenFinite, FS_AddElement DEF ExactCount
<1>2. CASE Acquire(t) \/ TimesOut(t) \/ ReadCounter(t) \/ Release(t)
  <2>1. ASSUME NEW s \in Threads
        PROVE  done'[s] + (IF pc'[s] = "release" THEN 1 ELSE 0)
                 = done[s] + (IF pc[s] = "release" THEN 1 ELSE 0)
    BY <1>2 DEF IInv, TypeOK, Acquire, TimesOut, ReadCounter, Release, At
  <2>2. Written' = Written
    BY <2>1 DEF Written
  <2>3. counter' = counter
    BY <1>2 DEF Acquire, TimesOut, ReadCounter, Release
  <2> QED
    BY <2>2, <2>3 DEF ExactCount
<1> QED
  BY <1>1, <1>2 DEF Step

\* The counter is at every moment the number of additions made. If no acquire
\* is timed and all threads have ended, it is the number the test expects
\* (spintest.c:152-156, SpinLock.java:83-88).
THEOREM SpinCounts ==
  Spec => [](/\ ExactCount
             /\ Done /\ Timed = {} => counter = Cardinality(Threads) * Iterations)
<1> DEFINE All == \A t \in Threads : pc[t] = "ended" /\ t \notin Timed => done[t] = Iterations
<1>1. Init => ExactCount /\ All
  <2> SUFFICES ASSUME Init PROVE ExactCount /\ All
    OBVIOUS
  <2>1. Written = {}
    BY ConstantsAssumption DEF Init, Written
  <2> QED
    BY <2>1, FS_EmptySet DEF Init, ExactCount
<1>2. IInv /\ ExactCount /\ All /\ [Next]_vars => (ExactCount /\ All)'
  <2> SUFFICES ASSUME IInv, ExactCount, All, [Next]_vars PROVE (ExactCount /\ All)'
    OBVIOUS
  <2>1. CASE UNCHANGED vars
    BY <2>1 DEF vars, ExactCount, Written
  <2>2. ASSUME NEW t \in Threads, Step(t) PROVE (ExactCount /\ All)'
    <3>1. All'
      BY <2>2, ConstantsAssumption
         DEF IInv, TypeOK, Unfinished, Inside, At, Step, Acquire, TimesOut,
             ReadCounter, WriteCounter, Release
    <3> QED
      BY <2>2, <3>1, StepExactCount
  <2> QED
    BY <2>1, <2>2 DEF Next, Terminating
<1>3. ExactCount /\ All /\ Done /\ Timed = {} => counter = Cardinality(Threads) * Iterations
  <2> SUFFICES ASSUME ExactCount, All, Done, Timed = {}
               PROVE  counter = Cardinality(Threads) * Iterations
    OBVIOUS
  <2>1. \A t \in Threads : done[t] = Iterations /\ pc[t] # "release"
    BY DEF Done
  <2>2. Written = Threads \X (1 .. Iterations)
    BY <2>1, ConstantsAssumption DEF Written
  <2> QED
    BY <2>2, WrittenFinite DEF ExactCount
<1> QED
  BY <1>1, <1>2, <1>3, Invariance, PTL DEF Spec
===============================================================================
