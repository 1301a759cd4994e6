----------------------------- MODULE BarrierProofs -----------------------------
(***************************************************************************)
(* Theorems about the barrier of Barrier, for any number of threads, any   *)
(* limit and any failures of its calls.                                    *)
(***************************************************************************)
EXTENDS Barrier, FiniteSetTheorems, SequenceTheorems, TLAPS

Left == Len(threads_at_barrier_queue)

\* The threads that have taken a number.
Numbered == {t \in Threads : threads_at_barrier[t] # 0}

Labels == {"idle", "size", "take", "block", "act", "wake"}

\* What the argument needs to know of the types of the variables.
Types == /\ threads_at_barrier_queue \in Seq(1 .. threads_limit)
         /\ thread_blocking_queue \in Seq({0})
         /\ pc \in [Threads -> Labels]
         /\ threads_at_barrier \in [Threads -> 0 .. threads_limit]
         /\ action_runs \in Nat
         /\ arrived \subseteq Threads
         /\ passed \subseteq arrived

\* The numbers left are the last ones, in order: who takes threads_limit
\* leaves none.
LastNumbers == \A k \in 1 .. Left : threads_at_barrier_queue[k] = threads_limit - Left + k

\* Each number taken was taken by a thread of its own, which has arrived.
OneNumberEach == /\ Cardinality(Numbered) + Left = threads_limit
                 /\ Numbered \subseteq arrived

\* While numbers are left no thread has passed, acts or wakes, and one that
\* has a number waits.
WholeBarrier ==
  Left > 0 => /\ thread_blocking_queue = <<>>
              /\ passed = {}
              /\ \A t \in Threads : pc[t] \notin {"act", "wake"}
              /\ \A t \in Numbered : pc[t] = "block"

\* Threads inside barrier_wait have arrived.
InsideArrived == \A t \in Threads : pc[t] # "idle" => t \in arrived

BInv == Types /\ LastNumbers /\ OneNumberEach /\ WholeBarrier /\ InsideArrived
-------------------------------------------------------------------------------
LEMMA NumbersType ==
  ASSUME NEW n \in Nat
  PROVE  /\ [k \in 1 .. n |-> k] \in Seq(1 .. n)
         /\ Len([k \in 1 .. n |-> k]) = n
<1> DEFINE f == [k \in 1 .. n |-> k]
<1>1. f \in [1 .. n -> 1 .. n]
  OBVIOUS
<1>2. f \in Seq(1 .. n)
  BY <1>1, SeqDef
<1>3. DOMAIN f = 1 .. Len(f) /\ Len(f) \in Nat
  BY <1>2, LenProperties
<1>4. \A m \in Nat : 1 .. n = 1 .. m => n = m
  OBVIOUS
<1>5. DOMAIN f = 1 .. n
  OBVIOUS
<1> HIDE DEF f
<1>6. Len(f) = n
  BY <1>3, <1>4, <1>5
<1> QED
  BY <1>2, <1>6 DEF f

LEMMA InitBInv == Init => BInv
<1> SUFFICES ASSUME Init PROVE BInv
  OBVIOUS
<1> USE ConstantsAssumption
<1>1. /\ threads_at_barrier_queue \in Seq(1 .. threads_limit)
      /\ Left = threads_limit
  BY NumbersType DEF Init, Left
<1>2. Types
  BY <1>1, EmptySeq DEF Init, Types, Labels
<1>3. LastNumbers
  BY <1>1 DEF Init, LastNumbers
<1>4. Numbered = {} /\ Cardinality({}) = 0
  BY FS_EmptySet DEF Init, Numbered
<1>5. OneNumberEach
  BY <1>1, <1>4 DEF OneNumberEach
<1>6. WholeBarrier /\ InsideArrived
  BY <1>4 DEF Init, WholeBarrier, InsideArrived
<1> QED
  BY <1>2, <1>3, <1>5, <1>6 DEF BInv

\* The thread that takes a number had none; if it leaves some, it waits.
LEMMA TakeBInv ==
  ASSUME BInv, NEW t \in Threads, Take(t)
  PROVE  BInv' /\ Left' = Left - 1 /\ Left \in 1 .. threads_limit
<1> USE ConstantsAssumption
<1> DEFINE q == threads_at_barrier_queue
<1>1. /\ q \in Seq(1 .. threads_limit) /\ q # <<>>
      /\ Left \in Nat \ {0}
  BY EmptySeq, LenProperties DEF BInv, Types, Take, Left
<1>2. /\ Head(q) = q[1] /\ Head(q) \in 1 .. threads_limit
      /\ Tail(q) \in Seq(1 .. threads_limit)
      /\ Len(Tail(q)) = Left - 1
      /\ \A k \in 1 .. Left - 1 : Tail(q)[k] = q[k + 1]
  BY <1>1, HeadTailProperties DEF Left
<1>3. Head(q) = threads_limit - Left + 1
  BY <1>1, <1>2 DEF BInv, LastNumbers
<1>4. Left' = Left - 1
  BY <1>2 DEF Take, Left
<1>5. t \notin Numbered
  BY <1>1 DEF BInv, WholeBarrier, Take, At
<1>6. Numbered' = Numbered \cup {t}
  BY <1>2 DEF Take, Numbered, BInv, Types
<1>7. pc' = [pc EXCEPT ![t] = IF Left > 1 THEN "block" ELSE "act"]
      /\ pc[t] = "take"
  <2>1. Head(q) < threads_limit <=> Left > 1
    BY <1>1, <1>3
  <2> QED
    BY <2>1 DEF Take, At
<1>8. Types'
  BY <1>2, <1>7 DEF Take, BInv, Types, Labels, history
<1>9. LastNumbers'
  <2>1. ASSUME NEW k \in 1 .. Left - 1
        PROVE  Tail(q)[k] = threads_limit - (Left - 1) + k
    BY <1>1, <1>2, <2>1 DEF BInv, LastNumbers
  <2> QED
    BY <1>4, <2>1 DEF LastNumbers, Take
<1>10. OneNumberEach'
  <2>1. IsFiniteSet(Numbered)
    BY FS_Subset DEF Numbered
  <2>2. Cardinality(Numbered') = Cardinality(Numbered) + 1
    BY <1>5, <1>6, <2>1, FS_AddElement
  <2>3. t \in arrived /\ arrived' = arrived
    BY <1>7 DEF BInv, InsideArrived, Take, history
  <2>4. Cardinality(Numbered) \in Nat
    BY <2>1, FS_CardinalityType
  <2> QED
    BY <1>1, <1>4, <1>6, <2>2, <2>3, <2>4 DEF BInv, OneNumberEach
<1>11. WholeBarrier'
  <2> SUFFICES ASSUME Left' > 0 PROVE WholeBarrier'
    BY DEF WholeBarrier
  <2>1. Left > 1 /\ Left > 0
    BY <1>1, <1>4
  <2>2. /\ thread_blocking_queue = <<>> /\ passed = {}
        /\ \A s \in Threads : pc[s] \notin {"act", "wake"}
        /\ \A s \in Numbered : pc[s] = "block"
    BY <2>1 DEF BInv, WholeBarrier
  <2>3. \A s \in Threads : pc'[s] = IF s = t THEN "block" ELSE pc[s]
    BY <1>7, <2>1 DEF BInv, Types
  <2> QED
    BY <1>6, <2>2, <2>3 DEF WholeBarrier, Take, history, Numbered
<1>12. InsideArrived'
  BY <1>7 DEF BInv, Types, InsideArrived, Take, history
<1>13. Left \in 1 .. threads_limit
  BY <1>1, <1>2, <1>3
<1> QED
  BY <1>4, <1>8, <1>9, <1>10, <1>11, <1>12, <1>13 DEF BInv

\* Every other step leaves the numbers alone.
LEMMA OtherBInv ==
  ASSUME BInv, NEW t \in Threads, Step(t), ~Take(t)
  PROVE  BInv' /\ UNCHANGED <<threads_at_barrier_queue, threads_at_barrier>>
<1> USE ConstantsAssumption
<1>1. UNCHANGED <<threads_at_barrier_queue, threads_at_barrier>>
  BY DEF Step, Call, CheckBroken, CheckWhole, TakeFails, Block, BlockFails,
         Act, ActFails, WakeOne, WakeDone, queues
<1>2. Left \in Nat /\ Left' = Left /\ Numbered' = Numbered
  BY <1>1, LenProperties DEF BInv, Types, Left, Numbered
<1>3. LastNumbers'
  BY <1>1, <1>2 DEF BInv, LastNumbers
<1>4. arrived \subseteq arrived'
  BY DEF Step, Call, CheckBroken, CheckWhole, TakeFails, Block, BlockFails,
         Act, ActFails, WakeOne, WakeDone, history
<1>5. OneNumberEach'
  BY <1>2, <1>4 DEF BInv, OneNumberEach
<1>6. CASE Left > 0
  <2>0. /\ thread_blocking_queue = <<>> /\ passed = {}
        /\ \A s \in Threads : pc[s] \notin {"act", "wake"}
        /\ \A s \in Numbered : pc[s] = "block"
        /\ threads_at_barrier_queue # <<>>
    BY <1>6, EmptySeq DEF BInv, WholeBarrier, Left
  <2>1. Call(t) \/ CheckWhole(t) \/ TakeFails(t)
    BY <2>0 DEF Step, CheckBroken, Block, BlockFails, Act, ActFails,
                WakeOne, WakeDone, Succeed, Fail, At
  <2>2. Types' /\ InsideArrived'
    BY <1>1, <2>1 DEF BInv, Types, InsideArrived, Labels, Call, CheckWhole,
                      TakeFails, Fail, At, queues, history
  <2>3. WholeBarrier'
    BY <1>2, <2>0, <2>1
       DEF BInv, Types, WholeBarrier, Numbered, Call, CheckWhole, TakeFails,
           Fail, At, queues, history
  <2> QED
    BY <1>1, <1>3, <1>5, <2>2, <2>3 DEF BInv
<1>7. CASE Left = 0
  <2>1. WholeBarrier'
    BY <1>2, <1>7 DEF WholeBarrier
  <2>2. thread_blocking_queue' \in Seq({0})
    <3>1. CASE Block(t)
      BY <3>1, HeadTailProperties DEF Block, BInv, Types
    <3>2. CASE WakeOne(t)
      BY <3>2, AppendProperties DEF WakeOne, BInv, Types
    <3>3. CASE ~Block(t) /\ ~WakeOne(t)
      BY <3>3 DEF Step, Call, CheckBroken, CheckWhole, TakeFails, BlockFails,
                  Act, ActFails, WakeDone, queues, BInv, Types
    <3> QED
      BY <3>1, <3>2, <3>3
  <2>3. /\ pc' \in [Threads -> Labels] /\ action_runs' \in Nat
        /\ arrived' \subseteq Threads /\ passed' \subseteq arrived'
        /\ InsideArrived'
    <3>1. CASE Call(t) \/ CheckWhole(t) \/ TakeFails(t)
      BY <3>1 DEF BInv, Types, InsideArrived, Labels, Call, CheckWhole,
                  TakeFails, Fail, At, history
    <3>2. CASE CheckBroken(t) \/ Block(t) \/ BlockFails(t)
      BY <3>2 DEF BInv, Types, InsideArrived, Labels, CheckBroken, Block,
                  BlockFails, Succeed, Fail, At
    <3>3. CASE Act(t) \/ WakeOne(t)
      BY <3>3 DEF BInv, Types, InsideArrived, Labels, Act, WakeOne, At, history
    <3>4. CASE ActFails(t) \/ WakeDone(t)
      BY <3>4 DEF BInv, Types, InsideArrived, Labels, ActFails, WakeDone,
                  Succeed, Fail, At
    <3> QED
      BY <3>1, <3>2, <3>3, <3>4 DEF Step
  <2>4. Types'
    BY <1>1, <2>2, <2>3 DEF BInv, Types
  <2> QED
    BY <1>1, <1>3, <1>5, <2>1, <2>3, <2>4 DEF BInv
<1> QED
  BY <1>2, <1>6, <1>7

\* Whatever the threads do and whichever call fails, the numbers are handed
\* out one each and in order, and nobody has passed while one is left
\* (barrier.c:59-104).
THEOREM BarrierInvariance == Spec => []BInv
<1>1. BInv /\ [Next]_vars => BInv'
  <2> SUFFICES ASSUME BInv, [Next]_vars PROVE BInv'
    OBVIOUS
  <2>1. CASE UNCHANGED vars
    BY <2>1 DEF vars, queues, history, BInv, Types, LastNumbers, OneNumberEach,
                WholeBarrier, InsideArrived, Left, Numbered
  <2>2. ASSUME NEW t \in Threads, Step(t) PROVE BInv'
    BY <2>2, TakeBInv, OtherBInv
  <2> QED
    BY <2>1, <2>2 DEF Next, Terminating
<1> QED
  BY InitBInv, <1>1, PTL DEF Spec
-------------------------------------------------------------------------------
LEMMA LeftZero == BInv => (Left = 0 <=> threads_at_barrier_queue = <<>>)
  BY EmptySeq, LenProperties DEF BInv, Types, Left

LEMMA InitAbstract == Init => Abstract!Init
<1> SUFFICES ASSUME Init PROVE Abstract!Init
  OBVIOUS
<1>1. /\ Left = threads_limit
      /\ Left = 0 <=> threads_at_barrier_queue = <<>>
  BY ConstantsAssumption, NumbersType, EmptySeq, LenProperties DEF Init, Left
<1> QED
  BY <1>1 DEF Init, Abstract!Init

\* The last number goes to the last of threads_limit threads.
LEMMA TakeAbstract ==
  ASSUME BInv, NEW t \in Threads, Take(t)
  PROVE  [Abstract!Next]_(Abstract!vars)
<1> USE ConstantsAssumption
<1>1. BInv' /\ Left' = Left - 1 /\ Left \in 1 .. threads_limit
  BY TakeBInv
<1>2. UNCHANGED <<arrived, passed>>
  BY DEF Take, history
<1>3. threads_at_barrier_queue # <<>>
  BY DEF Take
<1>4. Left = 0 <=> threads_at_barrier_queue = <<>>
  BY LeftZero
<1>5. BInv' => (Left = 0 <=> threads_at_barrier_queue = <<>>)'
  BY LeftZero, PTL
<1>6. CASE Left = 1
  <2>1. IsFiniteSet(arrived)
    BY FS_Subset DEF BInv, Types
  <2>2. /\ Cardinality(Numbered') = threads_limit
        /\ Numbered' \subseteq arrived
    <3>1. Cardinality(Numbered') + Left' = threads_limit /\ Left' = 0
      BY <1>1, <1>6 DEF BInv, OneNumberEach
    <3>2. Numbered' \subseteq arrived'
      BY <1>1 DEF BInv, OneNumberEach
    <3>3. IsFiniteSet(Numbered')
      BY <1>2, <2>1, <3>2, FS_Subset
    <3>4. Cardinality(Numbered') \in Nat
      BY <3>3, FS_CardinalityType
    <3> QED
      BY <1>2, <3>1, <3>2, <3>4
  <2>3. Cardinality(arrived) >= threads_limit
    <3>1. /\ Cardinality(Numbered') <= Cardinality(arrived)
      BY <2>1, <2>2, FS_Subset
    <3> QED
      BY <2>2, <3>1
  <2>4. Abstract!Cardinality(arrived) = Cardinality(arrived)
    BY DEF Abstract!Cardinality, Cardinality
  <2>5. (threads_at_barrier_queue = <<>>)' = TRUE
    BY <1>1, <1>5, <1>6
  <2> QED
    BY <1>2, <2>3, <2>4, <2>5 DEF Abstract!Next, Abstract!Break
<1>7. CASE Left # 1
  <2>1. Left # 0 /\ Left' # 0
    BY <1>1, <1>7
  <2> QED
    BY <1>1, <1>2, <1>4, <1>5, <2>1 DEF Abstract!vars
<1> QED
  BY <1>6, <1>7

\* A thread passes only when no number is left, and only if it has called.
LEMMA OtherAbstract ==
  ASSUME BInv, NEW t \in Threads, Step(t), ~Take(t)
  PROVE  [Abstract!Next]_(Abstract!vars)
<1>1. threads_at_barrier_queue' = threads_at_barrier_queue
  BY OtherBInv
<1>2. CASE Call(t)
  BY <1>1, <1>2 DEF Call, Abstract!Next, Abstract!Arrive
<1>3. CASE CheckBroken(t) \/ Block(t) \/ WakeDone(t)
  <2>1. threads_at_barrier_queue = <<>>
    <3>1. CASE CheckBroken(t)
      BY <3>1 DEF CheckBroken
    <3>2. CASE Block(t) \/ WakeDone(t)
      <4>1. ~(Left > 0)
        BY <3>2 DEF BInv, WholeBarrier, Block, WakeDone, Succeed, At
      <4>2. Left \in Nat
        BY LenProperties DEF BInv, Types, Left
      <4> QED
        BY <4>1, <4>2, LeftZero
    <3> QED
      BY <1>3, <3>1, <3>2
  <2>2. t \in arrived
    BY <1>3 DEF BInv, InsideArrived, CheckBroken, Block, WakeDone, Succeed, At
  <2> QED
    BY <1>1, <1>3, <2>1, <2>2
       DEF CheckBroken, Block, WakeDone, Succeed, Abstract!Next, Abstract!Pass
<1>4. CASE UNCHANGED <<arrived, passed>>
  BY <1>1, <1>4 DEF Abstract!vars
<1> QED
  BY <1>2, <1>3, <1>4
     DEF Step, CheckWhole, TakeFails, BlockFails, Act, ActFails, WakeOne, Fail,
         history

\* The barrier of barrier.c keeps the promise of a barrier: nobody returns
\* from barrier_wait with Success before threads_limit threads have called it,
\* whether it went through the first queue, the second or the size check, and
\* whichever of its calls fail.
THEOREM BarrierPromise == Spec => IsOneShotBarrier
<1>1. BInv /\ [Next]_vars => [Abstract!Next]_(Abstract!vars)
  <2> SUFFICES ASSUME BInv, [Next]_vars PROVE [Abstract!Next]_(Abstract!vars)
    OBVIOUS
  <2>1. CASE UNCHANGED vars
    BY <2>1 DEF vars, queues, history, Abstract!vars
  <2>2. ASSUME NEW t \in Threads, Step(t) PROVE [Abstract!Next]_(Abstract!vars)
    BY <2>2, TakeAbstract, OtherAbstract
  <2> QED
    BY <2>1, <2>2 DEF Next, Terminating
<1> QED
  BY InitAbstract, BarrierInvariance, <1>1, PTL DEF Spec, IsOneShotBarrier, Abstract!Spec
-------------------------------------------------------------------------------
\* One thread at most is to run the action, and it has not run while a number
\* is left; until it has, there is no message and nobody to put one.
OneAction ==
  /\ \A t \in Threads : pc[t] = "act" => /\ Left = 0
                                         /\ action_runs = 0
                                         /\ threads_limit > 0
  /\ \A s, t \in Threads : pc[s] = "act" /\ pc[t] = "act" => s = t
  /\ action_runs \in {0, 1}
  /\ Left > 0 => action_runs = 0
  /\ action_runs = 0 => /\ thread_blocking_queue = <<>>
                        /\ \A t \in Threads : pc[t] # "wake"

\* The remaining bounds of the type invariant.
Bounds == /\ Len(thread_blocking_queue) <= threads_limit
          /\ i \in 0 .. threads_limit
          /\ calls \in [Threads -> 0 .. MaxCalls]
          /\ errors \in [FailPlaces -> Nat]

AInv == BInv /\ OneAction /\ Bounds

LEMMA InitAInv == Init => AInv
<1> SUFFICES ASSUME Init PROVE AInv
  OBVIOUS
<1>1. OneAction
  BY DEF Init, OneAction
<1>2. Bounds
  BY ConstantsAssumption, EmptySeq DEF Init, Bounds
<1> QED
  BY <1>1, <1>2, InitBInv DEF AInv

\* Numbers are only taken while nobody acts, so the thread that takes the
\* last one is the only one that acts.
LEMMA StepOneAction ==
  ASSUME AInv, NEW t \in Threads, Step(t)
  PROVE  OneAction'
<1> USE ConstantsAssumption
<1>1. Left \in Nat
  BY LenProperties DEF AInv, BInv, Types, Left
<1>2. pc \in [Threads -> Labels]
  BY DEF AInv, BInv, Types
<1>3. CASE Take(t)
  <2>1. BInv' /\ Left' = Left - 1 /\ Left \in 1 .. threads_limit
    BY <1>3, TakeBInv DEF AInv
  <2>2. Left > 0 /\ threads_limit > 0 /\ Left \in Nat
    BY <2>1
  <2>3. /\ action_runs = 0 /\ thread_blocking_queue = <<>>
        /\ \A s \in Threads : pc[s] \notin {"act", "wake"}
    BY <2>2 DEF AInv, OneAction, BInv, WholeBarrier
  <2>4. UNCHANGED <<action_runs, thread_blocking_queue>>
    BY <1>3 DEF Take
  <2>5. /\ Head(threads_at_barrier_queue) = threads_limit - Left + 1
    BY <2>2, HeadTailProperties, EmptySeq
       DEF AInv, BInv, LastNumbers, Types, Left
  <2>6. Head(threads_at_barrier_queue) < threads_limit <=> Left > 1
    BY <2>1, <2>5
  <2>7. pc'[t] = (IF Left > 1 THEN "block" ELSE "act")
        /\ \A s \in Threads : s # t => pc'[s] = pc[s]
    BY <1>2, <1>3, <2>6 DEF Take, At
  <2>8. \A s \in Threads : pc'[s] = "act" => s = t /\ Left = 1
    BY <2>1, <2>3, <2>7
  <2>9. \A s \in Threads : pc'[s] # "wake"
    BY <2>3, <2>7
  <2> QED
    BY <2>1, <2>2, <2>3, <2>4, <2>8, <2>9 DEF OneAction
<1>4. CASE Act(t)
  BY <1>1, <1>2, <1>4 DEF AInv, OneAction, Act, At, queues, Left
<1>5. CASE ActFails(t) \/ WakeDone(t) \/ CheckBroken(t)
  BY <1>2, <1>5 DEF AInv, OneAction, ActFails, WakeDone, CheckBroken, Fail,
                    Succeed, At, queues, Left
<1>6. CASE WakeOne(t)
  BY <1>6 DEF AInv, OneAction, WakeOne, Left
<1>7. CASE Block(t) \/ BlockFails(t)
  BY <1>2, <1>7 DEF AInv, OneAction, Block, BlockFails, Succeed, Fail, At,
                    queues, Left
<1>8. CASE Call(t) \/ CheckWhole(t) \/ TakeFails(t)
  BY <1>2, <1>8 DEF AInv, OneAction, Call, CheckWhole, TakeFails, Fail, At,
                    queues, Left
<1> QED
  BY <1>3, <1>4, <1>5, <1>6, <1>7, <1>8 DEF Step

LEMMA StepBounds ==
  ASSUME AInv, NEW t \in Threads, Step(t)
  PROVE  Bounds'
<1> USE ConstantsAssumption
<1>1. CASE Block(t)
  BY <1>1, HeadTailProperties DEF AInv, BInv, Types, Bounds, Block, Succeed
<1>2. CASE WakeOne(t)
  BY <1>2, AppendProperties, LenProperties
     DEF AInv, BInv, Types, Bounds, WakeOne, history
<1>3. CASE Act(t)
  BY <1>3 DEF AInv, OneAction, Bounds, Act, At, queues, history
<1>4. CASE Call(t)
  BY <1>4 DEF AInv, Bounds, Call, queues
<1>5. CASE TakeFails(t) \/ BlockFails(t) \/ ActFails(t)
  BY <1>5, SMTT(30) DEF AInv, Bounds, TakeFails, BlockFails, ActFails, Fail, FailPlaces,
              queues
<1>6. CASE UNCHANGED <<thread_blocking_queue, i, calls, errors>>
  BY <1>6 DEF AInv, Bounds
<1> QED
  BY <1>1, <1>2, <1>3, <1>4, <1>5, <1>6
     DEF Step, CheckBroken, CheckWhole, Take, WakeDone, Succeed, queues, history

LEMMA AInvariance == Spec => []AInv
<1>1. AInv /\ [Next]_vars => AInv'
  <2> SUFFICES ASSUME AInv, [Next]_vars PROVE AInv'
    OBVIOUS
  <2>1. CASE UNCHANGED vars
    BY <2>1 DEF vars, queues, history, AInv, OneAction, Bounds, BInv, Types,
                LastNumbers, OneNumberEach, WholeBarrier, InsideArrived, Left,
                Numbered
  <2>2. ASSUME NEW t \in Threads, Step(t) PROVE AInv'
    <3>1. BInv'
      BY <2>2, TakeBInv, OtherBInv DEF AInv
    <3> QED
      BY <2>2, <3>1, StepOneAction, StepBounds DEF AInv
  <2> QED
    BY <2>1, <2>2 DEF Next, Terminating
<1> QED
  BY InitAInv, <1>1, PTL DEF Spec

\* Types and bounds of every variable: neither queue ever holds more than the
\* threads_limit items barrier_create made it for (barrier.c:17-37), and the
\* action runs once at most.
THEOREM BarrierTypeCorrect == Spec => []TypeOK
<1>1. AInv => TypeOK
  <2> SUFFICES ASSUME AInv PROVE TypeOK
    OBVIOUS
  <2>1. Left <= threads_limit
    <3>1. IsFiniteSet(Numbered)
      BY ConstantsAssumption, FS_Subset DEF Numbered
    <3>2. Cardinality(Numbered) \in Nat /\ Left \in Nat
      BY <3>1, FS_CardinalityType, LenProperties DEF AInv, BInv, Types, Left
    <3> QED
      BY <3>2, ConstantsAssumption DEF AInv, BInv, OneNumberEach
  <2> QED
    BY <2>1 DEF AInv, BInv, Types, OneAction, Bounds, TypeOK, Labels, Left
<1> QED
  BY <1>1, AInvariance, PTL

\* A thread that waits is let go, with Success or with an error, only after
\* the action has returned Success (barrier.c:78-104).
THEOREM ActionFirst == Spec => ReleasedAfterAction
<1> DEFINE A == \A t \in Threads :
                  pc[t] = "block" /\ pc'[t] = "idle" => action_runs = 1
<1>1. AInv /\ [Next]_vars => [A]_vars
  <2> SUFFICES ASSUME AInv, Next, NEW t \in Threads,
                      pc[t] = "block", pc'[t] = "idle"
               PROVE  action_runs = 1
    OBVIOUS
  <2>1. pc \in [Threads -> Labels]
    BY DEF AInv, BInv, Types
  <2>2. Block(t) \/ BlockFails(t)
    BY <2>1 DEF Next, Terminating, vars, Step, Call, CheckBroken, CheckWhole,
                Take, TakeFails, Block, BlockFails, Act, ActFails, WakeOne,
                WakeDone, Succeed, Fail, At
  <2>3. thread_blocking_queue # <<>>
    BY <2>2 DEF Block, BlockFails
  <2> QED
    BY <2>3 DEF AInv, OneAction
<1> QED
  BY <1>1, AInvariance, PTL DEF Spec, ReleasedAfterAction
-------------------------------------------------------------------------------
\* One thread at most puts the messages.
OneWaker == \A s, t \in Threads : pc[s] = "wake" /\ pc[t] = "wake" => s = t

\* Who waits has a number, and nobody has stopped waiting before the action has
\* run; so the thread that acts has threads_limit - 1 others to wake.
WaitersCounted ==
  /\ Waiting \subseteq Numbered
  /\ action_runs = 0 => errors["block"] = 0
  /\ \A t \in Threads : pc[t] = "act" => Cardinality(Waiting) = threads_limit - 1

MInv == OneWaker /\ WaitersCounted /\ WakesMatchWaiters

LEMMA InitMInv == Init => MInv
<1> SUFFICES ASSUME Init PROVE MInv
  OBVIOUS
<1> USE DEF Init, FailPlaces
<1>1. Waiting = {}
  BY DEF Waiting
<1> QED BY <1>1 DEF MInv, OneWaker, WaitersCounted, WakesMatchWaiters

\* Waiting is finite, and as large as it was when nobody starts or ends a wait.
LEMMA WaitingFinite == BInv => IsFiniteSet(Waiting) /\ Cardinality(Waiting) \in Nat
<1> SUFFICES ASSUME BInv PROVE IsFiniteSet(Waiting) /\ Cardinality(Waiting) \in Nat
  OBVIOUS
<1>1. Waiting \in SUBSET Threads
  BY DEF Waiting
<1> QED BY <1>1, ConstantsAssumption, FS_Subset, FS_CardinalityType

LEMMA TakeMInv ==
  ASSUME AInv, AInv', MInv, NEW t \in Threads, Take(t)
  PROVE  MInv'
<1> USE ConstantsAssumption
<1>1. BInv' /\ Left' = Left - 1 /\ Left \in 1 .. threads_limit
  BY TakeBInv DEF AInv
<1>2. /\ action_runs = 0 /\ thread_blocking_queue = <<>> /\ passed = {}
      /\ \A s \in Threads : pc[s] \notin {"act", "wake"}
      /\ \A s \in Numbered : pc[s] = "block"
  BY <1>1 DEF AInv, OneAction, BInv, WholeBarrier
<1>3. UNCHANGED <<thread_blocking_queue, action_runs, errors>>
  BY DEF Take, history
<1>4. pc[t] = "take" /\ pc'[t] \in {"block", "act"}
      /\ \A s \in Threads \ {t} : pc'[s] = pc[s]
  BY DEF Take, At, AInv, BInv, Types
<1>5. OneWaker'
  BY <1>2, <1>4 DEF OneWaker
<1>6. Numbered' = Numbered \cup {t}
  BY <1>1 DEF Take, Numbered, AInv, BInv, Types, LastNumbers
<1>7. Waiting' \subseteq Numbered'
  BY <1>4, <1>6 DEF Waiting, MInv, WaitersCounted
<1>8. ASSUME NEW s \in Threads, pc'[s] = "act"
      PROVE  Cardinality(Waiting') = threads_limit - 1
  <2>1. s = t
    BY <1>2, <1>4, <1>8
  <2>2. Waiting' = Numbered
    BY <1>2, <1>4, <1>8, <2>1 DEF Waiting, Numbered, MInv, WaitersCounted
  <2>3. Left' = 0
    BY <1>8 DEF AInv, OneAction
  <2>4. Cardinality(Numbered) + Left = threads_limit
    BY DEF AInv, BInv, OneNumberEach
  <2>5. Cardinality(Numbered) \in Nat
    <3>1. Numbered \in SUBSET Threads
      BY DEF Numbered
    <3> QED BY <3>1, FS_Subset, FS_CardinalityType
  <2> QED BY <1>1, <2>2, <2>3, <2>4, <2>5
<1> QED
  BY <1>2, <1>3, <1>5, <1>7, <1>8 DEF MInv, WaitersCounted, WakesMatchWaiters

LEMMA OtherMInv ==
  ASSUME AInv, AInv', MInv, NEW t \in Threads, Step(t), ~Take(t)
  PROVE  MInv'
<1> USE ConstantsAssumption
<1> DEFINE n == Cardinality(Waiting)
           m == Len(thread_blocking_queue)
<1>1. Numbered' = Numbered
  BY OtherBInv DEF AInv, Numbered
<1>2. IsFiniteSet(Waiting) /\ n \in Nat
  BY WaitingFinite DEF AInv
<1>3. pc \in [Threads -> Labels]
  BY DEF AInv, BInv, Types
<1>4. /\ m \in Nat /\ i \in 0 .. threads_limit /\ action_runs \in {0, 1}
      /\ errors \in [FailPlaces -> Nat] /\ errors["block"] \in Nat
  BY LenProperties DEF AInv, BInv, Types, Bounds, OneAction, FailPlaces
<1>5. CASE Call(t) \/ CheckBroken(t) \/ CheckWhole(t) \/ TakeFails(t)
  <2>1. /\ UNCHANGED <<thread_blocking_queue, i, action_runs>>
        /\ \E to \in {"idle", "size", "take"} : pc' = [pc EXCEPT ![t] = to]
        /\ pc[t] \in {"idle", "size", "take"}
    BY <1>5 DEF Call, CheckBroken, CheckWhole, TakeFails, Succeed, Fail, At, queues
  <2>2. errors'["block"] = errors["block"]
    BY <1>4, <1>5 DEF Call, CheckBroken, CheckWhole, TakeFails, Succeed, Fail, history, FailPlaces
  <2>3. \A s \in Threads : \A l \in {"block", "act", "wake"} : pc'[s] = l <=> pc[s] = l
    BY <1>3, <2>1
  <2>4. Waiting' = Waiting /\ Waking' = Waking
    BY <2>3 DEF Waiting, Waking
  <2> QED
    BY <1>1, <2>1, <2>2, <2>3, <2>4 DEF MInv, OneWaker, WaitersCounted, WakesMatchWaiters
<1>6. CASE Block(t) \/ BlockFails(t)
  <2>1. /\ thread_blocking_queue # <<>> /\ UNCHANGED <<i, action_runs>>
        /\ pc[t] = "block" /\ pc' = [pc EXCEPT ![t] = "idle"]
        /\ \/ /\ thread_blocking_queue' = Tail(thread_blocking_queue)
              /\ errors' = errors
           \/ /\ thread_blocking_queue' = thread_blocking_queue
              /\ errors' = [errors EXCEPT !["block"] = @ + 1]
    BY <1>6 DEF Block, BlockFails, Succeed, Fail, At, queues
  <2>2. action_runs = 1 /\ \A s \in Threads : pc[s] # "act"
    BY <1>4, <2>1 DEF AInv, OneAction
  <2>3. \A s \in Threads : pc'[s] = IF s = t THEN "idle" ELSE pc[s]
    BY <1>3, <2>1
  <2>4. t \in Waiting /\ Waiting' = Waiting \ {t} /\ Waking' = Waking
    BY <2>1, <2>3 DEF Waiting, Waking
  <2>5. Cardinality(Waiting \ {t}) = n - 1
    BY <1>2, <2>4, FS_RemoveElement
  <2>6. \/ Len(thread_blocking_queue') = m - 1 /\ errors'["block"] = errors["block"]
        \/ Len(thread_blocking_queue') = m /\ errors'["block"] = errors["block"] + 1
    <3>1. Len(Tail(thread_blocking_queue)) = m - 1
      BY <2>1, HeadTailProperties DEF AInv, BInv, Types
    <3> QED BY <1>4, <2>1, <3>1 DEF FailPlaces
  <2>7. WakesMatchWaiters'
    <3>1. n + errors["block"] = m + IF Waking THEN threads_limit - i ELSE 0
      BY <2>2 DEF MInv, WakesMatchWaiters
    <3>2. Cardinality(Waiting') + errors'["block"]
            = Len(thread_blocking_queue') + IF Waking THEN threads_limit - i ELSE 0
      <4>1. Cardinality(Waiting') = n - 1
        BY <2>4, <2>5
      <4>2. (IF Waking THEN threads_limit - i ELSE 0) \in Int
        <5>1. threads_limit - i \in Int /\ 0 \in Int
          BY <1>4
        <5> QED BY <5>1
      <4> HIDE DEF n, m
      <4> QED BY <1>2, <1>4, <2>6, <3>1, <4>1, <4>2, SMTT(30)
    <3> QED BY <2>1, <2>2, <2>4, <3>2 DEF WakesMatchWaiters
  <2> QED
    BY <1>1, <2>1, <2>2, <2>3, <2>4, <2>7 DEF MInv, OneWaker, WaitersCounted
<1>7. CASE Act(t)
  <2>1. /\ UNCHANGED <<thread_blocking_queue, errors>>
        /\ action_runs' = action_runs + 1 /\ i' = 1
        /\ pc[t] = "act" /\ pc' = [pc EXCEPT ![t] = "wake"]
    BY <1>7 DEF Act, At, queues, history
  <2>2. /\ action_runs = 0 /\ thread_blocking_queue = <<>> /\ errors["block"] = 0
        /\ n = threads_limit - 1 /\ threads_limit > 0
        /\ \A s \in Threads : pc[s] # "wake" /\ (pc[s] = "act" => s = t)
    BY <2>1 DEF AInv, OneAction, MInv, WaitersCounted
  <2>3. /\ \A s \in Threads : pc'[s] = IF s = t THEN "wake" ELSE pc[s]
    BY <1>3, <2>1
  <2>4. Waiting' = Waiting /\ Waking'
    BY <2>1, <2>3 DEF Waiting, Waking
  <2>5. OneWaker' /\ \A s \in Threads : pc'[s] # "act"
    BY <2>2, <2>3 DEF OneWaker
  <2>6. WakesMatchWaiters'
    <3>1. Len(<<>>) = 0
      OBVIOUS
    <3> QED BY <1>2, <1>4, <2>1, <2>2, <2>4, <3>1 DEF WakesMatchWaiters
  <2> QED
    BY <1>1, <2>1, <2>2, <2>4, <2>5, <2>6 DEF MInv, WaitersCounted
<1>8. CASE ActFails(t)
  <2>1. /\ UNCHANGED <<thread_blocking_queue, i, action_runs>>
        /\ pc[t] = "act" /\ pc' = [pc EXCEPT ![t] = "idle"]
        /\ errors' = [errors EXCEPT !["act"] = @ + 1]
    BY <1>8 DEF ActFails, Fail, At, queues
  <2>2. action_runs = 0 /\ errors'["block"] = errors["block"]
    BY <1>4, <2>1 DEF AInv, OneAction, FailPlaces
  <2>3. \A s \in Threads : pc'[s] = IF s = t THEN "idle" ELSE pc[s]
    BY <1>3, <2>1
  <2>4. Waiting' = Waiting
    BY <2>1, <2>3 DEF Waiting
  <2> QED
    BY <1>1, <2>1, <2>2, <2>3, <2>4 DEF MInv, OneWaker, WaitersCounted, WakesMatchWaiters
<1>9. CASE WakeOne(t)
  <2>1. /\ UNCHANGED <<pc, action_runs, errors>> /\ pc[t] = "wake"
        /\ i < threads_limit /\ i' = i + 1
        /\ thread_blocking_queue' = Append(thread_blocking_queue, 0)
    BY <1>9 DEF WakeOne, history
  <2>2. Len(thread_blocking_queue') = m + 1
    BY <2>1, AppendProperties DEF AInv, BInv, Types
  <2>3. Waiting' = Waiting /\ Waking /\ Waking' /\ action_runs # 0
    BY <1>4, <2>1 DEF Waiting, Waking, AInv, OneAction
  <2> QED
    BY <1>1, <1>2, <1>4, <2>1, <2>2, <2>3 DEF MInv, OneWaker, WaitersCounted, WakesMatchWaiters
<1>10. CASE WakeDone(t)
  <2>1. /\ UNCHANGED <<thread_blocking_queue, i, action_runs, errors>>
        /\ i >= threads_limit /\ pc[t] = "wake" /\ pc' = [pc EXCEPT ![t] = "idle"]
    BY <1>10 DEF WakeDone, Succeed, At, queues
  <2>2. \A s \in Threads : pc'[s] = IF s = t THEN "idle" ELSE pc[s]
    BY <1>3, <2>1
  <2>3. Waiting' = Waiting /\ Waking /\ ~Waking' /\ action_runs # 0 /\ i = threads_limit
    BY <1>4, <2>1, <2>2 DEF Waiting, Waking, AInv, OneAction, MInv, OneWaker
  <2>4. WakesMatchWaiters'
    BY <1>2, <1>4, <2>1, <2>3 DEF MInv, WakesMatchWaiters
  <2> QED
    BY <1>1, <2>1, <2>2, <2>3, <2>4 DEF MInv, OneWaker, WaitersCounted
<1> QED
  BY <1>5, <1>6, <1>7, <1>8, <1>9, <1>10 DEF Step

\* The second queue never holds a message too many or too few, whichever waits
\* and calls fail and however many threads come: one is in the queue, or still
\* to be put, for each thread that waits and each whose wait has failed
\* (barrier.c:78-104).
THEOREM BarrierWakes == Spec => []WakesMatchWaiters
<1>1. AInv /\ AInv' /\ MInv /\ [Next]_vars => MInv'
  <2> SUFFICES ASSUME AInv, AInv', MInv, [Next]_vars PROVE MInv'
    OBVIOUS
  <2>1. CASE UNCHANGED vars
    BY <2>1 DEF vars, queues, history, MInv, OneWaker, WaitersCounted, WakesMatchWaiters,
                Waiting, Waking, Numbered
  <2>2. ASSUME NEW t \in Threads, Step(t) PROVE MInv'
    BY <2>2, TakeMInv, OtherMInv
  <2> QED BY <2>1, <2>2 DEF Next, Terminating
<1>2. MInv => WakesMatchWaiters
  BY DEF MInv
<1> QED
  BY <1>1, <1>2, InitMInv, AInvariance, PTL DEF Spec
===============================================================================
