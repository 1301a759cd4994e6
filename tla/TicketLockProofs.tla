--------------------------- MODULE TicketLockProofs ---------------------------
(***************************************************************************)
(* Theorems about TicketLock for any number of threads, any larger number  *)
(* of tickets, and timeouts: one thread at a time is inside, in the order  *)
(* of the tickets.                                                         *)
(***************************************************************************)
EXTENDS TicketLock, FiniteSetTheorems, SequenceTheorems, TLAPS

\* An index that runs at most once past the last ticket.
LEMMA Wrap ==
  \A n \in Nat \ {0} : \A a \in 0 .. 2 * n - 1 :
     a % n = IF a < n THEN a ELSE a - n
<1> SUFFICES ASSUME NEW n \in Nat \ {0}, NEW a \in 0 .. 2 * n - 1
             PROVE  a % n = IF a < n THEN a ELSE a - n
  OBVIOUS
<1>1. CASE a < n
  BY <1>1
<1>2. CASE a >= n
  BY <1>2
<1> QED
  BY <1>1, <1>2

\* A function on 1 .. n is a sequence of length n.
LEMMA FunctionIsSeq ==
  ASSUME NEW S, NEW n \in Nat, NEW f \in [1 .. n -> S]
  PROVE  f \in Seq(S) /\ Len(f) = n
<1>1. f \in Seq(S)
  BY SeqDef
<1>2. DOMAIN f = 1 .. Len(f) /\ Len(f) \in Nat
  BY <1>1, LenProperties
<1>3. \A m \in Nat : 1 .. n = 1 .. m => n = m
  OBVIOUS
<1> QED
  BY <1>1, <1>2, <1>3
-------------------------------------------------------------------------------
\* The threads whose ticket has been handed out and not served to the end.
InLine(t) == pc[t] \in {"wait", "read", "write", "release"} \/ t \in GaveUp
Line == {t \in Threads : InLine(t)}

\* How many increments lead from the ticket b to the ticket a.
Ahead(a, b) == IF a >= b THEN a - b ELSE a - b + Tickets

\* A thread still looping has iterations to go.
Unfinished ==
  \A t \in Threads : pc[t] # "ended" /\ Iterations # 0 => done[t] < Iterations

\* The threads in line have the tickets from nowServing up to nextTicket, each
\* one of them; that they do not lap each other is where Tickets must be larger
\* than the number of threads.
TicketsInLine ==
  /\ Ahead(nextTicket, nowServing) = Cardinality(Line)
  /\ \A t \in Line : Ahead(myTicket[t], nowServing) < Cardinality(Line)
  /\ \A x \in 0 .. Cardinality(Line) - 1 :
        \E t \in Line : Ahead(myTicket[t], nowServing) = x
  /\ \A s, t \in Line : myTicket[s] = myTicket[t] => s = t

\* Whoever is inside has the ticket that is served.
InsideServed == \A t \in Inside : myTicket[t] = nowServing

IInv == TypeOK /\ Unfinished /\ TicketsInLine /\ InsideServed /\ NoLostUpdate
-------------------------------------------------------------------------------
LEMMA IncrementIs ==
  \A a \in 0 .. Tickets - 1 :
     Increment(a) = IF a + 1 < Tickets THEN a + 1 ELSE 0
<1> SUFFICES ASSUME NEW a \in 0 .. Tickets - 1
             PROVE  Increment(a) = IF a + 1 < Tickets THEN a + 1 ELSE 0
  OBVIOUS
<1>1. Tickets \in Nat
  BY ConstantsAssumption
<1>2. Tickets \in Nat \ {0}
  BY <1>1
<1>3. PICK b \in 0 .. 2 * Tickets - 1 : b = a + 1
  BY <1>1
<1>4. b % Tickets = IF b < Tickets THEN b ELSE b - Tickets
  BY <1>2, Wrap
<1> QED
  BY <1>1, <1>3, <1>4 DEF Increment

LEMMA LineFinite ==
  /\ IsFiniteSet(Line) /\ Cardinality(Line) \in Nat
  /\ Cardinality(Line) <= Cardinality(Threads)
  /\ Cardinality(Threads) \in Nat /\ Cardinality(Threads) < Tickets
<1>1. Line \subseteq Threads
  BY DEF Line
<1> QED
  BY <1>1, ConstantsAssumption, FS_Subset, FS_CardinalityType

LEMMA InitIInv == Init => IInv
<1> SUFFICES ASSUME Init PROVE IInv
  OBVIOUS
<1>0. Tickets \in Nat \ {0} /\ Iterations \in Nat
  BY ConstantsAssumption, FS_CardinalityType
<1>1. Line = {}
  BY DEF Init, Line, InLine, GaveUp
<1>2. Cardinality(Line) = 0
  BY <1>1, FS_EmptySet
<1>3. TicketsInLine
  BY <1>1, <1>2 DEF Init, TicketsInLine, Ahead
<1>4. TypeOK /\ Unfinished
  BY <1>0 DEF Init, TypeOK, Unfinished
<1>5. InsideServed /\ NoLostUpdate
  BY DEF Init, InsideServed, Inside, NoLostUpdate
<1> QED
  BY <1>3, <1>4, <1>5 DEF IInv
-------------------------------------------------------------------------------
\* One thread at most is inside.
LEMMA OneInside == IInv => \A s, t \in Inside : s = t
<1> SUFFICES ASSUME IInv, NEW s \in Inside, NEW t \in Inside PROVE s = t
  OBVIOUS
<1>1. s \in Line /\ t \in Line
  BY DEF Inside, Line, InLine
<1>2. myTicket[s] = myTicket[t]
  BY DEF IInv, InsideServed
<1> QED
  BY <1>1, <1>2 DEF IInv, TicketsInLine

LEMMA TypeOKStep == IInv /\ Next => TypeOK' /\ Unfinished'
<1> SUFFICES ASSUME IInv, NEW t \in Threads, Step(t) PROVE TypeOK' /\ Unfinished'
  BY DEF Next
<1>0. TypeOK /\ Unfinished /\ Tickets \in Nat /\ Iterations \in Nat
  BY ConstantsAssumption DEF IInv
<1>1. \A a \in 0 .. Tickets - 1 : Increment(a) \in 0 .. Tickets - 1
  BY <1>0, IncrementIs
<1>2. CASE TakeTicket(t)
  BY <1>0, <1>1, <1>2 DEF TakeTicket, At, TypeOK, Unfinished
<1>3. CASE Enter(t) \/ TimesOut(t)
  BY <1>0, <1>3 DEF Enter, TimesOut, At, TypeOK, Unfinished
<1>4. CASE ReadCount(t) \/ WriteCount(t)
  BY <1>0, <1>1, <1>4 DEF ReadCount, WriteCount, At, TypeOK, Unfinished
<1>5. CASE Release(t)
  <2>1. nowServing' \in 0 .. Tickets - 1
    BY <1>0, <1>1, <1>5 DEF Release, TypeOK
  <2>2. done[t] \in 0 .. Iterations /\ (Iterations # 0 => done[t] < Iterations)
    BY <1>0, <1>5 DEF Release, At, TypeOK, Unfinished
  <2>3. done'[t] = IF Iterations = 0 THEN 0 ELSE done[t] + 1
    BY <1>0, <1>5 DEF Release, TypeOK
  <2>4. done'[t] \in 0 .. Iterations
    BY <1>0, <2>2, <2>3
  <2>5. TypeOK'
    BY <1>0, <1>5, <2>1, <2>3, <2>4 DEF Release, At, TypeOK
  <2>6. pc'[t] # "ended" /\ Iterations # 0 => done'[t] < Iterations
    BY <1>0, <1>5, <2>2, <2>3 DEF Release, At, TypeOK, LastIteration
  <2>7. \A s \in Threads \ {t} : pc'[s] = pc[s] /\ done'[s] = done[s]
    BY <1>0, <1>5 DEF Release, At, TypeOK
  <2> QED
    BY <1>0, <2>5, <2>6, <2>7 DEF Unfinished
<1> QED
  BY <1>2, <1>3, <1>4, <1>5 DEF Step, Goes
-------------------------------------------------------------------------------
\* Only taking a ticket and release change who is in line; a thread that gives
\* up stays.
LEMMA LineKept ==
  ASSUME IInv, NEW t \in Threads,
         Enter(t) \/ TimesOut(t) \/ ReadCount(t) \/ WriteCount(t)
  PROVE  Line' = Line /\ UNCHANGED <<nextTicket, nowServing, myTicket>>
<1>0. TypeOK /\ Unfinished /\ t \in Line /\ done' = done
  BY DEF IInv, Enter, TimesOut, ReadCount, WriteCount, At, Line, InLine
<1>1. \A s \in Threads \ {t} : pc'[s] = pc[s]
  BY <1>0 DEF Enter, TimesOut, ReadCount, WriteCount, At, TypeOK
<1>2. \A s \in Threads \ {t} : InLine(s)' = InLine(s)
  BY <1>0, <1>1 DEF InLine, GaveUp
<1>3. InLine(t)'
  <2>1. CASE Enter(t) \/ ReadCount(t) \/ WriteCount(t)
    BY <1>0, <2>1 DEF Enter, ReadCount, WriteCount, At, TypeOK, InLine
  <2>2. CASE TimesOut(t)
    BY <1>0, <2>2 DEF TimesOut, At, TypeOK, InLine, GaveUp, Unfinished
  <2> QED
    BY <2>1, <2>2
<1>4. InLine(t)
  BY <1>0 DEF Line
<1> QED
  BY <1>2, <1>3, <1>4 DEF Line, Enter, TimesOut, ReadCount, WriteCount

LEMMA LineGrows ==
  ASSUME IInv, NEW t \in Threads, TakeTicket(t)
  PROVE  Line' = Line \cup {t} /\ t \notin Line
<1>0. TypeOK /\ done' = done
  BY DEF IInv, TakeTicket
<1>1. \A s \in Threads \ {t} : pc'[s] = pc[s]
  BY <1>0 DEF TakeTicket, At, TypeOK
<1>2. \A s \in Threads \ {t} : InLine(s)' = InLine(s)
  BY <1>0, <1>1 DEF InLine, GaveUp
<1>3. InLine(t)' /\ ~InLine(t)
  BY <1>0 DEF TakeTicket, At, TypeOK, InLine, GaveUp
<1> QED
  BY <1>2, <1>3 DEF Line

LEMMA LineShrinks ==
  ASSUME IInv, NEW t \in Threads, Release(t)
  PROVE  Line' = Line \ {t} /\ t \in Line
<1>0. TypeOK /\ Unfinished /\ Iterations \in Nat
  BY ConstantsAssumption DEF IInv
<1>1. \A s \in Threads \ {t} : pc'[s] = pc[s] /\ done'[s] = done[s]
  BY <1>0 DEF Release, At, TypeOK
<1>2. \A s \in Threads \ {t} : InLine(s)' = InLine(s)
  BY <1>1 DEF InLine, GaveUp
<1>3. InLine(t)
  BY DEF Release, At, InLine
<1>4. ~InLine(t)'
  <2>1. pc'[t] \in {"acquire", "ended"}
    BY <1>0 DEF Release, At, TypeOK
  <2>2. pc'[t] = "ended" => Iterations # 0 /\ done'[t] = Iterations
    BY <1>0 DEF Release, At, TypeOK, LastIteration
  <2> QED
    BY <1>0, <2>1, <2>2 DEF InLine, GaveUp
<1> QED
  BY <1>2, <1>3, <1>4 DEF Line

LEMMA TicketsInLineStep == IInv /\ Next => TicketsInLine'
<1> SUFFICES ASSUME IInv, NEW t \in Threads, Step(t) PROVE TicketsInLine'
  BY DEF Next
<1>0. /\ TypeOK /\ TicketsInLine /\ Tickets \in Nat
      /\ nextTicket \in 0 .. Tickets - 1 /\ nowServing \in 0 .. Tickets - 1
      /\ \A s \in Threads : myTicket[s] \in 0 .. Tickets - 1
  BY ConstantsAssumption DEF IInv, TypeOK
<1>1. CASE Enter(t) \/ TimesOut(t) \/ ReadCount(t) \/ WriteCount(t)
  BY <1>0, <1>1, LineKept DEF TicketsInLine, Ahead
<1>2. CASE TakeTicket(t)
  <2>1. Line' = Line \cup {t} /\ t \notin Line
    BY <1>2, LineGrows
  <2>2. Cardinality(Line') = Cardinality(Line) + 1
    BY <2>1, LineFinite, FS_AddElement
  <2>3. Cardinality(Line) \in Nat /\ Cardinality(Line) + 1 < Tickets
    <3>1. IsFiniteSet(Line') /\ Line' \subseteq Threads
      BY <2>1, LineFinite, FS_AddElement DEF Line
    <3>2. Cardinality(Line') <= Cardinality(Threads)
      BY <3>1, ConstantsAssumption, FS_Subset
    <3>3. /\ Cardinality(Line) \in Nat /\ Cardinality(Threads) \in Nat
          /\ Cardinality(Threads) < Tickets
      BY LineFinite
    <3>4. Cardinality(Line) + 1 <= Cardinality(Threads)
      BY <2>2, <3>2
    <3> QED
      BY <1>0, <3>3, <3>4
  <2>4. /\ nextTicket' = IF nextTicket + 1 < Tickets THEN nextTicket + 1 ELSE 0
        /\ nowServing' = nowServing /\ myTicket'[t] = nextTicket
        /\ \A s \in Line : myTicket'[s] = myTicket[s]
    BY <1>0, <1>2, <2>1, IncrementIs DEF TakeTicket, TypeOK, Line
  <2>5. Ahead(nextTicket, nowServing) = Cardinality(Line)
    BY <1>0 DEF TicketsInLine
  <2>6. Ahead(nextTicket, nowServing)' = Cardinality(Line')
    BY <1>0, <2>2, <2>3, <2>4, <2>5 DEF Ahead
  <2>7. \A s \in Line' : Ahead(myTicket[s], nowServing)' < Cardinality(Line')
    <3>1. ASSUME NEW s \in Line PROVE Ahead(myTicket[s], nowServing)' < Cardinality(Line')
      <4>1. Ahead(myTicket[s], nowServing) < Cardinality(Line)
        BY <1>0 DEF TicketsInLine
      <4>2. Ahead(myTicket[s], nowServing)' = Ahead(myTicket[s], nowServing)
        BY <2>4 DEF Ahead
      <4>3. Ahead(myTicket[s], nowServing) \in Int
        BY <1>0 DEF Ahead, Line
      <4> QED
        BY <2>2, <2>3, <4>1, <4>2, <4>3
    <3>2. Ahead(myTicket[t], nowServing)' < Cardinality(Line')
      BY <2>2, <2>3, <2>4, <2>5 DEF Ahead
    <3> QED
      BY <2>1, <3>1, <3>2
  <2>8. \A s \in Line : myTicket[s] # nextTicket
    BY <1>0, <2>3, <2>5 DEF TicketsInLine
  <2>9. \A r, s \in Line' : myTicket'[r] = myTicket'[s] => r = s
    BY <1>0, <2>1, <2>4, <2>8 DEF TicketsInLine
  <2>10. \A x \in 0 .. Cardinality(Line') - 1 :
            \E s \in Line' : Ahead(myTicket[s], nowServing)' = x
    <3>1. ASSUME NEW x \in 0 .. Cardinality(Line) - 1
          PROVE  \E s \in Line' : Ahead(myTicket[s], nowServing)' = x
      <4>1. PICK s \in Line : Ahead(myTicket[s], nowServing) = x
        BY <1>0 DEF TicketsInLine
      <4> QED
        BY <2>1, <2>4, <4>1 DEF Ahead
    <3>2. Ahead(myTicket[t], nowServing)' = Cardinality(Line)
      BY <2>4, <2>5 DEF Ahead
    <3> QED
      BY <2>1, <2>2, <2>3, <3>1, <3>2
  <2> QED
    BY <2>6, <2>7, <2>9, <2>10 DEF TicketsInLine
<1>3. CASE Release(t)
  <2>1. Line' = Line \ {t} /\ t \in Line
    BY <1>3, LineShrinks
  <2>2. Cardinality(Line') = Cardinality(Line) - 1
    BY <2>1, LineFinite, FS_RemoveElement
  <2>3. Cardinality(Line) \in Nat /\ Cardinality(Line) < Tickets
    BY <1>0, LineFinite
  <2>4. /\ nowServing' = IF nowServing + 1 < Tickets THEN nowServing + 1 ELSE 0
        /\ nextTicket' = nextTicket /\ myTicket' = myTicket
    BY <1>0, <1>3, IncrementIs DEF Release
  <2>5. t \in Inside /\ myTicket[t] = nowServing
    BY <1>3 DEF Release, At, Inside, IInv, InsideServed
  <2>6. Ahead(nextTicket, nowServing) = Cardinality(Line)
    BY <1>0 DEF TicketsInLine
  <2>7. Cardinality(Line) > 0
    <3>1. Ahead(myTicket[t], nowServing) < Cardinality(Line)
      BY <1>0, <2>1 DEF TicketsInLine
    <3> QED
      BY <1>0, <2>3, <2>5, <3>1 DEF Ahead
  <2>8. Ahead(nextTicket, nowServing)' = Cardinality(Line')
    BY <1>0, <2>2, <2>3, <2>4, <2>6, <2>7 DEF Ahead
  <2>9. \A s \in Line' : Ahead(myTicket[s], nowServing)' < Cardinality(Line')
    <3>1. SUFFICES ASSUME NEW s \in Line, s # t
                   PROVE  Ahead(myTicket[s], nowServing)' < Cardinality(Line')
      BY <2>1
    <3>2. myTicket[s] # nowServing /\ myTicket[s] \in 0 .. Tickets - 1
      BY <1>0, <2>1, <2>5, <3>1 DEF TicketsInLine, Line
    <3>3. Ahead(myTicket[s], nowServing) < Cardinality(Line)
      BY <1>0 DEF TicketsInLine
    <3>4. Ahead(myTicket[s], nowServing)' = Ahead(myTicket[s], nowServing) - 1
      BY <1>0, <2>4, <3>2 DEF Ahead
    <3>5. Ahead(myTicket[s], nowServing) \in Int
      BY <1>0, <3>2 DEF Ahead
    <3> QED
      BY <2>2, <2>3, <3>3, <3>4, <3>5
  <2>10. \A r, s \in Line' : myTicket'[r] = myTicket'[s] => r = s
    BY <1>0, <2>1, <2>4 DEF TicketsInLine
  <2>11. ASSUME NEW x \in 0 .. Cardinality(Line') - 1
         PROVE  \E s \in Line' : Ahead(myTicket[s], nowServing)' = x
    <3>1. x + 1 \in 0 .. Cardinality(Line) - 1
      BY <2>2, <2>3
    <3>2. PICK s \in Line : Ahead(myTicket[s], nowServing) = x + 1
      BY <1>0, <3>1 DEF TicketsInLine
    <3>3. myTicket[s] \in 0 .. Tickets - 1 /\ x + 1 > 0
      BY <1>0, <3>1 DEF Line
    <3>4. myTicket[s] # nowServing
      BY <1>0, <3>2, <3>3 DEF Ahead
    <3>5. Ahead(myTicket[s], nowServing)' = x
      BY <1>0, <2>4, <3>2, <3>3, <3>4 DEF Ahead
    <3> QED
      BY <2>1, <2>5, <3>4, <3>5
  <2> QED
    BY <2>8, <2>9, <2>10, <2>11 DEF TicketsInLine
<1> QED
  BY <1>1, <1>2, <1>3 DEF Step, Goes

\* While a thread is inside nobody else writes the count or moves nowServing.
LEMMA InsideStep == IInv /\ Next => InsideServed' /\ NoLostUpdate'
<1> SUFFICES ASSUME IInv, NEW t \in Threads, Step(t)
             PROVE  InsideServed' /\ NoLostUpdate'
  BY DEF Next
<1>0. TypeOK /\ InsideServed /\ NoLostUpdate
  BY DEF IInv
<1>1. CASE TakeTicket(t) \/ TimesOut(t)
  BY <1>0, <1>1 DEF TakeTicket, TimesOut, At, TypeOK, InsideServed, Inside, NoLostUpdate
<1>2. CASE Enter(t) \/ ReadCount(t)
  BY <1>0, <1>2 DEF Enter, ReadCount, At, TypeOK, InsideServed, Inside, NoLostUpdate
<1>3. CASE WriteCount(t) \/ Release(t)
  <2>1. t \in Inside
    BY <1>3 DEF WriteCount, Release, At, Inside
  <2>2. \A s \in Threads \ {t} : s \notin Inside
    BY <2>1, OneInside
  <2>3. \A s \in Threads \ {t} : s \notin Inside' /\ pc'[s] # "write"
    BY <1>0, <1>3, <2>2 DEF WriteCount, Release, At, TypeOK, Inside
  <2>4. pc'[t] # "write" /\ (WriteCount(t) \/ t \notin Inside')
    BY <1>0, <1>3 DEF WriteCount, Release, At, TypeOK, Inside
  <2>5. Inside' \subseteq Threads
    BY DEF Inside
  <2>6. t \in Inside' => myTicket'[t] = nowServing'
    BY <1>0, <2>1, <2>4 DEF WriteCount, InsideServed
  <2> QED
    BY <2>3, <2>4, <2>5, <2>6 DEF InsideServed, NoLostUpdate
<1> QED
  BY <1>1, <1>2, <1>3 DEF Step, Goes

LEMMA Invariance == Spec => []IInv
<1>1. IInv /\ [Next]_vars => IInv'
  <2>1. CASE Next
    BY <2>1, TypeOKStep, TicketsInLineStep, InsideStep DEF IInv
  <2>2. CASE UNCHANGED vars
    BY <2>2 DEF vars, IInv, TypeOK, Unfinished, TicketsInLine, Line, InLine, GaveUp,
                Ahead, InsideServed, Inside, NoLostUpdate
  <2> QED
    BY <2>1, <2>2
<1> QED
  BY <1>1, InitIInv, PTL DEF Spec

\* The types hold: tickets and counts stay ints.
THEOREM TicketTypeCorrect == Spec => []TypeOK
<1>1. IInv => TypeOK
  BY DEF IInv
<1> QED
  BY <1>1, Invariance, PTL

\* Under the ticket lock no addition to the shared count is lost, for any
\* number of threads smaller than the number of ints, also across the wrap of
\* the tickets and after timed acquires have run out (TicketLock.java:13-47).
THEOREM TicketNoLostUpdate == Spec => []NoLostUpdate
<1>1. IInv => NoLostUpdate
  BY DEF IInv
<1> QED
  BY <1>1, Invariance, PTL

\* While threads wait and none has given up, one of them is inside or has the
\* ticket that is served: they never all wait for each other
\* (TicketLock.java:34-47).
THEOREM TicketSomebodyGoes ==
  Spec => [](GaveUp = {} /\ (\E t \in Threads : pc[t] = "wait") =>
               \E t \in Threads : t \in Inside \/ (pc[t] = "wait" /\ nowServing = myTicket[t]))
<1>1. IInv /\ GaveUp = {} /\ (\E t \in Threads : pc[t] = "wait") =>
         \E t \in Threads : t \in Inside \/ (pc[t] = "wait" /\ nowServing = myTicket[t])
  <2> SUFFICES ASSUME IInv, GaveUp = {}, NEW s \in Threads, pc[s] = "wait"
               PROVE  \E t \in Threads : t \in Inside \/ (pc[t] = "wait" /\ nowServing = myTicket[t])
    OBVIOUS
  <2>1. s \in Line
    BY DEF Line, InLine
  <2>2. Cardinality(Line) \in Nat /\ Cardinality(Line) # 0
    BY <2>1, LineFinite, FS_EmptySet
  <2>3. 0 \in 0 .. Cardinality(Line) - 1
    BY <2>2
  <2>4. PICK t \in Line : Ahead(myTicket[t], nowServing) = 0
    BY <2>3 DEF IInv, TicketsInLine
  <2>5. t \in Threads /\ (t \in Inside \/ pc[t] = "wait")
    BY DEF Line, InLine, Inside
  <2>6. myTicket[t] \in 0 .. Tickets - 1 /\ nowServing \in 0 .. Tickets - 1 /\ Tickets \in Nat
    BY <2>5, ConstantsAssumption DEF IInv, TypeOK
  <2>7. myTicket[t] = nowServing
    BY <2>4, <2>6 DEF Ahead
  <2> QED
    BY <2>5, <2>7
<1> QED
  BY <1>1, Invariance, PTL
-------------------------------------------------------------------------------
\* The additions made so far, if the iterations are limited: t's k-th has been
\* written.
Written == {a \in Threads \X (1 .. Iterations) :
              a[2] <= done[a[1]] + IF pc[a[1]] = "release" THEN 1 ELSE 0}

\* The count is their number, but for the wraps of the int.
IsCount(n) == \E wraps \in Nat : n = wraps * Tickets + count
ExactCount == Iterations # 0 => IsCount(Cardinality(Written))

LEMMA WrittenFinite ==
  ASSUME Iterations # 0
  PROVE  /\ IsFiniteSet(Threads \X (1 .. Iterations))
         /\ Cardinality(Threads \X (1 .. Iterations)) = Cardinality(Threads) * Iterations
         /\ IsFiniteSet(Written) /\ Cardinality(Written) \in Nat
<1>1. IsFiniteSet(1 .. Iterations) /\ Cardinality(1 .. Iterations) = Iterations
  <2>1. 1 \in Int /\ Iterations \in Int /\ ~(1 > Iterations) /\ Iterations - 1 + 1 = Iterations
    BY ConstantsAssumption
  <2> QED
    BY <2>1, FS_Interval
<1>2. /\ IsFiniteSet(Threads \X (1 .. Iterations))
      /\ Cardinality(Threads \X (1 .. Iterations)) = Cardinality(Threads) * Iterations
  BY <1>1, ConstantsAssumption, FS_Product
<1>3. Written \in SUBSET (Threads \X (1 .. Iterations))
  BY DEF Written
<1> QED
  BY <1>2, <1>3, FS_Subset, FS_CardinalityType

LEMMA OneMore ==
  ASSUME NEW c \in 0 .. Tickets - 1, NEW wraps \in Nat, Tickets \in Nat
  PROVE  \E w \in Nat : wraps * Tickets + c + 1 = w * Tickets + Increment(c)
<1>1. CASE c + 1 < Tickets
  BY <1>1, IncrementIs
<1>2. CASE ~(c + 1 < Tickets)
  <2>1. c + 1 = Tickets /\ Increment(c) = 0
    BY <1>2, IncrementIs
  <2>2. wraps + 1 \in Nat /\ (wraps + 1) * Tickets = wraps * Tickets + Tickets
    OBVIOUS
  <2>3. wraps * Tickets \in Nat
    OBVIOUS
  <2>4. wraps * Tickets + c + 1 = (wraps + 1) * Tickets + Increment(c)
    BY <2>1, <2>2, <2>3
  <2> QED
    BY <2>2, <2>4
<1> QED
  BY <1>1, <1>2

\* A write adds 1 to the count, as nobody has written since the thread read it;
\* no other step changes either side.
LEMMA ExactCountStep ==
  ASSUME IInv, ExactCount, Iterations # 0, NEW t \in Threads, Step(t)
  PROVE  ExactCount'
<1>0. Iterations \in Nat \ {0} /\ Tickets \in Nat /\ count \in 0 .. Tickets - 1
  BY ConstantsAssumption DEF IInv, TypeOK
<1>1. CASE WriteCount(t)
  <2> DEFINE a == <<t, done[t] + 1>>
  <2>1. count' = Increment(count)
    BY <1>1 DEF IInv, NoLostUpdate, WriteCount, At
  <2>2. done[t] + 1 \in 1 .. Iterations /\ done[t] \in Nat
    BY <1>0, <1>1 DEF IInv, TypeOK, Unfinished, WriteCount, At
  <2>3. a \notin Written
    BY <1>1, <2>2 DEF Written, WriteCount, At
  <2>4. Written' = Written \cup {a}
    <3>1. ASSUME NEW s \in Threads, NEW k \in 1 .. Iterations
          PROVE  <<s, k>> \in Written' <=> <<s, k>> \in Written \/ <<s, k>> = a
      <4>1. done' = done /\ done[s] \in Nat
        BY <1>0, <1>1 DEF IInv, TypeOK, WriteCount
      <4>2. CASE s = t
        BY <1>1, <2>2, <4>1, <4>2 DEF Written, IInv, TypeOK, WriteCount, At
      <4>3. CASE s # t
        BY <1>1, <4>1, <4>3 DEF Written, IInv, TypeOK, WriteCount, At
      <4> QED
        BY <4>2, <4>3
    <3>2. Written' \subseteq Threads \X (1 .. Iterations) /\ a \in Threads \X (1 .. Iterations)
      BY <2>2 DEF Written
    <3> QED
      BY <3>1, <3>2 DEF Written
  <2>5. Cardinality(Written') = Cardinality(Written) + 1
    BY <2>3, <2>4, WrittenFinite, FS_AddElement
  <2>6. PICK wraps \in Nat : Cardinality(Written) = wraps * Tickets + count
    BY DEF ExactCount, IsCount
  <2>7. \E w \in Nat : wraps * Tickets + count + 1 = w * Tickets + count'
    BY <1>0, <2>1, OneMore
  <2>8. \E w \in Nat : Cardinality(Written') = w * Tickets + count'
    BY <2>5, <2>6, <2>7
  <2> QED
    BY <2>8 DEF ExactCount, IsCount
<1>2. CASE TakeTicket(t) \/ Enter(t) \/ TimesOut(t) \/ ReadCount(t) \/ Release(t)
  <2>1. ASSUME NEW s \in Threads
        PROVE  done'[s] + (IF pc'[s] = "release" THEN 1 ELSE 0)
                 = done[s] + (IF pc[s] = "release" THEN 1 ELSE 0)
    BY <1>0, <1>2 DEF IInv, TypeOK, TakeTicket, Enter, TimesOut, ReadCount, Release, At
  <2>2. Written' = Written
    BY <2>1 DEF Written
  <2>3. count' = count
    BY <1>2 DEF TakeTicket, Enter, TimesOut, ReadCount, Release
  <2> QED
    BY <2>2, <2>3 DEF ExactCount, IsCount
<1> QED
  BY <1>1, <1>2 DEF Step, Goes

\* The count is at every moment the number of additions made, as an int. If no
\* acquire is timed and all threads have ended, it is the number the test
\* expects (TicketLock.java:13-23, 78-88).
THEOREM TicketCounts ==
  Spec => [](Iterations # 0 =>
               /\ IsCount(Cardinality(Written))
               /\ Done /\ Timed = {} => IsCount(Cardinality(Threads) * Iterations))
<1> DEFINE All == \A t \in Threads :
                    pc[t] = "ended" /\ t \notin Timed /\ Iterations # 0 => done[t] = Iterations
<1>1. Init => ExactCount /\ All
  <2> SUFFICES ASSUME Init PROVE ExactCount /\ All
    OBVIOUS
  <2>1. Written = {}
    BY ConstantsAssumption DEF Init, Written
  <2>2. Cardinality(Written) = 0 /\ 0 = 0 * Tickets + 0
    BY <2>1, FS_EmptySet, ConstantsAssumption
  <2> QED
    BY <2>2 DEF Init, ExactCount, IsCount
<1>2. IInv /\ ExactCount /\ All /\ [Next]_vars => (ExactCount /\ All)'
  <2> SUFFICES ASSUME IInv, ExactCount, All, [Next]_vars PROVE (ExactCount /\ All)'
    OBVIOUS
  <2>1. CASE UNCHANGED vars
    BY <2>1 DEF vars, ExactCount, IsCount, Written
  <2>2. ASSUME NEW t \in Threads, Step(t) PROVE (ExactCount /\ All)'
    <3>1. All'
      BY <2>2, ConstantsAssumption
         DEF IInv, TypeOK, Unfinished, At, Step, Goes, TakeTicket, Enter, TimesOut,
             ReadCount, WriteCount, Release, LastIteration
    <3>2. ExactCount'
      <4>1. CASE Iterations # 0
        BY <2>2, <4>1, ExactCountStep
      <4>2. CASE Iterations = 0
        BY <4>2 DEF ExactCount
      <4> QED
        BY <4>1, <4>2
    <3> QED
      BY <3>1, <3>2
  <2> QED
    BY <2>1, <2>2 DEF Next
<1>3. ExactCount /\ All =>
        (Iterations # 0 =>
           /\ IsCount(Cardinality(Written))
           /\ Done /\ Timed = {} => IsCount(Cardinality(Threads) * Iterations))
  <2> SUFFICES ASSUME ExactCount, All, Iterations # 0, Done, Timed = {}
               PROVE  Cardinality(Written) = Cardinality(Threads) * Iterations
    BY DEF ExactCount
  <2>1. \A t \in Threads : done[t] = Iterations /\ pc[t] # "release"
    BY DEF Done
  <2>2. Written = Threads \X (1 .. Iterations)
    BY <2>1, ConstantsAssumption DEF Written
  <2> QED
    BY <2>2, WrittenFinite
<1> QED
  BY <1>1, <1>2, <1>3, Invariance, PTL DEF Spec
-------------------------------------------------------------------------------
\* The ticket x places after the one that is served.
LEMMA PlaceOf ==
  \A a, b, x \in 0 .. Tickets - 1 : (b + x) % Tickets = a <=> Ahead(a, b) = x
<1> SUFFICES ASSUME NEW a \in 0 .. Tickets - 1, NEW b \in 0 .. Tickets - 1,
                    NEW x \in 0 .. Tickets - 1
             PROVE  (b + x) % Tickets = a <=> Ahead(a, b) = x
  OBVIOUS
<1>1. Tickets \in Nat \ {0}
  BY ConstantsAssumption
<1>2. PICK c \in 0 .. 2 * Tickets - 1 : c = b + x
  BY <1>1
<1>3. c % Tickets = IF c < Tickets THEN c ELSE c - Tickets
  BY <1>1, Wrap
<1> QED
  BY <1>1, <1>2, <1>3 DEF Ahead

\* The int that subtraction gives.
LEMMA Difference ==
  \A a, b \in 0 .. Tickets - 1 : (a - b) % Tickets = Ahead(a, b)
<1> SUFFICES ASSUME NEW a \in 0 .. Tickets - 1, NEW b \in 0 .. Tickets - 1
             PROVE  (a - b) % Tickets = Ahead(a, b)
  OBVIOUS
<1>1. Tickets \in Nat \ {0}
  BY ConstantsAssumption
<1>2. PICK c \in -Tickets .. Tickets : c = a - b
  BY <1>1
<1>3. c > -Tickets /\ c < Tickets
  BY <1>1, <1>2
<1>4. c % Tickets = IF c >= 0 THEN c ELSE c + Tickets
  <2>1. CASE c >= 0
    BY <1>1, <1>3, <2>1
  <2>2. CASE c < 0
    BY <1>1, <1>3, <2>2
  <2> QED
    BY <2>1, <2>2
<1> QED
  BY <1>1, <1>2, <1>4 DEF Ahead

\* seq is the line in the order of the tickets.
Ordered(seq) ==
  /\ seq \in Seq(Threads) /\ Len(seq) = Cardinality(Line)
  /\ \A j \in 1 .. Len(seq) : /\ seq[j] \in Line
                              /\ Ahead(myTicket[seq[j]], nowServing) = j - 1

LEMMA QueueOrdered == IInv => Ordered(Queue)
<1> SUFFICES ASSUME IInv PROVE Ordered(Queue)
  OBVIOUS
<1>0. /\ TicketsInLine /\ Tickets \in Nat
      /\ nextTicket \in 0 .. Tickets - 1 /\ nowServing \in 0 .. Tickets - 1
      /\ \A t \in Threads : myTicket[t] \in 0 .. Tickets - 1
      /\ Cardinality(Line) \in Nat /\ Cardinality(Line) < Tickets
  BY ConstantsAssumption, LineFinite DEF IInv, TypeOK
<1> DEFINE n == Cardinality(Line)
           ticket(j) == (nowServing + j - 1) % Tickets
<1>1. (nextTicket - nowServing) % Tickets = n
  BY <1>0, Difference DEF TicketsInLine
<1>2. ASSUME NEW j \in 1 .. n
      PROVE  /\ Holder(ticket(j)) \in Line
             /\ Ahead(myTicket[Holder(ticket(j))], nowServing) = j - 1
  <2>1. PICK x \in 0 .. Tickets - 1 : x = j - 1
    BY <1>0
  <2>2. PICK t \in Line : Ahead(myTicket[t], nowServing) = x
    BY <1>0, <2>1 DEF TicketsInLine
  <2>3. t \in Threads /\ InLine(t)
    BY DEF Line
  <2>4. (nowServing + x) % Tickets = myTicket[t]
    BY <1>0, <2>2, <2>3, PlaceOf
  <2>5. ticket(j) = myTicket[t]
    <3>1. nowServing + j - 1 = nowServing + x
      BY <1>0, <2>1
    <3> QED
      BY <2>4, <3>1
  <2> HIDE DEF ticket
  <2>6. /\ Holder(ticket(j)) \in Threads /\ InLine(Holder(ticket(j)))
        /\ myTicket[Holder(ticket(j))] = ticket(j)
    BY <2>3, <2>5 DEF Holder, InLine
  <2> QED
    BY <2>1, <2>2, <2>5, <2>6 DEF Line
<1>3. Queue = [j \in 1 .. n |-> Holder(ticket(j))]
  BY <1>1 DEF Queue
<1> HIDE DEF ticket
<1>4. Queue \in [1 .. n -> Threads]
  BY <1>2, <1>3 DEF Line
<1>5. Queue \in Seq(Threads) /\ Len(Queue) = n
  BY <1>0, <1>4, FunctionIsSeq
<1>6. \A j \in 1 .. Len(Queue) : Queue[j] = Holder(ticket(j))
  BY <1>3, <1>5
<1> QED
  BY <1>2, <1>5, <1>6 DEF Ordered

LEMMA OrderedIsQueue == IInv => \A seq : Ordered(seq) => seq = Queue
<1> SUFFICES ASSUME IInv, NEW seq, Ordered(seq) PROVE seq = Queue
  OBVIOUS
<1>1. Ordered(Queue)
  BY QueueOrdered
<1>2. /\ seq \in Seq(Threads) /\ Queue \in Seq(Threads)
      /\ Len(seq) = Cardinality(Line) /\ Len(Queue) = Cardinality(Line)
  BY <1>1 DEF Ordered
<1>3. ASSUME NEW j \in 1 .. Len(seq) PROVE seq[j] = Queue[j]
  <2>1. /\ seq[j] \in Line /\ Queue[j] \in Line
        /\ Ahead(myTicket[seq[j]], nowServing) = Ahead(myTicket[Queue[j]], nowServing)
    BY <1>1, <1>2 DEF Ordered
  <2>2. /\ Tickets \in Nat /\ nowServing \in 0 .. Tickets - 1
        /\ \A t \in Line : myTicket[t] \in 0 .. Tickets - 1
    BY ConstantsAssumption DEF IInv, TypeOK, Line
  <2>3. \A a, b \in 0 .. Tickets - 1 :
           Ahead(a, nowServing) = Ahead(b, nowServing) => a = b
    BY <2>2 DEF Ahead
  <2>4. myTicket[seq[j]] = myTicket[Queue[j]]
    BY <2>1, <2>2, <2>3
  <2> QED
    BY <2>1, <2>4 DEF IInv, TicketsInLine
<1> QED
  BY <1>2, <1>3, SeqEqual

LEMMA QueueAfter == IInv' => (\A seq : Ordered(seq) => seq = Queue)'
  BY OrderedIsQueue, PTL
-------------------------------------------------------------------------------
LockVars == <<Queue, Inside>>

\* A thread that takes a ticket joins the line at its end.
LEMMA AskStep ==
  ASSUME IInv, IInv', NEW t \in Threads, TakeTicket(t)
  PROVE  Abstract!Ask(t)
<1>1. PICK q : q = Queue
  OBVIOUS
<1>2. Ordered(q)
  BY <1>1, QueueOrdered
<1>3. /\ q \in Seq(Threads) /\ Len(q) = Cardinality(Line)
      /\ Cardinality(Line) \in Nat /\ TypeOK /\ TicketsInLine
  BY <1>2, LineFinite DEF Ordered, IInv
<1>4. Line' = Line \cup {t} /\ t \notin Line /\ Cardinality(Line') = Cardinality(Line) + 1
  BY LineGrows, LineFinite, FS_AddElement
<1>5. /\ nowServing' = nowServing /\ myTicket'[t] = nextTicket
      /\ \A s \in Line : myTicket'[s] = myTicket[s]
  BY <1>3, <1>4 DEF TakeTicket, TypeOK, Line
<1>6. PICK r : r = Append(q, t)
  OBVIOUS
<1>7. r \in Seq(Threads) /\ Len(r) = Len(q) + 1
  BY <1>3, <1>6
<1>8. ASSUME NEW j \in 1 .. Len(r)
      PROVE  r[j] \in Line' /\ Ahead(myTicket[r[j]], nowServing)' = j - 1
  <2>1. CASE j \in 1 .. Len(q)
    <3>1. r[j] = q[j]
      BY <1>3, <1>6, <2>1
    <3>2. q[j] \in Line /\ Ahead(myTicket[q[j]], nowServing) = j - 1
      BY <1>2, <2>1 DEF Ordered
    <3> QED
      BY <1>4, <1>5, <3>1, <3>2 DEF Ahead
  <2>2. CASE j = Len(q) + 1
    <3>1. r[j] = t
      BY <1>3, <1>6, <2>2
    <3>2. Ahead(nextTicket, nowServing) = Cardinality(Line)
      BY <1>3 DEF TicketsInLine
    <3>3. Ahead(myTicket[t], nowServing)' = Cardinality(Line)
      BY <1>5, <3>2 DEF Ahead
    <3>4. j - 1 = Cardinality(Line)
      BY <1>3, <2>2
    <3> QED
      BY <1>4, <3>1, <3>3, <3>4
  <2> QED
    BY <1>3, <1>7, <2>1, <2>2
<1>9. Ordered(r)'
  BY <1>3, <1>4, <1>7, <1>8 DEF Ordered
<1>10. Queue' = Append(Queue, t)
  BY <1>1, <1>6, <1>9, QueueAfter
<1>11. \A p \in DOMAIN Queue : Queue[p] # t
  BY <1>1, <1>2, <1>3, <1>4 DEF Ordered
<1>12. Inside' = Inside
  BY <1>3 DEF TakeTicket, At, TypeOK, Inside
<1> QED
  BY <1>10, <1>11, <1>12 DEF Abstract!Ask

\* While nobody joins or leaves, the line is the same.
LEMMA SameQueue ==
  ASSUME IInv, IInv', Line' = Line, UNCHANGED <<nextTicket, nowServing, myTicket>>
  PROVE  Queue' = Queue
<1>1. PICK q : q = Queue
  OBVIOUS
<1>2. Ordered(q)
  BY <1>1, QueueOrdered
<1>3. Ordered(q)'
  BY <1>2 DEF Ordered, Ahead
<1> QED
  BY <1>1, <1>3, QueueAfter

\* The first in line is the one whose ticket is served.
LEMMA FirstServed ==
  ASSUME IInv, NEW t \in Line, myTicket[t] = nowServing
  PROVE  Queue # <<>> /\ t = Head(Queue)
<1>1. Ordered(Queue)
  BY QueueOrdered
<1>2. /\ Queue \in Seq(Threads) /\ Len(Queue) = Cardinality(Line)
      /\ Cardinality(Line) \in Nat /\ TicketsInLine /\ Tickets \in Nat
      /\ nowServing \in 0 .. Tickets - 1
      /\ \A s \in Line : myTicket[s] \in 0 .. Tickets - 1
  BY <1>1, LineFinite, ConstantsAssumption DEF Ordered, IInv, TypeOK, Line
<1>3. Ahead(myTicket[t], nowServing) = 0
  BY <1>2 DEF Ahead
<1>4. Cardinality(Line) > 0
  BY <1>2, <1>3 DEF TicketsInLine
<1>5. Queue[1] \in Line /\ Ahead(myTicket[Queue[1]], nowServing) = 0
  BY <1>1, <1>2, <1>4 DEF Ordered
<1>6. \A a \in 0 .. Tickets - 1 : Ahead(a, nowServing) = 0 => a = nowServing
  BY <1>2 DEF Ahead
<1>7. myTicket[Queue[1]] = myTicket[t]
  BY <1>2, <1>5, <1>6
<1>8. Queue[1] = t
  BY <1>2, <1>5, <1>7 DEF TicketsInLine
<1> QED
  BY <1>2, <1>4, <1>8

\* A thread that enters is the first in line, and alone.
LEMMA EnterStep ==
  ASSUME IInv, IInv', NEW t \in Threads, Enter(t)
  PROVE  Abstract!Enter(t)
<1>1. /\ TypeOK /\ t \in Line /\ myTicket[t] = nowServing /\ pc[t] = "wait"
      /\ pc' = [pc EXCEPT ![t] = "read"]
  BY DEF IInv, Enter, At, Line, InLine
<1>2. Queue' = Queue
  BY LineKept, SameQueue
<1>3. Inside = {}
  <2>1. SUFFICES ASSUME NEW s \in Inside PROVE FALSE
    OBVIOUS
  <2>2. s \in Line /\ myTicket[s] = nowServing /\ s # t
    BY <1>1 DEF Inside, Line, InLine, IInv, InsideServed
  <2> QED
    BY <1>1, <2>2 DEF IInv, TicketsInLine
<1>4. Inside' = {t}
  BY <1>1, <1>3 DEF TypeOK, Inside
<1> QED
  BY <1>1, <1>2, <1>3, <1>4, FirstServed DEF Abstract!Enter

\* A thread that releases the lock is the first in line and leaves it.
LEMMA LeaveStep ==
  ASSUME IInv, IInv', NEW t \in Threads, Release(t)
  PROVE  Abstract!Leave(t)
<1>1. PICK q : q = Queue
  OBVIOUS
<1>2. Ordered(q)
  BY <1>1, QueueOrdered
<1>3. /\ TypeOK /\ t \in Inside /\ t \in Line /\ myTicket[t] = nowServing
      /\ nowServing' = Increment(nowServing) /\ myTicket' = myTicket
  BY DEF IInv, Release, At, Inside, Line, InLine, InsideServed
<1>4. /\ Line' = Line \ {t} /\ Cardinality(Line') = Cardinality(Line) - 1
  BY LineShrinks, LineFinite, FS_RemoveElement
<1>5. /\ q \in Seq(Threads) /\ Len(q) = Cardinality(Line) /\ q # <<>> /\ q[1] = t
  BY <1>1, <1>2, <1>3, FirstServed DEF Ordered
<1>6. /\ Tickets \in Nat /\ nowServing \in 0 .. Tickets - 1
      /\ \A s \in Line : myTicket[s] \in 0 .. Tickets - 1
      /\ nowServing' = IF nowServing + 1 < Tickets THEN nowServing + 1 ELSE 0
  BY <1>3, ConstantsAssumption, IncrementIs DEF TypeOK, Line
<1>7. PICK r : r = Tail(q)
  OBVIOUS
<1>8. /\ r \in Seq(Threads) /\ Len(r) = Len(q) - 1
      /\ \A j \in 1 .. Len(r) : r[j] = q[j + 1]
  BY <1>5, <1>7
<1>9. ASSUME NEW j \in 1 .. Len(r)
      PROVE  r[j] \in Line' /\ Ahead(myTicket[r[j]], nowServing)' = j - 1
  <2>1. PICK s : s = q[j + 1]
    OBVIOUS
  <2>2. s \in Line /\ Ahead(myTicket[s], nowServing) = j
    BY <1>2, <1>5, <1>8, <2>1 DEF Ordered
  <2>3. Ahead(myTicket[t], nowServing) = 0
    BY <1>3, <1>6 DEF Ahead
  <2>4. s # t
    BY <2>2, <2>3
  <2>5. \A a \in 0 .. Tickets - 1 :
           Ahead(a, nowServing) = j => Ahead(a, nowServing') = j - 1
    BY <1>6 DEF Ahead
  <2>6. Ahead(myTicket[s], nowServing') = j - 1
    BY <1>6, <2>2, <2>5
  <2> QED
    BY <1>3, <1>4, <1>8, <2>1, <2>2, <2>4, <2>6 DEF Ahead
<1>10. Ordered(r)'
  BY <1>4, <1>5, <1>8, <1>9 DEF Ordered
<1>11. Queue' = Tail(Queue)
  BY <1>1, <1>7, <1>10, QueueAfter
<1>12. Inside = {t}
  BY <1>3, OneInside
<1>13. Inside' = {}
  BY <1>3, <1>12 DEF Release, At, TypeOK, Inside
<1> QED
  BY <1>11, <1>12, <1>13 DEF Abstract!Leave

LEMMA LockStep ==
  ASSUME IInv, IInv', NEW t \in Threads, Step(t)
  PROVE  Abstract!Next \/ UNCHANGED LockVars
<1>1. CASE TakeTicket(t)
  BY <1>1, AskStep DEF Abstract!Next
<1>2. CASE Enter(t)
  BY <1>2, EnterStep DEF Abstract!Next
<1>3. CASE Release(t)
  BY <1>3, LeaveStep DEF Abstract!Next
<1>4. CASE TimesOut(t) \/ ReadCount(t) \/ WriteCount(t)
  <2>1. Queue' = Queue
    BY <1>4, LineKept, SameQueue
  <2>2. Inside' = Inside
    BY <1>4 DEF IInv, TypeOK, TimesOut, ReadCount, WriteCount, At, Inside
  <2> QED
    BY <2>1, <2>2 DEF LockVars
<1> QED
  BY <1>1, <1>2, <1>3, <1>4 DEF Step, Goes

LEMMA InitLock == Init => Abstract!Init
<1> SUFFICES ASSUME Init PROVE Abstract!Init
  OBVIOUS
<1>1. Line = {}
  BY DEF Init, Line, InLine, GaveUp
<1>2. Queue \in Seq(Threads) /\ Len(Queue) = 0
  BY <1>1, InitIInv, QueueOrdered, FS_EmptySet DEF Ordered
<1>3. Queue = <<>>
  BY <1>2
<1> QED
  BY <1>3 DEF Init, Inside, Abstract!Init

\* One thread at a time is inside, and threads enter in the order in which they
\* took their tickets, for any number of threads and any larger number of
\* tickets, also when the counters wrap and when some have given up
\* (TicketLock.java:34-47).
THEOREM TicketLockIsFifo == Spec => IsFifoLock
<1>1. IInv /\ IInv' /\ [Next]_vars => [Abstract!Next]_(Abstract!vars)
  <2> SUFFICES ASSUME IInv, IInv', [Next]_vars
               PROVE  Abstract!Next \/ UNCHANGED LockVars
    BY DEF Abstract!vars, LockVars
  <2>1. CASE Next
    BY <2>1, LockStep DEF Next
  <2>2. CASE UNCHANGED vars
    <3>1. Line' = Line /\ Inside' = Inside
      BY <2>2 DEF vars, Line, InLine, GaveUp, Inside
    <3> QED
      BY <2>2, <3>1, SameQueue DEF vars, LockVars
  <2> QED
    BY <2>1, <2>2
<1> QED
  BY <1>1, InitLock, Invariance, PTL DEF Spec, IsFifoLock, Abstract!Spec
===============================================================================
