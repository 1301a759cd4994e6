---------------------------- MODULE MergeSortProofs ----------------------------
(***************************************************************************)
(* Theorems about the parallel merge sorts of MergeSort, for arrays of any *)
(* length and any elements: the threads keep out of each other's way, and  *)
(* the array is sorted.                                                    *)
(***************************************************************************)
EXTENDS MergeSort, FiniteSetTheorems, SequenceTheorems, TLAPS

End(p) == p.i + p.len

\* q is inside p, or they have no index in common.
Inside(q, p) == p.i <= q.i /\ End(q) <= End(p)
Apart(p, q) == End(p) <= q.i \/ End(q) <= p.i

Labels == {"none", "started", "joining", "merging", "copying", "done"}

Types == /\ arr \in [0 .. N - 1 -> Values]
         /\ arr0 \in [0 .. N - 1 -> Values]
         /\ pc \in [Parts -> Labels]
         /\ k \in [Parts -> 0 .. N]
         /\ m \in [Parts -> 0 .. N]
         /\ result \in [Parts -> Seq(Values)]

Begun == {p \in Parts : pc[p] # "none"}

\* The parts begun are nested or apart; none is begun inside one that has only
\* started, and all inside one whose merge has begun are done.
Nested ==
  \A p, q \in Begun :
     /\ Inside(p, q) \/ Inside(q, p) \/ Apart(p, q)
     /\ p # q /\ Inside(q, p) =>
           /\ pc[p] # "started"
           /\ pc[p] \in {"merging", "copying", "done"} => pc[q] = "done"

\* A part that waits or merges has two halves, which have begun.
Halved ==
  \A p \in Parts : pc[p] \in {"joining", "merging", "copying"} =>
     p.len # 1 /\ LeftPart(p) \in Begun /\ RightPart(p) \in Begun

\* merge's cursors, and how much it has merged.
Cursor(p) ==
  /\ pc[p] \in {"none", "started", "joining"} => result[p] = <<>>
  /\ pc[p] = "merging" => /\ p.i <= k[p] /\ k[p] <= J(p)
                          /\ J(p) <= m[p] /\ m[p] <= End(p)
                          /\ Len(result[p]) = (k[p] - p.i) + (m[p] - J(p))
  /\ pc[p] = "copying" => /\ J(p) <= m[p] /\ m[p] <= End(p)
                          /\ k[p] <= m[p] - p.i
                          /\ Len(result[p]) = m[p] - p.i
  /\ pc[p] = "done" => Len(result[p]) <= p.len

Cursors == \A p \in Parts : Cursor(p)

Shape == Types /\ Nested /\ Halved /\ Cursors
-------------------------------------------------------------------------------
\* A part of more than one element has two halves, one after the other.
LEMMA Halves ==
  ASSUME NEW p \in Parts
  PROVE  /\ p.i \in Nat /\ p.len \in Nat \ {0} /\ End(p) <= N /\ N \in Nat
         /\ p.i \in Int /\ p.len \in Int /\ End(p) \in Int /\ p.i < End(p)
         /\ p = [i |-> p.i, len |-> p.len]
         /\ LeftLen(p) \in Int /\ RightLen(p) \in Int
         /\ J(p) = p.i + LeftLen(p) /\ End(p) = J(p) + RightLen(p)
         /\ p.len # 1 =>
              /\ LeftPart(p) \in Parts /\ RightPart(p) \in Parts
              /\ J(p) \in Nat /\ p.i < J(p) /\ J(p) < End(p)
              /\ LeftPart(p).i = p.i /\ End(LeftPart(p)) = J(p)
              /\ RightPart(p).i = J(p) /\ End(RightPart(p)) = End(p)
              /\ p # LeftPart(p) /\ p # RightPart(p) /\ LeftPart(p) # RightPart(p)
<1>1. /\ p \in [i : 0 .. N - 1, len : 1 .. N] /\ p.i + p.len <= N /\ N \in Nat
  BY ConstantsAssumption DEF Parts
<1>2. p.i \in Nat /\ p.len \in Nat \ {0} /\ p = [i |-> p.i, len |-> p.len]
  BY <1>1
<1>3. ASSUME p.len # 1
      PROVE  /\ LeftLen(p) \in 1 .. p.len - 1 /\ RightLen(p) \in 1 .. p.len - 1
             /\ LeftLen(p) + RightLen(p) = p.len
  <2>1. PICK n \in Nat : n = p.len /\ n >= 2
    BY <1>2, <1>3
  <2>2. n \div 2 \in 1 .. n - 1
    BY <2>1
  <2> QED BY <2>1, <2>2 DEF LeftLen, RightLen
<1>4. ASSUME p.len # 1
      PROVE  LeftPart(p) \in Parts /\ RightPart(p) \in Parts
  BY <1>1, <1>2, <1>3, <1>4 DEF Parts, LeftPart, RightPart
<1>5. ASSUME p.len # 1
      PROVE  /\ J(p) \in Nat /\ p.i < J(p) /\ J(p) < End(p)
             /\ LeftPart(p).i = p.i /\ End(LeftPart(p)) = J(p)
             /\ RightPart(p).i = J(p) /\ End(RightPart(p)) = End(p)
  BY <1>2, <1>3, <1>5 DEF LeftPart, RightPart, J, End
<1>6. /\ LeftLen(p) \in Int /\ RightLen(p) \in Int
      /\ J(p) = p.i + LeftLen(p) /\ End(p) = J(p) + RightLen(p)
  <2>1. PICK n \in Nat : n = p.len
    BY <1>2
  <2>2. n \div 2 \in Int
    OBVIOUS
  <2> QED BY <1>2, <2>1, <2>2 DEF LeftLen, RightLen, J, End
<1> QED
  BY <1>1, <1>2, <1>4, <1>5, <1>6 DEF End

\* Two parts with the same bounds are one.
LEMMA SameBounds ==
  ASSUME NEW p \in Parts, NEW q \in Parts, Inside(p, q), Inside(q, p)
  PROVE  p = q
<1>1. /\ p.i \in Int /\ p.len \in Int /\ q.i \in Int /\ q.len \in Int
  BY Halves
<1>2. PICK a \in Int, b \in Int, c \in Int, d \in Int :
         a = p.i /\ b = p.len /\ c = q.i /\ d = q.len
  BY <1>1
<1>3. /\ a <= c /\ c <= a
      /\ a + b <= c + d /\ c + d <= a + b
  BY <1>2 DEF Inside, End
<1>5. a = c /\ b = d
  BY <1>3
<1>4. p = [i |-> p.i, len |-> p.len] /\ q = [i |-> q.i, len |-> q.len]
  BY Halves
<1> QED BY <1>2, <1>4, <1>5

\* What is inside a part that has two halves is the part, or inside one of the
\* halves, or around one of them.
LEMMA Trichotomy ==
  ASSUME NEW p \in Parts, p.len # 1, NEW q \in Parts, Inside(q, p), q # p,
         Inside(q, LeftPart(p)) \/ Inside(LeftPart(p), q) \/ Apart(q, LeftPart(p)),
         Inside(q, RightPart(p)) \/ Inside(RightPart(p), q) \/ Apart(q, RightPart(p))
  PROVE  Inside(q, LeftPart(p)) \/ Inside(q, RightPart(p))
<1>1. ~Inside(p, q)
  BY SameBounds
<1> QED BY <1>1, Halves DEF Inside, Apart

LEMMA WholePart == Whole \in Parts /\ \A p \in Parts : Inside(p, Whole)
<1>1. N \in Nat \ {0}
  BY ConstantsAssumption
<1>2. Whole \in Parts
  BY <1>1 DEF Whole, Parts
<1>3. Whole.i = 0 /\ End(Whole) = N
  BY <1>1 DEF Whole, End
<1> QED BY <1>2, <1>3, Halves DEF Inside
-------------------------------------------------------------------------------
LEMMA InitShape == Init => Shape
<1> SUFFICES ASSUME Init PROVE Shape
  OBVIOUS
<1>1. Types
  BY ConstantsAssumption, EmptySeq DEF Init, Types, Labels
<1>2. Begun = {Whole} /\ pc[Whole] = "started"
  BY WholePart DEF Init, Begun
<1>3. Nested
  BY <1>2, WholePart DEF Nested
<1>4. Halved
  BY DEF Init, Halved
<1>5. Cursors
  BY DEF Init, Cursors, Cursor
<1> QED BY <1>1, <1>3, <1>4, <1>5 DEF Shape

\* A thread's step that starts no other.
Moves(p, from, to) ==
  /\ pc[p] = from /\ pc' = [pc EXCEPT ![p] = to]
  /\ from \notin {"none", "done"} /\ to \notin {"none", "started"}

LEMMA ForkNested ==
  ASSUME Shape, NEW p \in Parts, Fork(p)
  PROVE  Nested' /\ Halved'
<1> DEFINE L == LeftPart(p)
           R == RightPart(p)
<1>1. /\ p.len # 1 /\ pc[p] = "started" /\ p \in Begun
  BY DEF Fork, Begun
<1>2. L \in Parts /\ R \in Parts /\ p # L /\ p # R /\ L # R
  BY <1>1, Halves
<1>3. \A q \in Parts : pc'[q] = IF q = p THEN "joining"
                                ELSE IF q \in {L, R} THEN "started" ELSE pc[q]
  BY <1>2 DEF Fork, Shape, Types
<1>4. Inside(L, p) /\ Inside(R, p) /\ Apart(L, R)
  BY <1>1, <1>2, Halves DEF Inside, Apart
<1>5. pc[L] = "none" /\ pc[R] = "none"
  BY <1>1, <1>2, <1>4 DEF Shape, Nested, Begun
<1>6. Begun' = Begun \cup {L, R}
  BY <1>1, <1>2, <1>3 DEF Begun
<1>7. ASSUME NEW q \in Begun, q # p
      PROVE  \/ Apart(p, q) /\ Apart(q, L) /\ Apart(q, R)
             \/ Inside(p, q) /\ ~Inside(q, p) /\ pc[q] = "joining"
  <2>1. q \in Parts
    BY <1>7 DEF Begun
  <2>2. ~Inside(q, p)
    BY <1>1, <1>7 DEF Shape, Nested
  <2>3. Apart(p, q) \/ Inside(p, q)
    BY <1>1, <1>7, <2>2 DEF Shape, Nested
  <2>4. CASE Inside(p, q)
    <3>1. pc[q] \notin {"started", "none", "merging", "copying", "done"}
      BY <1>1, <1>7, <2>4 DEF Shape, Nested, Begun
    <3> QED BY <2>1, <2>2, <2>4, <3>1 DEF Shape, Types, Labels
  <2>5. CASE Apart(p, q)
    BY <1>1, <1>2, <2>1, <2>5, Halves DEF Apart
  <2> QED BY <2>3, <2>4, <2>5
<1>8. ASSUME NEW a \in Begun', NEW b \in Begun'
      PROVE  /\ Inside(a, b) \/ Inside(b, a) \/ Apart(a, b)
             /\ a # b /\ Inside(b, a) =>
                   /\ pc'[a] # "started"
                   /\ pc'[a] \in {"merging", "copying", "done"} => pc'[b] = "done"
  <2>0. a \in Parts /\ b \in Parts
    BY <1>8 DEF Begun
  <2>1. CASE a \in Begun \ {p} /\ b \in Begun \ {p}
    BY <1>3, <1>5, <1>8, <2>1 DEF Shape, Nested, Begun
  <2>2. CASE a \in Begun \ {p} /\ b \in {p, L, R}
    <3>1. CASE Apart(p, a)
      BY <1>1, <1>2, <1>7, <2>0, <2>2, <3>1, Halves DEF Apart, Inside
    <3>2. CASE Inside(p, a) /\ pc[a] = "joining"
      <4>1. pc'[a] = "joining"
        BY <1>3, <1>5, <2>0, <2>2, <3>2
      <4>2. Inside(b, a)
        BY <1>2, <1>4, <2>0, <2>2, <3>2, Halves DEF Inside
      <4> QED BY <4>1, <4>2
    <3> QED BY <1>7, <2>2, <3>1, <3>2
  <2>3. CASE a \in {p, L, R} /\ b \in Begun \ {p}
    <3>1. CASE Apart(p, b)
      <4>1. Apart(a, b)
        BY <1>1, <1>2, <2>0, <2>3, <3>1, Halves DEF Apart
      <4>2. ~Inside(b, a)
        BY <2>0, <4>1, Halves DEF Apart, Inside
      <4> QED BY <4>1, <4>2
    <3>2. CASE Inside(p, b) /\ ~Inside(b, p)
      <4>1. Inside(a, b) /\ ~Inside(b, a)
        BY <1>2, <1>4, <2>0, <2>3, <3>2, Halves DEF Inside
      <4> QED BY <4>1
    <3> QED BY <1>7, <2>3, <3>1, <3>2
  <2>4. CASE a \in {p, L, R} /\ b \in {p, L, R}
    <3>1. CASE a = p
      BY <1>2, <1>3, <1>4, <2>4, <3>1, Halves DEF Inside
    <3>2. CASE a \in {L, R}
      <4>1. a = b \/ ~Inside(b, a)
        BY <1>1, <1>2, <2>0, <2>4, <3>2, Halves DEF Inside
      <4>2. Inside(a, b) \/ Inside(b, a) \/ Apart(a, b)
        BY <1>1, <1>2, <2>0, <2>4, <3>2, Halves DEF Inside, Apart
      <4> QED BY <4>1, <4>2
    <3> QED BY <2>4, <3>1, <3>2
  <2> QED BY <1>6, <1>8, <2>1, <2>2, <2>3, <2>4
<1>9. Nested'
  BY <1>8 DEF Nested, Inside, Apart, End
<1>10. Halved'
  BY <1>1, <1>3, <1>5, <1>6 DEF Shape, Halved
<1> QED BY <1>9, <1>10

LEMMA MoveNested ==
  ASSUME Shape, NEW p \in Parts, NEW from, NEW to, Moves(p, from, to),
         from = "started" => p.len = 1,
         to \in {"joining", "merging", "copying"} => from # "started",
         from = "joining" => /\ pc[LeftPart(p)] = "done" /\ pc[RightPart(p)] = "done"
  PROVE  Nested' /\ Halved'
<1>1. pc[p] # "none" /\ pc[p] # "done" /\ p \in Begun
  BY DEF Moves, Begun
<1>2. \A q \in Parts : pc'[q] = IF q = p THEN to ELSE pc[q]
  BY DEF Moves, Shape, Types
<1>3. Begun' = Begun /\ to # "none" /\ to # "started"
  BY <1>1, <1>2 DEF Begun, Moves
<1>4. ASSUME NEW q \in Begun, q # p, Inside(q, p)
      PROVE  pc[q] = "done"
  <2>0. q \in Parts /\ pc[p] # "started"
    BY <1>1, <1>4 DEF Shape, Nested, Begun
  <2>1. CASE from = "joining"
    <3> DEFINE L == LeftPart(p)
               R == RightPart(p)
    <3>1. p.len # 1 /\ L \in Begun /\ R \in Begun /\ pc[p] = "joining"
      BY <2>1 DEF Shape, Halved, Moves
    <3>2. Inside(q, L) \/ Inside(q, R)
      <4>1. /\ Inside(q, L) \/ Inside(L, q) \/ Apart(q, L)
            /\ Inside(q, R) \/ Inside(R, q) \/ Apart(q, R)
        BY <1>4, <3>1 DEF Shape, Nested
      <4> QED BY <1>4, <2>0, <3>1, <4>1, Trichotomy
    <3> QED BY <1>4, <2>1, <3>1, <3>2 DEF Shape, Nested
  <2>2. CASE from # "joining"
    <3>1. pc[p] \in {"merging", "copying"}
      BY <1>1, <2>0, <2>2 DEF Moves, Shape, Types, Labels
    <3> QED BY <1>1, <1>4, <3>1 DEF Shape, Nested
  <2> QED BY <2>1, <2>2
<1>5. ASSUME NEW a \in Begun, NEW b \in Begun
      PROVE  /\ Inside(a, b) \/ Inside(b, a) \/ Apart(a, b)
             /\ a # b /\ Inside(b, a) =>
                   /\ pc'[a] # "started"
                   /\ pc'[a] \in {"merging", "copying", "done"} => pc'[b] = "done"
  <2>0. a \in Parts /\ b \in Parts
    BY DEF Begun
  <2>1. CASE a = p
    BY <1>2, <1>3, <1>4, <2>0, <2>1 DEF Shape, Nested
  <2>2. CASE a # p
    BY <1>1, <1>2, <2>0, <2>2 DEF Shape, Nested
  <2> QED BY <2>1, <2>2
<1>6. Nested'
  BY <1>3, <1>5 DEF Nested, Inside, Apart, End
<1>7. Halved'
  BY <1>1, <1>2, <1>3 DEF Shape, Halved, Moves, Types, Labels
<1> QED BY <1>6, <1>7
-------------------------------------------------------------------------------
LEMMA Guards ==
  ASSUME Types, NEW p \in Parts
  PROVE  /\ k[p] \in Nat /\ m[p] \in Nat /\ result[p] \in Seq(Values)
         /\ Len(result[p]) \in Nat
         /\ InLeft(p) <=> k[p] < J(p)
         /\ InRight(p) <=> m[p] < End(p)
         /\ Merged(p) = m[p] - p.i
<1>1. /\ k[p] \in Nat /\ m[p] \in Nat /\ result[p] \in Seq(Values)
      /\ Len(result[p]) \in Nat
  BY LenProperties, Halves DEF Types
<1>2. PICK a \in Int, l \in Int, r \in Int :
         /\ a = p.i /\ l = LeftLen(p) /\ r = RightLen(p)
         /\ J(p) = a + l /\ End(p) = J(p) + r
  BY Halves
<1>3. InLeft(p) <=> k[p] < J(p)
  BY <1>1, <1>2 DEF InLeft
<1>4. InRight(p) <=> m[p] < End(p)
  BY <1>1, <1>2 DEF InRight
<1>5. Merged(p) = m[p] - p.i
  BY <1>1, <1>2 DEF Merged
<1> QED BY <1>1, <1>3, <1>4, <1>5

\* A step of one thread leaves the others' locals alone, and changes where
\* another is only by starting it.
LEMMA OthersKeep ==
  ASSUME Shape, NEW p \in Parts, Step(p), NEW q \in Parts, q # p
  PROVE  /\ k'[q] = k[q] /\ m'[q] = m[q] /\ result'[q] = result[q]
         /\ pc'[q] = pc[q] \/ (Fork(p) /\ pc[q] = "none" /\ pc'[q] = "started")
<1>0. Types
  BY DEF Shape
<1>1. CASE Fork(p)
  <2>1. p.len # 1 /\ p \in Begun /\ pc[p] = "started"
    BY <1>1 DEF Fork, Begun
  <2>2. /\ LeftPart(p) \in Parts /\ RightPart(p) \in Parts
        /\ LeftPart(p) # p /\ RightPart(p) # p
        /\ Inside(LeftPart(p), p) /\ Inside(RightPart(p), p)
    BY <2>1, Halves DEF Inside
  <2>3. pc[LeftPart(p)] = "none" /\ pc[RightPart(p)] = "none"
    BY <2>1, <2>2 DEF Shape, Nested, Begun
  <2> QED BY <1>0, <1>1, <2>2, <2>3 DEF Fork, Types
<1>2. CASE ReturnSingle(p) \/ Join(p) \/ TakeNoMore(p) \/ Return(p)
  BY <1>0, <1>2 DEF ReturnSingle, Join, TakeNoMore, Return, At, Types
<1>3. CASE TakeLeft(p) \/ TakeRight(p) \/ CopyBack(p)
  BY <1>0, <1>3 DEF TakeLeft, TakeRight, CopyBack, Types
<1> QED BY <1>1, <1>2, <1>3 DEF Step

LEMMA StepTypes ==
  ASSUME Shape, NEW p \in Parts, Step(p)
  PROVE  Types'
<1>0. Types /\ Cursor(p) /\ p.i \in Nat /\ End(p) <= N /\ N \in Nat /\ End(p) \in Int
  BY Halves DEF Shape, Cursors
<1>1. CASE ReturnSingle(p) \/ Fork(p)
  BY <1>0, <1>1 DEF ReturnSingle, Fork, At, Types, Labels
<1>2. CASE Join(p)
  <2>1. p.len # 1
    BY <1>2 DEF Join, At, Shape, Halved
  <2>2. p.i \in 0 .. N /\ J(p) \in 0 .. N
    BY <1>0, <2>1, Halves
  <2> QED BY <1>0, <1>2, <2>2 DEF Join, At, Types, Labels
<1>3. CASE TakeLeft(p)
  <2>1. pc[p] = "merging" /\ k[p] < J(p) /\ J(p) <= m[p] /\ m[p] <= End(p)
    BY <1>0, <1>3, Guards DEF TakeLeft, Cursor
  <2>2. J(p) \in Int
    BY <2>1, Halves DEF Shape, Halved
  <2>3. k[p] \in 0 .. N - 1 /\ k[p] + 1 \in 0 .. N
    BY <1>0, <2>1, <2>2, Guards
  <2>4. Append(result[p], arr[k[p]]) \in Seq(Values)
    BY <1>0, <2>3, AppendProperties, Guards DEF Types
  <2> QED BY <1>0, <1>3, <2>3, <2>4 DEF TakeLeft, Types
<1>4. CASE TakeRight(p)
  <2>1. m[p] < End(p)
    BY <1>0, <1>4, Guards DEF TakeRight
  <2>3. m[p] \in 0 .. N - 1 /\ m[p] + 1 \in 0 .. N
    BY <1>0, <2>1, Guards
  <2>4. Append(result[p], arr[m[p]]) \in Seq(Values)
    BY <1>0, <2>3, AppendProperties, Guards DEF Types
  <2> QED BY <1>0, <1>4, <2>3, <2>4 DEF TakeRight, Types
<1>5. CASE TakeNoMore(p)
  <2>1. 0 \in 0 .. N
    BY <1>0
  <2> QED BY <1>0, <1>5, <2>1 DEF TakeNoMore, At, Types, Labels
<1>7. CASE Return(p)
  BY <1>0, <1>7 DEF Return, At, Types, Labels
<1>6. CASE CopyBack(p)
  <2>1. /\ pc[p] = "copying" /\ k[p] < m[p] - p.i /\ m[p] <= End(p)
        /\ Len(result[p]) = m[p] - p.i
    BY <1>0, <1>6, Guards DEF CopyBack, Cursor
  <2>2. k[p] + 1 \in 1 .. Len(result[p]) /\ k[p] + 1 \in 0 .. N
    BY <1>0, <2>1, Guards
  <2>3. result[p][k[p] + 1] \in Values
    BY <1>0, <2>2, Guards, ElementOfSeq
  <2> QED BY <1>0, <1>6, <2>2, <2>3 DEF CopyBack, Types
<1> QED BY <1>1, <1>2, <1>3, <1>4, <1>5, <1>6, <1>7 DEF Step

LEMMA StepCursors ==
  ASSUME Shape, NEW p \in Parts, Step(p)
  PROVE  Cursors'
<1>0. Types /\ Cursor(p) /\ Types'
  BY StepTypes DEF Shape, Cursors
<1>1. ASSUME NEW q \in Parts, q # p PROVE Cursor(q)'
  <2>1. Cursor(q)
    BY DEF Shape, Cursors
  <2> QED BY <1>1, <2>1, OthersKeep DEF Cursor, J, LeftLen, End
<1>2. Cursor(p)'
  <2> USE DEF J, LeftLen, End
  <2>0. /\ p.i \in Nat /\ p.len \in Nat /\ k[p] \in Nat /\ m[p] \in Nat
        /\ Len(result[p]) \in Nat /\ result[p] \in Seq(Values)
    BY <1>0, Guards, Halves
  <2>1. CASE ReturnSingle(p)
    BY <1>0, <2>0, <2>1 DEF ReturnSingle, At, Types, Cursor
  <2>2. CASE Fork(p)
    <3>1. pc'[p] = "joining" /\ result'[p] = <<>>
      <4>1. p # LeftPart(p) /\ p # RightPart(p)
        BY <2>2, Halves DEF Fork
      <4> QED BY <1>0, <2>2, <4>1 DEF Fork, Types, Cursor
    <3> QED BY <3>1 DEF Cursor
  <2> HIDE DEF J, LeftLen, End
  <2>3. CASE Join(p)
    <3>1. /\ pc'[p] = "merging" /\ result'[p] = <<>> /\ k'[p] = p.i /\ m'[p] = J(p)
          /\ p.len # 1
      BY <1>0, <2>3 DEF Join, At, Types, Cursor, Shape, Halved
    <3>2. p.i < J(p) /\ J(p) < End(p) /\ J(p) \in Nat /\ End(p) \in Int
      BY <3>1, Halves
    <3>3. Len(result'[p]) = 0
      BY <3>1
    <3>4. /\ p.i <= k'[p] /\ k'[p] <= J(p) /\ J(p) <= m'[p] /\ m'[p] <= End(p)
          /\ Len(result'[p]) = (k'[p] - p.i) + (m'[p] - J(p))
      BY <2>0, <3>1, <3>2, <3>3
    <3> QED BY <3>1, <3>4 DEF Cursor, J, LeftLen, End
  <2>4. CASE TakeLeft(p)
    <3>1. /\ pc[p] = "merging" /\ pc' = pc /\ m' = m
          /\ k'[p] = k[p] + 1 /\ result'[p] = Append(result[p], arr[k[p]])
          /\ k[p] < J(p)
      BY <1>0, <2>4, Guards DEF TakeLeft, Types
    <3>2. Len(result'[p]) = Len(result[p]) + 1
      BY <2>0, <3>1
    <3>7. J(p) \in Int /\ End(p) \in Int
      BY <3>1, Halves DEF Shape, Halved
    <3>3. PICK a \in Int : a = p.i
      BY <2>0
    <3>8. PICK j \in Int, e \in Int : j = J(p) /\ e = End(p)
      BY <3>7
    <3>9. PICK x \in Int, y \in Int, l \in Int : x = k[p] /\ y = m[p] /\ l = Len(result[p])
      BY <2>0
    <3>5. /\ a <= x /\ x <= j /\ j <= y /\ y <= e /\ l = (x - a) + (y - j)
      BY <1>0, <3>1, <3>3, <3>8, <3>9 DEF Cursor
    <3>6. k'[p] = x + 1 /\ x < j /\ m'[p] = y /\ Len(result'[p]) = l + 1
      BY <3>1, <3>2, <3>8, <3>9
    <3>4. /\ p.i <= k'[p] /\ k'[p] <= J(p) /\ J(p) <= m'[p] /\ m'[p] <= End(p)
          /\ Len(result'[p]) = (k'[p] - p.i) + (m'[p] - J(p))
      <4>1. a <= x + 1 /\ x + 1 <= j /\ l + 1 = ((x + 1) - a) + (y - j)
        BY <3>5, <3>6
      <4> QED BY <3>3, <3>5, <3>6, <3>8, <4>1
    <3> QED BY <3>1, <3>4 DEF Cursor, J, LeftLen, End
  <2>5. CASE TakeRight(p)
    <3>1. /\ pc[p] = "merging" /\ pc' = pc /\ k' = k
          /\ m'[p] = m[p] + 1 /\ result'[p] = Append(result[p], arr[m[p]])
          /\ m[p] < End(p)
      BY <1>0, <2>5, Guards DEF TakeRight, Types
    <3>2. Len(result'[p]) = Len(result[p]) + 1
      BY <2>0, <3>1
    <3>7. J(p) \in Int /\ End(p) \in Int
      BY <3>1, Halves DEF Shape, Halved
    <3>3. PICK a \in Int : a = p.i
      BY <2>0
    <3>8. PICK j \in Int, e \in Int : j = J(p) /\ e = End(p)
      BY <3>7
    <3>9. PICK x \in Int, y \in Int, l \in Int : x = k[p] /\ y = m[p] /\ l = Len(result[p])
      BY <2>0
    <3>5. /\ a <= x /\ x <= j /\ j <= y /\ y <= e /\ l = (x - a) + (y - j)
      BY <1>0, <3>1, <3>3, <3>8, <3>9 DEF Cursor
    <3>6. k'[p] = x /\ m'[p] = y + 1 /\ y < e /\ Len(result'[p]) = l + 1
      BY <3>1, <3>2, <3>8, <3>9
    <3>4. /\ p.i <= k'[p] /\ k'[p] <= J(p) /\ J(p) <= m'[p] /\ m'[p] <= End(p)
          /\ Len(result'[p]) = (k'[p] - p.i) + (m'[p] - J(p))
      <4>1. j <= y + 1 /\ y + 1 <= e /\ l + 1 = (x - a) + ((y + 1) - j)
        BY <3>5, <3>6
      <4> QED BY <3>3, <3>5, <3>6, <3>8, <4>1
    <3> QED BY <3>1, <3>4 DEF Cursor, J, LeftLen, End
  <2>6. CASE TakeNoMore(p)
    <3>1. /\ pc[p] = "merging" /\ pc'[p] = "copying" /\ k'[p] = 0 /\ m' = m
          /\ result' = result /\ ~(k[p] < J(p))
      BY <1>0, <2>6, Guards DEF TakeNoMore, At, Types
    <3>2. J(p) \in Int /\ p.i < J(p)
      BY <3>1, Halves DEF Shape, Halved
    <3>3. /\ J(p) <= m'[p] /\ m'[p] <= End(p) /\ k'[p] <= m'[p] - p.i
          /\ Len(result'[p]) = m'[p] - p.i
      BY <1>0, <2>0, <3>1, <3>2 DEF Cursor
    <3> QED BY <3>1, <3>3 DEF Cursor, J, LeftLen, End
  <2>7. CASE CopyBack(p)
    <3>1. /\ pc[p] = "copying" /\ pc' = pc /\ m' = m /\ result' = result
          /\ k'[p] = k[p] + 1 /\ k[p] < m[p] - p.i
      BY <1>0, <2>7, Guards DEF CopyBack, Types
    <3>2. k'[p] <= m'[p] - p.i
      BY <2>0, <3>1
    <3> QED BY <1>0, <3>1, <3>2 DEF Cursor, J, LeftLen, End
  <2>8. CASE Return(p)
    <3>1. pc[p] = "copying" /\ pc'[p] = "done" /\ result' = result
      BY <1>0, <2>8 DEF Return, At, Types
    <3>2. PICK a \in Nat, l \in Nat : a = p.i /\ l = p.len /\ End(p) = a + l
      BY <2>0 DEF End
    <3>3. Len(result'[p]) <= p.len
      BY <1>0, <2>0, <3>1, <3>2 DEF Cursor
    <3> QED BY <3>1, <3>3 DEF Cursor
  <2> QED BY <2>1, <2>2, <2>3, <2>4, <2>5, <2>6, <2>7, <2>8 DEF Step
<1> QED BY <1>1, <1>2 DEF Cursors

LEMMA StepShape ==
  ASSUME Shape, NEW p \in Parts, Step(p)
  PROVE  Shape'
<1>1. Types' /\ Cursors'
  BY StepTypes, StepCursors
<1>2. Nested' /\ Halved'
  <2>1. CASE Fork(p)
    BY <2>1, ForkNested
  <2>2. CASE ReturnSingle(p)
    <3>1. Moves(p, "started", "done") /\ p.len = 1
      BY <2>2 DEF ReturnSingle, At, Moves
    <3> QED BY <3>1, MoveNested
  <2>3. CASE Join(p)
    <3>1. Moves(p, "joining", "merging") /\ pc[LeftPart(p)] = "done" /\ pc[RightPart(p)] = "done"
      BY <2>3 DEF Join, At, Moves
    <3> QED BY <3>1, MoveNested
  <2>4. CASE TakeNoMore(p)
    <3>1. Moves(p, "merging", "copying")
      BY <2>4 DEF TakeNoMore, At, Moves
    <3> QED BY <3>1, MoveNested
  <2>5. CASE Return(p)
    <3>1. Moves(p, "copying", "done")
      BY <2>5 DEF Return, At, Moves
    <3> QED BY <3>1, MoveNested
  <2>6. CASE TakeLeft(p) \/ TakeRight(p) \/ CopyBack(p)
    <3>1. pc' = pc
      BY <2>6 DEF TakeLeft, TakeRight, CopyBack
    <3> QED BY <3>1 DEF Shape, Nested, Halved, Begun, Inside, Apart, End, LeftPart, RightPart,
                        LeftLen, RightLen
  <2> QED BY <2>1, <2>2, <2>3, <2>4, <2>5, <2>6 DEF Step
<1> QED BY <1>1, <1>2 DEF Shape

LEMMA ShapeHolds == Spec => []Shape
<1>1. Shape /\ [Next]_vars => Shape'
  <2> SUFFICES ASSUME Shape, [Next]_vars PROVE Shape'
    OBVIOUS
  <2>1. CASE UNCHANGED vars
    BY <2>1 DEF vars, Shape, Types, Nested, Halved, Cursors, Cursor, Begun, Inside, Apart,
                End, J, LeftPart, RightPart, LeftLen, RightLen
  <2>2. ASSUME NEW p \in Parts, Step(p) PROVE Shape'
    BY <2>2, StepShape
  <2> QED BY <2>1, <2>2 DEF Next, Terminating
<1> QED BY <1>1, InitShape, PTL DEF Spec

\* The types hold for arrays of any length: no index of a merge leaves the
\* array or the list it merges into (Problem1/MergeSort.java:24-45).
THEOREM SortTypeCorrect == Spec => []TypeOK
<1>1. Shape => TypeOK
  <2> SUFFICES ASSUME Shape PROVE TypeOK
    OBVIOUS
  <2>1. Types
    BY DEF Shape
  <2>2. ASSUME NEW p \in Parts PROVE result[p] \in Seq(Values) /\ Len(result[p]) <= p.len
    <3>1. result[p] \in Seq(Values)
      BY <2>1 DEF Types
    <3>2. PICK a \in Nat, l \in Nat : a = p.i /\ l = p.len /\ End(p) = a + l
      BY Halves DEF End
    <3>7. Cursor(p) /\ k[p] \in Nat /\ m[p] \in Nat /\ Len(result[p]) \in Nat
      BY <2>1, Guards DEF Shape, Cursors
    <3>3. CASE pc[p] \in {"none", "started", "joining"}
      <4>1. Len(result[p]) = 0
        BY <3>3, <3>7 DEF Cursor
      <4> QED BY <3>1, <3>2, <4>1
    <3>4. CASE pc[p] = "merging"
      <4>0. J(p) \in Int
        BY <3>4, Halves DEF Shape, Halved
      <4>1. PICK j \in Int, x \in Int, y \in Int :
               j = J(p) /\ x = k[p] /\ y = m[p]
        BY <3>7, <4>0
      <4>2. x <= j /\ y <= a + l /\ Len(result[p]) = (x - a) + (y - j)
        BY <3>2, <3>4, <3>7, <4>1 DEF Cursor
      <4>3. Len(result[p]) <= l
        <5>1. (x - a) + (y - j) <= l
          BY <4>2
        <5> QED BY <4>2, <5>1
      <4> QED BY <3>1, <3>2, <4>3
    <3>5. CASE pc[p] = "copying"
      <4>1. m[p] <= a + l /\ Len(result[p]) = m[p] - a
        BY <3>2, <3>5, <3>7 DEF Cursor
      <4>2. Len(result[p]) <= l
        BY <3>2, <3>7, <4>1
      <4> QED BY <3>1, <3>2, <4>2
    <3>6. CASE pc[p] = "done"
      BY <3>1, <3>6, <3>7 DEF Cursor
    <3> QED BY <2>1, <3>1, <3>3, <3>4, <3>5, <3>6 DEF Types, Labels
  <2> QED BY <2>1, <2>2 DEF TypeOK, Types, Labels
<1> QED BY <1>1, ShapeHolds, PTL

LEMMA Disjoint ==
  ASSUME NEW p \in Parts, NEW q \in Parts, Apart(p, q)
  PROVE  \A x \in Int : ~(x \in Indices(p) /\ x \in Indices(q))
<1>1. PICK a \in Int, b \in Int, c \in Int, d \in Int :
         a = p.i /\ b = p.len /\ c = q.i /\ d = q.len
  BY Halves
<1>2. Indices(p) = a .. a + b - 1 /\ Indices(q) = c .. c + d - 1
  BY <1>1 DEF Indices
<1>3. a + b <= c \/ c + d <= a
  BY <1>1 DEF Apart, End
<1> QED BY <1>2, <1>3

Works(p) == p \in Parts /\ pc[p] \in {"started", "merging", "copying"}

LEMMA WorkersApart ==
  ASSUME Shape, NEW p, NEW q, Works(p), Works(q), p # q
  PROVE  Apart(p, q)
BY DEF Shape, Nested, Works, Begun, Apart

\* Of the threads that are not waiting no two work on the same element,
\* whatever the length of the array and the order the threads run in: they
\* need no lock (Problem1/MergeSort.java:67-75).
THEOREM SortersApart == Spec => []PartsApart
<1>1. Shape => PartsApart
  <2> SUFFICES ASSUME Shape, NEW p \in Parts, NEW q \in Parts, Works(p), Works(q), p # q
               PROVE  Indices(p) \cap Indices(q) = {}
    BY DEF PartsApart, Works
  <2>1. \A x \in Int : ~(x \in Indices(p) /\ x \in Indices(q))
    BY WorkersApart, Disjoint
  <2>2. Indices(p) \subseteq Int
    BY Halves DEF Indices
  <2> QED BY <2>1, <2>2
<1> QED BY <1>1, ShapeHolds, PTL
-------------------------------------------------------------------------------
\* Where f has v from index a on, before index b, and how often.
Having(f, a, b, v) == {x \in a .. b - 1 : f[x] = v}
Count(f, a, b, v) == Cardinality(Having(f, a, b, v))
Hit(w, v) == IF w = v THEN 1 ELSE 0

InOrder(f, a, b) == \A x, y \in a .. b - 1 : x < y => f[x] <= f[y]

\* merge has gone from i to c on the left and from j to d on the right of f: s
\* is in order, holds what has been passed, and what has not is no smaller.
MergedInto(s, f, i, c, j, d, e) ==
  /\ InOrder(s, 1, Len(s) + 1)
  /\ c < j => \A x \in 1 .. Len(s) : s[x] <= f[c]
  /\ d < e => \A x \in 1 .. Len(s) : s[x] <= f[d]
  /\ \A v \in Values : Count(s, 1, Len(s) + 1, v) = Count(f, i, c, v) + Count(f, j, d, v)

\* c elements of s are back in f, in the place of those that were merged; the
\* rest of f, from d on, goes on where s ends.
CopiedFrom(s, f, f0, i, c, d, e) ==
  /\ InOrder(s, 1, Len(s) + 1)
  /\ InOrder(f, d, e)
  /\ \A x \in 1 .. Len(s), y \in d .. e - 1 : s[x] <= f[y]
  /\ \A x \in i .. i + c - 1 : f[x] = s[x - i + 1]
  /\ \A v \in Values : Count(f, i, i + c, v) = Count(s, 1, c + 1, v)
  /\ \A v \in Values : Count(s, 1, Len(s) + 1, v) + Count(f, d, e, v) = Count(f0, i, e, v)

SortedFrom(f, f0, a, b) ==
  /\ InOrder(f, a, b)
  /\ \A v \in Values : Count(f, a, b, v) = Count(f0, a, b, v)

LEMMA HavingFinite ==
  ASSUME NEW f, NEW a \in Int, NEW b \in Int, NEW v
  PROVE  IsFiniteSet(Having(f, a, b, v)) /\ Count(f, a, b, v) \in Nat
<1>1. IsFiniteSet(a .. b - 1)
  <2>1. b - 1 \in Int
    OBVIOUS
  <2> QED BY <2>1, FS_Interval
<1>2. Having(f, a, b, v) \in SUBSET (a .. b - 1)
  BY DEF Having
<1>3. IsFiniteSet(Having(f, a, b, v))
  BY <1>1, <1>2, FS_Subset
<1> QED BY <1>3, FS_CardinalityType DEF Count

LEMMA CountNone ==
  ASSUME NEW f, NEW a \in Int, NEW v
  PROVE  Count(f, a, a, v) = 0
<1>1. Having(f, a, a, v) = {}
  BY DEF Having
<1> QED BY <1>1, FS_EmptySet DEF Count

LEMMA CountNext ==
  ASSUME NEW f, NEW a \in Int, NEW b \in Int, a <= b, NEW x, x = b + 1, NEW v
  PROVE  Count(f, a, x, v) = Count(f, a, b, v) + Hit(f[b], v)
<1> DEFINE H == Having(f, a, b, v)
<1>1. IsFiniteSet(H) /\ Count(f, a, b, v) \in Nat /\ b \notin H
  BY HavingFinite DEF Having
<1>2. CASE f[b] = v
  <2>1. Having(f, a, x, v) = H \cup {b}
    BY <1>2 DEF Having
  <2>2. Cardinality(H \cup {b}) = Cardinality(H) + 1
    BY <1>1, FS_AddElement
  <2> QED BY <1>2, <2>1, <2>2 DEF Count, Hit
<1>3. CASE f[b] # v
  <2>1. Having(f, a, x, v) = H
    BY <1>3 DEF Having
  <2> QED BY <1>1, <1>3, <2>1 DEF Count, Hit
<1> QED BY <1>2, <1>3

LEMMA CountSplit ==
  ASSUME NEW f, NEW a \in Int, NEW b \in Int, NEW c \in Int, a <= b, b <= c, NEW v
  PROVE  Count(f, a, c, v) = Count(f, a, b, v) + Count(f, b, c, v)
<1> DEFINE S == Having(f, a, b, v)
           T == Having(f, b, c, v)
<1>1. /\ IsFiniteSet(S) /\ IsFiniteSet(T)
      /\ Count(f, a, b, v) \in Nat /\ Count(f, b, c, v) \in Nat
  BY HavingFinite
<1>2. S \cap T = {} /\ Having(f, a, c, v) = S \cup T
  BY DEF Having
<1>3. Cardinality(S \cup T) = Cardinality(S) + Cardinality(T) - Cardinality(S \cap T)
  BY <1>1, FS_Union
<1>4. Cardinality(S \cap T) = 0
  BY <1>2, FS_EmptySet
<1> QED BY <1>1, <1>2, <1>3, <1>4 DEF Count

LEMMA CountSame ==
  ASSUME NEW f, NEW g, NEW a \in Int, NEW b \in Int,
         \A x \in a .. b - 1 : f[x] = g[x],
         NEW v
  PROVE  Count(f, a, b, v) = Count(g, a, b, v)
<1>1. Having(f, a, b, v) = Having(g, a, b, v)
  BY DEF Having
<1> QED BY <1>1 DEF Count

\* An element that none before it exceeds goes at the end of a list in order.
LEMMA InOrderNext ==
  ASSUME NEW s \in Seq(Values), InOrder(s, 1, Len(s) + 1), NEW w \in Values,
         \A x \in 1 .. Len(s) : s[x] <= w
  PROVE  LET t == Append(s, w) IN
         /\ t \in Seq(Values) /\ Len(t) = Len(s) + 1 /\ t[Len(t)] = w
         /\ \A x \in 1 .. Len(s) : t[x] = s[x]
         /\ InOrder(t, 1, Len(t) + 1)
         /\ \A v \in Values : Count(t, 1, Len(t) + 1, v)
               = Count(s, 1, Len(s) + 1, v) + Hit(w, v)
<1> DEFINE t == Append(s, w)
<1>1. PICK n \in Nat : n = Len(s)
  BY LenProperties
<1>2. /\ t \in Seq(Values) /\ Len(t) = n + 1 /\ t[n + 1] = w
      /\ \A x \in 1 .. n : t[x] = s[x]
  BY <1>1, AppendProperties
<1>3. Values \subseteq Int
  BY ConstantsAssumption
<1> HIDE DEF t
<1>4. InOrder(t, 1, n + 2)
  <2> SUFFICES ASSUME NEW x \in 1 .. n + 1, NEW y \in 1 .. n + 1, x < y
               PROVE  t[x] <= t[y]
    BY DEF InOrder
  <2>1. CASE y = n + 1
    BY <1>1, <1>2, <2>1
  <2>2. CASE y \in 1 .. n
    <3>1. x \in 1 .. n /\ s[x] <= s[y]
      BY <1>1, <2>2 DEF InOrder
    <3> QED BY <1>2, <2>2, <3>1
  <2> QED BY <2>1, <2>2
<1>5. ASSUME NEW v \in Values
      PROVE  Count(t, 1, n + 2, v) = Count(s, 1, n + 1, v) + Hit(w, v)
  <2>1. Count(t, 1, n + 2, v) = Count(t, 1, n + 1, v) + Hit(t[n + 1], v)
    <3>1. 1 \in Int /\ n + 1 \in Int /\ 1 <= n + 1 /\ n + 2 = (n + 1) + 1
      OBVIOUS
    <3> QED BY <3>1, CountNext
  <2>2. Count(t, 1, n + 1, v) = Count(s, 1, n + 1, v)
    <3>1. \A x \in 1 .. (n + 1) - 1 : t[x] = s[x]
      BY <1>2
    <3> QED BY <3>1, CountSame
  <2> QED BY <1>2, <2>1, <2>2
<1>6. Len(t) + 1 = n + 2
  BY <1>2
<1> QED BY <1>1, <1>2, <1>4, <1>5, <1>6 DEF t

\* merge takes from the left what the right does not undercut.
LEMMA TakesLeft ==
  ASSUME NEW s \in Seq(Values), NEW f, \A x \in 0 .. N - 1 : f[x] \in Values,
         NEW i \in Nat, NEW c \in Nat, NEW j \in Nat, NEW d \in Nat, NEW e \in Nat,
         i <= c, c < j, j <= d, d <= e, e <= N,
         InOrder(f, i, j), MergedInto(s, f, i, c, j, d, e)
  PROVE  (d < e => f[c] <= f[d]) => MergedInto(Append(s, f[c]), f, i, c + 1, j, d, e)
<1> DEFINE w == f[c]
           t == Append(s, w)
<1>0. N \in Nat /\ Values \subseteq Int
  BY ConstantsAssumption
<1>1. w \in Values /\ (d < e => f[d] \in Values) /\ (c + 1 < j => f[c + 1] \in Values)
  BY <1>0
<1>2. /\ InOrder(s, 1, Len(s) + 1)
      /\ \A x \in 1 .. Len(s) : s[x] <= w
      /\ d < e => \A x \in 1 .. Len(s) : s[x] <= f[d]
      /\ \A v \in Values : Count(s, 1, Len(s) + 1, v) = Count(f, i, c, v) + Count(f, j, d, v)
  BY DEF MergedInto
<1>3. /\ t \in Seq(Values) /\ Len(t) = Len(s) + 1 /\ t[Len(t)] = w
      /\ \A x \in 1 .. Len(s) : t[x] = s[x]
      /\ InOrder(t, 1, Len(t) + 1)
      /\ \A v \in Values : Count(t, 1, Len(t) + 1, v)
            = Count(s, 1, Len(s) + 1, v) + Hit(w, v)
  BY <1>1, <1>2, InOrderNext
<1>4. PICK n \in Nat : n = Len(s) /\ \A x \in 1 .. n : s[x] \in Int
  <2>1. Len(s) \in Nat /\ \A x \in 1 .. Len(s) : s[x] \in Values
    BY LenProperties, ElementOfSeq
  <2> QED BY <1>0, <2>1
<1>11. w \in Int /\ (d < e => f[d] \in Int) /\ (c + 1 < j => f[c + 1] \in Int)
  BY <1>0, <1>1 DEF w
<1> HIDE DEF t, w
<1>5. ASSUME NEW x \in 1 .. n + 1 PROVE t[x] \in Int /\ t[x] <= w
  <2>1. CASE x = n + 1
    BY <1>3, <1>4, <1>11, <2>1
  <2>2. CASE x \in 1 .. n
    <3>1. t[x] = s[x] /\ s[x] <= w /\ s[x] \in Int
      BY <1>2, <1>3, <1>4, <2>2
    <3> QED BY <3>1
  <2> QED BY <2>1, <2>2
<1>6. c + 1 < j => \A x \in 1 .. Len(t) : t[x] <= f[c + 1]
  <2> SUFFICES ASSUME c + 1 < j, NEW x \in 1 .. Len(t) PROVE t[x] <= f[c + 1]
    OBVIOUS
  <2>1. w <= f[c + 1]
    BY DEF InOrder, w
  <2>2. t[x] <= w /\ t[x] \in Int
    BY <1>3, <1>4, <1>5
  <2> QED BY <1>11, <2>1, <2>2
<1>7. d < e /\ w <= f[d] => \A x \in 1 .. Len(t) : t[x] <= f[d]
  <2> SUFFICES ASSUME d < e, w <= f[d], NEW x \in 1 .. Len(t) PROVE t[x] <= f[d]
    OBVIOUS
  <2>1. w <= f[d]
    OBVIOUS
  <2>2. t[x] <= w /\ t[x] \in Int
    BY <1>3, <1>4, <1>5
  <2> QED BY <1>11, <2>1, <2>2
<1>8. ASSUME NEW v \in Values
      PROVE  Count(t, 1, Len(t) + 1, v) = Count(f, i, c + 1, v) + Count(f, j, d, v)
  <2>0. PICK y \in Int : y = c + 1
    OBVIOUS
  <2>1. Count(f, i, y, v) = Count(f, i, c, v) + Hit(w, v)
    <3>1. i \in Int /\ c \in Int /\ i <= c
      OBVIOUS
    <3>2. Count(f, i, y, v) = Count(f, i, c, v) + Hit(f[c], v)
      BY <2>0, <3>1, CountNext
    <3> QED BY <3>2 DEF w
  <2>2. Count(f, i, c, v) \in Nat /\ Count(f, j, d, v) \in Nat
    BY HavingFinite
  <2>3. Hit(w, v) \in Nat
    BY DEF Hit
  <2> QED BY <1>2, <1>3, <2>0, <2>1, <2>2, <2>3
<1>9. (d < e => w <= f[d]) => MergedInto(t, f, i, c + 1, j, d, e)
  BY <1>3, <1>6, <1>7, <1>8 DEF MergedInto
<1> QED BY <1>9 DEF t, w

LEMMA TakesRight ==
  ASSUME NEW s \in Seq(Values), NEW f, \A x \in 0 .. N - 1 : f[x] \in Values,
         NEW i \in Nat, NEW c \in Nat, NEW j \in Nat, NEW d \in Nat, NEW e \in Nat,
         i <= c, c < j, j <= d, d < e, e <= N,
         InOrder(f, j, e), MergedInto(s, f, i, c, j, d, e),
         f[d] <= f[c]
  PROVE  MergedInto(Append(s, f[d]), f, i, c, j, d + 1, e)
<1> DEFINE w == f[d]
           t == Append(s, w)
<1>0. N \in Nat /\ Values \subseteq Int
  BY ConstantsAssumption
<1>1. w \in Values /\ f[c] \in Values /\ (d + 1 < e => f[d + 1] \in Values)
  BY <1>0
<1>2. /\ InOrder(s, 1, Len(s) + 1)
      /\ \A x \in 1 .. Len(s) : s[x] <= w
      /\ \A v \in Values : Count(s, 1, Len(s) + 1, v) = Count(f, i, c, v) + Count(f, j, d, v)
  BY DEF MergedInto
<1>3. /\ t \in Seq(Values) /\ Len(t) = Len(s) + 1 /\ t[Len(t)] = w
      /\ \A x \in 1 .. Len(s) : t[x] = s[x]
      /\ InOrder(t, 1, Len(t) + 1)
      /\ \A v \in Values : Count(t, 1, Len(t) + 1, v)
            = Count(s, 1, Len(s) + 1, v) + Hit(w, v)
  BY <1>1, <1>2, InOrderNext
<1>4. PICK n \in Nat : n = Len(s) /\ \A x \in 1 .. n : s[x] \in Int
  <2>1. Len(s) \in Nat /\ \A x \in 1 .. Len(s) : s[x] \in Values
    BY LenProperties, ElementOfSeq
  <2> QED BY <1>0, <2>1
<1>11. w \in Int /\ f[c] \in Int /\ (d + 1 < e => f[d + 1] \in Int)
  BY <1>0, <1>1 DEF w
<1> HIDE DEF t, w
<1>5. ASSUME NEW x \in 1 .. n + 1 PROVE t[x] \in Int /\ t[x] <= w
  <2>1. CASE x = n + 1
    BY <1>3, <1>4, <1>11, <2>1
  <2>2. CASE x \in 1 .. n
    <3>1. t[x] = s[x] /\ s[x] <= w /\ s[x] \in Int
      BY <1>2, <1>3, <1>4, <2>2
    <3> QED BY <3>1
  <2> QED BY <2>1, <2>2
<1>6. d + 1 < e => \A x \in 1 .. Len(t) : t[x] <= f[d + 1]
  <2> SUFFICES ASSUME d + 1 < e, NEW x \in 1 .. Len(t) PROVE t[x] <= f[d + 1]
    OBVIOUS
  <2>1. w <= f[d + 1]
    BY DEF InOrder, w
  <2>2. t[x] <= w /\ t[x] \in Int
    BY <1>3, <1>4, <1>5
  <2> QED BY <1>11, <2>1, <2>2
<1>7. \A x \in 1 .. Len(t) : t[x] <= f[c]
  <2> SUFFICES ASSUME NEW x \in 1 .. Len(t) PROVE t[x] <= f[c]
    OBVIOUS
  <2>1. w <= f[c]
    BY DEF w
  <2>2. t[x] <= w /\ t[x] \in Int
    BY <1>3, <1>4, <1>5
  <2> QED BY <1>11, <2>1, <2>2
<1>8. ASSUME NEW v \in Values
      PROVE  Count(t, 1, Len(t) + 1, v) = Count(f, i, c, v) + Count(f, j, d + 1, v)
  <2>1. Count(f, j, d + 1, v) = Count(f, j, d, v) + Hit(w, v)
    <3>1. \A x : x = d + 1 => Count(f, j, x, v) = Count(f, j, d, v) + Hit(f[d], v)
      <4>1. j \in Int /\ d \in Int /\ j <= d
        OBVIOUS
      <4> QED BY <4>1, CountNext
    <3> QED BY <3>1 DEF w
  <2>2. Count(f, i, c, v) \in Nat /\ Count(f, j, d, v) \in Nat
    BY HavingFinite
  <2>3. Hit(w, v) \in Nat
    BY DEF Hit
  <2> QED BY <1>2, <1>3, <2>1, <2>2, <2>3
<1>9. MergedInto(t, f, i, c, j, d + 1, e)
  BY <1>3, <1>6, <1>7, <1>8 DEF MergedInto
<1> QED BY <1>9 DEF t, w

\* With the left used up the merged list and the rest of the right are all of
\* the part, in order.
LEMMA MergeEnds ==
  ASSUME NEW s \in Seq(Values), NEW f, \A x \in 0 .. N - 1 : f[x] \in Values,
         NEW f0,
         NEW i \in Nat, NEW j \in Nat, NEW d \in Nat, NEW e \in Nat,
         i < j, j <= d, d <= e, e <= N,
         SortedFrom(f, f0, i, j), SortedFrom(f, f0, j, e),
         MergedInto(s, f, i, j, j, d, e)
  PROVE  CopiedFrom(s, f, f0, i, 0, d, e)
<1>0. N \in Nat /\ Values \subseteq Int
  BY ConstantsAssumption
<1>1. InOrder(s, 1, Len(s) + 1) /\ InOrder(f, d, e)
  BY DEF MergedInto, SortedFrom, InOrder
<1>2. \A x \in 1 .. Len(s), y \in d .. e - 1 : s[x] <= f[y]
  <2> SUFFICES ASSUME NEW x \in 1 .. Len(s), NEW y \in d .. e - 1 PROVE s[x] <= f[y]
    OBVIOUS
  <2>1. s[x] <= f[d]
    BY DEF MergedInto
  <2>2. f[d] \in Int /\ f[y] \in Int
    <3>1. d \in 0 .. N - 1 /\ y \in 0 .. N - 1
      BY <1>0
    <3> QED BY <1>0, <3>1
  <2>3. s[x] \in Int
    BY <1>0, ElementOfSeq
  <2>4. f[d] <= f[y]
    BY <2>2 DEF SortedFrom, InOrder
  <2> QED BY <2>1, <2>2, <2>3, <2>4
<1>3. ASSUME NEW v \in Values
      PROVE  /\ Count(f, i, i + 0, v) = Count(s, 1, 0 + 1, v)
             /\ Count(s, 1, Len(s) + 1, v) + Count(f, d, e, v) = Count(f0, i, e, v)
  <2>1. Count(f, i, i, v) = 0 /\ Count(s, 1, 1, v) = 0
    BY CountNone
  <2>2. Count(f, i, i + 0, v) = Count(s, 1, 0 + 1, v)
    BY <2>1
  <2>3. Count(s, 1, Len(s) + 1, v) = Count(f, i, j, v) + Count(f, j, d, v)
    BY DEF MergedInto
  <2>4. Count(f, j, e, v) = Count(f, j, d, v) + Count(f, d, e, v)
    BY CountSplit
  <2>5. Count(f0, i, e, v) = Count(f0, i, j, v) + Count(f0, j, e, v)
    <3>1. i <= j /\ j <= e
      OBVIOUS
    <3> QED BY <3>1, CountSplit
  <2>6. Count(f, i, j, v) = Count(f0, i, j, v) /\ Count(f, j, e, v) = Count(f0, j, e, v)
    BY DEF SortedFrom
  <2>7. /\ Count(f, i, j, v) \in Nat /\ Count(f, j, d, v) \in Nat /\ Count(f, d, e, v) \in Nat
    BY HavingFinite
  <2> QED BY <2>2, <2>3, <2>4, <2>5, <2>6, <2>7
<1> QED BY <1>1, <1>2, <1>3 DEF CopiedFrom

\* Copying one element back.
LEMMA CopiesOne ==
  ASSUME NEW s \in Seq(Values), NEW f, \A x \in 0 .. N - 1 : f[x] \in Values, NEW f0,
         NEW i \in Nat, NEW c \in Nat, NEW d \in Nat, NEW e \in Nat,
         i + c < d, d <= e, e <= N, Len(s) = d - i,
         CopiedFrom(s, f, f0, i, c, d, e),
         NEW g, \A x \in 0 .. N - 1 : g[x] = IF x = i + c THEN s[c + 1] ELSE f[x]
  PROVE  CopiedFrom(s, g, f0, i, c + 1, d, e)
<1>0. N \in Nat /\ Values \subseteq Int
  BY ConstantsAssumption
<1>1. PICK h \in Nat : h = i + c
  OBVIOUS
<1>2. \A x \in 0 .. N - 1 : g[x] = IF x = h THEN s[c + 1] ELSE f[x]
  BY <1>0, <1>1
<1>3. g[h] = s[c + 1] /\ (\A x \in i .. h - 1 : g[x] = f[x]) /\ (\A x \in d .. e - 1 : g[x] = f[x])
  BY <1>0, <1>1, <1>2
<1>4. InOrder(s, 1, Len(s) + 1) /\ InOrder(g, d, e)
  BY <1>3 DEF CopiedFrom, InOrder
<1>5. \A x \in 1 .. Len(s), y \in d .. e - 1 : s[x] <= g[y]
  BY <1>3 DEF CopiedFrom
<1>6. \A x \in i .. i + (c + 1) - 1 : g[x] = s[x - i + 1]
  <2> SUFFICES ASSUME NEW x \in i .. h PROVE g[x] = s[x - i + 1]
    BY <1>1
  <2>1. CASE x = h
    BY <1>1, <1>3, <2>1
  <2>2. CASE x \in i .. h - 1
    BY <1>1, <1>3, <2>2 DEF CopiedFrom
  <2> QED BY <1>1, <2>1, <2>2
<1>7. ASSUME NEW v \in Values
      PROVE  /\ Count(g, i, i + (c + 1), v) = Count(s, 1, (c + 1) + 1, v)
             /\ Count(s, 1, Len(s) + 1, v) + Count(g, d, e, v) = Count(f0, i, e, v)
  <2>1. Count(g, d, e, v) = Count(f, d, e, v) /\ Count(g, i, h, v) = Count(f, i, h, v)
    <3>1. i \in Int /\ h \in Int /\ d \in Int /\ e \in Int
      BY <1>1
    <3>2. Count(g, d, e, v) = Count(f, d, e, v)
      <4>1. Having(g, d, e, v) = Having(f, d, e, v)
        BY <1>3 DEF Having
      <4> QED BY <4>1 DEF Count
    <3>3. Count(g, i, h, v) = Count(f, i, h, v)
      <4>1. Having(g, i, h, v) = Having(f, i, h, v)
        BY <1>3, <3>1 DEF Having
      <4> QED BY <4>1 DEF Count
    <3> QED BY <3>2, <3>3
  <2>2. \A x : x = h + 1 => Count(g, i, x, v) = Count(g, i, h, v) + Hit(g[h], v)
    <3>1. i <= h /\ i \in Int /\ h \in Int
      BY <1>1
    <3> QED BY <3>1, CountNext
  <2>3. \A x : x = (c + 1) + 1 => Count(s, 1, x, v) = Count(s, 1, c + 1, v) + Hit(s[c + 1], v)
    <3>1. 1 <= c + 1 /\ 1 \in Int /\ c + 1 \in Int
      OBVIOUS
    <3> QED BY <3>1, CountNext
  <2>4. Count(f, i, h, v) = Count(s, 1, c + 1, v)
    BY <1>1 DEF CopiedFrom
  <2>5. Count(g, i, h + 1, v) = Count(s, 1, (c + 1) + 1, v)
    BY <1>3, <2>1, <2>2, <2>3, <2>4
  <2>6. i + (c + 1) = h + 1
    BY <1>1
  <2> QED BY <2>1, <2>5, <2>6 DEF CopiedFrom
<1> QED BY <1>4, <1>5, <1>6, <1>7 DEF CopiedFrom

\* When all is back the part is sorted.
LEMMA CopyEnds ==
  ASSUME NEW s \in Seq(Values), NEW f, \A x \in 0 .. N - 1 : f[x] \in Values, NEW f0,
         NEW i \in Nat, NEW c \in Nat, NEW d \in Nat, NEW e \in Nat,
         i + c = d, d <= e, e <= N, Len(s) = c,
         CopiedFrom(s, f, f0, i, c, d, e)
  PROVE  SortedFrom(f, f0, i, e)
<1>0. N \in Nat /\ Values \subseteq Int
  BY ConstantsAssumption
<1>1. \A x \in i .. d - 1 : f[x] = s[x - i + 1] /\ x - i + 1 \in 1 .. c
  BY DEF CopiedFrom
<1>2. InOrder(f, i, e)
  <2> SUFFICES ASSUME NEW x \in i .. e - 1, NEW y \in i .. e - 1, x < y
               PROVE  f[x] <= f[y]
    BY DEF InOrder
  <2>1. CASE y < d
    <3>1. PICK a \in 1 .. c, b \in 1 .. c : a = x - i + 1 /\ b = y - i + 1
      BY <1>1, <2>1
    <3>2. f[x] = s[a] /\ f[y] = s[b] /\ a < b
      BY <1>1, <2>1, <3>1
    <3>3. s[a] <= s[b]
      BY <3>1, <3>2 DEF CopiedFrom, InOrder
    <3> QED BY <3>2, <3>3
  <2>2. CASE x < d /\ ~(y < d)
    <3>1. PICK a \in 1 .. c : a = x - i + 1 /\ f[x] = s[a]
      BY <1>1, <2>2
    <3>2. y \in d .. e - 1
      BY <2>2
    <3> QED BY <3>1, <3>2 DEF CopiedFrom
  <2>3. CASE ~(x < d)
    BY <2>3 DEF CopiedFrom, InOrder
  <2> QED BY <2>1, <2>2, <2>3
<1>3. ASSUME NEW v \in Values PROVE Count(f, i, e, v) = Count(f0, i, e, v)
  <2>1. Count(f, i, e, v) = Count(f, i, d, v) + Count(f, d, e, v)
    <3>1. i <= d
      OBVIOUS
    <3> QED BY <3>1, CountSplit
  <2> QED BY <2>1 DEF CopiedFrom
<1> QED BY <1>2, <1>3 DEF SortedFrom

\* The facts about a part hold of any array that has the same elements there.
LEMMA SameSorted ==
  ASSUME NEW f, NEW g, NEW f0, NEW a \in Int, NEW b \in Int, SortedFrom(f, f0, a, b),
         \A x \in a .. b - 1 : g[x] = f[x]
  PROVE  SortedFrom(g, f0, a, b)
<1>1. InOrder(g, a, b)
  BY DEF SortedFrom, InOrder
<1>2. \A v : Count(g, a, b, v) = Count(f, a, b, v)
  BY CountSame
<1> QED BY <1>1, <1>2 DEF SortedFrom

LEMMA SameMerged ==
  ASSUME NEW s, NEW f, NEW g, NEW i \in Int, NEW c \in Int, NEW j \in Int,
         NEW d \in Int, NEW e \in Int, i <= c, c <= j, j <= d, d <= e, i < j,
         MergedInto(s, f, i, c, j, d, e),
         \A x \in i .. e - 1 : g[x] = f[x]
  PROVE  MergedInto(s, g, i, c, j, d, e)
<1>1. /\ \A x \in i .. c - 1 : g[x] = f[x]
      /\ \A x \in j .. d - 1 : g[x] = f[x]
      /\ c < j => g[c] = f[c]
      /\ d < e => g[d] = f[d]
  OBVIOUS
<1>2. \A v : Count(g, i, c, v) = Count(f, i, c, v) /\ Count(g, j, d, v) = Count(f, j, d, v)
  BY <1>1, CountSame
<1> QED BY <1>1, <1>2 DEF MergedInto

LEMMA SameCopied ==
  ASSUME NEW s, NEW f, NEW g, NEW f0, NEW i \in Int, NEW c \in Int,
         NEW d \in Int, NEW e \in Int, i + c <= d, 0 <= c, d <= e, i <= d,
         CopiedFrom(s, f, f0, i, c, d, e),
         \A x \in i .. e - 1 : g[x] = f[x]
  PROVE  CopiedFrom(s, g, f0, i, c, d, e)
<1>1. /\ \A x \in i .. i + c - 1 : g[x] = f[x]
      /\ \A x \in d .. e - 1 : g[x] = f[x]
  OBVIOUS
<1>2. \A v : /\ Count(g, i, i + c, v) = Count(f, i, i + c, v)
             /\ Count(g, d, e, v) = Count(f, d, e, v)
  <2>1. i + c \in Int
    OBVIOUS
  <2>2. \A v : Count(g, i, i + c, v) = Count(f, i, i + c, v)
    BY <1>1, <2>1, CountSame
  <2>3. \A v : Count(g, d, e, v) = Count(f, d, e, v)
    <3>1. \A v : Having(g, d, e, v) = Having(f, d, e, v)
      BY <1>1 DEF Having
    <3> QED BY <3>1 DEF Count
  <2> QED BY <2>2, <2>3
<1>3. InOrder(g, d, e)
  BY <1>1 DEF CopiedFrom, InOrder
<1> QED BY <1>1, <1>2, <1>3 DEF CopiedFrom
-------------------------------------------------------------------------------
Untouched(p) == \A x \in p.i .. End(p) - 1 : arr[x] = arr0[x]

\* What each thread has achieved where it is.
Progress(p) ==
  /\ pc[p] = "started" => Untouched(p)
  /\ pc[p] \in {"joining", "merging"} =>
       /\ pc[LeftPart(p)] = "done" => SortedFrom(arr, arr0, p.i, J(p))
       /\ pc[RightPart(p)] = "done" => SortedFrom(arr, arr0, J(p), End(p))
  /\ pc[p] = "merging" => MergedInto(result[p], arr, p.i, k[p], J(p), m[p], End(p))
  /\ pc[p] = "copying" => CopiedFrom(result[p], arr, arr0, p.i, k[p], m[p], End(p))

Sorting == /\ \A p \in Parts : Progress(p)
           /\ pc[Whole] = "done" => SortedFrom(arr, arr0, 0, N)
LEMMA InitSorting == Init => Sorting
<1> SUFFICES ASSUME Init PROVE Sorting
  OBVIOUS
<1>1. \A p \in Parts : pc[p] \in {"none", "started"} /\ Untouched(p)
  BY DEF Init, Untouched
<1>2. pc[Whole] = "started"
  BY WholePart DEF Init
<1> QED BY <1>1, <1>2 DEF Sorting, Progress

LEMMA ArrayTypes ==
  ASSUME Types
  PROVE  /\ \A x \in 0 .. N - 1 : arr[x] \in Values
         /\ N \in Nat /\ Values \subseteq Int
BY ConstantsAssumption DEF Types

\* A thread changes the array in its own part only, and only when it copies.
LEMMA ArrayKept ==
  ASSUME Shape, NEW r \in Parts, Step(r), NEW a \in Nat, NEW b \in Nat, b <= N,
         b <= r.i \/ End(r) <= a
  PROVE  \A x \in a .. b - 1 : arr'[x] = arr[x]
<1>0. Types
  BY DEF Shape
<1>1. CASE CopyBack(r)
  <2>1. PICK h \in Int : h = r.i + k[r]
    BY <1>0, Guards, Halves
  <2>2. r.i <= h /\ h < End(r)
    <3>1. pc[r] = "copying" /\ k[r] < m[r] - r.i
      BY <1>0, <1>1, Guards DEF CopyBack
    <3>2. m[r] <= End(r)
      BY <3>1 DEF Shape, Cursors, Cursor
    <3>3. PICK c \in Nat, d \in Nat, i \in Nat, e \in Int :
             c = k[r] /\ d = m[r] /\ i = r.i /\ e = End(r)
      BY <1>0, Guards, Halves
    <3> QED BY <2>1, <3>1, <3>2, <3>3
  <2>3. ASSUME NEW x \in a .. b - 1 PROVE arr'[x] = arr[x]
    <3>1. x \in 0 .. N - 1 /\ x # h
      BY <1>0, <2>1, <2>2, ArrayTypes, Halves
    <3> QED BY <1>0, <1>1, <2>1, <3>1 DEF CopyBack, Types
  <2> QED BY <2>3
<1>2. CASE ~CopyBack(r)
  <2>1. arr' = arr
    BY <1>2 DEF Step, ReturnSingle, Fork, Join, TakeLeft, TakeRight, TakeNoMore, Return
  <2> QED BY <2>1
<1> QED BY <1>1, <1>2

LEMMA HistoryKept ==
  ASSUME NEW r \in Parts, Step(r)
  PROVE  arr0' = arr0
BY DEF Step, ReturnSingle, Fork, Join, TakeLeft, TakeRight, TakeNoMore, CopyBack, Return

\* A thread returns when its part is sorted.
LEMMA ReturnsSorted ==
  ASSUME Shape, NEW r \in Parts, Progress(r), Step(r), pc'[r] = "done"
  PROVE  arr' = arr /\ SortedFrom(arr, arr0, r.i, End(r))
<1>0. Types
  BY DEF Shape
<1>1. CASE ReturnSingle(r)
  <2>1. pc[r] = "started" /\ r.len = 1 /\ arr' = arr
    BY <1>1 DEF ReturnSingle, At
  <2>2. \A x \in r.i .. End(r) - 1 : arr[x] = arr0[x]
    BY <2>1 DEF Progress, Untouched
  <2>3. r.i \in Int /\ End(r) \in Int /\ End(r) = r.i + 1
    BY <2>1, Halves DEF End
  <2>4. InOrder(arr, r.i, End(r))
    BY <2>3 DEF InOrder
  <2>5. \A v : Having(arr, r.i, End(r), v) = Having(arr0, r.i, End(r), v)
    BY <2>2 DEF Having
  <2> QED BY <2>1, <2>4, <2>5 DEF SortedFrom, Count
<1>2. CASE Return(r)
  <2>1. pc[r] = "copying" /\ k[r] >= m[r] - r.i /\ arr' = arr
    BY <1>0, <1>2, Guards DEF Return, At
  <2>2. k[r] <= m[r] - r.i /\ m[r] <= End(r) /\ Len(result[r]) = m[r] - r.i
    BY <2>1 DEF Shape, Cursors, Cursor
  <2>3. PICK c \in Nat : c = k[r]
    BY <1>0, Guards
  <2>4. PICK d \in Nat : d = m[r]
    BY <1>0, Guards
  <2>5. PICK i \in Nat, e \in Nat : i = r.i /\ e = End(r)
    BY Halves DEF End
  <2>6. i + c = d /\ d <= e /\ Len(result[r]) = c
    BY <2>1, <2>2, <2>3, <2>4, <2>5
  <2>7. CopiedFrom(result[r], arr, arr0, i, c, d, e)
    BY <2>1, <2>3, <2>4, <2>5 DEF Progress
  <2>8. e <= N /\ result[r] \in Seq(Values) /\ \A x \in 0 .. N - 1 : arr[x] \in Values
    BY <1>0, <2>5, Halves, ArrayTypes DEF Types
  <2>9. SortedFrom(arr, arr0, i, e)
    BY <2>6, <2>7, <2>8, CopyEnds
  <2> QED BY <2>1, <2>5, <2>9
<1>3. CASE Fork(r)
  <2>1. r # LeftPart(r) /\ r # RightPart(r)
    BY <1>3, Halves DEF Fork
  <2> QED BY <1>0, <1>3, <2>1 DEF Fork, Types
<1>4. CASE Join(r) \/ TakeNoMore(r) \/ TakeLeft(r) \/ TakeRight(r) \/ CopyBack(r)
  BY <1>0, <1>4 DEF Join, TakeNoMore, TakeLeft, TakeRight, CopyBack, At, Types
<1> QED BY <1>1, <1>2, <1>3, <1>4 DEF Step

\* A half that is done stays sorted while its other half, or a part of it, is
\* still being sorted, and while other parts are.
LEMMA HalfKept ==
  ASSUME Shape, NEW r \in Parts, Step(r), NEW q \in Parts, q # r,
         pc[q] \in {"joining", "merging"},
         NEW h \in {LeftPart(q), RightPart(q)}, pc[h] = "done",
         SortedFrom(arr, arr0, h.i, End(h))
  PROVE  SortedFrom(arr', arr0, h.i, End(h))
<1>1. /\ q.len # 1 /\ q \in Begun /\ h \in Begun /\ h \in Parts
      /\ LeftPart(q) \in Begun /\ RightPart(q) \in Begun
  BY DEF Shape, Halved, Begun
<1>2. /\ h.i \in Nat /\ End(h) \in Nat /\ End(h) <= N /\ h.i \in Int /\ End(h) \in Int
  BY <1>1, Halves DEF End
<1>3. CASE Apart(r, h)
  <2>1. \A x \in h.i .. End(h) - 1 : arr'[x] = arr[x]
    BY <1>2, <1>3, ArrayKept DEF Apart
  <2> QED BY <1>2, <2>1, SameSorted
<1>4. CASE ~CopyBack(r)
  <2>1. arr' = arr
    BY <1>4 DEF Step, ReturnSingle, Fork, Join, TakeLeft, TakeRight, TakeNoMore, Return
  <2> QED BY <2>1
<1>5. CASE CopyBack(r)
  <2>1. pc[r] = "copying" /\ r \in Begun
    BY <1>5 DEF CopyBack, Begun
  <2>2. ~Inside(r, h)
    BY <1>1, <2>1 DEF Shape, Nested
  <2>3. ~Inside(q, r)
    BY <1>1, <2>1 DEF Shape, Nested
  <2>4. CASE Apart(q, r)
    BY <1>1, <1>3, <2>4, Halves DEF Apart
  <2>5. CASE Inside(r, q)
    <3>1. /\ Inside(r, LeftPart(q)) \/ Inside(LeftPart(q), r) \/ Apart(r, LeftPart(q))
          /\ Inside(r, RightPart(q)) \/ Inside(RightPart(q), r) \/ Apart(r, RightPart(q))
      BY <1>1, <2>1 DEF Shape, Nested
    <3>2. Inside(r, LeftPart(q)) \/ Inside(r, RightPart(q))
      BY <1>1, <2>5, <3>1, Trichotomy
    <3>3. Apart(r, h)
      BY <1>1, <2>2, <3>2, Halves DEF Inside, Apart
    <3> QED BY <1>3, <3>3
  <2> QED BY <1>1, <2>1, <2>3, <2>4, <2>5 DEF Shape, Nested
<1> QED BY <1>4, <1>5

LEMMA OthersProgress ==
  ASSUME Shape, Shape', Sorting, NEW r \in Parts, Step(r), NEW q \in Parts, q # r
  PROVE  Progress(q)'
<1>0. Types /\ Progress(q) /\ Progress(r) /\ arr0' = arr0
  BY HistoryKept DEF Shape, Sorting
<1>1. /\ k'[q] = k[q] /\ m'[q] = m[q] /\ result'[q] = result[q]
      /\ pc'[q] = pc[q] \/ (Fork(r) /\ pc[q] = "none" /\ pc'[q] = "started")
  BY OthersKeep
<1>2. /\ q.i \in Nat /\ End(q) \in Nat /\ End(q) <= N /\ q.i \in Int /\ End(q) \in Int
  BY Halves DEF End
<1>3. ASSUME pc'[q] = pc[q], Works(q) PROVE \A x \in q.i .. End(q) - 1 : arr'[x] = arr[x]
  <2>1. CASE CopyBack(r)
    <3>1. Apart(r, q)
      BY <1>3, <2>1, WorkersApart DEF Works, CopyBack
    <3> QED BY <1>2, <3>1, ArrayKept DEF Apart
  <2>2. CASE ~CopyBack(r)
    BY <2>2 DEF Step, ReturnSingle, Fork, Join, TakeLeft, TakeRight, TakeNoMore, Return
  <2> QED BY <2>1, <2>2
<1>4. pc'[q] = "started" => \A x \in q.i .. End(q) - 1 : arr'[x] = arr0'[x]
  <2>1. CASE pc[q] = "started" /\ pc'[q] = "started"
    BY <1>0, <1>3, <2>1 DEF Works, Progress, Untouched
  <2>2. CASE Fork(r) /\ pc[q] # pc'[q]
    <3>1. pc[r] = "started" /\ arr' = arr /\ r.len # 1
      BY <2>2 DEF Fork
    <3>2. q = LeftPart(r) \/ q = RightPart(r)
      BY <1>0, <2>2 DEF Fork, Types
    <3>3. r.i <= q.i /\ End(q) <= End(r) /\ End(r) \in Int /\ r.i \in Int
      BY <3>1, <3>2, Halves
    <3>4. \A x \in r.i .. End(r) - 1 : arr[x] = arr0[x]
      BY <1>0, <3>1 DEF Progress, Untouched
    <3> QED BY <1>0, <1>2, <3>1, <3>3, <3>4
  <2> QED BY <1>1, <2>1, <2>2
<1>5. ASSUME pc'[q] \in {"joining", "merging"}, NEW h \in {LeftPart(q), RightPart(q)},
             pc'[h] = "done"
      PROVE  SortedFrom(arr', arr0', h.i, End(h))
  <2>0. pc[q] = pc'[q] /\ q.len # 1 /\ h \in Parts
    BY <1>1, <1>5, Halves DEF Shape, Halved
  <2>1. CASE h = r
    BY <1>0, <1>5, <2>1, ReturnsSorted
  <2>2. CASE h # r
    <3>1. pc[h] = "done"
      <4>1. pc'[h] = pc[h] \/ pc'[h] = "started"
        BY <2>0, <2>2, OthersKeep
      <4> QED BY <1>5, <4>1
    <3>2. SortedFrom(arr, arr0, h.i, End(h))
      BY <1>0, <1>5, <2>0, <3>1, Halves DEF Progress
    <3> QED BY <1>0, <1>5, <2>0, <3>1, <3>2, HalfKept
  <2> QED BY <2>1, <2>2
<1>6. pc'[q] \in {"joining", "merging"} =>
        /\ pc'[LeftPart(q)] = "done" => SortedFrom(arr', arr0', q.i, J(q))
        /\ pc'[RightPart(q)] = "done" => SortedFrom(arr', arr0', J(q), End(q))
  <2> SUFFICES ASSUME pc'[q] \in {"joining", "merging"}
               PROVE  /\ pc'[LeftPart(q)] = "done" => SortedFrom(arr', arr0', q.i, J(q))
                      /\ pc'[RightPart(q)] = "done" => SortedFrom(arr', arr0', J(q), End(q))
    OBVIOUS
  <2>1. q.len # 1
    BY <1>1 DEF Shape, Halved
  <2>2. /\ LeftPart(q).i = q.i /\ End(LeftPart(q)) = J(q)
        /\ RightPart(q).i = J(q) /\ End(RightPart(q)) = End(q)
    BY <2>1, Halves
  <2>3. pc'[LeftPart(q)] = "done" => SortedFrom(arr', arr0', LeftPart(q).i, End(LeftPart(q)))
    BY <1>5
  <2>4. pc'[RightPart(q)] = "done" => SortedFrom(arr', arr0', RightPart(q).i, End(RightPart(q)))
    BY <1>5
  <2> QED BY <2>2, <2>3, <2>4
<1>7. pc'[q] = "merging" =>
        MergedInto(result'[q], arr', q.i, k'[q], J(q), m'[q], End(q))
  <2> SUFFICES ASSUME pc'[q] = "merging"
               PROVE  MergedInto(result[q], arr', q.i, k[q], J(q), m[q], End(q))
    BY <1>1
  <2>1. pc[q] = "merging" /\ q.len # 1
    BY <1>1 DEF Shape, Halved
  <2>2. /\ q.i <= k[q] /\ k[q] <= J(q) /\ J(q) <= m[q] /\ m[q] <= End(q)
    BY <2>1 DEF Shape, Cursors, Cursor
  <2>3. /\ J(q) \in Int /\ q.i < J(q) /\ k[q] \in Int /\ m[q] \in Int
    <3>1. J(q) \in Int /\ q.i < J(q)
      BY <2>1, Halves
    <3>2. k[q] \in Int /\ m[q] \in Int
      BY <1>0, Guards
    <3> QED BY <3>1, <3>2
  <2>4. \A x \in q.i .. End(q) - 1 : arr'[x] = arr[x]
    BY <1>1, <1>3, <2>1 DEF Works
  <2>5. MergedInto(result[q], arr, q.i, k[q], J(q), m[q], End(q))
    BY <1>0, <2>1 DEF Progress
  <2> QED BY <1>2, <2>2, <2>3, <2>4, <2>5, SameMerged
<1>8. pc'[q] = "copying" =>
        CopiedFrom(result'[q], arr', arr0', q.i, k'[q], m'[q], End(q))
  <2> SUFFICES ASSUME pc'[q] = "copying"
               PROVE  CopiedFrom(result[q], arr', arr0, q.i, k[q], m[q], End(q))
    BY <1>0, <1>1
  <2>1. pc[q] = "copying" /\ q.len # 1
    BY <1>1 DEF Shape, Halved
  <2>2. PICK i \in Nat, c \in Nat, d \in Nat, e \in Nat :
           i = q.i /\ c = k[q] /\ d = m[q] /\ e = End(q)
    BY <1>0, <1>2, Guards
  <2>3. /\ c <= d - i /\ d <= e
    BY <2>1, <2>2 DEF Shape, Cursors, Cursor
  <2>4. \A x \in i .. e - 1 : arr'[x] = arr[x]
    BY <1>1, <1>3, <2>1, <2>2 DEF Works
  <2>5. CopiedFrom(result[q], arr, arr0, i, c, d, e)
    BY <1>0, <2>1, <2>2 DEF Progress
  <2>6. i + c <= d /\ 0 <= c /\ i <= d
    BY <2>3
  <2>7. i \in Int /\ c \in Int /\ d \in Int /\ e \in Int
    OBVIOUS
  <2>8. CopiedFrom(result[q], arr', arr0, i, c, d, e)
    BY <2>3, <2>4, <2>5, <2>6, <2>7, SameCopied
  <2> QED BY <2>2, <2>8
<1> QED BY <1>4, <1>6, <1>7, <1>8 DEF Progress, Untouched

LEMMA OwnProgress ==
  ASSUME Shape, Shape', Sorting, NEW p \in Parts, Step(p)
  PROVE  Progress(p)'
<1>0. Types /\ Progress(p) /\ Cursor(p) /\ arr0' = arr0
  BY HistoryKept DEF Shape, Sorting, Cursors
<1>1. /\ p.i \in Nat /\ End(p) \in Nat /\ End(p) <= N
      /\ k[p] \in Nat /\ m[p] \in Nat /\ result[p] \in Seq(Values)
      /\ \A x \in 0 .. N - 1 : arr[x] \in Values
      /\ N \in Nat /\ Values \subseteq Int
  BY <1>0, Halves, Guards, ArrayTypes DEF End
<1>2. CASE ReturnSingle(p) \/ Return(p)
  <2>1. pc'[p] = "done"
    BY <1>0, <1>2 DEF ReturnSingle, Return, At, Types
  <2> QED BY <2>1 DEF Progress
<1>3. CASE Fork(p)
  <2>1. p # LeftPart(p) /\ p # RightPart(p) /\ LeftPart(p) \in Parts /\ RightPart(p) \in Parts
    BY <1>3, Halves DEF Fork
  <2>2. pc'[p] = "joining" /\ pc'[LeftPart(p)] = "started" /\ pc'[RightPart(p)] = "started"
    BY <1>0, <1>3, <2>1 DEF Fork, Types
  <2> QED BY <2>2 DEF Progress
<1>4. CASE Join(p)
  <2>1. /\ pc[p] = "joining" /\ pc'[p] = "merging" /\ k'[p] = p.i /\ m'[p] = J(p)
        /\ result'[p] = <<>> /\ arr' = arr
        /\ pc[LeftPart(p)] = "done" /\ pc[RightPart(p)] = "done" /\ p.len # 1
    BY <1>0, <1>4 DEF Join, At, Types, Cursor, Shape, Halved
  <2>2. p.i \in Int /\ J(p) \in Int
    BY <2>1, Halves
  <2>3. MergedInto(<<>>, arr, p.i, p.i, J(p), J(p), End(p))
    <3>1. Len(<<>>) = 0
      OBVIOUS
    <3>2. \A v : /\ Count(<<>>, 1, 1, v) = 0
                 /\ Count(arr, p.i, p.i, v) = 0 /\ Count(arr, J(p), J(p), v) = 0
      BY <2>2, CountNone
    <3>3. InOrder(<<>>, 1, 1)
      BY DEF InOrder
    <3> QED BY <3>1, <3>2, <3>3 DEF MergedInto
  <2>4. SortedFrom(arr, arr0, p.i, J(p)) /\ SortedFrom(arr, arr0, J(p), End(p))
    BY <1>0, <2>1 DEF Progress
  <2> QED BY <1>0, <2>1, <2>3, <2>4 DEF Progress
<1>5. ASSUME pc[p] = "merging"
      PROVE  /\ p.len # 1 /\ J(p) \in Nat /\ p.i < J(p)
             /\ p.i <= k[p] /\ k[p] <= J(p) /\ J(p) <= m[p] /\ m[p] <= End(p)
             /\ SortedFrom(arr, arr0, p.i, J(p)) /\ SortedFrom(arr, arr0, J(p), End(p))
             /\ MergedInto(result[p], arr, p.i, k[p], J(p), m[p], End(p))
  <2>1. p.len # 1 /\ LeftPart(p) \in Begun /\ RightPart(p) \in Begun
    BY <1>5 DEF Shape, Halved
  <2>2. J(p) \in Nat /\ p.i < J(p) /\ p \in Begun
    BY <1>5, <2>1, Halves DEF Begun
  <2>3. pc[LeftPart(p)] = "done" /\ pc[RightPart(p)] = "done"
    <3>1. /\ Inside(LeftPart(p), p) /\ Inside(RightPart(p), p)
          /\ p # LeftPart(p) /\ p # RightPart(p)
      BY <2>1, Halves DEF Inside
    <3> QED BY <1>5, <2>1, <2>2, <3>1 DEF Shape, Nested
  <2> QED BY <1>0, <1>5, <2>1, <2>2, <2>3 DEF Progress, Cursor
<1>6. CASE TakeLeft(p)
  <2>1. /\ pc[p] = "merging" /\ pc' = pc /\ arr' = arr /\ m' = m
        /\ k'[p] = k[p] + 1 /\ result'[p] = Append(result[p], arr[k[p]])
        /\ k[p] < J(p) /\ (m[p] < End(p) => arr[k[p]] < arr[m[p]])
    BY <1>0, <1>6, Guards DEF TakeLeft, Types
  <2>2. m[p] < End(p) => arr[k[p]] <= arr[m[p]]
    <3> SUFFICES ASSUME m[p] < End(p) PROVE arr[k[p]] <= arr[m[p]]
      OBVIOUS
    <3>1. k[p] \in 0 .. N - 1 /\ m[p] \in 0 .. N - 1
      BY <1>1, <1>5, <2>1
    <3>2. arr[k[p]] \in Int /\ arr[m[p]] \in Int
      BY <1>1, <3>1
    <3> QED BY <2>1, <3>2
  <2>3. InOrder(arr, p.i, J(p))
    BY <1>5, <2>1 DEF SortedFrom
  <2>4. MergedInto(Append(result[p], arr[k[p]]), arr, p.i, k[p] + 1, J(p), m[p], End(p))
    BY <1>1, <1>5, <2>1, <2>2, <2>3, TakesLeft
  <2> QED BY <1>0, <1>5, <2>1, <2>4 DEF Progress
<1>7. CASE TakeRight(p)
  <2>1. /\ pc[p] = "merging" /\ pc' = pc /\ arr' = arr /\ k' = k
        /\ m'[p] = m[p] + 1 /\ result'[p] = Append(result[p], arr[m[p]])
        /\ k[p] < J(p) /\ m[p] < End(p) /\ ~(arr[k[p]] < arr[m[p]])
    BY <1>0, <1>7, Guards DEF TakeRight, Types
  <2>2. arr[m[p]] <= arr[k[p]]
    <3>1. k[p] \in 0 .. N - 1 /\ m[p] \in 0 .. N - 1
      BY <1>1, <1>5, <2>1
    <3>2. arr[k[p]] \in Int /\ arr[m[p]] \in Int
      BY <1>1, <3>1
    <3> QED BY <2>1, <3>2
  <2>3. InOrder(arr, J(p), End(p))
    BY <1>5, <2>1 DEF SortedFrom
  <2>4. MergedInto(Append(result[p], arr[m[p]]), arr, p.i, k[p], J(p), m[p] + 1, End(p))
    BY <1>1, <1>5, <2>1, <2>2, <2>3, TakesRight
  <2> QED BY <1>0, <1>5, <2>1, <2>4 DEF Progress
<1>8. CASE TakeNoMore(p)
  <2>1. /\ pc[p] = "merging" /\ pc'[p] = "copying" /\ arr' = arr /\ m' = m
        /\ k'[p] = 0 /\ result' = result /\ ~(k[p] < J(p))
    BY <1>0, <1>8, Guards DEF TakeNoMore, At, Types
  <2>2. k[p] = J(p)
    BY <1>1, <1>5, <2>1
  <2>3. CopiedFrom(result[p], arr, arr0, p.i, 0, m[p], End(p))
    BY <1>1, <1>5, <2>1, <2>2, MergeEnds
  <2> QED BY <1>0, <2>1, <2>3 DEF Progress
<1>9. CASE CopyBack(p)
  <2>1. /\ pc[p] = "copying" /\ pc' = pc /\ m' = m /\ result' = result
        /\ k'[p] = k[p] + 1 /\ k[p] < m[p] - p.i
        /\ arr' = [arr EXCEPT ![p.i + k[p]] = result[p][k[p] + 1]]
    BY <1>0, <1>9, Guards DEF CopyBack, Types
  <2>2. PICK i \in Nat, c \in Nat, d \in Nat, e \in Nat :
           i = p.i /\ c = k[p] /\ d = m[p] /\ e = End(p)
    BY <1>1
  <2>3. i + c < d /\ d <= e /\ e <= N /\ Len(result[p]) = d - i
    BY <1>0, <1>1, <2>1, <2>2 DEF Cursor
  <2>4. \A x \in 0 .. N - 1 : arr'[x] = IF x = i + c THEN result[p][c + 1] ELSE arr[x]
    BY <1>0, <2>1, <2>2 DEF Types
  <2>5. CopiedFrom(result[p], arr, arr0, i, c, d, e)
    BY <1>0, <2>1, <2>2 DEF Progress
  <2>6. CopiedFrom(result[p], arr', arr0, i, c + 1, d, e)
    BY <1>1, <2>3, <2>4, <2>5, CopiesOne
  <2> QED BY <1>0, <2>1, <2>2, <2>6 DEF Progress
<1> QED BY <1>2, <1>3, <1>4, <1>6, <1>7, <1>8, <1>9 DEF Step

LEMMA StepSorting ==
  ASSUME Shape, Shape', Sorting, NEW p \in Parts, Step(p)
  PROVE  Sorting'
<1>1. \A q \in Parts : Progress(q)'
  BY OwnProgress, OthersProgress
<1>2. ASSUME pc'[Whole] = "done" PROVE SortedFrom(arr', arr0', 0, N)
  <2>1. CASE p = Whole
    <3>1. Whole.i = 0 /\ End(Whole) = N
      BY ConstantsAssumption DEF Whole, End
    <3> QED BY <1>2, <2>1, <3>1, ReturnsSorted, HistoryKept DEF Sorting
  <2>2. CASE p # Whole
    <3>1. pc[Whole] = "done"
      <4>1. pc'[Whole] = pc[Whole] \/ pc'[Whole] = "started"
        BY <2>2, OthersKeep, WholePart
      <4> QED BY <1>2, <4>1
    <3>2. pc[p] # "none" /\ pc[p] # "done"
      BY DEF Step, ReturnSingle, Fork, Join, TakeLeft, TakeRight, TakeNoMore, CopyBack,
             Return, At
    <3>3. Whole \in Begun /\ p \in Begun /\ Inside(p, Whole)
      BY <3>1, <3>2, WholePart DEF Begun
    <3> QED BY <2>2, <3>1, <3>2, <3>3 DEF Shape, Nested
  <2> QED BY <2>1, <2>2
<1> QED BY <1>1, <1>2 DEF Sorting

LEMMA SortedMeans ==
  ASSUME NEW p \in Parts, SortedFrom(arr, arr0, p.i, End(p))
  PROVE  Sorted(p)
<1>1. Indices(p) = p.i .. End(p) - 1
  <2>1. p.i + (p.len - 1) = End(p) - 1
    <3>1. p.i \in Int /\ p.len \in Int
      BY Halves
    <3> QED BY <3>1 DEF End
  <2> QED BY <2>1 DEF Indices
<1>2. \A x, y \in Indices(p) : x < y => arr[x] <= arr[y]
  BY <1>1 DEF SortedFrom, InOrder
<1>3. \A v : /\ {x \in Indices(p) : arr[x] = v} = Having(arr, p.i, End(p), v)
             /\ {x \in Indices(p) : arr0[x] = v} = Having(arr0, p.i, End(p), v)
  BY <1>1 DEF Having
<1> QED BY <1>2, <1>3 DEF SortedFrom, Sorted, Count

\* For every array and every order in which the threads run: a part is sorted,
\* and has the elements it had at first, from its thread's return until the
\* merge that waited for it copies back, and the whole array is sorted at the
\* end (Problem1/MergeSort.java:24-76).
THEOREM SortIsRight == Spec => []SortedWhenDone
<1>1. Shape /\ Shape' /\ Sorting /\ [Next]_vars => Sorting'
  <2> SUFFICES ASSUME Shape, Shape', Sorting, [Next]_vars PROVE Sorting'
    OBVIOUS
  <2>1. CASE UNCHANGED vars
    BY <2>1 DEF vars, Sorting, Progress, Untouched
  <2>2. ASSUME NEW p \in Parts, Step(p) PROVE Sorting'
    BY <2>2, StepSorting
  <2> QED BY <2>1, <2>2 DEF Next, Terminating
<1>2. Shape /\ Sorting => SortedWhenDone
  <2> SUFFICES ASSUME Shape, Sorting PROVE SortedWhenDone
    OBVIOUS
  <2>1. pc[Whole] = "done" => Sorted(Whole)
    <3>1. Whole.i = 0 /\ End(Whole) = N
      BY ConstantsAssumption DEF Whole, End
    <3> QED BY <3>1, WholePart, SortedMeans DEF Sorting
  <2>2. ASSUME NEW p \in Parts, pc[p] \in {"joining", "merging"},
               NEW half \in {LeftPart(p), RightPart(p)}, pc[half] = "done"
        PROVE  Sorted(half)
    <3>1. p.len # 1
      BY <2>2 DEF Shape, Halved
    <3>2. half \in Parts /\ SortedFrom(arr, arr0, half.i, End(half))
      BY <2>2, <3>1, Halves DEF Sorting, Progress
    <3> QED BY <3>2, SortedMeans
  <2> QED BY <2>1, <2>2 DEF SortedWhenDone
<1> QED BY <1>1, <1>2, InitSorting, ShapeHolds, PTL DEF Spec
===============================================================================
