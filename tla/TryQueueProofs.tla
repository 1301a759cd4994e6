---------------------------- MODULE TryQueueProofs ----------------------------
(***************************************************************************)
(* Theorems about the queue of TryQueue, for any numbers of threads, items *)
(* and blocks: its ring is guarded by its lock, and implements TryFifo.    *)
(***************************************************************************)
EXTENDS TryQueue, FiniteSetTheorems, SequenceTheorems, TLAPS

(***************************************************************************)
(* Facts about rings: n blocks, from one of which c items follow each      *)
(* other, wrapping around.                                                 *)
(***************************************************************************)
\* An index that runs at most once past the end of the ring.
LEMMA Wrap ==
  \A n \in Nat \ {0} : \A a \in 0 .. 2 * n - 1 :
     a % n = IF a < n THEN a ELSE a - n
<1> SUFFICES ASSUME NEW n \in Nat \ {0}, NEW a \in 0 .. 2 * n - 1
             PROVE  a % n = IF a < n THEN a ELSE a - n
  OBVIOUS
<1>1. CASE a < n
  BY <1>1
<1>2. CASE a >= n
  BY <1>2
<1> QED
  BY <1>1, <1>2

\* Moving an index once past m items is moving it past m + 1.
LEMMA Advance ==
  ASSUME NEW n \in Nat \ {0}, NEW a \in 0 .. n - 1, NEW m \in 0 .. n - 1
  PROVE  /\ (((a + m) % n) + 1) % n = (a + m + 1) % n
         /\ (((a + 1) % n) + m) % n = (a + m + 1) % n
<1>1. PICK b \in 0 .. 2 * n - 1 : b = a + m
  OBVIOUS
<1>2. PICK c \in 0 .. 2 * n - 1 : c = a + 1
  OBVIOUS
<1>3. PICK d \in 0 .. 2 * n - 1 : d = a + m + 1
  OBVIOUS
<1>4. /\ b % n = IF b < n THEN b ELSE b - n
      /\ c % n = IF c < n THEN c ELSE c - n
      /\ d % n = IF d < n THEN d ELSE d - n
  BY Wrap
<1>5. PICK e \in 0 .. 2 * n - 1 : e = (b % n) + 1
  BY <1>1, <1>4
<1>6. PICK f \in 0 .. 2 * n - 1 : f = (c % n) + m
  <2>1. c % n \in 0 .. n - 1
    BY <1>2, <1>4
  <2>2. (c % n) + m \in 0 .. 2 * n - 1
    BY <2>1
  <2> QED
    BY <2>2
<1>7. /\ e % n = IF e < n THEN e ELSE e - n
      /\ f % n = IF f < n THEN f ELSE f - n
  BY Wrap
<1>8. e % n = d % n
  BY <1>1, <1>3, <1>4, <1>5, <1>7
<1>9. f % n = d % n
  BY <1>2, <1>3, <1>4, <1>6, <1>7
<1> QED
  BY <1>1, <1>2, <1>3, <1>5, <1>6, <1>8, <1>9

\* Within one lap of the ring two positions are two blocks.
LEMMA BlocksDiffer ==
  ASSUME NEW n \in Nat \ {0}, NEW a \in 0 .. n - 1,
         NEW j \in 0 .. n - 1, NEW m \in 0 .. n - 1, j # m
  PROVE  (a + j) % n # (a + m) % n
<1>1. PICK b \in 0 .. 2 * n - 1 : b = a + j
  OBVIOUS
<1>2. PICK c \in 0 .. 2 * n - 1 : c = a + m
  OBVIOUS
<1>3. /\ b % n = IF b < n THEN b ELSE b - n
      /\ c % n = IF c < n THEN c ELSE c - n
  BY Wrap
<1>4. b % n # c % n
  BY <1>1, <1>2, <1>3
<1> QED
  BY <1>1, <1>2, <1>4
-------------------------------------------------------------------------------
\* A function on 1 .. n is a sequence of length n.
LEMMA FunctionIsSeq ==
  ASSUME NEW S, NEW n \in Nat, NEW f \in [1 .. n -> S]
  PROVE  f \in Seq(S) /\ Len(f) = n
<1>1. f \in Seq(S)
  BY SeqDef
<1>2. DOMAIN f = 1 .. Len(f) /\ Len(f) \in Nat
  BY <1>1, LenProperties
<1>3. \A m \in Nat : 1 .. n = 1 .. m => n = m
  OBVIOUS
<1> QED
  BY <1>1, <1>2, <1>3

\* The c items of the ring "blocks" that begin at block a, as a sequence.
RingSeq(blocks, a, c, n) == [j \in 1 .. c |-> blocks[(a + (j - 1)) % n]]

\* Each of them is in S.
RingHolds(S, blocks, a, c, n) == \A x \in 0 .. c - 1 : blocks[(a + x) % n] \in S

LEMMA RingSeqType ==
  ASSUME NEW S, NEW n \in Nat \ {0}, NEW a \in 0 .. n - 1, NEW c \in 0 .. n,
         NEW blocks, RingHolds(S, blocks, a, c, n)
  PROVE  RingSeq(blocks, a, c, n) \in Seq(S) /\ Len(RingSeq(blocks, a, c, n)) = c
<1>1. ASSUME NEW j \in 1 .. c PROVE blocks[(a + (j - 1)) % n] \in S
  <2>1. PICK x \in 0 .. c - 1 : x = j - 1
    OBVIOUS
  <2> QED
    BY <2>1 DEF RingHolds
<1>2. RingSeq(blocks, a, c, n) \in [1 .. c -> S]
  BY <1>1 DEF RingSeq
<1> QED
  BY <1>2, FunctionIsSeq

\* An item written into the block after the last is appended.
LEMMA RingSeqAppend ==
  ASSUME NEW S, NEW n \in Nat \ {0}, NEW a \in 0 .. n - 1, NEW c \in 0 .. n - 1,
         NEW T, NEW blocks \in [0 .. n - 1 -> T],
         NEW v \in S, S \subseteq T,
         RingHolds(S, blocks, a, c, n)
  PROVE  LET d == [blocks EXCEPT ![(a + c) % n] = v] IN
         /\ RingSeq(d, a, c + 1, n) = Append(RingSeq(blocks, a, c, n), v)
         /\ RingHolds(S, d, a, c + 1, n)
<1> DEFINE d == [blocks EXCEPT ![(a + c) % n] = v]
           s == RingSeq(blocks, a, c, n)
<1>0. \A x \in 0 .. c : (a + x) % n \in 0 .. n - 1
  OBVIOUS
<1>1. ASSUME NEW x \in 0 .. c - 1 PROVE d[(a + x) % n] = blocks[(a + x) % n]
  <2>1. x \in 0 .. n - 1 /\ x # c
    OBVIOUS
  <2>2. (a + x) % n # (a + c) % n
    BY <2>1, BlocksDiffer
  <2> QED
    BY <1>0, <2>2
<1>2. d[(a + c) % n] = v
  BY <1>0
<1>3. ASSUME NEW x \in 0 .. c PROVE d[(a + x) % n] \in S
  <2>1. x \in 0 .. c - 1 \/ x = c
    OBVIOUS
  <2> QED
    BY <1>1, <1>2, <2>1 DEF RingHolds
<1> HIDE DEF d
<1>4. /\ RingSeq(d, a, c + 1, n) \in Seq(S)
      /\ Len(RingSeq(d, a, c + 1, n)) = c + 1
  <2>1. (c + 1) - 1 = c /\ c + 1 \in 0 .. n
    OBVIOUS
  <2>2. RingHolds(S, d, a, c + 1, n)
    BY <1>3, <2>1 DEF RingHolds
  <2> QED
    BY <2>1, <2>2, RingSeqType, SMTT(30)
<1>5. s \in Seq(S) /\ Len(s) = c
  <2>1. c \in 0 .. n
    OBVIOUS
  <2> QED
    BY <2>1, RingSeqType
<1> HIDE DEF s
<1>6. /\ Append(s, v) \in Seq(S)
      /\ Len(Append(s, v)) = c + 1
      /\ \A j \in 1 .. c : Append(s, v)[j] = s[j]
      /\ Append(s, v)[c + 1] = v
  BY <1>5, AppendProperties
<1>7. ASSUME NEW j \in 1 .. c + 1
      PROVE  RingSeq(d, a, c + 1, n)[j] = Append(s, v)[j]
  <2>1. PICK x \in 0 .. c : x = j - 1
    OBVIOUS
  <2>2. RingSeq(d, a, c + 1, n)[j] = d[(a + x) % n]
    BY <2>1 DEF RingSeq
  <2>3. CASE x = c
    <3>1. j = c + 1
      BY <2>1, <2>3
    <3> QED
      BY <1>2, <1>6, <2>2, <2>3, <3>1
  <2>4. CASE x # c
    <3>1. s[j] = blocks[(a + x) % n] /\ j \in 1 .. c
      BY <2>1, <2>4 DEF RingSeq, s
    <3> QED
      <4>1. x \in 0 .. c - 1
        BY <2>4
      <4>2. d[(a + x) % n] = blocks[(a + x) % n]
        BY <1>1, <4>1
      <4>3. Append(s, v)[j] = s[j]
        BY <1>6, <3>1
      <4> QED
        BY <2>2, <3>1, <4>2, <4>3
  <2> QED
    BY <2>3, <2>4
<1>8. RingSeq(d, a, c + 1, n) = Append(s, v)
  BY <1>4, <1>6, <1>7, SeqEqual
<1>9. RingHolds(S, d, a, c + 1, n)
  <2>1. (c + 1) - 1 = c
    OBVIOUS
  <2> QED
    BY <1>3, <2>1 DEF RingHolds
<1> QED
  BY <1>8, <1>9 DEF d, s

\* Moving the first position on drops the first item.
LEMMA RingSeqTail ==
  ASSUME NEW S, NEW n \in Nat \ {0}, NEW a \in 0 .. n - 1, NEW c \in 1 .. n,
         NEW blocks, RingHolds(S, blocks, a, c, n)
  PROVE  LET s == RingSeq(blocks, a, c, n) IN
         /\ s # <<>> /\ Head(s) = blocks[a]
         /\ RingSeq(blocks, (a + 1) % n, c - 1, n) = Tail(s)
         /\ RingHolds(S, blocks, (a + 1) % n, c - 1, n)
<1> DEFINE s == RingSeq(blocks, a, c, n)
           b == (a + 1) % n
<1>1. s \in Seq(S) /\ Len(s) = c
  <2>1. c \in 0 .. n
    OBVIOUS
  <2> QED
    BY <2>1, RingSeqType
<1>2. ASSUME NEW x \in 0 .. c - 2
      PROVE  /\ blocks[(b + x) % n] = blocks[(a + (x + 1)) % n]
             /\ blocks[(b + x) % n] \in S
  <2>1. (b + x) % n = (a + x + 1) % n
    <3>1. x \in 0 .. n - 1
      OBVIOUS
    <3> QED
      BY <3>1, Advance
  <2>2. a + x + 1 = a + (x + 1) /\ x + 1 \in 0 .. c - 1
    OBVIOUS
  <2> QED
    BY <2>1, <2>2 DEF RingHolds
<1>3. b \in 0 .. n - 1
  OBVIOUS
<1> HIDE DEF b
<1>4. /\ RingSeq(blocks, b, c - 1, n) \in Seq(S)
      /\ Len(RingSeq(blocks, b, c - 1, n)) = c - 1
  <2>1. (c - 1) - 1 = c - 2 /\ c - 1 \in 0 .. n
    OBVIOUS
  <2>2. RingHolds(S, blocks, b, c - 1, n)
    BY <1>2, <2>1 DEF RingHolds
  <2> QED
    BY <1>3, <2>1, <2>2, RingSeqType
<1>5. /\ s # <<>> /\ Head(s) = s[1]
      /\ Tail(s) \in Seq(S) /\ Len(Tail(s)) = c - 1
      /\ \A j \in 1 .. c - 1 : Tail(s)[j] = s[j + 1]
  BY <1>1, EmptySeq, HeadTailProperties
<1>6. s[1] = blocks[a]
  <2>1. a \in 0 .. 2 * n - 1 /\ a < n /\ a + (1 - 1) = a
    OBVIOUS
  <2>2. a % n = a
    BY <2>1, Wrap
  <2> QED
    BY <2>1, <2>2 DEF RingSeq
<1>7. ASSUME NEW j \in 1 .. c - 1
      PROVE  RingSeq(blocks, b, c - 1, n)[j] = Tail(s)[j]
  <2>1. PICK x \in 0 .. c - 2 : x = j - 1
    OBVIOUS
  <2>2. RingSeq(blocks, b, c - 1, n)[j] = blocks[(b + x) % n]
    BY <2>1 DEF RingSeq
  <2>3. s[j + 1] = blocks[(a + (j + 1 - 1)) % n]
    BY DEF RingSeq
  <2>4. j + 1 - 1 = x + 1
    BY <2>1
  <2> QED
    BY <1>2, <1>5, <2>2, <2>3, <2>4
<1>8. RingSeq(blocks, b, c - 1, n) = Tail(s)
  BY <1>4, <1>5, <1>7, SeqEqual
<1>9. RingHolds(S, blocks, b, c - 1, n)
  BY <1>2 DEF RingHolds
<1> QED
  BY <1>5, <1>6, <1>8, <1>9 DEF b
-------------------------------------------------------------------------------
\* The places at which a sequence has an element of X.
PlacesIn(s, X) == {j \in 1 .. Len(s) : s[j] \in X}

LEMMA PlacesFinite ==
  ASSUME NEW S, NEW s \in Seq(S), NEW X
  PROVE  /\ IsFiniteSet(PlacesIn(s, X)) /\ Cardinality(PlacesIn(s, X)) \in Nat
         /\ s = <<>> => Cardinality(PlacesIn(s, X)) = 0
<1>1. Len(s) \in Nat
  BY LenProperties
<1>2. PlacesIn(s, X) \in SUBSET (1 .. Len(s)) /\ IsFiniteSet(1 .. Len(s))
  BY <1>1, FS_Interval DEF PlacesIn
<1>3. s = <<>> => PlacesIn(s, X) = {}
  BY DEF PlacesIn
<1> QED BY <1>2, <1>3, FS_Subset, FS_CardinalityType, FS_EmptySet

LEMMA PlacesAppend ==
  ASSUME NEW S, NEW s \in Seq(S), NEW e \in S, NEW X
  PROVE  Cardinality(PlacesIn(Append(s, e), X))
           = Cardinality(PlacesIn(s, X)) + IF e \in X THEN 1 ELSE 0
<1> DEFINE n == Len(s) + 1
<1>1. /\ Len(s) \in Nat /\ Len(Append(s, e)) = n
      /\ Append(s, e)[n] = e /\ \A j \in 1 .. Len(s) : Append(s, e)[j] = s[j]
  BY LenProperties, AppendProperties
<1>2. n \notin PlacesIn(s, X)
  BY <1>1 DEF PlacesIn
<1>3. IsFiniteSet(PlacesIn(s, X)) /\ Cardinality(PlacesIn(s, X)) \in Nat
  BY PlacesFinite
<1>4. CASE e \in X
  <2>1. PlacesIn(Append(s, e), X) = PlacesIn(s, X) \cup {n}
    BY <1>1, <1>4 DEF PlacesIn
  <2> QED BY <2>1, <1>2, <1>3, <1>4, FS_AddElement
<1>5. CASE e \notin X
  <2>1. PlacesIn(Append(s, e), X) = PlacesIn(s, X)
    BY <1>1, <1>5 DEF PlacesIn
  <2> QED BY <2>1, <1>3, <1>5
<1> QED BY <1>4, <1>5

LEMMA PlacesTail ==
  ASSUME NEW S, NEW s \in Seq(S), s # <<>>, NEW X
  PROVE  Cardinality(PlacesIn(Tail(s), X))
           = Cardinality(PlacesIn(s, X)) - IF Head(s) \in X THEN 1 ELSE 0
<1> DEFINE Rest == PlacesIn(s, X) \ {1}
           shift == [j \in PlacesIn(Tail(s), X) |-> j + 1]
<1>1. /\ Len(s) \in Nat \ {0} /\ Len(Tail(s)) = Len(s) - 1
      /\ Head(s) = s[1] /\ Tail(s) \in Seq(S)
      /\ \A j \in 1 .. Len(s) - 1 : Tail(s)[j] = s[j + 1]
  BY LenProperties, HeadTailProperties, EmptySeq
<1>2. /\ IsFiniteSet(PlacesIn(s, X)) /\ Cardinality(PlacesIn(s, X)) \in Nat
      /\ IsFiniteSet(PlacesIn(Tail(s), X)) /\ IsFiniteSet(Rest)
  BY <1>1, PlacesFinite, FS_RemoveElement
<1>3. shift \in Bijection(PlacesIn(Tail(s), X), Rest)
  <2>1. shift \in [PlacesIn(Tail(s), X) -> Rest]
    BY <1>1 DEF PlacesIn
  <2>2. \A j, l \in PlacesIn(Tail(s), X) : shift[j] = shift[l] => j = l
    BY <1>1 DEF PlacesIn
  <2>3. \A l \in Rest : l - 1 \in PlacesIn(Tail(s), X) /\ shift[l - 1] = l
    BY <1>1 DEF PlacesIn
  <2> QED BY <2>1, <2>2, <2>3 DEF Bijection, Injection, Surjection, IsInjective
<1>4. Cardinality(PlacesIn(Tail(s), X)) = Cardinality(Rest)
  BY <1>2, <1>3, FS_Bijection DEF ExistsBijection
<1>5. 1 \in PlacesIn(s, X) <=> Head(s) \in X
  BY <1>1 DEF PlacesIn
<1>6. Cardinality(Rest) = Cardinality(PlacesIn(s, X)) - IF 1 \in PlacesIn(s, X) THEN 1 ELSE 0
  BY <1>2, FS_RemoveElement
<1> QED BY <1>4, <1>5, <1>6
-------------------------------------------------------------------------------
HoldsLock(t) == pc[t] \in {"full", "store", "empty", "take", "release"}

LockHeldByOne == /\ lock = 1 <=> \E t \in Threads : HoldsLock(t)
                 /\ \A s, t \in Threads : HoldsLock(s) /\ HoldsLock(t) => s = t

\* A thread is where its own call can be, and knows of count what it saw when
\* it took the lock.
OwnCall ==
  \A t \in Threads :
     /\ pc[t] \in {"full", "store"} => t \in Enqueuers
     /\ pc[t] \in {"empty", "take"} => t \in Dequeuers
     /\ pc[t] = "store" => count < NumBlocks
     /\ pc[t] = "take" => count > 0
     /\ pc[t] \notin {"loop", "ended", "failed"} => k[t] < NumItems
     /\ pc[t] \in {"acquire", "full", "store"} /\ t \in Enqueuers => item[t] \in Item

\* head is count blocks after tail, and those blocks hold items.
RingConsistent == /\ head = (tail + count) % NumBlocks
                  /\ RingHolds(Item, data, tail, count, NumBlocks)

IInv == TypeOK /\ LockHeldByOne /\ OwnCall /\ RingConsistent
-------------------------------------------------------------------------------
LEMMA InitIInv == Init => IInv
<1> SUFFICES ASSUME Init PROVE IInv
  OBVIOUS
<1> USE ConstantsAssumption
<1>1. TypeOK
  BY DEF Init, TypeOK, Blocks, Labels
<1>2. LockHeldByOne /\ OwnCall
  BY DEF Init, LockHeldByOne, OwnCall, HoldsLock
<1>3. RingConsistent
  <2>1. (0 + 0) % NumBlocks = 0
    OBVIOUS
  <2> QED
    BY <2>1 DEF Init, RingConsistent, RingHolds
<1> QED
  BY <1>1, <1>2, <1>3 DEF IInv

\* The two steps that change the ring.
LEMMA EnqStoreRing ==
  ASSUME IInv, NEW t \in Enqueuers, EnqStore(t)
  PROVE  /\ head' \in Blocks /\ count' \in 0 .. NumBlocks
         /\ data' \in [Blocks -> Item \cup {NoItem}]
         /\ RingConsistent'
         /\ Contents' = Append(Contents, item[t])
<1> USE ConstantsAssumption
<1>1. /\ count \in 0 .. NumBlocks - 1 /\ item[t] \in Item
      /\ tail \in 0 .. NumBlocks - 1 /\ head \in 0 .. NumBlocks - 1
  BY DEF IInv, TypeOK, OwnCall, EnqStore, At, Threads, Blocks
<1>2. /\ head = (tail + count) % NumBlocks
      /\ RingHolds(Item, data, tail, count, NumBlocks)
      /\ data \in [0 .. NumBlocks - 1 -> Item \cup {NoItem}]
  BY DEF IInv, TypeOK, RingConsistent, Blocks
<1>3. /\ data' = [data EXCEPT ![(tail + count) % NumBlocks] = item[t]]
      /\ head' = (head + 1) % NumBlocks /\ count' = count + 1 /\ tail' = tail
  BY <1>2 DEF EnqStore
<1>4. /\ RingSeq(data', tail, count + 1, NumBlocks)
           = Append(RingSeq(data, tail, count, NumBlocks), item[t])
      /\ RingHolds(Item, data', tail, count + 1, NumBlocks)
  <2> DEFINE T == Item \cup {NoItem}
  <2>1. /\ data \in [0 .. NumBlocks - 1 -> T] /\ Item \subseteq T
        /\ tail \in 0 .. NumBlocks - 1 /\ count \in 0 .. NumBlocks - 1
        /\ NumBlocks \in Nat \ {0}
    BY <1>1, <1>2
  <2> HIDE DEF T
  <2>2. LET d == [data EXCEPT ![(tail + count) % NumBlocks] = item[t]] IN
        /\ RingSeq(d, tail, count + 1, NumBlocks)
             = Append(RingSeq(data, tail, count, NumBlocks), item[t])
        /\ RingHolds(Item, d, tail, count + 1, NumBlocks)
    BY <1>1, <1>2, <2>1, RingSeqAppend
  <2> QED
    BY <1>3, <2>2
<1>5. head' = (tail + (count + 1)) % NumBlocks
  <2>1. (((tail + count) % NumBlocks) + 1) % NumBlocks = (tail + count + 1) % NumBlocks
    BY <1>1, Advance
  <2>2. tail + count + 1 = tail + (count + 1)
    BY <1>1
  <2> QED
    BY <1>2, <1>3, <2>1, <2>2
<1>6. Contents' = Append(Contents, item[t])
  BY <1>3, <1>4 DEF Contents, RingSeq
<1>7. RingConsistent'
  BY <1>3, <1>4, <1>5 DEF RingConsistent
<1>8. head' \in Blocks /\ count' \in 0 .. NumBlocks
  BY <1>1, <1>3 DEF Blocks
<1>9. data' \in [Blocks -> Item \cup {NoItem}]
  BY <1>1, <1>2, <1>3 DEF Blocks
<1> QED
  BY <1>6, <1>7, <1>8, <1>9

LEMMA DeqTakeRing ==
  ASSUME IInv, NEW t \in Dequeuers, DeqTake(t)
  PROVE  /\ tail' \in Blocks /\ count' \in 0 .. NumBlocks
         /\ data[tail] \in Item
         /\ RingConsistent'
         /\ Contents # <<>> /\ Head(Contents) = data[tail]
         /\ Contents' = Tail(Contents)
<1> USE ConstantsAssumption
<1>1. count \in 1 .. NumBlocks /\ tail \in 0 .. NumBlocks - 1
  BY DEF IInv, TypeOK, OwnCall, DeqTake, At, Threads, Blocks
<1>2. /\ head = (tail + count) % NumBlocks
      /\ RingHolds(Item, data, tail, count, NumBlocks)
  BY DEF IInv, RingConsistent
<1>3. /\ tail' = (tail + 1) % NumBlocks /\ count' = count - 1
      /\ UNCHANGED <<head, data>>
  BY DEF DeqTake
<1>4. LET s == RingSeq(data, tail, count, NumBlocks) IN
      /\ s # <<>> /\ Head(s) = data[tail]
      /\ RingSeq(data, (tail + 1) % NumBlocks, count - 1, NumBlocks) = Tail(s)
      /\ RingHolds(Item, data, (tail + 1) % NumBlocks, count - 1, NumBlocks)
  BY <1>1, <1>2, RingSeqTail
<1>5. head' = (tail' + count') % NumBlocks
  <2>1. PICK c \in 0 .. NumBlocks - 1 : c = count - 1
    BY <1>1
  <2>2. (((tail + 1) % NumBlocks) + c) % NumBlocks = (tail + c + 1) % NumBlocks
    BY <1>1, Advance
  <2>3. tail + c + 1 = tail + count
    BY <1>1, <2>1
  <2> QED
    BY <1>2, <1>3, <2>1, <2>2, <2>3
<1>6. data[tail] \in Item
  <2>1. /\ (tail + 0) % NumBlocks = tail
    <3>1. tail + 0 = tail /\ tail \in 0 .. 2 * NumBlocks - 1 /\ tail < NumBlocks
      BY <1>1
    <3> QED
      BY <3>1, Wrap
  <2>2. 0 \in 0 .. count - 1
    BY <1>1
  <2> QED
    BY <1>2, <2>1, <2>2 DEF RingHolds
<1>7. /\ Contents = RingSeq(data, tail, count, NumBlocks)
      /\ Contents' = RingSeq(data, (tail + 1) % NumBlocks, count - 1, NumBlocks)
  BY <1>3 DEF Contents, RingSeq
<1>8. RingConsistent'
  BY <1>3, <1>4, <1>5 DEF RingConsistent
<1>9. tail' \in Blocks /\ count' \in 0 .. NumBlocks
  BY <1>1, <1>3 DEF Blocks
<1> QED
  BY <1>4, <1>6, <1>7, <1>8, <1>9
-------------------------------------------------------------------------------
LEMMA NextCall ==
  \A n \in 0 .. NumItems : n < NumItems => n + 1 \in 0 .. NumItems /\ n + 1 \in 1 .. NumItems
<1>1. NumItems \in Nat
  BY ConstantsAssumption
<1> QED
  BY <1>1

\* An enqueue that is not refused for its arguments brings an item.
LEMMA EnqueueBrings ==
  ASSUME TypeOK, NEW t \in Enqueuers, CallEnqueue(t)
  PROVE  \/ At(t, "loop", "failed") /\ UNCHANGED item
         \/ /\ At(t, "loop", "acquire")
            /\ \E m \in Item : item' = [item EXCEPT ![t] = m]
<1> USE ConstantsAssumption
<1>1. PICK s \in Sizes[t] :
         \/ At(t, "loop", "failed") /\ UNCHANGED item
         \/ /\ s # 0 /\ s <= BlockSize
            /\ At(t, "loop", "acquire")
            /\ item' = [item EXCEPT ![t] = [from |-> t, n |-> k[t] + 1, size |-> s]]
  BY DEF CallEnqueue
<1>2. ASSUME s # 0 /\ s <= BlockSize
      PROVE  [from |-> t, n |-> k[t] + 1, size |-> s] \in Item
  <2>1. t \in Threads /\ Sizes[t] \in SUBSET Nat
    BY DEF Threads
  <2>2. s \in Nat
    BY <2>1
  <2>3. k[t] \in 0 .. NumItems /\ k[t] < NumItems
    BY <2>1 DEF CallEnqueue, TypeOK
  <2>4. k[t] + 1 \in 1 .. NumItems
    BY <2>3, NextCall
  <2> QED
    BY <1>2, <2>2, <2>4 DEF Item
<1> QED
  BY <1>1, <1>2

LEMMA TypeOKStep ==
  ASSUME IInv, NEW t \in Threads, Threading(t)
  PROVE  TypeOK'
<1> USE ConstantsAssumption DEF TypeOK
<1>0. TypeOK /\ main' = main /\ joined' = joined
  BY DEF IInv, Threading
<1>1. CASE TryLock(t)
  BY <1>0, <1>1 DEF TryLock, EnqAcquire, DeqAcquire, Acquire, At, Goto, ring, Labels
<1>2. CASE t \in Enqueuers /\ CallEnqueue(t)
  <2>1. \/ At(t, "loop", "failed") /\ UNCHANGED item
        \/ /\ At(t, "loop", "acquire")
           /\ \E m \in Item : item' = [item EXCEPT ![t] = m]
    BY <1>0, <1>2, EnqueueBrings
  <2>3. item' \in [Threads -> Item \cup {NoItem}]
    BY <1>0, <2>1
  <2>4. pc' \in [Threads -> Labels]
    BY <1>0, <2>1 DEF At, Goto, Labels
  <2> QED
    BY <1>0, <1>2, <2>3, <2>4 DEF CallEnqueue, ring
<1>3. CASE t \in Dequeuers /\ CallDequeue(t)
  <2>1. PICK m \in Sizes[t] :
           \/ At(t, "loop", "failed") /\ UNCHANGED <<item, max_size>>
           \/ /\ At(t, "loop", "acquire")
              /\ max_size' = [max_size EXCEPT ![t] = m]
              /\ item' = [item EXCEPT ![t] = NoItem]
    BY <1>3 DEF CallDequeue
  <2>2. m \in Nat
    <3>1. Sizes[t] \in SUBSET Nat
      OBVIOUS
    <3> QED
      BY <3>1
  <2>3. item' \in [Threads -> Item \cup {NoItem}]
    BY <1>0, <2>1
  <2>4. max_size' \in [Dequeuers -> Nat]
    BY <1>0, <2>1, <2>2
  <2>5. pc' \in [Threads -> Labels]
    BY <1>0, <2>1 DEF At, Goto, Labels
  <2> QED
    BY <1>0, <1>3, <2>3, <2>4, <2>5 DEF CallDequeue, ring
<1>4. CASE EnqFull(t) \/ DeqEmpty(t) \/ DeqFails(t) \/ LoopEnds(t)
  BY <1>0, <1>4 DEF EnqFull, DeqEmpty, DeqFails, LoopEnds, Release, At, Goto, ring,
                    Labels
<1>5. CASE t \in Enqueuers /\ EnqStore(t)
  BY <1>0, <1>5, EnqStoreRing DEF EnqStore, At, Goto, Labels
<1>6. CASE t \in Dequeuers /\ DeqTake(t)
  <2>1. data[tail] \in Item /\ tail' \in Blocks /\ count' \in 0 .. NumBlocks
    BY <1>6, DeqTakeRing
  <2>2. received' \in [Enqueuers \X (1 .. NumItems) -> Nat]
    <3>1. PICK m : m = <<data[tail].from, data[tail].n>>
      OBVIOUS
    <3>2. m \in Enqueuers \X (1 .. NumItems)
      BY <2>1, <3>1 DEF Item
    <3>3. received[m] \in Nat
      BY <1>0, <3>2
    <3>4. received' = [received EXCEPT ![m] = received[m] + 1]
      BY <1>6, <3>1 DEF DeqTake
    <3>5. received[m] + 1 \in Nat
      BY <3>3
    <3> QED
      BY <1>0, <3>4, <3>5
  <2> QED
    BY <1>0, <1>6, <2>1, <2>2 DEF DeqTake, At, Goto, Labels
<1>7. CASE Return(t)
  <2>1. k[t] \in 0 .. NumItems /\ k[t] < NumItems
    BY <1>0, <1>7 DEF IInv, OwnCall, Return, At
  <2>2. k[t] + 1 \in 0 .. NumItems
    BY <2>1, NextCall
  <2>3. k' \in [Threads -> 0 .. NumItems]
    BY <1>0, <1>7, <2>2 DEF Return
  <2> QED
    BY <1>0, <1>7, <2>3 DEF Return, Release, At, Goto, ring, Labels
<1> QED
  BY <1>1, <1>2, <1>3, <1>4, <1>5, <1>6, <1>7
     DEF Threading, Step, Enqueue, Dequeue
-------------------------------------------------------------------------------
\* A step that frees the lock is its holder's, one that takes it finds nobody
\* holding it, and any other leaves the lock with whom it was.
LEMMA LockStep ==
  ASSUME IInv, NEW t \in Threads, Threading(t)
  PROVE  LockHeldByOne'
<1>0. /\ TypeOK /\ LockHeldByOne
      /\ lock \in {0, 1} /\ pc \in [Threads -> Labels]
  BY DEF IInv, TypeOK
<1>1. ASSUME lock = 0, lock' = 1, NEW to \in {"full", "store", "empty", "take"},
             Goto(t, to)
      PROVE  LockHeldByOne'
  BY <1>0, <1>1 DEF LockHeldByOne, HoldsLock, Goto
<1>2. ASSUME HoldsLock(t), lock' = 0,
             NEW to \in {"acquire", "failed", "loop"}, Goto(t, to)
      PROVE  LockHeldByOne'
  BY <1>0, <1>2 DEF LockHeldByOne, HoldsLock, Goto
<1>3. ASSUME pc[t] \in {"store", "take"}, UNCHANGED lock, Goto(t, "release")
      PROVE  LockHeldByOne'
  BY <1>0, <1>3 DEF LockHeldByOne, HoldsLock, Goto
<1>4. ASSUME pc[t] = "loop", UNCHANGED lock,
             NEW to \in {"acquire", "failed", "ended"}, Goto(t, to)
      PROVE  LockHeldByOne'
  BY <1>0, <1>4 DEF LockHeldByOne, HoldsLock, Goto
<1>5. CASE TryLock(t)
  BY <1>1, <1>5 DEF TryLock, EnqAcquire, DeqAcquire, Acquire, At
<1>6. CASE EnqFull(t) \/ DeqEmpty(t) \/ DeqFails(t) \/ Return(t)
  BY <1>2, <1>6 DEF EnqFull, DeqEmpty, DeqFails, Return, Release, At, HoldsLock
<1>7. CASE EnqStore(t) \/ DeqTake(t)
  BY <1>3, <1>7 DEF EnqStore, DeqTake, At
<1>8. CASE CallEnqueue(t) \/ CallDequeue(t) \/ LoopEnds(t)
  BY <1>4, <1>8 DEF CallEnqueue, CallDequeue, LoopEnds, At
<1> QED
  BY <1>5, <1>6, <1>7, <1>8 DEF Threading, Step, Enqueue, Dequeue

\* Another thread's call stands where it stood; and if that thread holds the
\* lock then count is what it was.
LEMMA OthersKeep ==
  ASSUME IInv, NEW t \in Threads, NEW s \in Threads, s # t, Threading(t)
  PROVE  /\ pc'[s] = pc[s] /\ k'[s] = k[s] /\ item'[s] = item[s]
         /\ HoldsLock(s) => count' = count
<1>0. TypeOK /\ LockHeldByOne
  BY DEF IInv
<1>1. CASE EnqStore(t) \/ DeqTake(t)
  BY <1>0, <1>1 DEF EnqStore, DeqTake, At, Goto, HoldsLock, LockHeldByOne, TypeOK
<1>2. CASE TryLock(t)
  BY <1>0, <1>2 DEF TryLock, EnqAcquire, DeqAcquire, At, Goto, TypeOK, ring
<1>3. CASE EnqFull(t) \/ DeqEmpty(t) \/ DeqFails(t) \/ Return(t) \/ LoopEnds(t)
  BY <1>0, <1>3 DEF EnqFull, DeqEmpty, DeqFails, Return, LoopEnds, At, Goto,
                    TypeOK, ring
<1>4. CASE CallEnqueue(t) \/ CallDequeue(t)
  BY <1>0, <1>4 DEF CallEnqueue, CallDequeue, At, Goto, TypeOK, ring
<1> QED
  BY <1>1, <1>2, <1>3, <1>4 DEF Threading, Step, Enqueue, Dequeue

Own(t) ==
  /\ pc[t] \in {"full", "store"} => t \in Enqueuers
  /\ pc[t] \in {"empty", "take"} => t \in Dequeuers
  /\ pc[t] = "store" => count < NumBlocks
  /\ pc[t] = "take" => count > 0
  /\ pc[t] \notin {"loop", "ended", "failed"} => k[t] < NumItems
  /\ pc[t] \in {"acquire", "full", "store"} /\ t \in Enqueuers => item[t] \in Item

LEMMA OwnCallStep ==
  ASSUME IInv, NEW t \in Threads, Threading(t), TypeOK'
  PROVE  OwnCall'
<1>0. TypeOK /\ OwnCall /\ Own(t)
  BY DEF IInv, OwnCall, Own
<1>1. ASSUME NEW s \in Threads, s # t PROVE Own(s)'
  BY <1>0, <1>1, OthersKeep DEF Own, OwnCall, HoldsLock
<1>2. Own(t)'
  <2>1. CASE TryLock(t)
    <3>1. count \in 0 .. NumBlocks
      BY <1>0 DEF TypeOK
    <3>2. (count # NumBlocks => count < NumBlocks) /\ (count # 0 => count > 0)
      BY <3>1, ConstantsAssumption
    <3> QED
      BY <1>0, <2>1, <3>2, ConstantsAssumption
         DEF TryLock, EnqAcquire, DeqAcquire, At, Goto, TypeOK, ring, Own
  <2>2. CASE t \in Enqueuers /\ CallEnqueue(t)
    <3>1. \/ At(t, "loop", "failed") /\ UNCHANGED item
          \/ /\ At(t, "loop", "acquire")
             /\ \E m \in Item : item' = [item EXCEPT ![t] = m]
      BY <1>0, <2>2, EnqueueBrings
    <3>2. k'[t] = k[t] /\ k[t] < NumItems
      BY <2>2 DEF CallEnqueue
    <3> QED
      BY <1>0, <3>1, <3>2 DEF At, Goto, TypeOK, Own
  <2>3. CASE t \in Dequeuers /\ CallDequeue(t)
    BY <1>0, <2>3, ConstantsAssumption DEF CallDequeue, At, Goto, TypeOK, Own
  <2>4. CASE EnqFull(t)
    BY <1>0, <2>4 DEF EnqFull, At, Goto, TypeOK, ring, Own
  <2>6. CASE t \in Dequeuers /\ DeqEmpty(t)
    BY <1>0, <2>6, ConstantsAssumption DEF DeqEmpty, At, Goto, TypeOK, ring, Own
  <2>7. CASE DeqFails(t) \/ LoopEnds(t) \/ Return(t)
    <3>1. pc'[t] \in {"failed", "ended", "loop"}
      BY <1>0, <2>7 DEF DeqFails, LoopEnds, Return, At, Goto, TypeOK
    <3> QED
      BY <3>1 DEF Own
  <2>5. CASE EnqStore(t) \/ DeqTake(t)
    BY <1>0, <2>5 DEF EnqStore, DeqTake, At, Goto, TypeOK, Own
  <2> QED
    BY <2>1, <2>2, <2>3, <2>4, <2>5, <2>6, <2>7 DEF Threading, Step, Enqueue, Dequeue
<1> QED
  BY <1>1, <1>2 DEF OwnCall, Own

LEMMA Invariance == IInv /\ [Next]_vars => IInv'
<1> SUFFICES ASSUME IInv, [Next]_vars PROVE IInv'
  OBVIOUS
<1>1. ASSUME NEW t \in Threads, Threading(t) PROVE IInv'
  <2>1. TypeOK' /\ LockHeldByOne'
    BY <1>1, TypeOKStep, LockStep
  <2>2. OwnCall'
    BY <1>1, <2>1, OwnCallStep
  <2>3. RingConsistent'
    <3>1. CASE t \in Enqueuers /\ EnqStore(t)
      BY <3>1, EnqStoreRing
    <3>2. CASE t \in Dequeuers /\ DeqTake(t)
      BY <3>2, DeqTakeRing
    <3>3. CASE UNCHANGED ring
      BY <3>3 DEF ring, IInv, RingConsistent, RingHolds
    <3> QED
      BY <1>1, <3>1, <3>2, <3>3
         DEF Threading, Step, TryLock, EnqAcquire, DeqAcquire, Enqueue, Dequeue,
             CallEnqueue, CallDequeue, EnqFull, DeqEmpty, DeqFails, LoopEnds, Return
  <2> QED
    BY <2>1, <2>2, <2>3 DEF IInv
<1>2. CASE Main
  <2>1. UNCHANGED <<ring, lock, pc, item, max_size, k, received>>
    BY <1>2 DEF Main
  <2>2. /\ main' \in {"joining", "success", "failed"}
        /\ joined' \in 0 .. Len(JoinOrder)
    <3>1. joined \in 0 .. Len(JoinOrder) /\ Len(JoinOrder) \in Nat
      BY ConstantsAssumption DEF IInv, TypeOK
    <3>2. CASE Join
      BY <3>1, <3>2 DEF Join, IInv, TypeOK
    <3>3. CASE LookEmpty
      BY <3>1, <3>3 DEF LookEmpty
    <3> QED
      BY <1>2, <3>2, <3>3 DEF Main
  <2> QED
    BY <2>1, <2>2 DEF ring, IInv, TypeOK, LockHeldByOne, HoldsLock, OwnCall,
                      RingConsistent, RingHolds
<1>3. CASE Terminating \/ UNCHANGED vars
  BY <1>3 DEF Terminating, vars, ring, IInv, TypeOK, LockHeldByOne, HoldsLock,
              OwnCall, RingConsistent, RingHolds
<1> QED
  BY <1>1, <1>2, <1>3 DEF Next

LEMMA IInvHolds == Spec => []IInv
<1> QED
  BY InitIInv, Invariance, PTL DEF Spec

\* The types hold, so count never leaves 0 .. NumBlocks, for any number of
\* threads, items and blocks: an enqueue stores only into a ring that is not
\* full, and a dequeue takes only from one that is not empty.
THEOREM TypeCorrect == Spec => []TypeOK
<1>1. IInv => TypeOK
  BY DEF IInv
<1> QED
  BY <1>1, IInvHolds, PTL
-------------------------------------------------------------------------------
Status == [t \in Threads |-> CallStatus(t)]

\* The state the abstract queue sees.
FifoVars == <<Contents, Status, item, [t \in Threads |-> 0]>>

LEMMA ContentsType ==
  IInv => Contents \in Seq(Item) /\ Len(Contents) = count /\ count \in 0 .. NumBlocks
<1> SUFFICES ASSUME IInv
             PROVE  Contents \in Seq(Item) /\ Len(Contents) = count /\ count \in 0 .. NumBlocks
  OBVIOUS
<1>1. /\ count \in 0 .. NumBlocks /\ tail \in 0 .. NumBlocks - 1
      /\ RingHolds(Item, data, tail, count, NumBlocks)
  BY DEF IInv, TypeOK, RingConsistent, Blocks
<1>2. Contents = RingSeq(data, tail, count, NumBlocks)
  BY DEF Contents, RingSeq
<1> QED
  BY <1>1, <1>2, RingSeqType, ConstantsAssumption

\* A step in which one thread moves changes the status of that thread only.
LEMMA StatusMoves ==
  ASSUME TypeOK, NEW t \in Threads, NEW to \in Labels, At(t, pc[t], to)
  PROVE  /\ pc'[t] = to
         /\ Status' = [Status EXCEPT ![t] = CallStatus(t)']
<1>1. \A s \in Threads \ {t} : pc'[s] = pc[s]
  BY DEF At, Goto, TypeOK
<1>2. \A s \in Threads \ {t} : CallStatus(s)' = CallStatus(s)
  BY <1>1 DEF CallStatus
<1>3. pc'[t] = to
  BY DEF At, Goto, TypeOK
<1> QED
  BY <1>2, <1>3 DEF Status

LEMMA StatusStays ==
  ASSUME TypeOK, NEW t \in Threads, NEW to \in Labels, At(t, pc[t], to),
         CallStatus(t)' = CallStatus(t)
  PROVE  Status' = Status
BY StatusMoves DEF Status

\* Only EnqStore and DeqTake change what the ring holds.
LEMMA SameContents == UNCHANGED ring => UNCHANGED Contents
BY DEF ring, Contents

LEMMA InitFifo == Init => Fifo!Init
<1> SUFFICES ASSUME Init PROVE Fifo!Init
  OBVIOUS
<1>1. Contents = <<>>
  <2>1. IInv /\ count = 0
    BY InitIInv DEF Init
  <2>2. Contents \in Seq(Item) /\ Len(Contents) = 0
    BY <2>1, ContentsType
  <2> QED
    BY <2>2, EmptySeq
<1>2. Status = [t \in Threads |-> "idle"]
  BY DEF Init, Status, CallStatus
<1> QED
  BY <1>1, <1>2 DEF Init, Fifo!Init, Status

\* An enqueue takes effect when it stores its item, a dequeue when it moves
\* tail.
LEMMA StoreIsPut ==
  ASSUME IInv, NEW t \in Enqueuers, EnqStore(t)
  PROVE  Fifo!Put(t)
<1>1. TypeOK /\ t \in Threads /\ count < NumBlocks /\ pc[t] = "store"
  BY DEF IInv, OwnCall, EnqStore, At, Threads
<1>2. Contents' = Append(Contents, item[t]) /\ Len(Contents) < NumBlocks
  BY <1>1, EnqStoreRing, ContentsType
<1>3. At(t, pc[t], "release")
  BY <1>1 DEF EnqStore
<1>4. Status' = [Status EXCEPT ![t] = "done"] /\ Status[t] = "putting"
  BY <1>1, <1>3, StatusMoves DEF Labels, CallStatus, Status
<1> QED
  BY <1>2, <1>4 DEF Fifo!Put, Status, EnqStore

LEMMA TakeIsGet ==
  ASSUME IInv, NEW t \in Dequeuers, DeqTake(t)
  PROVE  Fifo!Get(t)
<1>1. TypeOK /\ t \in Threads /\ t \notin Enqueuers /\ pc[t] = "take"
  BY ConstantsAssumption DEF IInv, DeqTake, At, Threads
<1>2. /\ Contents # <<>> /\ Contents' = Tail(Contents)
      /\ item' = [item EXCEPT ![t] = Head(Contents)]
  BY DeqTakeRing DEF DeqTake
<1>3. At(t, pc[t], "release")
  BY <1>1 DEF DeqTake
<1>4. Status' = [Status EXCEPT ![t] = "done"] /\ Status[t] = "getting"
  BY <1>1, <1>3, StatusMoves DEF Labels, CallStatus, Status
<1> QED
  BY <1>2, <1>4 DEF Fifo!Get, Status

\* Whoever takes the lock is refused exactly when the queue is then full or
\* empty.
LEMMA AcquireDecides ==
  ASSUME IInv, NEW t \in Threads, TryLock(t)
  PROVE  Fifo!RefusePut(t) \/ Fifo!RefuseGet(t) \/ UNCHANGED FifoVars
<1>1. TypeOK /\ UNCHANGED <<Contents, item>> /\ pc[t] = "acquire"
  BY SameContents DEF IInv, TryLock, EnqAcquire, DeqAcquire, At
<1>2. Len(Contents) = count /\ (count = 0 => Contents = <<>>)
  BY ContentsType, EmptySeq
<1>3. CASE t \in Enqueuers /\ EnqAcquire(t)
  <2>1. CASE count = NumBlocks
    <3>1. At(t, pc[t], "full")
      BY <1>1, <1>3, <2>1 DEF EnqAcquire
    <3>2. Status' = [Status EXCEPT ![t] = "put_refused"] /\ Status[t] = "putting"
      BY <1>1, <1>3, <3>1, StatusMoves DEF Labels, CallStatus, Status
    <3>3. Fifo!RefusePut(t)
      BY <1>1, <1>2, <2>1, <3>2 DEF Fifo!RefusePut, Status
    <3> QED
      BY <3>3
  <2>2. CASE count # NumBlocks
    <3>1. At(t, pc[t], "store")
      BY <1>1, <1>3, <2>2 DEF EnqAcquire
    <3>2. CallStatus(t)' = CallStatus(t)
      BY <1>1, <1>3, <3>1, StatusMoves DEF Labels, CallStatus
    <3>3. Status' = Status
      BY <1>1, <3>1, <3>2, StatusStays DEF Labels
    <3> QED
      BY <1>1, <3>3 DEF FifoVars
  <2> QED
    BY <2>1, <2>2
<1>4. CASE t \in Dequeuers /\ DeqAcquire(t)
  <2>0. t \notin Enqueuers
    BY <1>4, ConstantsAssumption
  <2>1. CASE count = 0
    <3>1. At(t, pc[t], "empty")
      BY <1>1, <1>4, <2>1 DEF DeqAcquire
    <3>2. Status' = [Status EXCEPT ![t] = "get_refused"] /\ Status[t] = "getting"
      BY <1>1, <2>0, <3>1, StatusMoves DEF Labels, CallStatus, Status
    <3>3. Fifo!RefuseGet(t)
      BY <1>1, <1>2, <2>1, <3>2 DEF Fifo!RefuseGet, Status
    <3> QED
      BY <3>3
  <2>2. CASE count # 0
    <3>1. At(t, pc[t], "take")
      BY <1>1, <1>4, <2>2 DEF DeqAcquire
    <3>2. CallStatus(t)' = CallStatus(t)
      BY <1>1, <2>0, <3>1, StatusMoves DEF Labels, CallStatus
    <3>3. Status' = Status
      BY <1>1, <3>1, <3>2, StatusStays DEF Labels
    <3> QED
      BY <1>1, <3>3 DEF FifoVars
  <2> QED
    BY <2>1, <2>2
<1> QED
  BY <1>3, <1>4 DEF TryLock

\* Every step of a thread is a step of the queue or changes nothing of it.
LEMMA StepFifo ==
  ASSUME IInv, NEW t \in Threads, Threading(t)
  PROVE  Fifo!TryNext \/ UNCHANGED FifoVars
<1>0. TypeOK
  BY DEF IInv
<1>1. CASE t \in Enqueuers /\ CallEnqueue(t)
  <2>0. UNCHANGED Contents /\ pc[t] = "loop"
    BY <1>1, SameContents DEF CallEnqueue, At
  <2>1. CASE At(t, "loop", "failed") /\ UNCHANGED item
    <3>1. At(t, pc[t], "failed")
      BY <2>0, <2>1
    <3>2. CallStatus(t)' = CallStatus(t)
      BY <1>0, <2>0, <3>1, StatusMoves DEF Labels, CallStatus
    <3>3. Status' = Status
      BY <1>0, <3>1, <3>2, StatusStays DEF Labels
    <3> QED
      BY <2>0, <2>1, <3>3 DEF FifoVars
  <2>2. CASE /\ At(t, "loop", "acquire")
             /\ \E m \in Item : item' = [item EXCEPT ![t] = m]
    <3>1. At(t, pc[t], "acquire")
      BY <2>0, <2>2
    <3>2. Status' = [Status EXCEPT ![t] = "putting"] /\ Status[t] = "idle"
      BY <1>0, <1>1, <2>0, <3>1, StatusMoves DEF Labels, CallStatus, Status
    <3>3. Fifo!InvokePut(t)
      BY <2>0, <2>2, <3>2 DEF Fifo!InvokePut, Status
    <3> QED
      BY <3>3 DEF Fifo!TryNext, Fifo!Next
  <2> QED
    BY <1>0, <1>1, <2>1, <2>2, EnqueueBrings
<1>2. CASE t \in Dequeuers /\ CallDequeue(t)
  <2>0. UNCHANGED Contents /\ pc[t] = "loop" /\ t \notin Enqueuers
    BY <1>2, SameContents, ConstantsAssumption DEF CallDequeue, At
  <2>1. CASE At(t, "loop", "failed") /\ UNCHANGED item
    <3>1. At(t, pc[t], "failed")
      BY <2>0, <2>1
    <3>2. CallStatus(t)' = CallStatus(t)
      BY <1>0, <2>0, <3>1, StatusMoves DEF Labels, CallStatus
    <3>3. Status' = Status
      BY <1>0, <3>1, <3>2, StatusStays DEF Labels
    <3> QED
      BY <2>0, <2>1, <3>3 DEF FifoVars
  <2>2. CASE At(t, "loop", "acquire") /\ item' = [item EXCEPT ![t] = NoItem]
    <3>1. At(t, pc[t], "acquire")
      BY <2>0, <2>2
    <3>2. Status' = [Status EXCEPT ![t] = "getting"] /\ Status[t] = "idle"
      BY <1>0, <2>0, <3>1, StatusMoves DEF Labels, CallStatus, Status
    <3>3. Fifo!InvokeGet(t)
      BY <2>0, <2>2, <3>2 DEF Fifo!InvokeGet, Status
    <3> QED
      BY <3>3 DEF Fifo!TryNext, Fifo!Next
  <2> QED
    BY <1>2, <2>1, <2>2 DEF CallDequeue
<1>3. CASE TryLock(t)
  BY <1>3, AcquireDecides DEF Fifo!TryNext
<1>4. CASE t \in Enqueuers /\ EnqStore(t)
  BY <1>4, StoreIsPut DEF Fifo!TryNext, Fifo!Next
<1>5. CASE t \in Dequeuers /\ DeqTake(t)
  BY <1>5, TakeIsGet DEF Fifo!TryNext, Fifo!Next
<1>6. CASE t \in Enqueuers /\ EnqFull(t)
  <2>1. UNCHANGED <<Contents, item>> /\ pc[t] = "full" /\ At(t, pc[t], "acquire")
    BY <1>6, SameContents DEF EnqFull, At
  <2>2. Status' = [Status EXCEPT ![t] = "putting"] /\ Status[t] = "put_refused"
    BY <1>0, <1>6, <2>1, StatusMoves DEF Labels, CallStatus, Status
  <2>3. Fifo!Retry(t)
    BY <2>1, <2>2 DEF Fifo!Retry, Status
  <2> QED
    BY <2>3 DEF Fifo!TryNext
<1>7. CASE t \in Dequeuers /\ DeqEmpty(t)
  <2>1. /\ UNCHANGED <<Contents, item>> /\ pc[t] = "empty" /\ At(t, pc[t], "acquire")
        /\ t \notin Enqueuers
    BY <1>7, SameContents, ConstantsAssumption DEF DeqEmpty, At
  <2>2. Status' = [Status EXCEPT ![t] = "getting"] /\ Status[t] = "get_refused"
    BY <1>0, <2>1, StatusMoves DEF Labels, CallStatus, Status
  <2>3. Fifo!Retry(t)
    BY <2>1, <2>2 DEF Fifo!Retry, Status
  <2> QED
    BY <2>3 DEF Fifo!TryNext
<1>8. CASE t \in Dequeuers /\ DeqFails(t)
  <2>1. /\ UNCHANGED <<Contents, item>> /\ pc[t] = "take" /\ At(t, pc[t], "failed")
        /\ t \notin Enqueuers
    BY <1>8, SameContents, ConstantsAssumption DEF DeqFails, At
  <2>2. Status' = [Status EXCEPT ![t] = "idle"] /\ Status[t] = "getting"
    BY <1>0, <2>1, StatusMoves DEF Labels, CallStatus, Status
  <2>3. Fifo!GiveUp(t)
    BY <2>1, <2>2 DEF Fifo!GiveUp, Status
  <2> QED
    BY <2>3 DEF Fifo!TryNext, Fifo!Next
<1>9. CASE LoopEnds(t)
  <2>1. UNCHANGED <<Contents, item>> /\ pc[t] = "loop" /\ At(t, pc[t], "ended")
    BY <1>9, SameContents DEF LoopEnds, At
  <2>2. CallStatus(t)' = CallStatus(t)
    BY <1>0, <2>1, StatusMoves DEF Labels, CallStatus
  <2>3. Status' = Status
    BY <1>0, <2>1, <2>2, StatusStays DEF Labels
  <2> QED
    BY <2>1, <2>3 DEF FifoVars
<1>10. CASE Return(t)
  <2>1. UNCHANGED <<Contents, item>> /\ pc[t] = "release" /\ At(t, pc[t], "loop")
    BY <1>10, SameContents DEF Return, At
  <2>2. Status' = [Status EXCEPT ![t] = "idle"] /\ Status[t] = "done"
    BY <1>0, <2>1, StatusMoves DEF Labels, CallStatus, Status
  <2>3. Fifo!Return(t)
    BY <2>1, <2>2 DEF Fifo!Return, Status
  <2> QED
    BY <2>3 DEF Fifo!TryNext, Fifo!Next
<1> QED
  BY <1>1, <1>2, <1>3, <1>4, <1>5, <1>6, <1>7, <1>8, <1>9, <1>10
     DEF Threading, Step, Enqueue, Dequeue

\* Every behaviour of the ring under its lock, for any threads, any number of
\* blocks and any sizes asked for, is one of the FIFO queue that refuses a put
\* only when it is full and a get only when it is empty (cqueue.c:137-263).
THEOREM Refinement == Spec => IsTryFifo
<1>1. IInv /\ [Next]_vars => [Fifo!TryNext]_(Fifo!vars)
  <2> SUFFICES ASSUME IInv, [Next]_vars
               PROVE  Fifo!TryNext \/ UNCHANGED FifoVars
    BY DEF Fifo!vars, FifoVars, Status
  <2>1. CASE Main \/ Terminating \/ UNCHANGED vars
    <3>1. UNCHANGED ring /\ UNCHANGED <<pc, item>>
      BY <2>1 DEF Main, Terminating, vars
    <3>2. Status' = Status
      BY <3>1 DEF Status, CallStatus
    <3> QED
      BY <3>1, <3>2, SameContents DEF FifoVars
  <2>2. ASSUME NEW t \in Threads, Threading(t)
        PROVE  Fifo!TryNext \/ UNCHANGED FifoVars
    BY <2>2, StepFifo
  <2> QED
    BY <2>1, <2>2 DEF Next
<1> QED
  BY <1>1, InitFifo, IInvHolds, PTL DEF Spec, IsTryFifo, Fifo!TrySpec
-------------------------------------------------------------------------------
\* The n-th item of e, whatever its size.
ItemsOf(e, n) == {m \in Item : m.from = e /\ m.n = n}

\* An enqueuer that is on its way to put brings the item that is next for it.
BringsNext ==
  \A e \in Enqueuers : pc[e] \in {"acquire", "full", "store"} =>
                          item[e].from = e /\ item[e].n = k[e] + 1

\* EachItemOnce, with the items in the ring counted as those of a sequence.
Balance(e, n) ==
  received[<<e, n>>] + Cardinality(PlacesIn(Contents, ItemsOf(e, n)))
    = IF n <= Puts(e) THEN 1 ELSE 0

BalanceInv == /\ BringsNext
              /\ \A e \in Enqueuers, n \in 1 .. NumItems : Balance(e, n)

LEMMA BalanceIsOnce == IInv => ((\A e \in Enqueuers, n \in 1 .. NumItems : Balance(e, n)) <=> EachItemOnce)
<1> SUFFICES ASSUME IInv, NEW e \in Enqueuers, NEW n \in 1 .. NumItems
             PROVE  PlacesIn(Contents, ItemsOf(e, n))
                      = {j \in 1 .. count : Contents[j].from = e /\ Contents[j].n = n}
  BY ZenonT(40) DEF EachItemOnce, Balance
<1>1. Contents \in Seq(Item) /\ Len(Contents) = count /\ count \in Nat
  BY ContentsType
<1>2. \A j \in 1 .. count : Contents[j] \in Item
  BY <1>1, ElementOfSeq
<1> QED BY <1>1, <1>2 DEF PlacesIn, ItemsOf

LEMMA InitBalance == Init => BalanceInv
<1> SUFFICES ASSUME Init PROVE BalanceInv
  OBVIOUS
<1>1. BringsNext
  BY DEF Init, BringsNext, Threads
<1>2. ASSUME NEW e \in Enqueuers, NEW n \in 1 .. NumItems PROVE Balance(e, n)
  <2>1. Contents \in Seq(Item) /\ Len(Contents) = 0
    BY InitIInv, ContentsType DEF Init
  <2>2. Contents = <<>>
    BY <2>1, EmptySeq
  <2>3. Cardinality(PlacesIn(Contents, ItemsOf(e, n))) = 0
    BY <2>1, <2>2, PlacesFinite
  <2>4. Puts(e) = 0 /\ received[<<e, n>>] = 0 /\ ~(n <= 0)
    <3>1. received = [q \in Enqueuers \X (1 .. NumItems) |-> 0] /\ <<e, n>> \in Enqueuers \X (1 .. NumItems)
      BY DEF Init
    <3> QED BY <3>1 DEF Init, Puts, Threads
  <2> QED BY <2>3, <2>4 DEF Balance
<1> QED BY <1>1, <1>2 DEF BalanceInv

LEMMA BringsNextStep ==
  ASSUME IInv, BringsNext, NEW t \in Threads, Threading(t)
  PROVE  BringsNext'
<1>0. TypeOK /\ OwnCall
  BY DEF IInv
<1> SUFFICES ASSUME NEW e \in Enqueuers, pc'[e] \in {"acquire", "full", "store"}
             PROVE  item'[e].from = e /\ item'[e].n = k'[e] + 1
  BY DEF BringsNext
<1>1. e \in Threads /\ e \notin Dequeuers
  BY ConstantsAssumption DEF Threads
<1>2. CASE e # t
  BY <1>1, <1>2, OthersKeep DEF BringsNext
<1>3. CASE e = t /\ CallEnqueue(t)
  <2>1. UNCHANGED k /\ pc'[t] # "failed" =>
          \E s \in Sizes[t] : item' = [item EXCEPT ![t] = [from |-> t, n |-> k[t] + 1, size |-> s]]
    BY <1>0, <1>1, <1>3 DEF CallEnqueue, At, Goto, TypeOK
  <2>2. UNCHANGED k
    BY <1>3 DEF CallEnqueue
  <2> QED BY <1>0, <1>1, <1>3, <2>1, <2>2 DEF TypeOK
<1>4. CASE e = t /\ ~CallEnqueue(t)
  <2>1. /\ pc[e] \in {"acquire", "full", "store"}
        /\ UNCHANGED <<item, k>>
    BY <1>0, <1>1, <1>4 DEF Threading, Step, TryLock, Enqueue, Dequeue, EnqAcquire, EnqFull,
                            EnqStore, DeqAcquire, LoopEnds, Return, At, Goto, TypeOK
  <2> QED BY <2>1 DEF BringsNext
<1> QED BY <1>2, <1>3, <1>4

\* A step that leaves the ring and the history alone and finishes no put.
LEMMA BalanceKept ==
  ASSUME UNCHANGED <<ring, received>>, NEW e \in Enqueuers, NEW n \in 1 .. NumItems,
         Balance(e, n), Puts(e)' = Puts(e)
  PROVE  Balance(e, n)'
<1>1. Contents' = Contents
  BY SameContents
<1>2. PlacesIn(Contents, ItemsOf(e, n))' = PlacesIn(Contents, ItemsOf(e, n))
  BY <1>1 DEF PlacesIn, ItemsOf
<1> QED BY <1>2 DEF Balance

LEMMA BalanceStep ==
  ASSUME IInv, BalanceInv, NEW t \in Threads, Threading(t),
         NEW e \in Enqueuers, NEW n \in 1 .. NumItems
  PROVE  Balance(e, n)'
<1> USE ConstantsAssumption
<1>0. TypeOK /\ OwnCall /\ BringsNext /\ Balance(e, n)
  BY DEF IInv, BalanceInv
<1>1. e \in Threads /\ e \notin Dequeuers
  BY DEF Threads
<1>2. /\ Contents \in Seq(Item) /\ k[e] \in Nat /\ Puts(e) \in Nat
      /\ received \in [Enqueuers \X (1 .. NumItems) -> Nat] /\ received[<<e, n>>] \in Nat
      /\ Cardinality(PlacesIn(Contents, ItemsOf(e, n))) \in Nat
  <2>1. Contents \in Seq(Item)
    BY ContentsType
  <2>2. Cardinality(PlacesIn(Contents, ItemsOf(e, n))) \in Nat
    BY <2>1, PlacesFinite
  <2>3. /\ received \in [Enqueuers \X (1 .. NumItems) -> Nat]
        /\ <<e, n>> \in Enqueuers \X (1 .. NumItems)
    BY <1>0 DEF TypeOK
  <2>4. received[<<e, n>>] \in Nat
    BY <2>3
  <2>5. k[e] \in Nat
    BY <1>0, <1>1 DEF TypeOK
  <2>6. Puts(e) \in Nat
    BY <2>5 DEF Puts
  <2> QED BY <2>1, <2>2, <2>3, <2>4, <2>5, <2>6
<1>3. Contents' \in Seq(Item) => PlacesIn(Contents, ItemsOf(e, n))' = PlacesIn(Contents', ItemsOf(e, n))
  BY DEF PlacesIn, ItemsOf
<1>4. PICK r \in Nat, c \in Nat, p \in Nat :
         /\ r = received[<<e, n>>] /\ p = Puts(e)
         /\ c = Cardinality(PlacesIn(Contents, ItemsOf(e, n)))
  BY <1>2
<1>5. r + c = IF n <= p THEN 1 ELSE 0
  BY <1>0, <1>4 DEF Balance
<1>6. CASE t \in Enqueuers /\ EnqStore(t)
  <2>1. /\ item[t] \in Item /\ item[t].from = t /\ item[t].n = k[t] + 1
        /\ pc[t] = "store" /\ pc' = [pc EXCEPT ![t] = "release"]
        /\ UNCHANGED <<k, received>>
    BY <1>0, <1>6 DEF EnqStore, At, Goto, OwnCall, BringsNext
  <2>2. Contents' = Append(Contents, item[t])
    BY <1>6, EnqStoreRing
  <2>3. Cardinality(PlacesIn(Append(Contents, item[t]), ItemsOf(e, n)))
          = c + IF item[t] \in ItemsOf(e, n) THEN 1 ELSE 0
    <3>1. Contents \in Seq(Item) /\ item[t] \in Item
      BY <1>2, <2>1
    <3>2. Cardinality(PlacesIn(Append(Contents, item[t]), ItemsOf(e, n)))
            = Cardinality(PlacesIn(Contents, ItemsOf(e, n)))
                + IF item[t] \in ItemsOf(e, n) THEN 1 ELSE 0
      BY <3>1, PlacesAppend
    <3> QED BY <1>4, <3>2
  <2>4. item[t] \in ItemsOf(e, n) <=> t = e /\ n = k[e] + 1
    BY <2>1 DEF ItemsOf
  <2>5. /\ t = e => p = k[e]
        /\ Puts(e)' = IF t = e THEN p + 1 ELSE p
    <3>1. pc'[e] = IF t = e THEN "release" ELSE pc[e]
      BY <1>0, <1>1, <2>1 DEF TypeOK
    <3>2. Puts(e)' = k[e] + IF pc'[e] = "release" THEN 1 ELSE 0
      BY <2>1 DEF Puts
    <3>3. Puts(e) = k[e] + IF pc[e] = "release" THEN 1 ELSE 0
      BY DEF Puts
    <3>4. CASE t = e
      <4>1. k[e] \in Nat /\ pc[e] # "release"
        BY <1>2, <2>1, <3>4
      <4>2. p = k[e]
        <5>1. Puts(e) = k[e]
          BY <3>3, <4>1
        <5> QED BY <1>4, <5>1
      <4>3. Puts(e)' = k[e] + 1
        BY <3>1, <3>2, <3>4
      <4> QED BY <3>4, <4>2, <4>3
    <3>5. CASE t # e
      BY <1>4, <3>1, <3>2, <3>3, <3>5
    <3> QED BY <3>4, <3>5
  <2>6. Balance(e, n)' <=> r + Cardinality(PlacesIn(Append(Contents, item[t]), ItemsOf(e, n)))
                             = IF n <= Puts(e)' THEN 1 ELSE 0
    BY <1>4, <2>1, <2>2 DEF Balance, PlacesIn, ItemsOf
  <2>7. CASE t = e
    <3>1. item[t] \in ItemsOf(e, n) <=> n = p + 1
      BY <2>4, <2>5, <2>7
    <3> QED BY <1>5, <2>3, <2>5, <2>6, <2>7, <3>1, SMTT(30)
  <2>8. CASE t # e
    BY <1>5, <2>3, <2>4, <2>5, <2>6, <2>8
  <2> QED BY <2>7, <2>8
<1>7. CASE t \in Dequeuers /\ DeqTake(t)
  <2>1. /\ data[tail] \in Item /\ Contents # <<>> /\ Head(Contents) = data[tail]
        /\ Contents' = Tail(Contents)
    BY <1>7, DeqTakeRing
  <2>2. /\ received' = [received EXCEPT ![<<data[tail].from, data[tail].n>>] = @ + 1]
        /\ UNCHANGED k /\ pc' = [pc EXCEPT ![t] = "release"]
    BY <1>7 DEF DeqTake, At, Goto
  <2>3. Cardinality(PlacesIn(Tail(Contents), ItemsOf(e, n)))
          = c - IF Head(Contents) \in ItemsOf(e, n) THEN 1 ELSE 0
    <3>1. Cardinality(PlacesIn(Tail(Contents), ItemsOf(e, n)))
            = Cardinality(PlacesIn(Contents, ItemsOf(e, n)))
                - IF Head(Contents) \in ItemsOf(e, n) THEN 1 ELSE 0
      BY <1>2, <2>1, PlacesTail
    <3> QED BY <1>4, <3>1
  <2>4. Head(Contents) \in ItemsOf(e, n) <=> <<data[tail].from, data[tail].n>> = <<e, n>>
    BY <2>1 DEF ItemsOf
  <2>5. received'[<<e, n>>] = r + IF <<data[tail].from, data[tail].n>> = <<e, n>> THEN 1 ELSE 0
    <3>1. <<e, n>> \in Enqueuers \X (1 .. NumItems)
      OBVIOUS
    <3>2. received'[<<e, n>>] = IF <<data[tail].from, data[tail].n>> = <<e, n>>
                                THEN received[<<e, n>>] + 1 ELSE received[<<e, n>>]
      BY <1>2, <2>2, <3>1
    <3> QED BY <1>4, <3>2, SMTT(30)
  <2>6. Puts(e)' = p
    BY <1>0, <1>1, <1>4, <1>7, <2>2 DEF Puts, TypeOK
  <2>7. Balance(e, n)' <=> received'[<<e, n>>] + Cardinality(PlacesIn(Tail(Contents), ItemsOf(e, n)))
                             = IF n <= p THEN 1 ELSE 0
    BY <2>1, <2>6 DEF Balance, PlacesIn, ItemsOf
  <2>8. CASE <<data[tail].from, data[tail].n>> = <<e, n>>
    BY <1>5, <2>3, <2>4, <2>5, <2>7, <2>8, SMTT(30)
  <2>9. CASE <<data[tail].from, data[tail].n>> # <<e, n>>
    <3>1. Head(Contents) \notin ItemsOf(e, n)
      BY <2>4, <2>9
    <3>2. Cardinality(PlacesIn(Tail(Contents), ItemsOf(e, n))) = c
      BY <2>3, <3>1
    <3>3. received'[<<e, n>>] = r
      BY <2>5, <2>9
    <3> QED BY <1>5, <2>7, <3>2, <3>3
  <2> QED BY <2>8, <2>9
<1>8. CASE ~(t \in Enqueuers /\ EnqStore(t)) /\ ~(t \in Dequeuers /\ DeqTake(t))
  <2>1. UNCHANGED <<ring, received>>
    BY <1>8 DEF Threading, Step, TryLock, EnqAcquire, DeqAcquire, Enqueue, Dequeue, CallEnqueue,
                CallDequeue, EnqFull, DeqEmpty, DeqFails, LoopEnds, Return
  <2>2. Puts(e)' = Puts(e)
    <3>1. CASE t # e
      BY <1>1, <3>1, OthersKeep DEF Puts
    <3>2. CASE t = e
      <4>1. CASE Return(e)
        <5>1. pc[e] = "release" /\ pc'[e] = "loop" /\ k'[e] = k[e] + 1
          BY <1>0, <1>1, <4>1 DEF Return, At, Goto, TypeOK
        <5> QED BY <1>2, <5>1, SMTT(30) DEF Puts
      <4>2. CASE ~Return(e)
        <5>1. pc[e] # "release" /\ pc'[e] # "release" /\ k'[e] = k[e]
          BY <1>0, <1>1, <1>8, <3>2, <4>2
             DEF Threading, Step, TryLock, EnqAcquire, Enqueue, CallEnqueue, EnqFull, LoopEnds,
                 At, Goto, TypeOK
        <5> QED BY <5>1 DEF Puts
      <4> QED BY <4>1, <4>2
    <3> QED BY <3>1, <3>2
  <2> QED BY <1>0, <2>1, <2>2, BalanceKept
<1> QED BY <1>6, <1>7, <1>8

\* However often a thread is refused and tries again, and whichever call fails,
\* each item is put once and dequeued once (cqueuetest.c:40-50, 65-76): it is
\* in the ring or with a dequeuer if its enqueue has stored it, and in neither
\* if not.
THEOREM ItemsOnce == Spec => []EachItemOnce
<1>1. IInv /\ BalanceInv /\ [Next]_vars => BalanceInv'
  <2> SUFFICES ASSUME IInv, BalanceInv, [Next]_vars PROVE BalanceInv'
    OBVIOUS
  <2>1. ASSUME NEW t \in Threads, Threading(t) PROVE BalanceInv'
    BY <2>1, BringsNextStep, BalanceStep DEF BalanceInv
  <2>2. CASE Main \/ Terminating \/ UNCHANGED vars
    <3>1. UNCHANGED <<ring, received, pc, item, k>>
      BY <2>2 DEF Main, Terminating, vars, ring
    <3>2. BringsNext' /\ \A e \in Enqueuers : Puts(e)' = Puts(e)
      BY <3>1 DEF BalanceInv, BringsNext, Puts
    <3> QED BY <3>1, <3>2, BalanceKept DEF BalanceInv
  <2> QED BY <2>1, <2>2 DEF Next
<1>2. IInv /\ BalanceInv => EachItemOnce
  BY BalanceIsOnce DEF BalanceInv
<1> QED
  BY <1>1, <1>2, InitBalance, IInvHolds, PTL DEF Spec
===============================================================================
