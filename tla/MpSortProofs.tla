----------------------------- MODULE MpSortProofs -----------------------------
(***************************************************************************)
(* Theorems about the sort by processes of MpSort, for every list, every   *)
(* chunk size and every order in which main and the processes run.         *)
(***************************************************************************)
EXTENDS MpSort, FiniteSetTheorems, SequenceTheorems, TLAPS

\* A function on 1 .. n is a sequence of length n.
LEMMA FunctionIsSeq ==
  ASSUME NEW S, NEW n \in Nat, NEW f \in [1 .. n -> S]
  PROVE  f \in Seq(S) /\ Len(f) = n
<1>1. f \in Seq(S)
  BY SeqDef
<1>2. DOMAIN f = 1 .. Len(f) /\ Len(f) \in Nat
  BY <1>1, LenProperties
<1>3. \A m \in Nat : 1 .. n = 1 .. m => n = m
  OBVIOUS
<1> QED
  BY <1>1, <1>2, <1>3

\* The places at which a sequence has an element of X.
PlacesIn(s, X) == {j \in 1 .. Len(s) : s[j] \in X}

LEMMA PlacesFinite ==
  ASSUME NEW S, NEW s \in Seq(S), NEW X
  PROVE  /\ IsFiniteSet(PlacesIn(s, X)) /\ Cardinality(PlacesIn(s, X)) \in Nat
         /\ Cardinality(PlacesIn(s, X)) <= Len(s)
         /\ s = <<>> => Cardinality(PlacesIn(s, X)) = 0
<1>1. Len(s) \in Nat
  BY LenProperties
<1>2. PlacesIn(s, X) \in SUBSET (1 .. Len(s))
  BY DEF PlacesIn
<1>3. IsFiniteSet(1 .. Len(s)) /\ Cardinality(1 .. Len(s)) = Len(s)
  BY <1>1, FS_Interval
<1>4. s = <<>> => PlacesIn(s, X) = {}
  BY DEF PlacesIn
<1>5. /\ IsFiniteSet(PlacesIn(s, X))
      /\ Cardinality(PlacesIn(s, X)) <= Cardinality(1 .. Len(s))
  BY <1>2, <1>3, FS_Subset
<1>6. Cardinality(PlacesIn(s, X)) \in Nat
  BY <1>5, FS_CardinalityType
<1>7. s = <<>> => Cardinality(PlacesIn(s, X)) = 0
  BY <1>4, FS_EmptySet
<1> QED BY <1>3, <1>5, <1>6, <1>7

LEMMA PlacesAppend ==
  ASSUME NEW S, NEW s \in Seq(S), NEW e \in S, NEW X
  PROVE  Cardinality(PlacesIn(Append(s, e), X))
           = Cardinality(PlacesIn(s, X)) + IF e \in X THEN 1 ELSE 0
<1> DEFINE n == Len(s) + 1
<1>1. /\ Len(s) \in Nat /\ Len(Append(s, e)) = n
      /\ Append(s, e)[n] = e /\ \A j \in 1 .. Len(s) : Append(s, e)[j] = s[j]
  BY LenProperties, AppendProperties
<1>2. n \notin PlacesIn(s, X)
  BY <1>1 DEF PlacesIn
<1>3. IsFiniteSet(PlacesIn(s, X)) /\ Cardinality(PlacesIn(s, X)) \in Nat
  BY PlacesFinite
<1>4. CASE e \in X
  <2>1. PlacesIn(Append(s, e), X) = PlacesIn(s, X) \cup {n}
    BY <1>1, <1>4 DEF PlacesIn
  <2> QED BY <2>1, <1>2, <1>3, <1>4, FS_AddElement
<1>5. CASE e \notin X
  <2>1. PlacesIn(Append(s, e), X) = PlacesIn(s, X)
    BY <1>1, <1>5 DEF PlacesIn
  <2> QED BY <2>1, <1>3, <1>5
<1> QED BY <1>4, <1>5
-------------------------------------------------------------------------------
\* The place of an element is between 1 and the length.
LEMMA PlaceType ==
  ASSUME NEW s \in Seq(Int), NEW x \in 1 .. Len(s)
  PROVE  Place(s, x) \in 1 .. Len(s)
<1>1. Len(s) \in Nat /\ s \in [1 .. Len(s) -> Int]
  BY LenProperties
<1>3. IsFiniteSet(1 .. Len(s)) /\ Cardinality(1 .. Len(s)) = Len(s)
  <2>1. \A n \in Nat : IsFiniteSet(1 .. n) /\ Cardinality(1 .. n) = n
    BY FS_Interval
  <2> QED
    BY <1>1, <2>1
<1> DEFINE U == {y \in 1 .. Len(s) : s[y] < s[x] \/ (s[y] = s[x] /\ y <= x)}
<1>2. U \in SUBSET (1 .. Len(s)) /\ x \in U
  BY <1>1
<1>4. IsFiniteSet(U) /\ Cardinality(U) <= Len(s)
  BY <1>2, <1>3, FS_Subset
<1>5. Cardinality(U) \in Nat /\ Cardinality(U) # 0
  BY <1>2, <1>4, FS_CardinalityType, FS_EmptySet
<1>6. Place(s, x) = Cardinality(U)
  BY DEF Place
<1> QED
  BY <1>1, <1>4, <1>5, <1>6

\* A lesser element, and the earlier of two equal ones, has the lower place.
LEMMA PlaceOrders ==
  ASSUME NEW s \in Seq(Int), NEW x \in 1 .. Len(s), NEW z \in 1 .. Len(s),
         s[x] < s[z] \/ (s[x] = s[z] /\ x < z)
  PROVE  Place(s, x) < Place(s, z)
<1> DEFINE U(w) == {y \in 1 .. Len(s) : s[y] < s[w] \/ (s[y] = s[w] /\ y <= w)}
<1>1. Len(s) \in Nat /\ s \in [1 .. Len(s) -> Int]
  BY LenProperties
<1>2. U(z) \in SUBSET (1 .. Len(s)) /\ IsFiniteSet(1 .. Len(s))
  BY <1>1, FS_Interval
<1>3. IsFiniteSet(U(z))
  BY <1>2, FS_Subset
<1>4. U(x) \in SUBSET U(z)
  <2> SUFFICES ASSUME NEW y \in U(x) PROVE y \in U(z)
    OBVIOUS
  <2>1. s[y] \in Int /\ s[x] \in Int /\ s[z] \in Int /\ y \in Int
    BY <1>1
  <2> QED
    BY <2>1
<1>5. z \in U(z) /\ z \notin U(x)
  <2>1. s[x] \in Int /\ s[z] \in Int
    BY <1>1
  <2> QED
    BY <2>1
<1> HIDE DEF U
<1>6. /\ IsFiniteSet(U(x)) /\ Cardinality(U(x)) <= Cardinality(U(z))
      /\ Cardinality(U(x)) # Cardinality(U(z))
  BY <1>3, <1>4, <1>5, FS_Subset
<1>7. Cardinality(U(x)) \in Nat /\ Cardinality(U(z)) \in Nat
  BY <1>3, <1>6, FS_CardinalityType
<1>8. Place(s, x) = Cardinality(U(x)) /\ Place(s, z) = Cardinality(U(z))
  BY DEF Place, U
<1> QED
  BY <1>6, <1>7, <1>8

\* So the places are a numbering of the elements: at every place there is one.
At(s, k) == CHOOSE x \in 1 .. Len(s) : Place(s, x) = k

LEMMA OneAtEach ==
  ASSUME NEW s \in Seq(Int)
  PROVE  /\ \A k \in 1 .. Len(s) : At(s, k) \in 1 .. Len(s) /\ Place(s, At(s, k)) = k
         /\ \A x \in 1 .. Len(s) : At(s, Place(s, x)) = x
<1> DEFINE D == 1 .. Len(s)
           f == [x \in D |-> Place(s, x)]
<1>1. Len(s) \in Nat /\ s \in [D -> Int]
  BY LenProperties
<1>2. \A x \in D : Place(s, x) \in D
  BY PlaceType
<1>3. ASSUME NEW x \in D, NEW z \in D, Place(s, x) = Place(s, z) PROVE x = z
  <2>1. s[x] \in Int /\ s[z] \in Int /\ Place(s, x) \in Int /\ x \in Int /\ z \in Int
    BY <1>1, <1>2
  <2>2. ~(s[x] < s[z] \/ (s[x] = s[z] /\ x < z))
    BY <1>3, <2>1, PlaceOrders
  <2>3. ~(s[z] < s[x] \/ (s[z] = s[x] /\ z < x))
    BY <1>3, <2>1, PlaceOrders
  <2> QED
    BY <2>1, <2>2, <2>3
<1>4. f \in Injection(D, D)
  BY <1>2, <1>3 DEF Injection, IsInjective
<1>5. IsFiniteSet(D)
  BY <1>1, FS_Interval
<1>6. f \in Surjection(D, D)
  BY <1>4, <1>5, FS_Injection
<1>7. \A k \in D : \E x \in D : Place(s, x) = k
  BY <1>6 DEF Surjection
<1>8. \A k \in D : At(s, k) \in D /\ Place(s, At(s, k)) = k
  BY <1>7 DEF At
<1>9. \A x \in D : At(s, Place(s, x)) = x
  BY <1>2, <1>3, <1>8
<1> QED
  BY <1>8, <1>9

LEMMA SortedValue ==
  ASSUME NEW S \in SUBSET Int, NEW s \in Seq(S)
  PROVE  /\ SortedSeq(s) \in Seq(S) /\ Len(SortedSeq(s)) = Len(s)
         /\ \A k \in 1 .. Len(s) : SortedSeq(s)[k] = s[At(s, k)]
<1>1. Len(s) \in Nat /\ s \in [1 .. Len(s) -> S] /\ s \in Seq(Int)
  BY LenProperties, SeqMonotonic
<1>2. \A k \in 1 .. Len(s) : At(s, k) \in 1 .. Len(s)
  BY <1>1, OneAtEach
<1>3. SortedSeq(s) = [k \in 1 .. Len(s) |-> s[At(s, k)]]
  BY DEF SortedSeq, At
<1>4. SortedSeq(s) \in [1 .. Len(s) -> S]
  BY <1>1, <1>2, <1>3
<1>5. SortedSeq(s) \in Seq(S) /\ Len(SortedSeq(s)) = Len(s)
  BY <1>1, <1>4, FunctionIsSeq
<1> QED
  BY <1>3, <1>5

\* SortedSeq is in order.
LEMMA SortedInOrder ==
  ASSUME NEW s \in Seq(Int), NEW k \in 1 .. Len(s), NEW l \in k .. Len(s)
  PROVE  SortedSeq(s)[k] <= SortedSeq(s)[l]
<1>1. Len(s) \in Nat /\ s \in [1 .. Len(s) -> Int] /\ l \in 1 .. Len(s)
  BY LenProperties
<1>2. /\ At(s, k) \in 1 .. Len(s) /\ Place(s, At(s, k)) = k
      /\ At(s, l) \in 1 .. Len(s) /\ Place(s, At(s, l)) = l
  BY <1>1, OneAtEach
<1>3. ~(s[At(s, l)] < s[At(s, k)])
  <2> SUFFICES ASSUME s[At(s, l)] < s[At(s, k)] PROVE FALSE
    OBVIOUS
  <2>1. l < k
    BY <1>2, PlaceOrders
  <2> QED
    BY <2>1, <1>1
<1>4. s[At(s, l)] \in Int /\ s[At(s, k)] \in Int
  BY <1>1, <1>2
<1>5. SortedSeq(s)[k] = s[At(s, k)] /\ SortedSeq(s)[l] = s[At(s, l)]
  BY <1>1, SortedValue
<1> QED
  BY <1>3, <1>4, <1>5

\* SortedSeq holds each value as often as the list.
LEMMA SortedCount ==
  ASSUME NEW s \in Seq(Int), NEW X
  PROVE  Cardinality(PlacesIn(SortedSeq(s), X)) = Cardinality(PlacesIn(s, X))
<1> DEFINE f == [k \in PlacesIn(SortedSeq(s), X) |-> At(s, k)]
<1>1. /\ Len(SortedSeq(s)) = Len(s) /\ SortedSeq(s) \in Seq(Int)
      /\ \A k \in 1 .. Len(s) : SortedSeq(s)[k] = s[At(s, k)]
  BY SortedValue
<1>2. /\ \A k \in 1 .. Len(s) : At(s, k) \in 1 .. Len(s) /\ Place(s, At(s, k)) = k
      /\ \A x \in 1 .. Len(s) : At(s, Place(s, x)) = x /\ Place(s, x) \in 1 .. Len(s)
  BY OneAtEach, PlaceType
<1>3. f \in [PlacesIn(SortedSeq(s), X) -> PlacesIn(s, X)]
  BY <1>1, <1>2 DEF PlacesIn
<1>4. \A k, l \in PlacesIn(SortedSeq(s), X) : f[k] = f[l] => k = l
  BY <1>1, <1>2 DEF PlacesIn
<1>5. ASSUME NEW x \in PlacesIn(s, X)
      PROVE  \E k \in PlacesIn(SortedSeq(s), X) : f[k] = x
  <2>1. Place(s, x) \in PlacesIn(SortedSeq(s), X)
    BY <1>1, <1>2 DEF PlacesIn
  <2>2. f[Place(s, x)] = x
    BY <1>2, <2>1 DEF PlacesIn
  <2> QED
    BY <2>1, <2>2
<1>6. f \in Bijection(PlacesIn(SortedSeq(s), X), PlacesIn(s, X))
  BY <1>3, <1>4, <1>5 DEF Bijection, Injection, Surjection, IsInjective
<1> QED
  BY <1>1, <1>6, PlacesFinite, FS_Bijection DEF ExistsBijection

-------------------------------------------------------------------------------
Positions == 1 .. chunk_size

\* The values of process p in order, and the items it puts: an entry for each
\* of them and the sentinel.
Value(list, p, n) == SortedSeq(Chunk(list, p))[n]
Entry(list, p, n) == [value |-> Value(list, p, n), queue_index |-> p]
Item(list, p, n) == IF n \in Positions THEN Entry(list, p, n) ELSE None

\* How many items of process p main has got, and how many of them are in the
\* result: all but the one in the priority queue, and but the sentinel.
Got(p) == chunk_size + 1 - Len(to_put[p]) - Len(queues[p])
Asked(p) == main = "refill" /\ p = next_index
Emitted == [p \in Processes |-> IF Got(p) = 0 \/ Asked(p) THEN Got(p) ELSE Got(p) - 1]
Held == {p \in Processes : Got(p) \in Positions /\ ~Asked(p)}

\* What a process has not handed over yet is the rest of its items.
Streams ==
  \A p \in Processes :
     /\ Got(p) >= 0
     /\ \A j \in 1 .. Len(to_put[p]) :
           to_put[p][j] = Item(lst, p, chunk_size + 1 - Len(to_put[p]) + j)
     /\ queues[p] # <<>> =>
           queues[p] = <<Item(lst, p, chunk_size + 1 - Len(to_put[p]))>>

\* Where main is tells what it has got.
Phases ==
  /\ main = "fill" => /\ i \in 0 .. num_chunks - 1
                      /\ \A p \in Processes : Got(p) = IF p < i THEN 1 ELSE 0
  /\ main # "fill" => \A p \in Processes : Got(p) >= 1
  /\ main = "refill" => Got(next_index) <= chunk_size
  /\ main \in {"join", "done"} => \A p \in Processes : Got(p) = chunk_size + 1

Queued == pqueue = {Entry(lst, p, Got(p)) : p \in Held}

\* Nothing that is left is less than what is in the result.
Ascends ==
  \A a \in 1 .. Len(sorted_list) :
     /\ \A b \in a .. Len(sorted_list) : sorted_list[a] <= sorted_list[b]
     /\ \A p \in Processes : \A n \in Positions :
           n > Emitted[p] => sorted_list[a] <= Value(lst, p, n)

\* The elements with a value in X among the first em[p] of each process.
FirstOf(list, em, X) == {e \in Processes \X Positions :
                     e[2] <= em[e[1]] /\ Value(list, e[1], e[2]) \in X}

\* The result has each value as often as the elements that were popped.
Counted ==
  \A X \in SUBSET Int :
     Cardinality(PlacesIn(sorted_list, X)) = Cardinality(FirstOf(lst, Emitted, X))

\* The list has room for all chunks, one behind the other.
LEMMA ChunksFit ==
  /\ chunk_size \in Nat \ {0} /\ num_chunks \in Nat \ {0}
  /\ num_chunks * chunk_size \in 1 .. Length
  /\ \A p \in Processes : /\ p * chunk_size \in Nat
                          /\ (p + 1) * chunk_size = p * chunk_size + chunk_size
                          /\ (p + 1) * chunk_size <= num_chunks * chunk_size
<1>1. chunk_size \in Nat \ {0} /\ Length \in Nat /\ chunk_size <= Length
  BY ConstantsAssumption
<1>2. /\ num_chunks \in Int
      /\ num_chunks * chunk_size <= Length
      /\ Length < num_chunks * chunk_size + chunk_size
  BY <1>1 DEF num_chunks
<1>3. num_chunks \in Nat \ {0}
  <2>1. \A a \in Int, c \in Nat \ {0} : a <= 0 => a * c <= 0
    OBVIOUS
  <2>2. num_chunks * chunk_size > 0
    BY <1>1, <1>2
  <2> QED
    BY <1>1, <1>2, <2>1, <2>2
<1>4. \A a, c \in Nat : a * c \in Nat /\ (a + 1) * c = a * c + c
  OBVIOUS
<1>5. \A a, b, c \in Nat : a <= b => a * c <= b * c
  OBVIOUS
<1>6. num_chunks * chunk_size \in 1 .. Length
  <2>1. \A a, c \in Nat \ {0} : a * c >= 1 /\ a * c \in Nat
    OBVIOUS
  <2> QED
    BY <1>1, <1>2, <1>3, <2>1
<1>7. \A p \in Processes : p \in Nat /\ p + 1 \in Nat /\ p + 1 <= num_chunks
  BY <1>3 DEF Processes
<1> QED
  BY <1>1, <1>3, <1>4, <1>5, <1>6, <1>7

LEMMA ChunkValues ==
  ASSUME NEW list \in [1 .. Length -> Values], NEW p \in Processes
  PROVE  /\ Chunk(list, p) \in Seq(Values) /\ Chunk(list, p) \in Seq(Int)
         /\ Len(Chunk(list, p)) = chunk_size
         /\ \A n \in Positions : /\ p * chunk_size + n \in 1 .. num_chunks * chunk_size
                                 /\ Chunk(list, p)[n] = list[p * chunk_size + n]
<1>1. PICK a \in Nat : a = p * chunk_size
  BY ChunksFit
<1>2. PICK b \in Nat : b = num_chunks * chunk_size
  BY ChunksFit
<1>3. /\ (p + 1) * chunk_size = a + chunk_size /\ a + chunk_size <= b
      /\ b <= Length /\ Length \in Nat /\ chunk_size \in Nat \ {0}
      /\ Values \subseteq Int
  BY <1>1, <1>2, ChunksFit, ConstantsAssumption
<1>4. Chunk(list, p) = SubSeq(list, a + 1, a + chunk_size)
  BY <1>1, <1>3 DEF Chunk
<1>5. \A x \in a + 1 .. a + chunk_size : list[x] \in Values
  BY <1>3
<1>6. /\ Chunk(list, p) \in Seq(Values) /\ Len(Chunk(list, p)) = chunk_size
      /\ \A n \in 1 .. chunk_size : Chunk(list, p)[n] = list[a + n]
  <2>1. PICK lo \in Int : lo = a + 1
    OBVIOUS
  <2>2. PICK hi \in Int : hi = a + chunk_size
    BY <1>3
  <2>3. \A x \in lo .. hi : list[x] \in Values
    BY <1>5, <2>1, <2>2
  <2>4. /\ SubSeq(list, lo, hi) \in Seq(Values)
        /\ Len(SubSeq(list, lo, hi)) = IF lo <= hi THEN hi - lo + 1 ELSE 0
        /\ \A n \in 1 .. hi - lo + 1 : SubSeq(list, lo, hi)[n] = list[lo + n - 1]
    BY <2>3, SubSeqProperties
  <2>5. lo <= hi /\ hi - lo + 1 = chunk_size /\ \A n \in 1 .. chunk_size : lo + n - 1 = a + n
    BY <1>3, <2>1, <2>2
  <2> QED
    BY <1>4, <2>1, <2>2, <2>4, <2>5
<1>7. \A n \in Positions : a + n \in 1 .. b
  BY <1>3 DEF Positions
<1> QED
  BY <1>1, <1>2, <1>3, <1>6, <1>7, SeqMonotonic DEF Positions

LEMMA ValueType ==
  ASSUME NEW list \in [1 .. Length -> Values], NEW p \in Processes,
         NEW n \in Positions
  PROVE  /\ Value(list, p, n) \in Values /\ Value(list, p, n) \in Int
         /\ Entry(list, p, n) \in PQEntry
<1>1. SortedSeq(Chunk(list, p)) \in Seq(Values) /\ Len(SortedSeq(Chunk(list, p))) = chunk_size
  BY ChunkValues, SortedValue, ConstantsAssumption
<1>2. Value(list, p, n) \in Values
  BY <1>1, ElementOfSeq DEF Value, Positions
<1> QED
  BY <1>2, ConstantsAssumption DEF Entry, PQEntry

LEMMA ValuesAscend ==
  ASSUME NEW list \in [1 .. Length -> Values], NEW p \in Processes,
         NEW n \in Positions, NEW m \in n .. chunk_size
  PROVE  Value(list, p, n) <= Value(list, p, m)
<1>1. Chunk(list, p) \in Seq(Int) /\ Len(Chunk(list, p)) = chunk_size
  BY ChunkValues
<1> QED
  BY <1>1, SortedInOrder DEF Value, Positions

\* What a process puts.
LEMMA ItemsPut ==
  ASSUME NEW list \in [1 .. Length -> Values], NEW p \in Processes
  PROVE  LET s == Entries(Chunk(list, p), p) IN
         /\ s \in Seq(Items) /\ Len(s) = chunk_size + 1
         /\ \A n \in 1 .. chunk_size + 1 : s[n] = Item(list, p, n)
<1> DEFINE e == [n \in 1 .. chunk_size |-> Entry(list, p, n)]
<1>1. /\ Len(SortedSeq(Chunk(list, p))) = chunk_size /\ chunk_size \in Nat
  BY ChunkValues, SortedValue, ConstantsAssumption, ChunksFit
<1>2. \A n \in 1 .. chunk_size : Entry(list, p, n) \in Items
  BY ValueType DEF Items, Positions
<1>3. e \in [1 .. chunk_size -> Items]
  BY <1>2
<1>4. e \in Seq(Items) /\ Len(e) = chunk_size
  BY <1>1, <1>3, FunctionIsSeq
<1>5. Entries(Chunk(list, p), p) = Append(e, None)
  BY <1>1 DEF Entries, Entry, Value
<1>6. None \in Items
  BY DEF Items
<1>7. \A n \in 1 .. chunk_size : e[n] = Item(list, p, n)
  BY DEF Item, Positions
<1>8. Item(list, p, chunk_size + 1) = None
  BY <1>1 DEF Item, Positions
<1> HIDE DEF e
<1>9. /\ Append(e, None) \in Seq(Items) /\ Len(Append(e, None)) = chunk_size + 1
      /\ \A n \in 1 .. chunk_size : Append(e, None)[n] = e[n]
      /\ Append(e, None)[chunk_size + 1] = None
  BY <1>4, <1>6, AppendProperties
<1>10. \A n \in 1 .. chunk_size + 1 : n \in 1 .. chunk_size \/ n = chunk_size + 1
  BY <1>1
<1> QED
  BY <1>5, <1>7, <1>8, <1>9, <1>10

\* The list's beginning, all chunks together.
Whole(list) == SubSeq(list, 1, num_chunks * chunk_size)

LEMMA WholeValues ==
  ASSUME NEW list \in [1 .. Length -> Values]
  PROVE  /\ Whole(list) \in Seq(Values) /\ Whole(list) \in Seq(Int)
         /\ Len(Whole(list)) = num_chunks * chunk_size
         /\ \A x \in 1 .. num_chunks * chunk_size : Whole(list)[x] = list[x]
<1>1. PICK b \in Nat \ {0} : b = num_chunks * chunk_size
  BY ChunksFit, ConstantsAssumption
<1>2. b <= Length /\ Length \in Nat /\ Values \subseteq Int
  BY <1>1, ChunksFit, ConstantsAssumption
<1>3. \A x \in 1 .. b : list[x] \in Values
  BY <1>2
<1>4. /\ Whole(list) \in Seq(Values) /\ Len(Whole(list)) = b
      /\ \A x \in 1 .. b : Whole(list)[x] = list[x]
  <2>1. b - 1 + 1 = b /\ 1 <= b /\ \A x \in 1 .. b : 1 + x - 1 = x
    BY <1>2
  <2> QED
    BY <1>1, <1>3, <2>1, SubSeqProperties DEF Whole
<1> QED
  BY <1>1, <1>2, <1>4, SeqMonotonic

\* Every index in it is in one chunk, at one position.
LEMMA Split ==
  /\ \A p, q \in Processes : \A n, m \in Positions :
        p * chunk_size + n = q * chunk_size + m => p = q /\ n = m
  /\ \A x \in 1 .. num_chunks * chunk_size :
        \E p \in Processes : \E n \in Positions : x = p * chunk_size + n
<1>0. /\ chunk_size \in Nat \ {0} /\ num_chunks \in Nat \ {0}
      /\ num_chunks * chunk_size \in Nat /\ \A p \in Processes : p \in Nat
  BY ChunksFit, ConstantsAssumption DEF Processes
<1>1. \A a, b, c \in Nat : a < b => a * c + c <= b * c
  <2>1. \A a, b, c \in Nat : a + 1 <= b => (a + 1) * c <= b * c
    OBVIOUS
  <2>2. \A a, c \in Nat : (a + 1) * c = a * c + c
    OBVIOUS
  <2>3. \A a, b \in Nat : a < b => a + 1 <= b
    OBVIOUS
  <2> QED
    BY <2>1, <2>2, <2>3
<1>2. ASSUME NEW p \in Processes, NEW q \in Processes,
             NEW n \in Positions, NEW m \in Positions,
             p * chunk_size + n = q * chunk_size + m
      PROVE  p = q /\ n = m
  <2>1. PICK a \in Nat : a = p * chunk_size
    BY ChunksFit
  <2>2. PICK b \in Nat : b = q * chunk_size
    BY ChunksFit
  <2>3. /\ p < q => a + chunk_size <= b
        /\ q < p => b + chunk_size <= a
    BY <1>0, <1>1, <2>1, <2>2
  <2>4. /\ n \in Nat /\ 1 <= n /\ n <= chunk_size /\ m \in Nat /\ 1 <= m /\ m <= chunk_size
        /\ a + n = b + m
    BY <1>0, <1>2, <2>1, <2>2 DEF Positions
  <2>5. ~(p < q) /\ ~(q < p)
    BY <1>0, <2>3, <2>4
  <2>6. p = q
    BY <1>0, <2>5
  <2>7. a = b
    BY <2>1, <2>2, <2>6
  <2> QED
    BY <2>4, <2>6, <2>7
<1>3. ASSUME NEW x \in 1 .. num_chunks * chunk_size
      PROVE  \E p \in Processes : \E n \in Positions : x = p * chunk_size + n
  <2>1. PICK y \in Nat : y = x - 1
    BY <1>0
  <2>2. PICK p \in Int : p = y \div chunk_size
    BY <1>0
  <2>3. p * chunk_size <= y /\ y < p * chunk_size + chunk_size
    BY <1>0, <2>2
  <2>4. PICK a \in Int : a = p * chunk_size
    BY <1>0
  <2>5. p >= 0
    <3>1. \A b \in Int, c \in Nat \ {0} : b < 0 => b * c + c <= 0
      OBVIOUS
    <3> QED
      BY <1>0, <2>1, <2>3, <3>1
  <2>6. p < num_chunks
    <3>1. \A b, c, d \in Nat : d <= b => d * c <= b * c
      OBVIOUS
    <3>2. y < num_chunks * chunk_size
      BY <1>0, <2>1
    <3> QED
      BY <1>0, <2>3, <2>4, <2>5, <3>1, <3>2
  <2>7. p \in Processes
    BY <1>0, <2>5, <2>6 DEF Processes
  <2>8. x - a \in Positions /\ x = a + (x - a)
    BY <1>0, <2>1, <2>3, <2>4 DEF Positions
  <2> QED
    BY <2>4, <2>7, <2>8
<1> QED
  BY <1>2, <1>3

\* The processes together have each value as often as the list's beginning.
LEMMA ChunksCount ==
  ASSUME NEW list \in [1 .. Length -> Values], NEW X
  PROVE  LET E == {e \in Processes \X Positions : Value(list, e[1], e[2]) \in X} IN
         /\ IsFiniteSet(E)
         /\ Cardinality(E) = Cardinality(PlacesIn(Whole(list), X))
<1> DEFINE E == {e \in Processes \X Positions : Value(list, e[1], e[2]) \in X}
           Q == PlacesIn(Whole(list), X)
           h == [e \in E |-> e[1] * chunk_size + At(Chunk(list, e[1]), e[2])]
<1>1. ASSUME NEW p \in Processes
      PROVE  /\ Chunk(list, p) \in Seq(Int)
             /\ Len(Chunk(list, p)) = chunk_size
             /\ \A n \in Positions :
                  /\ Value(list, p, n) = Chunk(list, p)[At(Chunk(list, p), n)]
                  /\ At(Chunk(list, p), n) \in Positions
                  /\ Place(Chunk(list, p), n) \in Positions
                  /\ Place(Chunk(list, p), At(Chunk(list, p), n)) = n
                  /\ At(Chunk(list, p), Place(Chunk(list, p), n)) = n
  <2>1. Chunk(list, p) \in Seq(Int) /\ Len(Chunk(list, p)) = chunk_size
    BY ChunkValues
  <2>2. \A n \in Positions : Place(Chunk(list, p), n) \in Positions
    BY <2>1, PlaceType DEF Positions
  <2>3. \A n \in Positions : Value(list, p, n) = Chunk(list, p)[At(Chunk(list, p), n)]
    BY <2>1, SortedValue DEF Value, Positions
  <2> QED
    BY <2>1, <2>2, <2>3, OneAtEach DEF Positions
<1>2. ASSUME NEW p \in Processes, NEW n \in Positions
      PROVE  /\ p * chunk_size + n \in 1 .. num_chunks * chunk_size
             /\ Whole(list)[p * chunk_size + n] = Chunk(list, p)[n]
  BY ChunkValues, WholeValues
<1>3. Len(Whole(list)) = num_chunks * chunk_size /\ Whole(list) \in Seq(Int)
  BY WholeValues
<1>4. ASSUME NEW e \in E PROVE h[e] \in Q
  <2>1. e[1] \in Processes /\ e[2] \in Positions /\ Value(list, e[1], e[2]) \in X
    OBVIOUS
  <2>2. PICK p \in Processes : p = e[1]
    BY <2>1
  <2>3. PICK n \in Positions : n = At(Chunk(list, p), e[2])
    BY <1>1, <2>1, <2>2
  <2>4. Value(list, p, e[2]) = Chunk(list, p)[n]
    BY <1>1, <2>1, <2>2, <2>3
  <2>5. h[e] = p * chunk_size + n
    BY <2>2, <2>3
  <2>6. h[e] \in 1 .. Len(Whole(list)) /\ Whole(list)[h[e]] = Chunk(list, p)[n]
    BY <1>2, <1>3, <2>5
  <2>7. Whole(list)[h[e]] \in X
    BY <2>1, <2>2, <2>4, <2>6
  <2> HIDE DEF h
  <2> QED
    BY <2>6, <2>7 DEF PlacesIn
<1>5. ASSUME NEW e \in E, NEW f \in E, h[e] = h[f] PROVE e = f
  <2>1. /\ e[1] \in Processes /\ e[2] \in Positions
        /\ f[1] \in Processes /\ f[2] \in Positions
        /\ e = <<e[1], e[2]>> /\ f = <<f[1], f[2]>>
    OBVIOUS
  <2>2. /\ At(Chunk(list, e[1]), e[2]) \in Positions
        /\ At(Chunk(list, f[1]), f[2]) \in Positions
    BY <1>1, <2>1
  <2>3. e[1] = f[1] /\ At(Chunk(list, e[1]), e[2]) = At(Chunk(list, f[1]), f[2])
    BY <1>5, <2>1, <2>2, Split
  <2>4. e[2] = f[2]
    BY <1>1, <2>1, <2>3
  <2> QED
    BY <2>1, <2>3, <2>4
<1>6. ASSUME NEW x \in Q PROVE \E e \in E : h[e] = x
  <2>1. x \in 1 .. num_chunks * chunk_size /\ Whole(list)[x] \in X
    BY <1>3 DEF PlacesIn
  <2>2. PICK p \in Processes, n \in Positions : x = p * chunk_size + n
    BY <2>1, Split
  <2> DEFINE k == Place(Chunk(list, p), n)
  <2>3. k \in Positions /\ At(Chunk(list, p), k) = n
    BY <1>1
  <2>4. Value(list, p, k) = Whole(list)[x]
    BY <1>1, <1>2, <2>2, <2>3
  <2> HIDE DEF k
  <2>5. <<p, k>> \in E
    BY <2>1, <2>3, <2>4
  <2>6. h[<<p, k>>] = x
    BY <2>2, <2>3, <2>5
  <2> QED
    BY <2>5, <2>6
<1> HIDE DEF E, Q
<1>7. h \in [E -> Q]
  BY <1>4
<1> HIDE DEF h
<1>8. h \in Injection(E, Q) /\ h \in Surjection(E, Q)
  BY <1>5, <1>6, <1>7 DEF Injection, Surjection, IsInjective
<1>9. IsFiniteSet(Q)
  BY <1>3, PlacesFinite DEF Q
<1>10. IsFiniteSet(E) /\ (Cardinality(E) = Cardinality(Q) <=> h \in Surjection(E, Q))
  BY <1>8, <1>9, FS_Injection
<1> QED
  BY <1>8, <1>10 DEF E, Q

LEMMA FirstOfFinite ==
  ASSUME NEW list \in [1 .. Length -> Values], NEW em, NEW X
  PROVE  /\ IsFiniteSet(FirstOf(list, em, X))
         /\ Cardinality(FirstOf(list, em, X)) \in Nat
         /\ Cardinality(FirstOf(list, em, X)) <= Cardinality(PlacesIn(Whole(list), X))
<1> DEFINE E == {e \in Processes \X Positions : Value(list, e[1], e[2]) \in X}
<1>1. IsFiniteSet(E) /\ Cardinality(E) = Cardinality(PlacesIn(Whole(list), X))
  BY ChunksCount
<1>2. FirstOf(list, em, X) \in SUBSET E
  BY DEF FirstOf
<1> HIDE DEF E
<1> QED
  BY <1>1, <1>2, FS_Subset, FS_CardinalityType

\* One more element of process p.
LEMMA FirstOfNext ==
  ASSUME NEW list \in [1 .. Length -> Values], NEW p \in Processes,
         NEW em \in [Processes -> 0 .. chunk_size],
         NEW n \in Positions, n = em[p] + 1,
         NEW f \in [Processes -> 0 .. chunk_size],
         f[p] = n, \A q \in Processes : q # p => f[q] = em[q],
         NEW X
  PROVE  Cardinality(FirstOf(list, f, X))
           = Cardinality(FirstOf(list, em, X))
               + IF Value(list, p, n) \in X THEN 1 ELSE 0
<1> DEFINE e == <<p, n>>
<1>1. /\ IsFiniteSet(FirstOf(list, em, X)) /\ Cardinality(FirstOf(list, em, X)) \in Nat
  BY FirstOfFinite
<1>2. chunk_size \in Nat /\ \A m \in Positions : m \in Nat
  BY ConstantsAssumption DEF Positions
<1>3. ASSUME NEW q \in Processes, NEW m \in Positions
      PROVE  m <= f[q] <=> (m <= em[q] \/ (q = p /\ m = n))
  <2>1. em[q] \in Int /\ m \in Int /\ n \in Int
    BY <1>2
  <2> QED
    BY <2>1
<1>4. e \notin FirstOf(list, em, X)
  <2>1. em[p] \in Int /\ n \in Int
    BY <1>2
  <2> QED
    BY <2>1 DEF FirstOf
<1>5. CASE Value(list, p, n) \in X
  <2>1. FirstOf(list, f, X) = FirstOf(list, em, X) \cup {e}
    <3>1. ASSUME NEW q \in Processes, NEW m \in Positions
          PROVE  <<q, m>> \in FirstOf(list, f, X)
                   <=> <<q, m>> \in FirstOf(list, em, X) \/ <<q, m>> = e
      <4>1. (q = p /\ m = n) <=> <<q, m>> = e
        OBVIOUS
      <4> QED
        BY <1>3, <1>5, <4>1 DEF FirstOf
    <3>2. /\ FirstOf(list, f, X) \subseteq Processes \X Positions
          /\ FirstOf(list, em, X) \subseteq Processes \X Positions
          /\ e \in Processes \X Positions
      BY DEF FirstOf
    <3> HIDE DEF e
    <3>3. \A z \in Processes \X Positions :
             \E q \in Processes : \E m \in Positions : z = <<q, m>>
      <4> TAKE z \in Processes \X Positions
      <4>1. z[1] \in Processes /\ z[2] \in Positions /\ z = <<z[1], z[2]>>
        OBVIOUS
      <4> QED
        BY <4>1
    <3>4. \A z \in Processes \X Positions :
             z \in FirstOf(list, f, X) <=> z \in FirstOf(list, em, X) \/ z = e
      BY <3>1, <3>3
    <3> QED
      BY <3>2, <3>4
  <2> QED BY <2>1, <1>1, <1>4, <1>5, FS_AddElement
<1>6. CASE Value(list, p, n) \notin X
  <2>1. FirstOf(list, f, X) = FirstOf(list, em, X)
    BY <1>3, <1>6 DEF FirstOf
  <2> QED BY <2>1, <1>1, <1>6
<1> QED BY <1>5, <1>6
-------------------------------------------------------------------------------
\* The inductive invariant.
Flow == TypeOK /\ Streams /\ Phases /\ Queued
Merging == Ascends /\ Counted
IInv == Flow /\ Merging

LEMMA GotType ==
  ASSUME TypeOK, Streams, NEW p \in Processes
  PROVE  /\ Got(p) \in 0 .. chunk_size + 1
         /\ Len(to_put[p]) \in 0 .. chunk_size + 1 /\ Len(queues[p]) \in {0, 1}
         /\ queues[p] # <<>> <=> Len(queues[p]) = 1
<1>1. chunk_size \in Nat
  BY ConstantsAssumption
<1>2. to_put[p] \in Seq(Items) /\ Len(to_put[p]) \in Nat
  BY LenProperties DEF TypeOK
<1>3. queues[p] = <<>> \/ \E item \in Items : queues[p] = <<item>>
  BY DEF TypeOK
<1>4. Len(queues[p]) \in {0, 1} /\ (queues[p] # <<>> <=> Len(queues[p]) = 1)
  <2>1. Len(<<>>) = 0
    BY EmptySeq
  <2>2. CASE queues[p] = <<>>
    BY <2>1, <2>2
  <2>3. ASSUME NEW item \in Items, queues[p] = <<item>>
        PROVE  Len(queues[p]) = 1 /\ queues[p] # <<>>
    BY <2>3
  <2> QED
    BY <1>3, <2>2, <2>3
<1>5. chunk_size + 1 - Len(to_put[p]) - Len(queues[p]) >= 0
  BY DEF Streams, Got
<1> HIDE DEF Got
<1>6. PICK a \in Nat : a = Len(to_put[p])
  BY <1>2
<1>7. PICK b \in {0, 1} : b = Len(queues[p])
  BY <1>4
<1>8. chunk_size + 1 - a - b \in 0 .. chunk_size + 1 /\ a \in 0 .. chunk_size + 1
  <2>1. chunk_size + 1 - a - b >= 0
    BY <1>5, <1>6, <1>7
  <2>2. b = 0 \/ b = 1
    BY <1>7
  <2> QED
    BY <1>1, <2>1, <2>2
<1> QED
  BY <1>4, <1>6, <1>7, <1>8 DEF Got

LEMMA EmittedType ==
  ASSUME TypeOK, Streams, Phases
  PROVE  Emitted \in [Processes -> 0 .. chunk_size]
<1>1. chunk_size \in Nat
  BY ConstantsAssumption
<1>2. ASSUME NEW p \in Processes
      PROVE  (IF Got(p) = 0 \/ Asked(p) THEN Got(p) ELSE Got(p) - 1) \in 0 .. chunk_size
  BY <1>1, GotType DEF Phases, Asked
<1> QED
  BY <1>2 DEF Emitted

LEMMA InitFlow == Init => Flow
<1> SUFFICES ASSUME Init PROVE Flow
  OBVIOUS
<1>0. chunk_size \in Nat \ {0} /\ num_chunks \in Nat \ {0}
  BY ChunksFit, ConstantsAssumption
<1>1. lst \in [1 .. Length -> Values]
  BY DEF Init
<1>2. ASSUME NEW p \in Processes
      PROVE  /\ queues[p] = <<>> /\ to_put[p] \in Seq(Items)
             /\ Len(to_put[p]) = chunk_size + 1
             /\ \A n \in 1 .. chunk_size + 1 : to_put[p][n] = Item(lst, p, n)
  BY <1>1, ItemsPut DEF Init
<1>3. \A p \in Processes : Got(p) = 0
  <2>1. Len(<<>>) = 0 /\ chunk_size + 1 - (chunk_size + 1) - 0 = 0
    BY <1>0, EmptySeq
  <2> QED
    BY <1>0, <1>2, <2>1 DEF Got
<1>4. TypeOK
  <2>1. 0 \in Processes /\ 0 \in 0 .. num_chunks
    BY <1>0 DEF Processes
  <2>2. <<>> \in Seq(Values)
    BY EmptySeq
  <2> QED
    BY <1>1, <1>2, <2>1, <2>2 DEF Init, TypeOK
<1>5. Streams
  <2>1. ASSUME NEW p \in Processes, NEW j \in 1 .. Len(to_put[p])
        PROVE  to_put[p][j] = Item(lst, p, chunk_size + 1 - Len(to_put[p]) + j)
    <3>1. j \in 1 .. chunk_size + 1 /\ chunk_size + 1 - Len(to_put[p]) + j = j
      <4>1. Len(to_put[p]) = chunk_size + 1
        BY <1>2
      <4> QED
        BY <1>0, <4>1
    <3> QED
      BY <1>2, <3>1
  <2> QED
    BY <1>2, <1>3, <2>1 DEF Streams
<1>6. Phases
  <2>1. i = 0 /\ main = "fill" /\ \A p \in Processes : ~(p < 0)
    BY <1>0 DEF Init, Processes
  <2> QED
    BY <1>0, <1>3, <2>1 DEF Phases
<1>7. Queued
  <2>1. pqueue = {} /\ Held = {}
    BY <1>0, <1>3 DEF Init, Held, Positions
  <2> QED
    BY <2>1 DEF Queued
<1> QED
  BY <1>4, <1>5, <1>6, <1>7 DEF Flow

LEMMA InitMerging == Init => Merging
<1> SUFFICES ASSUME Init PROVE Merging
  OBVIOUS
<1>1. Flow
  BY InitFlow
<1>2. sorted_list = <<>> /\ lst \in [1 .. Length -> Values] /\ <<>> \in Seq(Int) /\ Len(<<>>) = 0
  BY EmptySeq DEF Init
<1>3. Ascends
  BY <1>2 DEF Ascends
<1>4. \A p \in Processes : Got(p) = 0
  <2>1. ASSUME NEW p \in Processes
        PROVE  queues[p] = <<>> /\ Len(to_put[p]) = chunk_size + 1
    BY <1>2, ItemsPut DEF Init
  <2>2. Len(<<>>) = 0 /\ chunk_size + 1 - (chunk_size + 1) - 0 = 0
    BY ConstantsAssumption, EmptySeq
  <2> QED
    BY <2>1, <2>2 DEF Got
<1>5. ASSUME NEW X \in SUBSET Int
      PROVE  Cardinality(PlacesIn(sorted_list, X)) = Cardinality(FirstOf(lst, Emitted, X))
  <2>1. \A p \in Processes : Emitted[p] = 0
    BY <1>4 DEF Emitted
  <2>2. \A n \in Positions : ~(n <= 0)
    BY ConstantsAssumption DEF Positions
  <2>3. FirstOf(lst, Emitted, X) = {}
    BY <2>1, <2>2 DEF FirstOf
  <2>4. Cardinality(PlacesIn(sorted_list, X)) = 0
    BY <1>2, PlacesFinite
  <2> QED
    BY <2>3, <2>4, FS_EmptySet
<1> QED
  BY <1>3, <1>5 DEF Merging, Counted

-------------------------------------------------------------------------------
\* What a put does: an item moves from the process to its queue, so main has
\* got as many as before.
LEMMA PutMoves ==
  ASSUME TypeOK, Streams, NEW p \in Processes, Put(p)
  PROVE  /\ queues' \in [Processes -> {<<>>} \cup {<<item>> : item \in Items}]
         /\ to_put' \in [Processes -> Seq(Items)]
         /\ \A q \in Processes : Got(q)' = Got(q)
         /\ Streams'
<1>0. chunk_size \in Nat /\ lst' = lst
  BY ConstantsAssumption DEF Put
<1>1. ASSUME NEW q \in Processes, q # p
      PROVE  to_put'[q] = to_put[q] /\ queues'[q] = queues[q]
  BY <1>1 DEF Put, TypeOK
<1> DEFINE s == to_put[p]
           L == Len(s)
<1>2. /\ s \in Seq(Items) /\ s # <<>> /\ queues[p] = <<>>
      /\ L \in 1 .. chunk_size + 1 /\ Len(queues[p]) = 0
      /\ Got(p) = chunk_size + 1 - L
  <2>1. s \in Seq(Items) /\ s # <<>> /\ queues[p] = <<>>
    BY DEF Put, TypeOK
  <2>2. L \in 0 .. chunk_size + 1 /\ L # 0
    BY <2>1, GotType, EmptySeq
  <2>3. Len(<<>>) = 0
    BY EmptySeq
  <2> QED
    BY <1>0, <2>1, <2>2, <2>3 DEF Got
<1>3. /\ Head(s) = s[1] /\ Head(s) \in Items
      /\ Tail(s) \in Seq(Items) /\ Len(Tail(s)) = L - 1
      /\ \A j \in 1 .. L - 1 : Tail(s)[j] = s[j + 1]
  BY <1>2, HeadTailProperties
<1>4. /\ to_put'[p] = Tail(s) /\ queues'[p] = <<Head(s)>>
      /\ Len(<<Head(s)>>) = 1 /\ <<Head(s)>> # <<>>
  BY <1>2 DEF Put, TypeOK
<1>5. to_put' \in [Processes -> Seq(Items)]
  BY <1>3 DEF Put, TypeOK
<1>6. queues' \in [Processes -> {<<>>} \cup {<<item>> : item \in Items}]
  BY <1>3 DEF Put, TypeOK
<1>7. Got(p)' = Got(p) /\ Len(to_put'[p]) = L - 1
  <2>1. chunk_size + 1 - (L - 1) - 1 = chunk_size + 1 - L
    BY <1>0, <1>2
  <2> QED
    BY <1>2, <1>3, <1>4, <2>1 DEF Got
<1>8. \A q \in Processes : Got(q)' = Got(q)
  BY <1>1, <1>7 DEF Got
<1>9. ASSUME NEW q \in Processes
      PROVE  /\ Got(q)' >= 0
             /\ \A j \in 1 .. Len(to_put'[q]) :
                   to_put'[q][j] = Item(lst', q, chunk_size + 1 - Len(to_put'[q]) + j)
             /\ queues'[q] # <<>> =>
                   queues'[q] = <<Item(lst', q, chunk_size + 1 - Len(to_put'[q]))>>
  <2>1. CASE q # p
    BY <1>0, <1>1, <1>8, <2>1 DEF Streams
  <2>2. CASE q = p
    <3>1. ASSUME NEW j \in 1 .. L
          PROVE  s[j] = Item(lst, p, chunk_size + 1 - L + j)
      BY DEF Streams
    <3>2. ASSUME NEW j \in 1 .. L - 1
          PROVE  Tail(s)[j] = Item(lst, p, chunk_size + 1 - (L - 1) + j)
      <4>1. PICK l \in 1 .. L : l = j + 1
        BY <1>2
      <4>2. chunk_size + 1 - L + l = chunk_size + 1 - (L - 1) + j
        BY <1>0, <1>2, <4>1
      <4> QED
        BY <1>3, <3>1, <4>1, <4>2
    <3>3. s[1] = Item(lst, p, chunk_size + 1 - (L - 1))
      <4>1. 1 \in 1 .. L /\ chunk_size + 1 - L + 1 = chunk_size + 1 - (L - 1)
        BY <1>0, <1>2
      <4> QED
        BY <3>1, <4>1
    <3>4. Got(p)' >= 0
      BY <1>8 DEF Streams
    <3> HIDE DEF s, L
    <3> QED
      BY <1>0, <1>3, <1>4, <1>7, <2>2, <3>2, <3>3, <3>4
  <2> QED
    BY <2>1, <2>2
<1>10. Streams'
  BY <1>9 DEF Streams
<1> QED
  BY <1>5, <1>6, <1>8, <1>10

\* What main gets from a queue is the item after those it has got.
LEMMA GetMoves ==
  ASSUME TypeOK, Streams, NEW p \in Processes, Get(p),
         to_put' = to_put, lst' = lst
  PROVE  /\ Got(p) + 1 \in 1 .. chunk_size + 1
         /\ Head(queues[p]) = Item(lst, p, Got(p) + 1)
         /\ \A q \in Processes : Got(q)' = IF q = p THEN Got(q) + 1 ELSE Got(q)
         /\ queues' \in [Processes -> {<<>>} \cup {<<item>> : item \in Items}]
         /\ Streams'
<1>0. chunk_size \in Nat
  BY ConstantsAssumption
<1>1. PICK item \in Items : queues[p] = <<item>>
  BY DEF Get, TypeOK
<1>2. /\ Head(queues[p]) = item /\ Tail(queues[p]) = <<>>
      /\ Len(queues[p]) = 1 /\ Len(<<>>) = 0
  BY <1>1, EmptySeq
<1>3. queues'[p] = <<>> /\ \A q \in Processes : q # p => queues'[q] = queues[q]
  BY <1>2 DEF Get, TypeOK
<1>4. queues' \in [Processes -> {<<>>} \cup {<<x>> : x \in Items}]
  BY <1>2 DEF Get, TypeOK
<1> DEFINE L == Len(to_put[p])
<1>5. /\ L \in 0 .. chunk_size + 1 /\ Got(p) \in 0 .. chunk_size + 1
      /\ Got(p) = chunk_size + 1 - L - 1
      /\ Got(p)' = chunk_size + 1 - L - 0
  BY <1>2, <1>3, GotType DEF Got
<1>6. queues[p] = <<Item(lst, p, chunk_size + 1 - L)>>
  BY <1>1 DEF Streams, Get
<1> HIDE DEF L
<1>7. item = Item(lst, p, chunk_size + 1 - L)
  BY <1>1, <1>6
<1>8. Got(p) + 1 \in 1 .. chunk_size + 1 /\ Got(p) + 1 = chunk_size + 1 - L
  BY <1>0, <1>5
<1>9. \A q \in Processes : Got(q)' = IF q = p THEN Got(q) + 1 ELSE Got(q)
  <2> SUFFICES ASSUME NEW q \in Processes
               PROVE  Got(q)' = IF q = p THEN Got(q) + 1 ELSE Got(q)
    OBVIOUS
  <2>1. CASE q = p
    <3>1. /\ Got(q)' = chunk_size + 1 - L - 0 /\ Got(q) = chunk_size + 1 - L - 1
      BY <1>2, <1>3, <2>1 DEF Got, L
    <3> QED
      BY <1>0, <1>5, <2>1, <3>1
  <2>2. CASE q # p
    BY <1>3, <2>2 DEF Got
  <2> QED
    BY <2>1, <2>2
<1>10. ASSUME NEW q \in Processes
      PROVE  /\ Got(q)' >= 0
             /\ \A j \in 1 .. Len(to_put'[q]) :
                   to_put'[q][j] = Item(lst', q, chunk_size + 1 - Len(to_put'[q]) + j)
             /\ queues'[q] # <<>> =>
                   queues'[q] = <<Item(lst', q, chunk_size + 1 - Len(to_put'[q]))>>
  <2>1. Got(q)' >= 0
    <3>1. Got(q) \in Int /\ Got(q) >= 0
      BY GotType
    <3> QED
      BY <1>9, <3>1
  <2>2. queues'[q] # <<>> => queues'[q] = queues[q]
    BY <1>3
  <2> QED
    BY <2>1, <2>2 DEF Streams
<1>11. Streams'
  BY <1>10 DEF Streams
<1> QED
  BY <1>2, <1>4, <1>7, <1>8, <1>9, <1>11

\* A put changes neither what main has got nor what it has done with it.
LEMMA PutFlow ==
  ASSUME Flow, NEW p \in Processes, Put(p)
  PROVE  Flow' /\ Emitted' = Emitted
<1>1. /\ queues' \in [Processes -> {<<>>} \cup {<<item>> : item \in Items}]
      /\ to_put' \in [Processes -> Seq(Items)]
      /\ \A q \in Processes : Got(q)' = Got(q)
      /\ Streams'
  BY PutMoves DEF Flow
<1>2. /\ lst' = lst /\ main' = main /\ i' = i /\ pqueue' = pqueue
      /\ next_index' = next_index /\ sorted_list' = sorted_list
  BY DEF Put
<1>3. TypeOK'
  BY <1>1, <1>2 DEF Flow, TypeOK
<1>4. next_index \in Processes
  BY DEF Flow, TypeOK
<1>5. Phases'
  BY <1>1, <1>2, <1>4 DEF Flow, Phases
<1>6. \A q \in Processes : Asked(q)' = Asked(q)
  BY <1>2 DEF Asked
<1>7. Held' = Held /\ Emitted' = Emitted
  BY <1>1, <1>6 DEF Held, Emitted
<1>8. Queued'
  <2>1. \A q \in Held : Entry(lst', q, Got(q)') = Entry(lst, q, Got(q))
    BY <1>1, <1>2 DEF Held
  <2> QED
    BY <1>2, <1>7, <2>1 DEF Flow, Queued
<1> QED
  BY <1>1, <1>3, <1>5, <1>7, <1>8 DEF Flow

\* Of the items main gets the first chunk_size are entries.
LEMMA ItemIs ==
  ASSUME NEW list \in [1 .. Length -> Values], NEW p \in Processes,
         NEW n \in 1 .. chunk_size + 1
  PROVE  /\ Item(list, p, n) # None <=> n \in Positions
         /\ n \in Positions => Item(list, p, n) = Entry(list, p, n)
         /\ n \notin Positions => n = chunk_size + 1
<1>1. n \in Positions => Entry(list, p, n) \in PQEntry
  BY ValueType
<1>2. None \notin PQEntry /\ chunk_size \in Nat
  BY ConstantsAssumption
<1> QED
  BY <1>1, <1>2 DEF Item, Positions

\* When main gets the next item of process p without popping another, as much
\* is popped as before, and the entry joins the others.
LEMMA GetFlow ==
  ASSUME Flow, NEW p \in Processes, Get(p),
         to_put' = to_put, lst' = lst, next_index' = next_index,
         Got(p) = 0 \/ Asked(p),
         main' # "refill", \A q \in Processes : q # p => ~Asked(q),
         IF Got(p) + 1 \in Positions THEN pqueue' = pqueue \cup {Head(queues[p])}
                                     ELSE pqueue' = pqueue
  PROVE  /\ Emitted' = Emitted /\ Queued'
         /\ pqueue' \subseteq PQEntry
<1>1. /\ Got(p) + 1 \in 1 .. chunk_size + 1
      /\ Head(queues[p]) = Item(lst, p, Got(p) + 1)
      /\ \A q \in Processes : Got(q)' = IF q = p THEN Got(q) + 1 ELSE Got(q)
  BY GetMoves DEF Flow
<1>2. Got(p) \in 0 .. chunk_size + 1 /\ lst \in [1 .. Length -> Values]
  BY GotType DEF Flow, TypeOK
<1>3. \A q \in Processes : ~Asked(q)'
  BY DEF Asked
<1>4. ASSUME NEW q \in Processes
      PROVE  (IF Got(q)' = 0 \/ Asked(q)' THEN Got(q)' ELSE Got(q)' - 1)
                = IF Got(q) = 0 \/ Asked(q) THEN Got(q) ELSE Got(q) - 1
  <2>1. CASE q = p
    <3>1. Got(q) \in Nat
      BY <1>2, <2>1
    <3>2. Got(q)' = Got(q) + 1 /\ ~Asked(q)'
      BY <1>1, <1>3, <2>1
    <3>3. Got(q) = 0 \/ Asked(q)
      BY <2>1
    <3> QED
      BY <3>1, <3>2, <3>3
  <2>2. CASE q # p
    BY <1>1, <1>3, <2>2
  <2> QED
    BY <2>1, <2>2
<1>5. Emitted' = Emitted
  BY <1>4 DEF Emitted
<1>6. p \notin Held
  <2>1. 0 \notin Positions
    BY DEF Positions
  <2> QED
    BY <2>1 DEF Held
<1>7. Held' = IF Got(p) + 1 \in Positions THEN Held \cup {p} ELSE Held
  <2>1. ASSUME NEW q \in Processes
        PROVE  q \in Held' <=> q \in Held \/ (q = p /\ Got(p) + 1 \in Positions)
    BY <1>1, <1>3, <1>6 DEF Held
  <2>2. Held' \subseteq Processes /\ Held \subseteq Processes
    BY DEF Held
  <2> QED
    BY <2>1, <2>2
<1>8. \A q \in Held : Got(q)' = Got(q) /\ q \in Processes
  BY <1>1, <1>6 DEF Held
<1>9. pqueue = {Entry(lst, q, Got(q)) : q \in Held}
  BY DEF Flow, Queued
<1>10. pqueue' = {Entry(lst', q, Got(q)') : q \in Held'}
  <2>1. CASE Got(p) + 1 \in Positions
    <3>1. Head(queues[p]) = Entry(lst, p, Got(p) + 1)
      BY <1>1, <1>2, <2>1, ItemIs
    <3>2. pqueue' = pqueue \cup {Entry(lst, p, Got(p) + 1)} /\ Held' = Held \cup {p}
      BY <1>7, <2>1, <3>1
    <3> QED
      BY <1>1, <1>8, <1>9, <3>2
  <2>2. CASE Got(p) + 1 \notin Positions
    BY <1>7, <1>8, <1>9, <2>2
  <2> QED
    BY <2>1, <2>2
<1>11. Queued'
  BY <1>10 DEF Queued
<1>12. pqueue' \subseteq PQEntry
  <2>1. \A q \in Held' : q \in Processes /\ Got(q)' \in Positions
    BY DEF Held
  <2>2. \A q \in Held' : Entry(lst', q, Got(q)') \in PQEntry
    BY <1>2, <2>1, ValueType
  <2> QED
    BY <1>10, <2>2
<1> QED
  BY <1>5, <1>11, <1>12

LEMMA FillFlow ==
  ASSUME Flow, Fill
  PROVE  Flow' /\ Emitted' = Emitted
<1>0. num_chunks \in Nat \ {0} /\ chunk_size \in Nat \ {0}
  BY ChunksFit
<1> PICK p \in Processes : p = i
  BY <1>0 DEF Fill, Flow, Phases, Processes
<1>1. /\ main = "fill" /\ p = i /\ p \in 0 .. num_chunks - 1
      /\ \A q \in Processes : Got(q) = IF q < p THEN 1 ELSE 0
      /\ \A q \in Processes : ~Asked(q) /\ q \in Int
  BY <1>0 DEF Fill, Flow, Phases, Processes, Asked
<1>2. /\ Get(p) /\ to_put' = to_put /\ lst' = lst /\ next_index' = next_index
      /\ pqueue' = pqueue \cup {Head(queues[p])} /\ sorted_list' = sorted_list
      /\ i' = p + 1 /\ main' = IF p + 1 = num_chunks THEN "merge" ELSE "fill"
  BY DEF Fill, PutEntry
<1>3. Got(p) = 0 /\ Got(p) + 1 \in Positions
  <2>1. ~(p < p)
    BY <1>1
  <2> QED
    BY <1>0, <1>1, <2>1 DEF Positions
<1>4. Emitted' = Emitted /\ Queued' /\ pqueue' \subseteq PQEntry
  BY <1>1, <1>2, <1>3, GetFlow
<1>5. /\ Streams'
      /\ \A q \in Processes : Got(q)' = IF q = p THEN Got(q) + 1 ELSE Got(q)
      /\ queues' \in [Processes -> {<<>>} \cup {<<item>> : item \in Items}]
  BY <1>1, <1>2, <1>3, GetMoves DEF Flow
<1>6. TypeOK'
  BY <1>0, <1>1, <1>2, <1>4, <1>5 DEF Flow, TypeOK
<1>7. \A q \in Processes : Got(q)' = IF q < p + 1 THEN 1 ELSE 0
  BY <1>1, <1>5
<1>8. Phases'
  <2>1. CASE p + 1 = num_chunks
    <3>1. \A q \in Processes : q < p + 1
      BY <1>0, <2>1 DEF Processes
    <3> QED
      BY <1>2, <1>7, <2>1, <3>1 DEF Phases
  <2>2. CASE p + 1 # num_chunks
    <3>1. p + 1 \in 0 .. num_chunks - 1
      BY <1>0, <1>1, <2>2
    <3> QED
      BY <1>2, <1>7, <2>2, <3>1 DEF Phases
  <2> QED
    BY <2>1, <2>2
<1> QED
  BY <1>4, <1>5, <1>6, <1>8 DEF Flow

LEMMA RefillFlow ==
  ASSUME Flow, Refill
  PROVE  Flow' /\ Emitted' = Emitted
<1> PICK p \in Processes : p = next_index
  BY DEF Flow, TypeOK
<1>0. chunk_size \in Nat
  BY ConstantsAssumption
<1>1. /\ p = next_index /\ lst \in [1 .. Length -> Values]
      /\ Got(p) \in 1 .. chunk_size /\ Asked(p)
      /\ \A q \in Processes : Got(q) >= 1
      /\ \A q \in Processes : q # p => ~Asked(q)
  <2>1. p \in Processes /\ lst \in [1 .. Length -> Values] /\ main = "refill"
    BY DEF Refill, Flow, TypeOK
  <2>2. Got(p) \in 0 .. chunk_size + 1
    BY <2>1, GotType DEF Flow
  <2> QED
    BY <2>1, <2>2, <1>0 DEF Flow, Phases, Asked
<1>2. /\ Get(p) /\ to_put' = to_put /\ lst' = lst /\ next_index' = next_index
      /\ sorted_list' = sorted_list /\ i' = i /\ main' = "merge"
      /\ IF Head(queues[p]) = None THEN pqueue' = pqueue
                                   ELSE pqueue' = pqueue \cup {Head(queues[p])}
  BY DEF Refill, PutEntry
<1>3. /\ Got(p) + 1 \in 1 .. chunk_size + 1
      /\ Head(queues[p]) = Item(lst, p, Got(p) + 1)
      /\ Streams'
      /\ \A q \in Processes : Got(q)' = IF q = p THEN Got(q) + 1 ELSE Got(q)
      /\ queues' \in [Processes -> {<<>>} \cup {<<item>> : item \in Items}]
  BY <1>1, <1>2, GetMoves DEF Flow
<1>4. Head(queues[p]) = None <=> Got(p) + 1 \notin Positions
  BY <1>1, <1>3, ItemIs
<1>5. Emitted' = Emitted /\ Queued' /\ pqueue' \subseteq PQEntry
  BY <1>1, <1>2, <1>4, GetFlow
<1>6. TypeOK'
  BY <1>2, <1>3, <1>5 DEF Flow, TypeOK
<1>7. Phases'
  <2>1. \A q \in Processes : Got(q) \in Int /\ Got(q) >= 1
    BY <1>1, GotType DEF Flow
  <2>2. \A q \in Processes : Got(q)' >= 1
    BY <1>3, <2>1
  <2> QED
    BY <1>2, <2>2 DEF Phases
<1> QED
  BY <1>3, <1>5, <1>6, <1>7 DEF Flow

\* The queue is empty when every process has handed over its sentinel.
LEMMA MergeEndsFlow ==
  ASSUME Flow, MergeEnds
  PROVE  Flow' /\ Emitted' = Emitted
<1>1. /\ UNCHANGED <<lst, queues, to_put, i, pqueue, next_index, sorted_list>>
      /\ main = "merge" /\ main' = "join" /\ pqueue = {}
  BY DEF MergeEnds
<1>2. \A q \in Processes : Got(q)' = Got(q) /\ ~Asked(q) /\ ~Asked(q)'
  BY <1>1 DEF Got, Asked
<1>3. ASSUME NEW q \in Processes PROVE Got(q) = chunk_size + 1
  <2>1. Got(q) \in 0 .. chunk_size + 1 /\ Got(q) >= 1 /\ chunk_size \in Nat
    BY <1>1, GotType, ConstantsAssumption DEF Flow, Phases
  <2>2. q \notin Held
    BY <1>1 DEF Flow, Queued
  <2>3. Got(q) \notin Positions
    BY <1>2, <2>2 DEF Held
  <2> QED
    BY <2>1, <2>3 DEF Positions
<1>4. TypeOK'
  BY <1>1 DEF Flow, TypeOK
<1>5. Streams'
  BY <1>1, <1>2 DEF Flow, Streams
<1>6. Phases'
  <2>1. chunk_size + 1 >= 1
    BY ConstantsAssumption
  <2> QED
    BY <1>1, <1>2, <1>3, <2>1 DEF Phases
<1>7. Held' = Held /\ Emitted' = Emitted
  BY <1>2 DEF Held, Emitted
<1>8. Queued'
  <2>1. \A q \in Held : Entry(lst', q, Got(q)') = Entry(lst, q, Got(q))
    BY <1>1, <1>2 DEF Held
  <2> QED
    BY <1>1, <1>7, <2>1 DEF Flow, Queued
<1> QED
  BY <1>4, <1>5, <1>6, <1>7, <1>8 DEF Flow

LEMMA JoinFlow ==
  ASSUME Flow, Join
  PROVE  Flow' /\ Emitted' = Emitted
<1>1. /\ UNCHANGED <<lst, queues, to_put, i, pqueue, next_index, sorted_list>>
      /\ main = "join" /\ main' = "done"
  BY DEF Join
<1>2. \A q \in Processes : Got(q)' = Got(q) /\ ~Asked(q) /\ ~Asked(q)'
  BY <1>1 DEF Got, Asked
<1>3. TypeOK' /\ Streams'
  BY <1>1, <1>2 DEF Flow, TypeOK, Streams
<1>4. Phases'
  BY <1>1, <1>2 DEF Flow, Phases
<1>5. Held' = Held /\ Emitted' = Emitted
  BY <1>2 DEF Held, Emitted
<1>6. Queued'
  <2>1. \A q \in Held : Entry(lst', q, Got(q)') = Entry(lst, q, Got(q))
    BY <1>1, <1>2 DEF Held
  <2> QED
    BY <1>1, <1>5, <2>1 DEF Flow, Queued
<1> QED
  BY <1>3, <1>4, <1>5, <1>6 DEF Flow

\* A pop takes the next element of one process, and none that is left, of this
\* or any other process, is less.
LEMMA PopFlow ==
  ASSUME Flow, Pop
  PROVE  /\ Flow' /\ lst' = lst
         /\ \E p \in Processes : \E n \in Positions :
               /\ n = Emitted[p] + 1
               /\ Emitted'[p] = n
               /\ \A q \in Processes : q # p => Emitted'[q] = Emitted[q]
               /\ sorted_list' = Append(sorted_list, Value(lst, p, n))
               /\ \A q \in Processes : \A m \in Positions :
                     m > Emitted[q] => Value(lst, p, n) <= Value(lst, q, m)
<1>0. chunk_size \in Nat /\ lst \in [1 .. Length -> Values]
  BY ConstantsAssumption DEF Flow, TypeOK
<1>1. /\ UNCHANGED <<lst, queues, to_put, i>>
      /\ main = "merge" /\ main' = "refill"
      /\ \A q \in Processes : Got(q) \in 1 .. chunk_size + 1
  <2>1. \A q \in Processes : Got(q) \in 0 .. chunk_size + 1
    BY GotType DEF Flow
  <2> QED
    BY <2>1 DEF Pop, Flow, Phases
<1>2. PICK entry \in pqueue :
         /\ \A other \in pqueue : entry.value <= other.value
         /\ pqueue' = pqueue \ {entry}
         /\ sorted_list' = Append(sorted_list, entry.value)
         /\ next_index' = entry.queue_index
  BY DEF Pop
<1>3. PICK p \in Held : entry = Entry(lst, p, Got(p))
  BY DEF Flow, Queued
<1>4. p \in Processes /\ Got(p) \in Positions
  BY DEF Held
<1> DEFINE n == Got(p)
<1>5. entry.value = Value(lst, p, n) /\ entry.queue_index = p
  BY <1>3 DEF Entry
<1>6. \A q \in Processes : Got(q)' = Got(q) /\ ~Asked(q) /\ (Asked(q)' <=> q = p)
  BY <1>1, <1>2, <1>5 DEF Got, Asked
<1>7. \A q \in Processes : Emitted[q] = Got(q) - 1
  BY <1>1, <1>6 DEF Emitted
<1>8. \A q \in Processes : Emitted'[q] = IF q = p THEN Got(q) ELSE Emitted[q]
  BY <1>1, <1>6, <1>7 DEF Emitted
<1>9. Held = {q \in Processes : Got(q) \in Positions} /\ Held' = Held \ {p}
  <2>1. Held = {q \in Processes : Got(q) \in Positions}
    BY <1>6 DEF Held
  <2>2. Held' = {q \in Processes : Got(q) \in Positions /\ q # p}
    BY <1>6 DEF Held
  <2> QED
    BY <2>1, <2>2
<1>10. Queued'
  <2>1. \A q \in Held : Entry(lst', q, Got(q)') = Entry(lst, q, Got(q))
    BY <1>1, <1>6 DEF Held
  <2>2. \A q \in Held : Entry(lst, q, Got(q)) = entry <=> q = p
    BY <1>3 DEF Entry
  <2>3. pqueue' = {Entry(lst, q, Got(q)) : q \in Held'}
    BY <1>2, <1>9, <2>2 DEF Flow, Queued
  <2>4. pqueue' = {Entry(lst', q, Got(q)') : q \in Held'}
    BY <1>9, <2>1, <2>3
  <2> QED
    BY <2>4 DEF Queued
<1>11. TypeOK'
  <2>1. Value(lst, p, n) \in Values
    BY <1>0, <1>4, ValueType
  <2>2. Append(sorted_list, Value(lst, p, n)) \in Seq(Values)
    BY <2>1, AppendProperties DEF Flow, TypeOK
  <2> HIDE DEF n
  <2> QED
    BY <1>1, <1>2, <1>4, <1>5, <2>2 DEF Flow, TypeOK
<1>12. Streams'
  BY <1>1, <1>6 DEF Flow, Streams
<1>13. Phases'
  <2>1. Got(p) <= chunk_size /\ \A q \in Processes : Got(q) >= 1
    BY <1>0, <1>1, <1>4 DEF Positions
  <2>2. Got(p)' <= chunk_size /\ \A q \in Processes : Got(q)' >= 1
    BY <1>4, <1>6, <2>1
  <2>3. \A q \in Processes : q = next_index' => Got(q)' <= chunk_size
    BY <1>2, <1>5, <2>2
  <2>4. (Got(next_index) <= chunk_size)'
    <3>1. /\ next_index' = p /\ to_put' = to_put /\ queues' = queues
      BY <1>1, <1>2, <1>5
    <3> QED
      BY <2>1, <3>1 DEF Got
  <2> QED
    BY <1>1, <2>2, <2>4 DEF Phases
<1>14. ASSUME NEW q \in Processes, NEW m \in Positions, m > Emitted[q]
       PROVE  Value(lst, p, n) <= Value(lst, q, m)
  <2>1. m >= Got(q) /\ m \in 1 .. chunk_size
    BY <1>0, <1>1, <1>7, <1>14 DEF Positions
  <2>2. Got(q) \in Positions /\ m \in Got(q) .. chunk_size
    BY <1>0, <1>1, <2>1 DEF Positions
  <2>3. Entry(lst, q, Got(q)) \in pqueue
    BY <1>9, <2>2 DEF Flow, Queued
  <2>4. Value(lst, p, n) <= Value(lst, q, Got(q))
    BY <1>2, <1>5, <2>3 DEF Entry
  <2>5. Value(lst, q, Got(q)) <= Value(lst, q, m)
    BY <1>0, <2>2, ValuesAscend
  <2>6. /\ Value(lst, p, n) \in Int /\ Value(lst, q, Got(q)) \in Int
        /\ Value(lst, q, m) \in Int
    BY <1>0, <1>4, <2>2, ValueType
  <2> HIDE DEF n
  <2> QED
    BY <2>4, <2>5, <2>6
<1>15. Flow' /\ lst' = lst
  BY <1>1, <1>10, <1>11, <1>12, <1>13 DEF Flow
<1>16. n = Emitted[p] + 1 /\ n \in Positions
  <2>1. Got(p) \in Int
    BY <1>1, <1>4
  <2> QED
    BY <1>4, <1>7, <2>1
<1> QED
  <2>1. Emitted'[p] = n /\ \A q \in Processes : q # p => Emitted'[q] = Emitted[q]
    BY <1>4, <1>8
  <2>2. sorted_list' = Append(sorted_list, Value(lst, p, n))
    BY <1>2, <1>5
  <2> HIDE DEF n
  <2> QED
    BY <1>4, <1>14, <1>15, <1>16, <2>1, <2>2

\* The result is as it was when nothing is popped.
LEMMA MergingKept ==
  ASSUME Merging, lst' = lst, sorted_list' = sorted_list, Emitted' = Emitted
  PROVE  Merging'
  BY DEF Merging, Ascends, Counted

LEMMA PopMerging ==
  ASSUME IInv, Pop
  PROVE  Merging'
<1>0. chunk_size \in Nat /\ lst \in [1 .. Length -> Values] /\ lst' = lst /\ Flow'
  BY ConstantsAssumption, PopFlow DEF IInv, Flow, TypeOK
<1>1. PICK p \in Processes, n \in Positions :
         /\ n = Emitted[p] + 1
         /\ Emitted'[p] = n
         /\ \A q \in Processes : q # p => Emitted'[q] = Emitted[q]
         /\ sorted_list' = Append(sorted_list, Value(lst, p, n))
         /\ \A q \in Processes : \A m \in Positions :
               m > Emitted[q] => Value(lst, p, n) <= Value(lst, q, m)
  BY PopFlow DEF IInv
<1>2. /\ Emitted \in [Processes -> 0 .. chunk_size]
      /\ Emitted' \in [Processes -> 0 .. chunk_size]
  <2>1. (TypeOK /\ Streams /\ Phases => Emitted \in [Processes -> 0 .. chunk_size])'
    BY EmittedType, PTL
  <2> QED
    BY <1>0, <2>1, EmittedType DEF IInv, Flow
<1> DEFINE v == Value(lst, p, n)
           L == Len(sorted_list)
<1>3. /\ sorted_list \in Seq(Values) /\ sorted_list \in Seq(Int) /\ v \in Int
      /\ L \in Nat /\ \A a \in 1 .. L : sorted_list[a] \in Int
  <2>1. sorted_list \in Seq(Values) /\ Values \subseteq Int
    BY ConstantsAssumption DEF IInv, Flow, TypeOK
  <2>2. sorted_list \in Seq(Int)
    BY <2>1, SeqMonotonic
  <2> QED
    BY <1>0, <2>1, <2>2, LenProperties, ElementOfSeq, ValueType
<1> HIDE DEF v
<1>4. /\ Len(sorted_list') = L + 1 /\ sorted_list'[L + 1] = v
      /\ \A a \in 1 .. L : sorted_list'[a] = sorted_list[a]
  BY <1>1, <1>3, AppendProperties DEF v
<1> HIDE DEF L
<1>5. ASSUME NEW a \in 1 .. L PROVE sorted_list[a] <= v
  <2>1. n > Emitted[p]
    BY <1>1, <1>2
  <2> QED
    BY <1>1, <2>1 DEF IInv, Merging, Ascends, v, L
<1>6. \A a \in 1 .. L : \A b \in a .. L : sorted_list[a] <= sorted_list[b]
  BY DEF IInv, Merging, Ascends, L
<1>7. ASSUME NEW a \in 1 .. L + 1, NEW b \in a .. L + 1
      PROVE  sorted_list'[a] <= sorted_list'[b]
  <2>1. CASE b \in 1 .. L
    <3>1. a \in 1 .. L /\ b \in a .. L
      BY <1>3, <2>1
    <3> QED
      BY <1>4, <1>6, <2>1, <3>1
  <2>2. CASE b = L + 1 /\ a \in 1 .. L
    BY <1>4, <1>5, <2>2
  <2>3. CASE b = L + 1 /\ a = L + 1
    BY <1>3, <1>4, <2>3
  <2> QED
    BY <1>3, <2>1, <2>2, <2>3
<1>8. ASSUME NEW a \in 1 .. L + 1, NEW q \in Processes, NEW m \in Positions,
             m > Emitted'[q]
      PROVE  sorted_list'[a] <= Value(lst, q, m)
  <2>1. m > Emitted[q]
    <3>1. Emitted[q] \in Int /\ m \in Int /\ n \in Int
      BY <1>0, <1>2 DEF Positions
    <3>2. q = p => n = Emitted[q] + 1 /\ m > n
      BY <1>1, <1>8
    <3>3. q # p => m > Emitted[q]
      BY <1>1, <1>8
    <3> QED
      BY <3>1, <3>2, <3>3
  <2>2. CASE a \in 1 .. L
    BY <1>4, <2>1, <2>2 DEF IInv, Merging, Ascends, L
  <2>3. CASE a = L + 1
    BY <1>1, <1>4, <2>1, <2>3 DEF v
  <2> QED
    BY <1>3, <2>2, <2>3
<1>9. Ascends'
  BY <1>0, <1>4, <1>7, <1>8 DEF Ascends
<1>10. ASSUME NEW X \in SUBSET Int
       PROVE  Cardinality(PlacesIn(sorted_list', X))
                = Cardinality(FirstOf(lst, Emitted', X))
  <2>1. Cardinality(PlacesIn(sorted_list', X))
          = Cardinality(PlacesIn(sorted_list, X)) + IF v \in X THEN 1 ELSE 0
    BY <1>1, <1>3, PlacesAppend DEF v
  <2>2. Cardinality(FirstOf(lst, Emitted', X))
          = Cardinality(FirstOf(lst, Emitted, X)) + IF v \in X THEN 1 ELSE 0
    <3>1. PICK em \in [Processes -> 0 .. chunk_size] : em = Emitted
      BY <1>2
    <3>2. PICK f \in [Processes -> 0 .. chunk_size] : f = Emitted'
      BY <1>2
    <3>3. /\ n = em[p] + 1 /\ f[p] = n
          /\ \A q \in Processes : q # p => f[q] = em[q]
      BY <1>1, <3>1, <3>2
    <3>4. Cardinality(FirstOf(lst, f, X))
            = Cardinality(FirstOf(lst, em, X))
                + IF Value(lst, p, n) \in X THEN 1 ELSE 0
      BY <1>0, <3>3, FirstOfNext
    <3> QED
      BY <3>1, <3>2, <3>4 DEF v
  <2>3. Cardinality(PlacesIn(sorted_list, X)) = Cardinality(FirstOf(lst, Emitted, X))
    BY DEF IInv, Merging, Counted
  <2> QED
    BY <2>1, <2>2, <2>3
<1>11. Counted'
  BY <1>0, <1>10 DEF Counted
<1> QED
  BY <1>9, <1>11 DEF Merging

LEMMA Invariance == Spec => []IInv
<1>1. Init => IInv
  BY InitFlow, InitMerging DEF IInv
<1>2. IInv /\ [Next]_vars => IInv'
  <2> SUFFICES ASSUME IInv, [Next]_vars PROVE IInv'
    OBVIOUS
  <2>1. ASSUME Flow', Emitted' = Emitted, lst' = lst, sorted_list' = sorted_list
        PROVE  IInv'
    BY <2>1, MergingKept DEF IInv
  <2>2. CASE Fill
    BY <2>1, <2>2, FillFlow DEF IInv, Fill
  <2>3. CASE Pop
    BY <2>3, PopFlow, PopMerging DEF IInv
  <2>4. CASE Refill
    BY <2>1, <2>4, RefillFlow DEF IInv, Refill
  <2>5. CASE MergeEnds
    BY <2>1, <2>5, MergeEndsFlow DEF IInv, MergeEnds
  <2>6. CASE Join
    BY <2>1, <2>6, JoinFlow DEF IInv, Join
  <2>7. ASSUME NEW p \in Processes, Put(p) PROVE IInv'
    BY <2>1, <2>7, PutFlow DEF IInv, Put
  <2>8. CASE UNCHANGED vars
    BY <2>8 DEF vars, IInv, Flow, TypeOK, Streams, Phases, Queued, Held, Emitted,
                Got, Asked, Merging, Ascends, Counted
  <2> QED
    BY <2>2, <2>3, <2>4, <2>5, <2>6, <2>7, <2>8 DEF Next, Main, Terminating
<1> QED
  BY <1>1, <1>2, PTL DEF Spec

\* The queues hold one item at most, what main keeps are entries, and the result
\* is made of values (mpsort.py:59, 63-76).
THEOREM MpSortTypeCorrect == Spec => []TypeOK
  BY Invariance, PTL DEF IInv, Flow

\* When main joins the processes, all have put their sentinel and main has got
\* it: nobody is left blocked at a full queue (mpsort.py:78-80).
THEOREM ProcessesDrained == Spec => []AllDrained
<1>1. IInv => AllDrained
  <2> SUFFICES ASSUME Flow, main \in {"join", "done"}, NEW p \in Processes
               PROVE  to_put[p] = <<>> /\ queues[p] = <<>>
    BY DEF IInv, AllDrained
  <2>1. Got(p) = chunk_size + 1 /\ chunk_size \in Nat
    BY ConstantsAssumption DEF Flow, Phases
  <2>2. /\ Len(to_put[p]) \in 0 .. chunk_size + 1 /\ Len(queues[p]) \in {0, 1}
        /\ queues[p] # <<>> <=> Len(queues[p]) = 1
    BY GotType DEF Flow
  <2>3. Len(to_put[p]) = 0 /\ Len(queues[p]) = 0
    <3>1. PICK a \in 0 .. chunk_size + 1 : a = Len(to_put[p])
      BY <2>2
    <3>2. PICK b \in {0, 1} : b = Len(queues[p])
      BY <2>2
    <3>3. chunk_size + 1 - a - b = chunk_size + 1 /\ (b = 0 \/ b = 1)
      BY <2>1, <3>1, <3>2 DEF Got
    <3>4. a = 0 /\ b = 0
      BY <2>1, <3>3
    <3> QED
      BY <3>1, <3>2, <3>4
  <2>4. to_put[p] \in Seq(Items)
    BY DEF Flow, TypeOK
  <2> QED
    BY <2>2, <2>3, <2>4, EmptySeq
<1> QED
  BY <1>1, Invariance, PTL

\* An entry for each process at most is in the priority queue, and none of the
\* process that main is asking: the put after the get finds room. And the
\* process has not come to its end (mpsort.py:63-66, 74-76).
THEOREM MainFindsItems == Spec => []WaitsForItems
<1>1. ASSUME Flow, NEW p \in Processes,
             (main = "fill" /\ p = i) \/ (main = "refill" /\ p = next_index)
      PROVE  /\ queues[p] # <<>> \/ to_put[p] # <<>>
             /\ Cardinality(pqueue) < num_chunks
  <2>0. chunk_size \in Nat \ {0} /\ num_chunks \in Nat \ {0}
    BY ChunksFit
  <2>1. Got(p) <= chunk_size /\ p \notin Held
    <3>1. CASE main = "fill" /\ p = i
      <4>1. Got(p) = 0
        <5>1. p \in Int /\ ~(p < p)
          BY <2>0 DEF Processes
        <5> QED
          BY <1>1, <3>1, <5>1 DEF Flow, Phases
      <4> QED
        BY <2>0, <4>1 DEF Held, Positions
    <3>2. CASE main = "refill" /\ p = next_index
      BY <1>1, <3>2 DEF Flow, Phases, Held, Asked
    <3> QED
      BY <1>1, <3>1, <3>2
  <2>2. queues[p] # <<>> \/ to_put[p] # <<>>
    <3> SUFFICES ASSUME queues[p] = <<>>, to_put[p] = <<>> PROVE FALSE
      OBVIOUS
    <3>1. Len(<<>>) = 0 /\ chunk_size + 1 - 0 - 0 = chunk_size + 1
      BY <2>0, EmptySeq
    <3>2. Got(p) = chunk_size + 1
      BY <3>1 DEF Got
    <3> QED
      BY <2>0, <2>1, <3>2
  <2>3. pqueue \in SUBSET PQEntry /\ pqueue = {Entry(lst, q, Got(q)) : q \in Held}
    BY <1>1 DEF Flow, TypeOK, Queued
  <2> DEFINE f == [e \in pqueue |-> e.queue_index]
  <2>4. \A e \in pqueue : e.queue_index \in Held /\ e = Entry(lst, e.queue_index, Got(e.queue_index))
    BY <2>3 DEF Entry
  <2>5. f \in [pqueue -> Processes \ {p}]
    BY <2>1, <2>4 DEF Held
  <2>6. \A d, e \in pqueue : f[d] = f[e] => d = e
    BY <2>4
  <2>7. f \in Injection(pqueue, Processes \ {p})
    BY <2>5, <2>6 DEF Injection, IsInjective
  <2>8. IsFiniteSet(Processes) /\ Cardinality(Processes) = num_chunks
    <3>1. \A n \in Nat \ {0} : IsFiniteSet(0 .. n - 1) /\ Cardinality(0 .. n - 1) = n
      <4> TAKE n \in Nat \ {0}
      <4>1. n - 1 \in Int /\ ~(0 > n - 1) /\ (n - 1) - 0 + 1 = n
        OBVIOUS
      <4> QED
        BY <4>1, FS_Interval
    <3> QED
      BY <2>0, <3>1 DEF Processes
  <2>9. IsFiniteSet(Processes \ {p}) /\ Cardinality(Processes \ {p}) = num_chunks - 1
    BY <2>8, FS_RemoveElement
  <2>10. IsFiniteSet(pqueue) /\ Cardinality(pqueue) <= num_chunks - 1
    BY <2>7, <2>9, FS_Injection
  <2>11. Cardinality(pqueue) \in Nat
    BY <2>10, FS_CardinalityType
  <2> QED
    BY <2>0, <2>2, <2>10, <2>11
<1>2. IInv => WaitsForItems
  BY <1>1 DEF IInv, WaitsForItems
<1> QED
  BY <1>2, Invariance, PTL
-------------------------------------------------------------------------------
\* In a list that is in order those up to a value are at the beginning.
UpTo(w) == {v \in Int : v <= w}

LEMMA OrderedUpTo ==
  ASSUME NEW s \in Seq(Int),
         \A a \in 1 .. Len(s) : \A b \in a .. Len(s) : s[a] <= s[b],
         NEW k \in 1 .. Len(s), NEW w \in Int
  PROVE  s[k] <= w <=> Cardinality(PlacesIn(s, UpTo(w))) >= k
<1>1. Len(s) \in Nat /\ s \in [1 .. Len(s) -> Int]
  BY LenProperties
<1>2. IsFiniteSet(PlacesIn(s, UpTo(w))) /\ Cardinality(PlacesIn(s, UpTo(w))) \in Nat
  BY PlacesFinite
<1>3. k \in Nat \ {0} /\ \A n \in Nat : IsFiniteSet(1 .. n) /\ Cardinality(1 .. n) = n
  <2>1. \A n \in Nat : IsFiniteSet(1 .. n) /\ Cardinality(1 .. n) = n
    BY FS_Interval
  <2> QED
    BY <1>1, <2>1
<1>4. CASE s[k] <= w
  <2>1. ASSUME NEW a \in 1 .. k PROVE a \in PlacesIn(s, UpTo(w))
    <3>1. a \in 1 .. Len(s) /\ k \in a .. Len(s)
      BY <1>1
    <3>2. s[a] <= s[k] /\ s[a] \in Int /\ s[k] \in Int
      BY <1>1, <3>1
    <3> QED
      BY <1>4, <3>1, <3>2 DEF PlacesIn, UpTo
  <2>2. 1 .. k \in SUBSET PlacesIn(s, UpTo(w))
    BY <2>1
  <2>3. Cardinality(1 .. k) <= Cardinality(PlacesIn(s, UpTo(w)))
    BY <1>2, <2>2, FS_Subset
  <2>4. Cardinality(1 .. k) = k
    BY <1>3
  <2> QED
    BY <1>2, <1>3, <1>4, <2>3, <2>4
<1>5. CASE ~(s[k] <= w)
  <2>1. ASSUME NEW a \in PlacesIn(s, UpTo(w)) PROVE a \in 1 .. k - 1
    <3>1. a \in 1 .. Len(s) /\ s[a] <= w /\ s[a] \in Int /\ s[k] \in Int
      BY <1>1 DEF PlacesIn, UpTo
    <3>2. k <= a => s[k] <= s[a]
      BY <1>1, <3>1
    <3> QED
      BY <1>1, <1>5, <3>1, <3>2
  <2>2. PlacesIn(s, UpTo(w)) \in SUBSET (1 .. k - 1)
    BY <2>1
  <2>3. k - 1 \in Nat
    BY <1>3
  <2>4. IsFiniteSet(1 .. k - 1) /\ Cardinality(1 .. k - 1) = k - 1
    BY <1>3, <2>3
  <2>5. Cardinality(PlacesIn(s, UpTo(w))) <= Cardinality(1 .. k - 1)
    BY <2>2, <2>4, FS_Subset
  <2> QED
    BY <1>2, <1>3, <1>5, <2>4, <2>5
<1> QED
  BY <1>4, <1>5

LEMMA AllPlaces ==
  ASSUME NEW s \in Seq(Int)
  PROVE  Cardinality(PlacesIn(s, Int)) = Len(s)
<1>1. Len(s) \in Nat /\ s \in [1 .. Len(s) -> Int]
  BY LenProperties
<1>2. PlacesIn(s, Int) = 1 .. Len(s)
  BY <1>1 DEF PlacesIn
<1>3. \A n \in Nat : Cardinality(1 .. n) = n
  BY FS_Interval
<1> QED
  BY <1>1, <1>2, <1>3

\* The result is the beginning of the sorted whole: as many of its elements are
\* up to any value as were popped; an element that is not popped is not less.
LEMMA IsBeginning ==
  ASSUME IInv
  PROVE  /\ IsPrefix(sorted_list, SortedSeq(Whole(lst)))
         /\ main \in {"join", "done"} => Len(sorted_list) = Len(Whole(lst))
<1> DEFINE T == SortedSeq(Whole(lst))
           sl == sorted_list
           Popped(X) == Cardinality(FirstOf(lst, Emitted, X))
           All(X) == Cardinality(PlacesIn(Whole(lst), X))
<1>0. /\ lst \in [1 .. Length -> Values] /\ Values \subseteq Int
      /\ sl \in Seq(Values) /\ sl \in Seq(Int)
      /\ chunk_size \in Nat
  <2>1. /\ lst \in [1 .. Length -> Values] /\ Values \subseteq Int
        /\ sl \in Seq(Values) /\ chunk_size \in Nat
    BY ConstantsAssumption DEF IInv, Flow, TypeOK
  <2> QED
    BY <2>1, SeqMonotonic
<1>1. Whole(lst) \in Seq(Int)
  BY <1>0, WholeValues
<1>2. /\ T \in Seq(Int) /\ Len(T) = Len(Whole(lst))
      /\ \A X : Cardinality(PlacesIn(T, X)) = All(X)
      /\ \A k \in 1 .. Len(T) : \A l \in k .. Len(T) : T[k] <= T[l]
  BY <1>1, SortedValue, SortedCount, SortedInOrder
<1>3. \A X \in SUBSET Int : /\ Cardinality(PlacesIn(sl, X)) = Popped(X)
                            /\ Popped(X) \in Nat /\ Popped(X) <= All(X)
                            /\ All(X) \in Nat
  BY <1>0, <1>1, FirstOfFinite, PlacesFinite DEF IInv, Merging, Counted
<1>4. Len(sl) = Popped(Int) /\ Len(Whole(lst)) = All(Int)
  BY <1>0, <1>1, <1>3, AllPlaces
<1>5. Len(sl) \in Nat /\ Len(T) \in Nat /\ Len(sl) <= Len(T)
  BY <1>2, <1>3, <1>4
<1>6. \A w \in Int : UpTo(w) \in SUBSET Int
  BY DEF UpTo
<1>7. \A a \in 1 .. Len(sl) : \A b \in a .. Len(sl) : sl[a] <= sl[b]
  BY DEF IInv, Merging, Ascends
\* If fewer are popped than there are, one that is left is in X.
<1>8. ASSUME NEW X \in SUBSET Int, Popped(X) < All(X)
      PROVE  \E q \in Processes : \E m \in Positions :
                m > Emitted[q] /\ Value(lst, q, m) \in X
  <2> DEFINE E == {e \in Processes \X Positions : Value(lst, e[1], e[2]) \in X}
  <2>1. Cardinality(E) = All(X)
    BY <1>0, ChunksCount
  <2>2. FirstOf(lst, Emitted, X) # E
    BY <1>3, <1>8, <2>1
  <2>3. FirstOf(lst, Emitted, X) \subseteq E
    BY DEF FirstOf
  <2>4. PICK e \in E : e \notin FirstOf(lst, Emitted, X)
    BY <2>2, <2>3
  <2>5. e[1] \in Processes /\ e[2] \in Positions /\ Value(lst, e[1], e[2]) \in X
    OBVIOUS
  <2>6. ~(e[2] <= Emitted[e[1]])
    BY <2>4, <2>5 DEF FirstOf
  <2>7. Emitted[e[1]] \in Int /\ e[2] \in Int
    <3>1. Emitted \in [Processes -> 0 .. chunk_size]
      BY EmittedType DEF IInv, Flow
    <3> QED
      BY <1>0, <2>5, <3>1 DEF Positions
  <2> HIDE DEF E
  <2> QED
    BY <2>5, <2>6, <2>7
<1> HIDE DEF T, Popped, All
<1>9. ASSUME NEW k \in 1 .. Len(sl) PROVE sl[k] = T[k]
  <2>1. k \in 1 .. Len(T) /\ sl[k] \in Int /\ T[k] \in Int /\ k \in Int
    <3>1. k \in 1 .. Len(T) /\ k \in Int
      BY <1>5
    <3> QED
      BY <1>0, <1>2, <3>1, ElementOfSeq
  <2>2. \A w \in Int : /\ sl[k] <= w <=> Popped(UpTo(w)) >= k
                       /\ T[k] <= w <=> All(UpTo(w)) >= k
    <3> TAKE w \in Int
    <3>1. sl[k] <= w <=> Cardinality(PlacesIn(sl, UpTo(w))) >= k
      BY <1>0, <1>7, OrderedUpTo
    <3>2. T[k] <= w <=> Cardinality(PlacesIn(T, UpTo(w))) >= k
      BY <1>2, <2>1, OrderedUpTo
    <3> QED
      BY <1>2, <1>3, <1>6, <3>1, <3>2
  <2>3. T[k] <= sl[k]
    <3>1. Popped(UpTo(sl[k])) >= k
      BY <2>1, <2>2
    <3>2. All(UpTo(sl[k])) >= k
      BY <1>3, <1>6, <2>1, <3>1
    <3> QED
      BY <2>1, <2>2, <3>2
  <2>4. ~(T[k] < sl[k])
    <3> SUFFICES ASSUME T[k] < sl[k] PROVE FALSE
      OBVIOUS
    <3>1. All(UpTo(T[k])) >= k /\ ~(Popped(UpTo(T[k])) >= k)
      BY <2>1, <2>2
    <3>2. Popped(UpTo(T[k])) < All(UpTo(T[k]))
      BY <1>3, <1>6, <2>1, <3>1
    <3>3. PICK q \in Processes, m \in Positions :
             m > Emitted[q] /\ Value(lst, q, m) \in UpTo(T[k])
      BY <1>6, <1>8, <2>1, <3>2
    <3>4. sl[k] <= Value(lst, q, m)
      BY <3>3 DEF IInv, Merging, Ascends
    <3>5. Value(lst, q, m) <= T[k] /\ Value(lst, q, m) \in Int
      BY <3>3 DEF UpTo
    <3> QED
      BY <2>1, <3>4, <3>5
  <2> QED
    BY <2>1, <2>3, <2>4
<1>10. IsPrefix(sl, T)
  <2>1. SubSeq(sl, 1, Len(sl)) = sl
    BY <1>0, SubSeqFull
  <2>2. \A x \in 1 .. Len(sl) : T[x] \in Int
    BY <1>2, <1>5, ElementOfSeq
  <2>3. /\ SubSeq(T, 1, Len(sl)) \in Seq(Int)
        /\ Len(SubSeq(T, 1, Len(sl))) = Len(sl)
        /\ \A x \in 1 .. Len(sl) : SubSeq(T, 1, Len(sl))[x] = T[x]
    <3>1. PICK n \in Nat : n = Len(sl)
      BY <1>5
    <3>2. /\ SubSeq(T, 1, n) \in Seq(Int)
          /\ Len(SubSeq(T, 1, n)) = IF 1 <= n THEN n - 1 + 1 ELSE 0
          /\ \A x \in 1 .. n - 1 + 1 : SubSeq(T, 1, n)[x] = T[1 + x - 1]
      BY <2>2, <3>1, SubSeqProperties
    <3>3. /\ (IF 1 <= n THEN n - 1 + 1 ELSE 0) = n /\ n - 1 + 1 = n
          /\ \A x \in 1 .. n : 1 + x - 1 = x
      OBVIOUS
    <3> QED
      BY <3>1, <3>2, <3>3
  <2>4. SubSeq(T, 1, Len(sl)) = sl
    BY <1>0, <1>9, <2>3, SeqEqual
  <2> QED
    BY <1>5, <2>1, <2>4 DEF IsPrefix
<1>11. ASSUME main \in {"join", "done"} PROVE Len(sl) = Len(Whole(lst))
  <2>1. \A q \in Processes : Emitted[q] = chunk_size
    <3>1. \A q \in Processes : Got(q) = chunk_size + 1 /\ ~Asked(q)
      BY <1>11 DEF IInv, Flow, Phases, Asked
    <3>2. chunk_size + 1 # 0 /\ chunk_size + 1 - 1 = chunk_size
      BY <1>0
    <3> QED
      BY <1>0, <3>1, <3>2 DEF Emitted
  <2>2. \A m \in Positions : ~(m > chunk_size)
    BY <1>0 DEF Positions
  <2>3. ~(Popped(Int) < All(Int))
    BY <1>8, <2>1, <2>2
  <2> QED
    BY <1>3, <1>4, <2>3
<1> QED
  BY <1>10, <1>11 DEF T

\* Whatever order the processes run in, the result is at every moment the
\* beginning of the sorted sequence of the elements that are in chunks, and all
\* of that sequence when the loop ends (mpsort.py:51-52, 68-76).
THEOREM ResultInOrder == Spec => []EmitsInOrder
<1>1. Whole(lst) = InChunks
  BY DEF Whole, InChunks
<1>2. IInv => EmitsInOrder
  BY <1>1, IsBeginning DEF EmitsInOrder
<1> QED
  BY <1>2, Invariance, PTL
===============================================================================
