------------------------------ MODULE PoolProofs ------------------------------
(***************************************************************************)
(* Theorems about the thread pool of Pool: its inductive invariant, and    *)
(* that pool_map is the parallel map of ParallelMap.                       *)
(***************************************************************************)
EXTENDS Pool, FiniteSetTheorems, SequenceTheorems, TLAPS

\* Nothing fails: neither the mapped function, nor malloc, nor pthread_create.
Clean == ~TaskMayFail /\ ~MallocMayFail

\* The work item for the argument k of the current pool_map, and its two results.
Task(k) == [id |-> k, arg |-> <<maps, k>>, fun |-> "fun"]
Succeeded(k) == [id |-> k, rc |-> "Success", result |-> <<maps, k>>]
Failed(k) == [id |-> k, rc |-> "Error", result |-> Unset]
Outcomes(k) == {Succeeded(k)} \cup {r \in {Failed(k)} : TaskMayFail}

TypeInv == TypeOK /\ (enq \in {"start", "run"} => maps > 0)

\* Where the client is tells where the two threads of pool_map are: both have
\* ended when it has returned.  While no pool_map is cut short each has had both,
\* and the second ends with Success when it has stored every result.
Phases ==
  /\ client = "create" => maps = 0
  /\ client \in {"join_enq", "join_deq"} => maps > 0
  /\ maps = 0 => /\ enq = "none" /\ deq = "none"
                 /\ enq_i = 0 /\ arg_count = 0 /\ ~cut_short
  /\ client \in {"idle", "pills", "join", "destroyed"} /\ maps > 0
        => enq = "ended" /\ deq = "ended"
  /\ client = "join_deq" => enq = "ended"
  /\ enq = "ended" => enq_i = arg_count
  /\ maps > 0 /\ ~cut_short => enq # "none" /\ deq # "none"
  /\ deq = "ended" /\ ~cut_short => deq_i = arg_count /\ deq_rc = "Success"
  /\ Clean => /\ ~cut_short
              /\ client \notin {"over", "crashed", "stuck"}
              /\ \A w \in Workers : trc[w] = "Success"

\* Every task, result and stored value belongs to the current pool_map, and a
\* result carries the id of its task to the place of that id.
Faithful ==
  /\ \A p \in DOMAIN work_queue :
        work_queue[p] = pill \/ work_queue[p] = Task(work_queue[p].id)
  /\ \A w \in Workers : worker[w] \in {"run", "put"} => item[w] = Task(item[w].id)
  /\ \A w \in Workers : worker[w] = "put" => pool_result[w] \in Outcomes(item[w].id)
  /\ \A p \in DOMAIN results_queue : results_queue[p] \in Outcomes(results_queue[p].id)
  /\ \A k \in Ids : results[k] \in {Unset, <<maps, k>>}

\* How often the id k is in a queue, and with the threads of the pool.
PlacesOf(s, k) == {p \in DOMAIN s : s[p].id = k}
HoldersOf(wk, it, k) == {w \in Workers : wk[w] \in {"run", "put"} /\ it[w].id = k}
Occ(s, k) == Cardinality(PlacesOf(s, k))
Hold(wk, it, k) == Cardinality(HoldersOf(wk, it, k))
Copies(k) == Occ(work_queue, k) + Hold(worker, item, k) + Occ(results_queue, k)
             + IF results[k] # Unset THEN 1 ELSE 0

\* A task that has been put is in exactly one place.  The counter of
\* dequeue_results_routine counts the results stored.
Counted ==
  /\ \A k \in Ids : Copies(k) = IF k < enq_i THEN 1 ELSE 0
  /\ deq_i = Cardinality({k \in Ids : results[k] # Unset})

\* There are pills, and threads that a pill has ended, only in pool_destroy, and
\* each pill it has put is in the queue, behind every task, or has ended a thread.
Pills == Occ(work_queue, pill.id)
Ended == {w \in Workers : worker[w] = "ended" /\ trc[w] = "Success"}
PillsBegun == \/ client = "pills" /\ i > 0
              \/ client \in {"join", "destroyed"} /\ pool_size > 0
Leaving ==
  /\ client \in {"create", "idle", "join_enq", "join_deq"} => Pills = 0 /\ Ended = {}
  /\ client \in {"pills", "join", "destroyed"} =>
        Pills + Cardinality(Ended) = IF client = "pills" THEN i ELSE pool_size
  /\ PillsBegun => work_queue = <<>> \/ work_queue[Len(work_queue)] = pill
  /\ client = "join" => \A w \in Workers : w < i => w \in Ended
  /\ client = "destroyed" => \A w \in Workers : w \in Ended

\* A value is on its way to, or at, the place of its argument in some pool_map.
AtPlace(v, k) == v = Unset \/ \E m \in 1 .. maps : v = <<m, k>>
Placed ==
  /\ \A p \in DOMAIN work_queue : AtPlace(work_queue[p].arg, work_queue[p].id)
  /\ \A w \in Workers : AtPlace(item[w].arg, item[w].id)
  /\ \A w \in Workers : AtPlace(pool_result[w].result, pool_result[w].id)
  /\ \A p \in DOMAIN results_queue : AtPlace(results_queue[p].result, results_queue[p].id)
  /\ \A k \in Ids : AtPlace(results[k], k)

\* The inductive invariant.  What it says of the tasks of a pool_map holds as
\* long as none has been cut short: one that was leaves results in the queue,
\* which the next takes for its own (pool.c:211).
PoolInv == /\ TypeInv /\ Phases /\ Leaving
           /\ ~cut_short => Faithful /\ Counted
-------------------------------------------------------------------------------
\* Lemmas about taking from a queue and putting into it, and about the counts.

LEMMA TailPlaces ==
  ASSUME NEW S, NEW s \in Seq(S), s # <<>>
  PROVE  /\ 1 \in DOMAIN s /\ Head(s) = s[1] /\ Head(s) \in S
         /\ \A p \in DOMAIN Tail(s) : p + 1 \in DOMAIN s /\ Tail(s)[p] = s[p + 1]
BY LenProperties, HeadTailProperties, EmptySeq

LEMMA AppendPlaces ==
  ASSUME NEW S, NEW s \in Seq(S), NEW e \in S
  PROVE  \A p \in DOMAIN Append(s, e) :
            Append(s, e)[p] = e \/ (p \in DOMAIN s /\ Append(s, e)[p] = s[p])
<1>1. /\ DOMAIN s = 1 .. Len(s) /\ Len(s) \in Nat
      /\ DOMAIN Append(s, e) = 1 .. Len(s) + 1
  BY LenProperties, AppendProperties
<1> QED BY <1>1, AppendProperties

\* A count is a number, and an id that is in the queue has been counted.
LEMMA OccNat ==
  ASSUME NEW S, NEW s \in Seq(S), NEW k
  PROVE  /\ IsFiniteSet(PlacesOf(s, k))
         /\ Occ(s, k) \in Nat
         /\ \A p \in DOMAIN s : s[p].id = k => Occ(s, k) >= 1
         /\ s = <<>> => Occ(s, k) = 0
<1>1. DOMAIN s = 1 .. Len(s) /\ Len(s) \in Nat
  BY LenProperties
<1>2. IsFiniteSet(DOMAIN s)
  BY <1>1, FS_Interval
<1>3. PlacesOf(s, k) \in SUBSET DOMAIN s
  BY DEF PlacesOf
<1>4. IsFiniteSet(PlacesOf(s, k)) /\ Cardinality(PlacesOf(s, k)) \in Nat
  BY <1>2, <1>3, FS_Subset, FS_CardinalityType
<1>5. Cardinality(PlacesOf(s, k)) = 0 <=> PlacesOf(s, k) = {}
  BY <1>4, FS_EmptySet
<1>6. s = <<>> => PlacesOf(s, k) = {}
  BY <1>1 DEF PlacesOf
<1>7. \A p \in DOMAIN s : s[p].id = k => p \in PlacesOf(s, k)
  BY DEF PlacesOf
<1> QED BY <1>4, <1>5, <1>6, <1>7 DEF Occ

\* Append adds one to the count of the new element's id, Tail takes one from
\* the count of the first element's.
LEMMA OccAppend ==
  ASSUME NEW S, NEW s \in Seq(S), NEW e \in S, NEW k
  PROVE  Occ(Append(s, e), k) = Occ(s, k) + IF e.id = k THEN 1 ELSE 0
<1> DEFINE t == Append(s, e)
           n == Len(s) + 1
<1>1. DOMAIN s = 1 .. Len(s) /\ Len(s) \in Nat /\ t \in Seq(S)
  BY LenProperties, AppendProperties
<1>2. DOMAIN t = 1 .. n
  BY <1>1, LenProperties, AppendProperties
<1>3. t[n] = e /\ \A p \in 1 .. Len(s) : t[p] = s[p]
  BY AppendProperties
<1>4. n \notin PlacesOf(s, k)
  BY <1>1 DEF PlacesOf
<1>5. IsFiniteSet(PlacesOf(s, k)) /\ Occ(s, k) \in Nat
  BY OccNat
<1>6. CASE e.id = k
  <2>1. PlacesOf(t, k) = PlacesOf(s, k) \cup {n}
    BY <1>1, <1>2, <1>3, <1>6 DEF PlacesOf
  <2> QED BY <2>1, <1>4, <1>5, <1>6, FS_AddElement, ZenonT(40) DEF Occ
<1>7. CASE e.id # k
  <2>1. PlacesOf(t, k) = PlacesOf(s, k)
    BY <1>1, <1>2, <1>3, <1>7 DEF PlacesOf
  <2> QED BY <2>1, <1>5, <1>7 DEF Occ
<1> QED BY <1>6, <1>7

LEMMA OccTail ==
  ASSUME NEW S, NEW s \in Seq(S), s # <<>>, NEW k
  PROVE  Occ(Tail(s), k) = Occ(s, k) - IF Head(s).id = k THEN 1 ELSE 0
<1> DEFINE t == Tail(s)
           Rest == PlacesOf(s, k) \ {1}
           shift == [p \in PlacesOf(t, k) |-> p + 1]
<1>1. /\ DOMAIN s = 1 .. Len(s) /\ Len(s) \in Nat \ {0}
      /\ DOMAIN t = 1 .. Len(s) - 1
      /\ Head(s) = s[1]
      /\ \A p \in 1 .. Len(s) - 1 : t[p] = s[p + 1]
      /\ t \in Seq(S)
  BY LenProperties, HeadTailProperties, EmptySeq
<1>2. /\ IsFiniteSet(PlacesOf(s, k)) /\ Occ(s, k) \in Nat
      /\ IsFiniteSet(PlacesOf(t, k)) /\ IsFiniteSet(Rest)
  BY <1>1, OccNat, FS_RemoveElement
<1>3. shift \in Bijection(PlacesOf(t, k), Rest)
  <2>1. shift \in [PlacesOf(t, k) -> Rest]
    BY <1>1 DEF PlacesOf
  <2>2. \A p, q \in PlacesOf(t, k) : shift[p] = shift[q] => p = q
    BY <1>1 DEF PlacesOf
  <2>3. \A q \in Rest : q - 1 \in PlacesOf(t, k) /\ shift[q - 1] = q
    BY <1>1 DEF PlacesOf
  <2> QED BY <2>1, <2>2, <2>3 DEF Bijection, Injection, Surjection, IsInjective
<1>4. Cardinality(PlacesOf(t, k)) = Cardinality(Rest)
  BY <1>3, <1>2, FS_Bijection DEF ExistsBijection
<1>5. 1 \in PlacesOf(s, k) <=> Head(s).id = k
  BY <1>1 DEF PlacesOf
<1>6. Cardinality(Rest) = IF 1 \in PlacesOf(s, k) THEN Occ(s, k) - 1 ELSE Occ(s, k)
  BY <1>2, FS_RemoveElement DEF Occ
<1> QED BY <1>2, <1>4, <1>5, <1>6 DEF Occ

LEMMA HoldNat ==
  ASSUME NEW wk, NEW it, NEW k
  PROVE  /\ IsFiniteSet(Workers)
         /\ IsFiniteSet(HoldersOf(wk, it, k))
         /\ Hold(wk, it, k) \in Nat
         /\ \A w \in Workers : wk[w] \in {"run", "put"} /\ it[w].id = k => Hold(wk, it, k) >= 1
<1>1. IsFiniteSet(Workers)
  BY FS_Interval, ConstantsAssumption DEF Workers
<1>2. HoldersOf(wk, it, k) \in SUBSET Workers
  BY DEF HoldersOf
<1>3. IsFiniteSet(HoldersOf(wk, it, k)) /\ Cardinality(HoldersOf(wk, it, k)) \in Nat
  BY <1>1, <1>2, FS_Subset, FS_CardinalityType
<1>4. Cardinality(HoldersOf(wk, it, k)) = 0 <=> HoldersOf(wk, it, k) = {}
  BY <1>3, FS_EmptySet
<1>5. \A w \in Workers : wk[w] \in {"run", "put"} /\ it[w].id = k => w \in HoldersOf(wk, it, k)
  BY DEF HoldersOf
<1> QED BY <1>1, <1>3, <1>4, <1>5 DEF Hold

\* The count of holders depends on the busy threads and their items only; it
\* grows by one when a thread takes a task and falls by one when it puts a result.
LEMMA HoldSame ==
  ASSUME NEW wk, NEW it, NEW wk2, NEW it2, NEW k,
         \A w \in Workers : wk[w] \in {"run", "put"} <=> wk2[w] \in {"run", "put"},
         \A w \in Workers : wk[w] \in {"run", "put"} => it2[w] = it[w]
  PROVE  Hold(wk2, it2, k) = Hold(wk, it, k)
<1>1. HoldersOf(wk2, it2, k) = HoldersOf(wk, it, k)
  BY DEF HoldersOf
<1> QED BY <1>1 DEF Hold

LEMMA HoldTake ==
  ASSUME NEW wk, NEW it, NEW wk2, NEW it2, NEW k, NEW u \in Workers,
         wk[u] \notin {"run", "put"}, wk2[u] \in {"run", "put"},
         \A w \in Workers \ {u} : wk2[w] = wk[w] /\ it2[w] = it[w]
  PROVE  Hold(wk2, it2, k) = Hold(wk, it, k) + IF it2[u].id = k THEN 1 ELSE 0
<1>1. /\ u \notin HoldersOf(wk, it, k)
      /\ HoldersOf(wk2, it2, k) = IF it2[u].id = k THEN HoldersOf(wk, it, k) \cup {u}
                                                   ELSE HoldersOf(wk, it, k)
  BY DEF HoldersOf
<1>2. IsFiniteSet(HoldersOf(wk, it, k)) /\ Hold(wk, it, k) \in Nat
  BY HoldNat
<1>3. Cardinality(HoldersOf(wk, it, k) \cup {u}) = Hold(wk, it, k) + 1
  BY <1>1, <1>2, FS_AddElement DEF Hold
<1>4. CASE it2[u].id = k
  BY <1>1, <1>3, <1>4 DEF Hold
<1>5. CASE it2[u].id # k
  BY <1>1, <1>2, <1>5 DEF Hold
<1> QED BY <1>4, <1>5

LEMMA HoldRelease ==
  ASSUME NEW wk, NEW it, NEW wk2, NEW it2, NEW k, NEW u \in Workers,
         wk[u] \in {"run", "put"}, wk2[u] \notin {"run", "put"},
         \A w \in Workers \ {u} : wk2[w] = wk[w] /\ it2[w] = it[w]
  PROVE  Hold(wk2, it2, k) = Hold(wk, it, k) - IF it[u].id = k THEN 1 ELSE 0
<1>1. /\ u \in HoldersOf(wk, it, k) <=> it[u].id = k
      /\ HoldersOf(wk2, it2, k) = HoldersOf(wk, it, k) \ {u}
  BY DEF HoldersOf
<1>2. IsFiniteSet(HoldersOf(wk, it, k)) /\ Hold(wk, it, k) \in Nat
  BY HoldNat
<1>3. Cardinality(HoldersOf(wk, it, k) \ {u}) = IF u \in HoldersOf(wk, it, k)
                                                THEN Cardinality(HoldersOf(wk, it, k)) - 1
                                                ELSE Cardinality(HoldersOf(wk, it, k))
  BY <1>2, FS_RemoveElement
<1>4. CASE it[u].id = k
  BY <1>1, <1>2, <1>3, <1>4 DEF Hold
<1>5. CASE it[u].id # k
  BY <1>1, <1>2, <1>3, <1>5 DEF Hold
<1> QED BY <1>4, <1>5
-------------------------------------------------------------------------------
LEMMA TypeInvInit == Init => TypeInv
<1> SUFFICES ASSUME Init PROVE TypeInv
  OBVIOUS
<1> USE ConstantsAssumption DEF Init
<1>1. /\ work_queue \in Seq(Work \cup {pill}) /\ Len(work_queue) <= WorkBlocks
      /\ results_queue \in Seq(Results) /\ Len(results_queue) <= ResultBlocks
  BY EmptySeq
<1>2. pool_result \in [Workers -> Results]
  BY DEF Results, NoResult, Codes, Ids
<1>3. item \in [Workers -> Work \cup {pill}] /\ results \in [Ids -> Values \cup {Unset}]
  OBVIOUS
<1>4. /\ worker \in [Workers -> {"none", "start", "get", "run", "put", "ended"}]
      /\ \A w \in Workers : worker[w] = "none"
      /\ trc \in [Workers -> Codes \cup {"NULL"}]
  BY DEF Codes
<1>5. /\ enq_i \in 0 .. arg_count /\ deq_i \in 0 .. arg_count /\ i \in 0 .. pool_size
      /\ maps \in 0 .. MaxMaps /\ arg_count \in 0 .. MaxArgs
  OBVIOUS
<1>6. /\ enq = "none" /\ deq = "none" /\ client = "create"
      /\ deq_rc \in Codes /\ rc \in Codes /\ cut_short \in BOOLEAN
  BY Zenon DEF Codes
<1> QED BY <1>1, <1>2, <1>3, <1>4, <1>5, <1>6, Zenon DEF TypeInv, TypeOK

LEMMA TypeInvStep == TypeInv /\ [Next]_vars => TypeInv'
<1> SUFFICES ASSUME TypeInv, [Next]_vars
             PROVE  TypeInv'
  OBVIOUS
<1> USE ConstantsAssumption DEF TypeInv, TypeOK
<1>1. ASSUME Client PROVE TypeInv'
  <2>1. CASE Create
    BY <2>1 DEF Create, Moves, enq_vars, deq_vars, Workers
  <2>2. CASE CreateFails
    BY <2>2 DEF CreateFails, Moves, pool_vars, enq_vars, deq_vars, Codes
  <2>3. CASE CreateEnd
    BY <2>3 DEF CreateEnd, Moves, pool_vars, enq_vars, deq_vars
  <2>4. CASE MapStart
    BY <2>4 DEF MapStart, Created, Moves, pool_vars, Codes
  <2>5. CASE MapJoinEnq
    BY <2>5 DEF MapJoinEnq, Moves, pool_vars, enq_vars, deq_vars
  <2>6. CASE MapReturn
    BY <2>6 DEF MapReturn, Moves, pool_vars, enq_vars, deq_vars
  <2>7. CASE DestroyStart
    BY <2>7 DEF DestroyStart, Moves, pool_vars, enq_vars, deq_vars, Codes
  <2>8. CASE DestroyPill
    BY <2>8, AppendProperties DEF DestroyPill, Moves, pool_vars, enq_vars, deq_vars
  <2>9. CASE DestroyPillsPut
    BY <2>9 DEF DestroyPillsPut, Moves, pool_vars, enq_vars, deq_vars
  <2>10. CASE DestroyJoin
    BY <2>10 DEF DestroyJoin, Moves, pool_vars, enq_vars, deq_vars
  <2>11. CASE DestroyJoinFailed
    BY <2>11 DEF DestroyJoinFailed, Moves, pool_vars, enq_vars, deq_vars, Codes, Workers
  <2>12. CASE DestroyEnd
    BY <2>12 DEF DestroyEnd, Moves, pool_vars, enq_vars, deq_vars, Codes
  <2>13. CASE MapNoThread
    BY <2>13 DEF MapNoThread, pool_vars, enq_vars, deq_vars, Codes
  <2> QED BY <1>1, <2>1, <2>2, <2>3, <2>4, <2>5, <2>6, <2>7, <2>8, <2>9, <2>10,
             <2>11, <2>12, <2>13 DEF Client
<1>2. ASSUME Enqueuer PROVE TypeInv'
  <2>1. CASE EnqPut
    <3>1. [id |-> enq_i, arg |-> <<maps, enq_i>>, fun |-> "fun"] \in Work
      BY <2>1 DEF EnqPut, Work, Ids, Values
    <3> QED BY <2>1, <3>1, AppendProperties DEF EnqPut, pool_vars, deq_vars, client_vars
  <2>2. CASE EnqEnd
    BY <2>2 DEF EnqEnd, pool_vars, deq_vars, client_vars
  <2>3. CASE EnqStart
    BY <2>3 DEF EnqStart, pool_vars, deq_vars, client_vars
  <2>4. CASE EnqCrashes
    BY <2>4 DEF EnqCrashes, Crash, pool_vars, enq_vars, deq_vars
  <2> QED BY <1>2, <2>1, <2>2, <2>3, <2>4 DEF Enqueuer
<1>3. ASSUME Dequeuer PROVE TypeInv'
  <2>1. CASE DeqStore
    <3>1. Head(results_queue) \in Results /\ Tail(results_queue) \in Seq(Results)
          /\ Len(Tail(results_queue)) <= ResultBlocks
      BY <2>1, HeadTailProperties, LenProperties DEF DeqStore
    <3> QED BY <2>1, <3>1 DEF DeqStore, Results, pool_vars, enq_vars, client_vars
  <2>2. CASE DeqTaskFailed
    <3>1. Tail(results_queue) \in Seq(Results) /\ Len(Tail(results_queue)) <= ResultBlocks
      BY <2>2, HeadTailProperties, LenProperties DEF DeqTaskFailed
    <3> QED BY <2>2, <3>1 DEF DeqTaskFailed, DeqEnds, pool_vars, enq_vars, client_vars
  <2>3. CASE DeqFails
    BY <2>3 DEF DeqFails, DeqEnds, Codes, pool_vars, enq_vars, client_vars
  <2>4. CASE DeqEnd
    BY <2>4 DEF DeqEnd, DeqEnds, Codes, pool_vars, enq_vars, client_vars
  <2>5. CASE DeqStart
    BY <2>5 DEF DeqStart, pool_vars, enq_vars, client_vars
  <2>6. CASE DeqCrashes
    BY <2>6 DEF DeqCrashes, Crash, pool_vars, enq_vars, deq_vars
  <2> QED BY <1>3, <2>1, <2>2, <2>3, <2>4, <2>5, <2>6 DEF Dequeuer
<1>4. ASSUME NEW w \in Workers, Worker(w) PROVE TypeInv'
  <2>1. CASE WorkerStart(w)
    BY <2>1 DEF WorkerStart, Goes, enq_vars, deq_vars, client_vars
  <2>2. CASE WorkerStartFails(w)
    BY <2>2 DEF WorkerStartFails, Ends, Goes, enq_vars, deq_vars, client_vars
  <2>3. CASE WorkerGet(w)
    <3>1. /\ Head(work_queue) \in Work
          /\ Tail(work_queue) \in Seq(Work \cup {pill})
          /\ Len(Tail(work_queue)) <= WorkBlocks
      BY <2>3, HeadTailProperties, LenProperties DEF WorkerGet, pill
    <3> QED BY <2>3, <3>1 DEF WorkerGet, Goes, enq_vars, deq_vars, client_vars
  <2>4. CASE WorkerGetPill(w)
    <3>1. Tail(work_queue) \in Seq(Work \cup {pill}) /\ Len(Tail(work_queue)) <= WorkBlocks
      BY <2>4, HeadTailProperties, LenProperties DEF WorkerGetPill
    <3> QED BY <2>4, <3>1 DEF WorkerGetPill, Ends, Goes, Codes, enq_vars, deq_vars, client_vars
  <2>5. CASE WorkerGetFails(w)
    BY <2>5 DEF WorkerGetFails, Ends, Goes, Codes, enq_vars, deq_vars, client_vars
  <2>6. CASE WorkerRun(w)
    <3>1. item[w].id \in Ids /\ item[w].arg \in Values
      BY <2>6 DEF WorkerRun, Goes, Work
    <3>2. \E r \in Results : pool_result' = [pool_result EXCEPT ![w] = r]
      <4>1. /\ [id |-> item[w].id, rc |-> "Success", result |-> item[w].arg] \in Results
            /\ [id |-> item[w].id, rc |-> "Error", result |-> Unset] \in Results
        BY <3>1 DEF Results, Codes
      <4> QED BY <2>6, <4>1 DEF WorkerRun
    <3> QED BY <2>6, <3>2 DEF WorkerRun, Goes, enq_vars, deq_vars, client_vars
  <2>7. CASE WorkerPut(w)
    <3>1. NoResult \in Results
      BY ConstantsAssumption DEF NoResult, Results, Codes, Ids
    <3> QED BY <2>7, <3>1, AppendProperties DEF WorkerPut, Goes, enq_vars, deq_vars, client_vars
  <2> QED BY <1>4, <2>1, <2>2, <2>3, <2>4, <2>5, <2>6, <2>7 DEF Worker
<1>5. CASE UNCHANGED vars
  BY <1>5 DEF vars, pool_vars, enq_vars, deq_vars, client_vars
<1> QED BY <1>1, <1>2, <1>3, <1>4, <1>5 DEF Next, Terminating

\* The types of the pool, whatever fails and for any sizes (pool.c, all of it).
THEOREM TypeInvHolds == Spec => []TypeInv
BY TypeInvInit, TypeInvStep, PTL DEF Spec
-------------------------------------------------------------------------------
LEMMA CopiesNat ==
  ASSUME TypeInv, NEW k
  PROVE  /\ Occ(work_queue, k) \in Nat
         /\ Hold(worker, item, k) \in Nat
         /\ Occ(results_queue, k) \in Nat
BY OccNat, HoldNat DEF TypeInv, TypeOK

\* dequeue_results_routine has ended its loop: it has stored arg_count results at
\* different places, so every place is filled.
LEMMA AllStored ==
  ASSUME TypeInv, Phases, Faithful, Counted, deq = "ended", ~cut_short
  PROVE  \A k \in Ids : k < arg_count => results[k] = <<maps, k>>
<1> DEFINE S == {k \in Ids : results[k] # Unset}
<1>1. arg_count \in 0 .. MaxArgs /\ enq_i \in 0 .. arg_count /\ deq_i = arg_count
  BY DEF TypeInv, TypeOK, Phases
<1>2. \A k \in Ids : results[k] # Unset => k < enq_i
  <2> SUFFICES ASSUME NEW k \in Ids, results[k] # Unset PROVE k < enq_i
    OBVIOUS
  <2>1. Copies(k) = IF k < enq_i THEN 1 ELSE 0
    BY DEF Counted
  <2> QED BY <2>1, CopiesNat, <1>1 DEF Copies, Ids
<1>3. S \in SUBSET (0 .. arg_count - 1)
  BY <1>1, <1>2, ConstantsAssumption DEF Ids
<1>4. /\ IsFiniteSet(0 .. arg_count - 1)
      /\ Cardinality(0 .. arg_count - 1) = arg_count
  BY <1>1, ConstantsAssumption, FS_Interval
<1>5. Cardinality(S) = arg_count
  BY <1>1 DEF Counted
<1>6. S = 0 .. arg_count - 1
  <2> HIDE DEF S
  <2> QED BY <1>3, <1>4, <1>5, FS_Subset
<1> QED BY <1>6, <1>1, ConstantsAssumption DEF Faithful, Ids

\* No task is in the work queue, with a thread of the pool or in the results queue.
NoneUnderWay ==
  /\ \A p \in DOMAIN work_queue : work_queue[p] = pill
  /\ \A w \in Workers : worker[w] \notin {"run", "put"}
  /\ results_queue = <<>>
  /\ \A k \in Ids : /\ Occ(work_queue, k) = 0
                    /\ Hold(worker, item, k) = 0
                    /\ Occ(results_queue, k) = 0

\* Outside pool_map nothing is under way: the pool is new, or everything the
\* last call has put has been stored.
LEMMA NoneLeft ==
  ASSUME TypeInv, Phases, Faithful, Counted,
         ~cut_short, maps = 0 \/ client \in {"idle", "pills", "join", "destroyed"}
  PROVE  NoneUnderWay
<1>1. \A k \in Ids : /\ Occ(work_queue, k) = 0
                     /\ Hold(worker, item, k) = 0
                     /\ Occ(results_queue, k) = 0
  <2> SUFFICES ASSUME NEW k \in Ids
               PROVE  /\ Occ(work_queue, k) = 0
                      /\ Hold(worker, item, k) = 0
                      /\ Occ(results_queue, k) = 0
    OBVIOUS
  <2>1. Copies(k) = IF k < enq_i THEN 1 ELSE 0
    BY DEF Counted
  <2>2. CASE maps = 0
    <3>1. enq_i = 0
      BY <2>2 DEF Phases
    <3>2. Copies(k) = 0
      BY <2>1, <3>1, ConstantsAssumption DEF Ids
    <3> QED BY <3>2, CopiesNat, SMTT(30) DEF Copies
  <2>3. CASE maps # 0
    <3>1. deq = "ended" /\ enq = "ended" /\ enq_i = arg_count
      BY <2>3 DEF Phases, TypeInv, TypeOK
    <3>2. k < enq_i => results[k] # Unset
      <4>1. k < enq_i => results[k] = <<maps, k>>
        BY AllStored, <3>1
      <4> QED BY <4>1, <2>3 DEF Unset
    <3> QED BY <2>1, <3>2, CopiesNat, SMTT(30) DEF Copies
  <2> QED BY <2>2, <2>3
<1>2. ASSUME NEW p \in DOMAIN work_queue PROVE work_queue[p] = pill
  <2>1. work_queue[p] \in Work \cup {pill}
    BY LenProperties, ElementOfSeq DEF TypeInv, TypeOK
  <2>2. CASE work_queue[p] \in Work
    <3>1. work_queue[p].id \in Ids
      BY <2>2 DEF Work
    <3>2. Occ(work_queue, work_queue[p].id) >= 1
      BY OccNat DEF TypeInv, TypeOK
    <3> QED BY <1>1, <3>1, <3>2
  <2> QED BY <2>1, <2>2
<1>3. ASSUME NEW w \in Workers PROVE worker[w] \notin {"run", "put"}
  <2> SUFFICES ASSUME worker[w] \in {"run", "put"} PROVE FALSE
    OBVIOUS
  <2>1. item[w].id \in Ids
    BY DEF TypeInv, TypeOK, Work
  <2>2. Hold(worker, item, item[w].id) >= 1
    BY HoldNat
  <2> QED BY <1>1, <2>1, <2>2
<1>4. results_queue = <<>>
  <2> SUFFICES ASSUME results_queue # <<>> PROVE FALSE
    OBVIOUS
  <2>1. 1 \in DOMAIN results_queue /\ results_queue[1] \in Results
    BY LenProperties, ElementOfSeq, EmptySeq DEF TypeInv, TypeOK
  <2>2. results_queue[1].id \in Ids
    BY <2>1 DEF Results
  <2>3. Occ(results_queue, results_queue[1].id) >= 1
    BY <2>1, OccNat DEF TypeInv, TypeOK
  <2> QED BY <1>1, <2>2, <2>3
<1> QED BY <1>1, <1>2, <1>3, <1>4 DEF NoneUnderWay

LEMMA PoolInvInit == Init => PoolInv
<1> SUFFICES ASSUME Init PROVE PoolInv
  OBVIOUS
<1>1. TypeInv
  BY TypeInvInit
<1>2. Phases
  BY DEF Init, Phases
<1>3. Faithful
  BY LenProperties, EmptySeq DEF Init, Faithful
<1>4. Counted
  <2>1. {k \in Ids : results[k] # Unset} = {}
    BY DEF Init
  <2>2. Cardinality({k \in Ids : results[k] # Unset}) = 0
    BY <2>1, FS_EmptySet
  <2>3. ASSUME NEW k \in Ids PROVE Copies(k) = 0
    <3>1. Occ(work_queue, k) = 0 /\ Occ(results_queue, k) = 0
      BY OccNat, <1>1 DEF TypeInv, TypeOK, Init
    <3>2. HoldersOf(worker, item, k) = {}
      BY DEF HoldersOf, Init
    <3>3. Hold(worker, item, k) = 0
      BY <3>2, FS_EmptySet DEF Hold
    <3> QED BY <3>1, <3>3 DEF Copies, Init
  <2> QED BY <2>2, <2>3 DEF Counted, Init, Ids
<1>5. Leaving
  <2>1. Pills = 0
    BY OccNat, <1>1 DEF TypeInv, TypeOK, Init, Pills
  <2> QED BY <2>1 DEF Init, Leaving, Ended, PillsBegun
<1> QED BY <1>1, <1>2, <1>3, <1>4, <1>5 DEF PoolInv
-------------------------------------------------------------------------------
\* A pool_map that has been cut short stays so.
LEMMA CutShortStays ==
  ASSUME TypeInv, [Next]_vars, cut_short
  PROVE  cut_short'
BY DEF TypeInv, TypeOK, Next, Client, Create, CreateFails, CreateEnd, MapStart, MapJoinEnq,
       MapReturn, MapNoThread, DestroyStart, DestroyPill, DestroyPillsPut, DestroyJoin,
       DestroyJoinFailed, DestroyEnd, Enqueuer, EnqStart, EnqCrashes, EnqPut, EnqEnd,
       Dequeuer, DeqStart, DeqCrashes, DeqStore, DeqTaskFailed, DeqFails, DeqEnd,
       Worker, WorkerStart, WorkerStartFails, WorkerGet, WorkerGetPill, WorkerGetFails,
       WorkerRun, WorkerPut, Terminating, vars, deq_vars

LEMMA PhasesStep ==
  ASSUME TypeInv, Phases, ~cut_short => Faithful, [Next]_vars
  PROVE  Phases'
<1> USE DEF TypeInv, TypeOK, Phases
<1>1. ASSUME Client PROVE Phases'
  <2> USE DEF Moves
  <2>1. CASE Create
    BY <2>1 DEF Create, enq_vars, deq_vars
  <2>2. CASE CreateFails
    BY <2>2 DEF CreateFails, pool_vars, enq_vars, deq_vars, Clean
  <2>3. CASE CreateEnd
    BY <2>3 DEF CreateEnd, pool_vars, enq_vars, deq_vars
  <2>4. CASE MapStart
    <3>1. /\ client' = "join_enq" /\ maps' > 0 /\ UNCHANGED trc
          /\ enq' \in {"none", "start"} /\ deq' \in {"none", "start"}
          /\ client = "idle"
      BY <2>4, ConstantsAssumption DEF MapStart, Created, pool_vars
    <3>2. ~cut_short' => enq' # "none" /\ deq' # "none"
      BY <2>4 DEF MapStart
    <3>3. Clean => ~cut_short'
      <4> SUFFICES ASSUME Clean PROVE ~cut_short'
        OBVIOUS
      <4>1. enq' = "start" /\ deq' = "start"
        BY <2>4 DEF MapStart, Created, Clean
      <4> QED BY <2>4, <4>1 DEF MapStart
    <3> QED BY <3>1, <3>2, <3>3
  <2>5. CASE MapJoinEnq
    BY <2>5 DEF MapJoinEnq, pool_vars, enq_vars, deq_vars
  <2>6. CASE MapReturn
    BY <2>6 DEF MapReturn, pool_vars, enq_vars, deq_vars
  <2>7. CASE DestroyStart
    BY <2>7 DEF DestroyStart, pool_vars, enq_vars, deq_vars
  <2>8. CASE DestroyPill
    BY <2>8 DEF DestroyPill, pool_vars, enq_vars, deq_vars
  <2>9. CASE DestroyPillsPut
    BY <2>9 DEF DestroyPillsPut, pool_vars, enq_vars, deq_vars
  <2>10. CASE DestroyJoin
    BY <2>10 DEF DestroyJoin, pool_vars, enq_vars, deq_vars
  <2>11. CASE DestroyJoinFailed
    <3>1. i \in Workers
      BY <2>11, ConstantsAssumption DEF DestroyJoinFailed, Workers
    <3> QED BY <2>11, <3>1 DEF DestroyJoinFailed, pool_vars, enq_vars, deq_vars
  <2>12. CASE DestroyEnd
    BY <2>12 DEF DestroyEnd, pool_vars, enq_vars, deq_vars
  <2>13. CASE MapNoThread
    BY <2>13 DEF MapNoThread, pool_vars, enq_vars, deq_vars
  <2> QED BY <1>1, <2>1, <2>2, <2>3, <2>4, <2>5, <2>6, <2>7, <2>8, <2>9, <2>10,
             <2>11, <2>12, <2>13 DEF Client
<1>2. ASSUME Enqueuer PROVE Phases'
  <2>1. CASE EnqStart
    BY <2>1 DEF EnqStart, pool_vars, deq_vars, client_vars
  <2>2. CASE EnqCrashes
    BY <2>2 DEF EnqCrashes, Crash, Clean, pool_vars, enq_vars, deq_vars
  <2>3. CASE EnqPut
    BY <2>3 DEF EnqPut, pool_vars, deq_vars, client_vars
  <2>4. CASE EnqEnd
    BY <2>4 DEF EnqEnd, pool_vars, deq_vars, client_vars
  <2> QED BY <1>2, <2>1, <2>2, <2>3, <2>4 DEF Enqueuer
<1>3. ASSUME Dequeuer PROVE Phases'
  <2>1. CASE DeqStart
    BY <2>1 DEF DeqStart, pool_vars, enq_vars, client_vars
  <2>2. CASE DeqCrashes
    BY <2>2 DEF DeqCrashes, Crash, Clean, pool_vars, enq_vars, deq_vars
  <2>3. CASE DeqStore
    BY <2>3 DEF DeqStore, pool_vars, enq_vars, client_vars
  <2>4. CASE DeqTaskFailed
    <3>1. ~Clean
      <4> SUFFICES ASSUME Clean PROVE FALSE
        OBVIOUS
      <4>1. Head(results_queue) \in Outcomes(Head(results_queue).id)
        BY <2>4, LenProperties, EmptySeq DEF DeqTaskFailed, Faithful
      <4> QED BY <2>4, <4>1 DEF DeqTaskFailed, Outcomes, Succeeded, Clean
    <3> QED BY <2>4, <3>1 DEF DeqTaskFailed, DeqEnds, pool_vars, enq_vars, client_vars
  <2>5. CASE DeqFails
    BY <2>5 DEF DeqFails, DeqEnds, Clean, pool_vars, enq_vars, client_vars
  <2>6. CASE DeqEnd
    BY <2>6 DEF DeqEnd, DeqEnds, pool_vars, enq_vars, client_vars
  <2> QED BY <1>3, <2>1, <2>2, <2>3, <2>4, <2>5, <2>6 DEF Dequeuer
<1>4. ASSUME NEW w \in Workers, Worker(w) PROVE Phases'
  <2>1. UNCHANGED <<enq_vars, deq_vars, client_vars>>
    BY <1>4 DEF Worker, WorkerStart, WorkerStartFails, WorkerGet, WorkerGetPill,
                WorkerGetFails, WorkerRun, WorkerPut
  <2>2. Clean => \A u \in Workers : trc'[u] = "Success"
    BY <1>4 DEF Worker, WorkerStart, WorkerStartFails, WorkerGet, WorkerGetPill,
                WorkerGetFails, WorkerRun, WorkerPut, Ends, Clean
  <2> QED BY <2>1, <2>2 DEF enq_vars, deq_vars, client_vars
<1>5. CASE UNCHANGED vars
  BY <1>5 DEF vars, pool_vars, enq_vars, deq_vars, client_vars
<1> QED BY <1>1, <1>2, <1>3, <1>4, <1>5 DEF Next, Terminating

LEMMA FaithfulStep ==
  ASSUME TypeInv, Phases, Faithful, Counted, ~cut_short, [Next]_vars, ~cut_short'
  PROVE  Faithful'
<1> USE DEF TypeInv, TypeOK, Faithful
<1>1. ASSUME Client PROVE Faithful'
  <2>1. CASE MapStart
    <3>2. NoneUnderWay
      BY <2>1, NoneLeft DEF MapStart, Moves
    <3> QED BY <2>1, <3>2, LenProperties DEF MapStart, NoneUnderWay, pool_vars
  <2>2. CASE DestroyPill
    <3>1. \A p \in DOMAIN work_queue' :
             work_queue'[p] = pill \/ (p \in DOMAIN work_queue /\ work_queue'[p] = work_queue[p])
      BY <2>2, AppendPlaces DEF DestroyPill
    <3> QED BY <2>2, <3>1 DEF DestroyPill, pool_vars, deq_vars, Task, Outcomes, Succeeded, Failed
  <2>3. CASE Create
    <3>1. \A w \in Workers : worker'[w] \in {"run", "put"} => worker'[w] = worker[w]
      BY <2>3 DEF Create
    <3> QED BY <2>3, <3>1 DEF Create, deq_vars, Task, Outcomes, Succeeded, Failed
  <2>4. CASE ~(MapStart \/ DestroyPill \/ Create)
    <3>1. UNCHANGED <<work_queue, results_queue, pool_vars, deq_vars, maps>>
      BY <1>1, <2>4 DEF Client, CreateFails, CreateEnd, MapJoinEnq, MapReturn, MapNoThread,
                DestroyStart, DestroyPillsPut, DestroyJoin, DestroyJoinFailed, DestroyEnd
    <3> QED BY <3>1 DEF pool_vars, deq_vars, Task, Outcomes, Succeeded, Failed
  <2> QED BY <2>1, <2>2, <2>3, <2>4
<1>2. CASE EnqPut
  <2>1. Task(enq_i) \in Work \cup {pill} /\ Task(enq_i).id = enq_i
    <3>1. enq_i \in Ids /\ maps \in 1 .. MaxMaps
      BY <1>2, ConstantsAssumption DEF EnqPut, Ids
    <3> QED BY <3>1 DEF Task, Work, Values
  <2>2. \A p \in DOMAIN work_queue' :
           work_queue'[p] = Task(enq_i) \/ (p \in DOMAIN work_queue /\ work_queue'[p] = work_queue[p])
    BY <1>2, <2>1, AppendPlaces DEF EnqPut, Task
  <2> QED BY <1>2, <2>1, <2>2, ZenonT(40)
          DEF EnqPut, pool_vars, deq_vars, client_vars, Task, Outcomes, Succeeded, Failed
<1>3. CASE DeqStore
  <2>1. /\ Head(results_queue) \in Outcomes(Head(results_queue).id)
        /\ Head(results_queue) \in Results
        /\ \A p \in DOMAIN results_queue' :
              p + 1 \in DOMAIN results_queue /\ results_queue'[p] = results_queue[p + 1]
    BY <1>3, TailPlaces DEF DeqStore
  <2>2. Head(results_queue).result = <<maps, Head(results_queue).id>>
    BY <1>3, <2>1 DEF DeqStore, Outcomes, Succeeded, Failed
  <2>3. \A k \in Ids : results'[k] \in {Unset, <<maps, k>>}'
    BY <1>3, <2>2 DEF DeqStore, client_vars
  <2>4. \A p \in DOMAIN results_queue' : results_queue'[p] \in Outcomes(results_queue'[p].id)
    BY <2>1
  <2>5. UNCHANGED <<work_queue, pool_vars, maps>>
    BY <1>3 DEF DeqStore, client_vars
  <2> HIDE DEF TypeOK, TypeInv
  <2> QED BY <2>3, <2>4, <2>5 DEF pool_vars, Task, Outcomes, Succeeded, Failed
<1>4. CASE DeqTaskFailed \/ DeqFails
  BY <1>4 DEF DeqTaskFailed, DeqFails
<1>5. CASE EnqStart \/ EnqCrashes \/ EnqEnd \/ DeqStart \/ DeqCrashes \/ DeqEnd
  <2>1. UNCHANGED <<work_queue, results_queue, pool_vars, results, maps>>
    BY <1>5 DEF EnqStart, EnqCrashes, EnqEnd, DeqStart, DeqCrashes, Crash, DeqEnd, deq_vars,
                client_vars
  <2> QED BY <2>1 DEF pool_vars, Task, Outcomes, Succeeded, Failed
<1>6. ASSUME NEW w \in Workers, Worker(w) PROVE Faithful'
  <2> USE DEF Task, Outcomes, Succeeded, Failed, deq_vars, client_vars
  <2>1. CASE WorkerGet(w)
    <3>1. /\ Head(work_queue) = Task(Head(work_queue).id)
          /\ \A p \in DOMAIN work_queue' :
                p + 1 \in DOMAIN work_queue /\ work_queue'[p] = work_queue[p + 1]
      BY <2>1, TailPlaces DEF WorkerGet, pill
    <3> QED BY <2>1, <3>1, ZenonT(40) DEF WorkerGet, Goes
  <2>2. CASE WorkerGetPill(w)
    <3>1. \A p \in DOMAIN work_queue' :
             p + 1 \in DOMAIN work_queue /\ work_queue'[p] = work_queue[p + 1]
      BY <2>2, TailPlaces DEF WorkerGetPill
    <3> QED BY <2>2, <3>1, ZenonT(40) DEF WorkerGetPill, Ends, Goes
  <2>3. CASE WorkerRun(w)
    <3>1. item[w] = Task(item[w].id)
      BY <2>3 DEF WorkerRun, Goes
    <3>2. pool_result'[w] \in Outcomes(item[w].id)
      BY <2>3, <3>1 DEF WorkerRun
    <3> QED BY <2>3, <3>1, <3>2 DEF WorkerRun, Goes
  <2>4. CASE WorkerPut(w)
    <3>1. /\ pool_result[w] \in Outcomes(pool_result[w].id)
          /\ \A p \in DOMAIN results_queue' :
               \/ results_queue'[p] = pool_result[w]
               \/ p \in DOMAIN results_queue /\ results_queue'[p] = results_queue[p]
      BY <2>4, AppendPlaces DEF WorkerPut, Goes
    <3>2. /\ \A u \in Workers : worker'[u] \in {"run", "put"} =>
                                  u # w /\ worker'[u] = worker[u] /\ item'[u] = item[u]
          /\ \A u \in Workers \ {w} : pool_result'[u] = pool_result[u]
          /\ UNCHANGED <<work_queue, results, maps>>
      BY <2>4 DEF WorkerPut, Goes
    <3>3. \A p \in DOMAIN results_queue' : results_queue'[p] \in Outcomes(results_queue'[p].id)
      BY <3>1
    <3>4. \A u \in Workers : worker'[u] \in {"run", "put"} =>
             item'[u] = Task(item'[u].id)
      BY <3>2
    <3>5. \A u \in Workers : worker'[u] = "put" => pool_result'[u] \in Outcomes(item'[u].id)
      BY <3>2
    <3> HIDE DEF TypeInv, TypeOK
    <3> QED BY <3>2, <3>3, <3>4, <3>5, ZenonT(40)
  <2>5. CASE WorkerStart(w) \/ WorkerStartFails(w) \/ WorkerGetFails(w)
    BY <2>5, ZenonT(40) DEF WorkerStart, WorkerStartFails, WorkerGetFails, Ends, Goes
  <2> QED BY <1>6, <2>1, <2>2, <2>3, <2>4, <2>5 DEF Worker
<1>7. CASE UNCHANGED vars
  BY <1>7 DEF vars, pool_vars, deq_vars, client_vars, Task, Outcomes, Succeeded, Failed
<1> QED BY <1>1, <1>2, <1>3, <1>4, <1>5, <1>6, <1>7
           DEF Next, Enqueuer, Dequeuer, Terminating

LEMMA CountedSame ==
  ASSUME TypeInv, Counted, UNCHANGED <<work_queue, results_queue, enq_i, deq_i, results>>,
         \A k : Hold(worker', item', k) = Hold(worker, item, k)
  PROVE  Counted'
BY DEF Counted, Copies

LEMMA CountedStep ==
  ASSUME TypeInv, Phases, Faithful, Counted, ~cut_short, [Next]_vars, ~cut_short'
  PROVE  Counted'
<1> DEFINE Filled == {k \in Ids : results[k] # Unset}
<1>1. /\ work_queue \in Seq(Work \cup {pill}) /\ results_queue \in Seq(Results)
      /\ worker \in [Workers -> {"none", "start", "get", "run", "put", "ended"}]
      /\ item \in [Workers -> Work \cup {pill}]
      /\ pool_result \in [Workers -> Results]
      /\ enq_i \in Nat /\ deq_i \in Nat
      /\ results \in [Ids -> Values \cup {Unset}]
  BY ConstantsAssumption DEF TypeInv, TypeOK
<1>2. \A k : /\ Occ(work_queue, k) \in Nat
             /\ Hold(worker, item, k) \in Nat
             /\ Occ(results_queue, k) \in Nat
  BY CopiesNat
<1>3. ASSUME Client PROVE Counted'
  <2>1. CASE MapStart
    <3>2. NoneUnderWay
      BY <2>1, NoneLeft DEF MapStart, Moves
    <3>3. \A k \in Ids : Copies(k)' = 0
      BY <2>1, <3>2 DEF MapStart, NoneUnderWay, Copies, pool_vars
    <3>4. {k \in Ids : results'[k] # Unset} = {}
      BY <2>1 DEF MapStart
    <3>5. deq_i' = Cardinality({k \in Ids : results'[k] # Unset})
      BY <2>1, <3>4, FS_EmptySet DEF MapStart
    <3>6. enq_i' = 0
      BY <2>1 DEF MapStart
    <3> QED BY <3>3, <3>5, <3>6 DEF Counted, Ids
  <2>2. CASE DestroyPill
    <3>1. ASSUME NEW k \in Ids PROVE Occ(work_queue', k) = Occ(work_queue, k)
      <4>1. pill \in Work \cup {pill} /\ pill.id # k
        BY ConstantsAssumption DEF pill, Ids
      <4>2. Occ(Append(work_queue, pill), k) = Occ(work_queue, k) + IF pill.id = k THEN 1 ELSE 0
        BY <4>1, <1>1, OccAppend
      <4> QED BY <2>2, <4>1, <4>2, <1>2 DEF DestroyPill
    <3> QED BY <2>2, <3>1 DEF DestroyPill, Counted, Copies, pool_vars, enq_vars, deq_vars
  <2>3. CASE Create
    <3>1. \A k : Hold(worker', item', k) = Hold(worker, item, k)
      <4>1. i \in Workers
        BY <2>3, ConstantsAssumption DEF Create, Workers, TypeInv, TypeOK
      <4>2. worker[i] \notin {"run", "put"}
        BY <2>3, <4>1, NoneLeft DEF Create, Moves, Phases, NoneUnderWay
      <4>3. /\ item' = item
            /\ \A w \in Workers : worker[w] \in {"run", "put"} <=> worker'[w] \in {"run", "put"}
        BY <2>3, <4>1, <4>2, <1>1 DEF Create
      <4> QED BY <4>3, HoldSame
    <3> QED BY <2>3, <3>1, CountedSame DEF Create, enq_vars, deq_vars
  <2>4. CASE ~(MapStart \/ DestroyPill \/ Create)
    <3>1. UNCHANGED <<work_queue, results_queue, pool_vars, enq_vars, deq_vars>>
      BY <1>3, <2>4 DEF Client, CreateFails, CreateEnd, MapJoinEnq, MapReturn, MapNoThread,
                DestroyStart, DestroyPillsPut, DestroyJoin, DestroyJoinFailed, DestroyEnd
    <3> QED BY <3>1, CountedSame DEF pool_vars, enq_vars, deq_vars
  <2> QED BY <2>1, <2>2, <2>3, <2>4
<1>4. CASE EnqPut
  <2>1. Task(enq_i) \in Work \cup {pill} /\ Task(enq_i).id = enq_i
    BY <1>4, ConstantsAssumption DEF EnqPut, Task, Work, Ids, Values, TypeInv, TypeOK
  <2>2. ASSUME NEW k
        PROVE  Occ(work_queue', k) = Occ(work_queue, k) + IF enq_i = k THEN 1 ELSE 0
    <3>1. Occ(Append(work_queue, Task(enq_i)), k)
            = Occ(work_queue, k) + IF Task(enq_i).id = k THEN 1 ELSE 0
      BY <1>1, <2>1, OccAppend
    <3> QED BY <1>4, <2>1, <3>1 DEF EnqPut, Task
  <2>3. UNCHANGED <<results_queue, worker, item, results, deq_i>> /\ enq_i' = enq_i + 1
    BY <1>4 DEF EnqPut, pool_vars, deq_vars
  <2>4. ASSUME NEW k \in Ids
        PROVE  Copies(k)' = Copies(k) + IF enq_i = k THEN 1 ELSE 0
    BY <2>2, <2>3, <1>2 DEF Copies
  <2>5. ASSUME NEW k \in Ids
        PROVE  Copies(k) = IF k < enq_i THEN 1 ELSE 0
    BY DEF Counted
  <2>6. deq_i' = Cardinality({k \in Ids : results'[k] # Unset})
    BY <2>3 DEF Counted
  <2> QED BY <2>3, <2>4, <2>5, <2>6, <1>1, ConstantsAssumption DEF Counted, Ids
<1>5. CASE DeqStore
  <2> DEFINE d == Head(results_queue).id
  <2>1. Head(results_queue) \in Results /\ Head(results_queue) \in Outcomes(d)
    BY <1>5, <1>1, TailPlaces DEF DeqStore, Faithful
  <2>2. d \in Ids /\ Head(results_queue).result # Unset
    <3>1. d \in Ids
      BY <2>1 DEF Results
    <3>2. Head(results_queue).result = <<maps, d>>
      BY <1>5, <2>1 DEF DeqStore, Outcomes, Succeeded, Failed
    <3> QED BY <3>1, <3>2, ConstantsAssumption DEF Unset, Ids
  <2>3. \A k : Occ(results_queue', k) = Occ(results_queue, k) - IF d = k THEN 1 ELSE 0
    BY <1>5, <1>1, OccTail DEF DeqStore
  <2>4. Occ(results_queue, d) >= 1
    BY <1>5, <1>1, TailPlaces, OccNat DEF DeqStore
  <2>5. results[d] = Unset
    <3>1. Copies(d) = IF d < enq_i THEN 1 ELSE 0
      BY <2>2 DEF Counted
    <3> QED BY <3>1, <2>4, <1>2 DEF Copies
  <2>6. /\ UNCHANGED <<work_queue, worker, item, enq_i>>
        /\ results' = [results EXCEPT ![d] = Head(results_queue).result]
        /\ deq_i' = deq_i + 1
    BY <1>5 DEF DeqStore, pool_vars, enq_vars
  <2>7. ASSUME NEW k \in Ids PROVE Copies(k)' = Copies(k)
    <3>1. CASE k = d
      BY <3>1, <2>2, <2>3, <2>5, <2>6, <1>1, <1>2 DEF Copies
    <3>2. CASE k # d
      BY <3>2, <2>3, <2>6, <1>1, <1>2 DEF Copies
    <3> QED BY <3>1, <3>2
  <2>8. {k \in Ids : results'[k] # Unset} = Filled \cup {d}
    BY <2>2, <2>6, <1>1
  <2>9. deq_i' = Cardinality({k \in Ids : results'[k] # Unset})
    <3>1. IsFiniteSet(Filled) /\ d \notin Filled /\ deq_i = Cardinality(Filled)
      <4>1. IsFiniteSet(Ids) /\ Filled \in SUBSET Ids
        BY FS_Interval, ConstantsAssumption DEF Ids
      <4> QED BY <4>1, <2>5, FS_Subset DEF Counted
    <3> HIDE DEF Filled
    <3> QED BY <3>1, <2>6, <2>8, FS_AddElement
  <2> QED BY <2>6, <2>7, <2>9 DEF Counted
<1>6. CASE DeqTaskFailed \/ DeqFails
  BY <1>6 DEF DeqTaskFailed, DeqFails
<1>7. CASE EnqStart \/ EnqCrashes \/ EnqEnd \/ DeqStart \/ DeqCrashes \/ DeqEnd
  <2>1. UNCHANGED <<work_queue, results_queue, worker, item, enq_i, deq_i, results>>
    BY <1>7 DEF EnqStart, EnqCrashes, EnqEnd, DeqStart, DeqCrashes, DeqEnd, pool_vars, enq_vars,
                deq_vars
  <2> QED BY <2>1, CountedSame
<1>8. ASSUME NEW w \in Workers, Worker(w) PROVE Counted'
  <2>1. CASE WorkerGet(w)
    <3> DEFINE d == Head(work_queue).id
    <3>1. \A k : Occ(work_queue', k) = Occ(work_queue, k) - IF d = k THEN 1 ELSE 0
      BY <2>1, <1>1, OccTail DEF WorkerGet
    <3>2. item'[w] = Head(work_queue)
      BY <2>1, <1>1 DEF WorkerGet
    <3>3. \A k : Hold(worker', item', k) = Hold(worker, item, k) + IF d = k THEN 1 ELSE 0
      <4>1. /\ worker[w] \notin {"run", "put"} /\ worker'[w] \in {"run", "put"}
            /\ \A u \in Workers \ {w} : worker'[u] = worker[u] /\ item'[u] = item[u]
        BY <2>1, <1>1 DEF WorkerGet, Goes
      <4>2. \A k : Hold(worker', item', k) = Hold(worker, item, k) + IF item'[w].id = k THEN 1 ELSE 0
        BY <4>1, HoldTake
      <4> QED BY <3>2, <4>2
    <3>4. UNCHANGED <<results_queue, enq_i, deq_i, results>>
      BY <2>1 DEF WorkerGet, enq_vars, deq_vars
    <3>5. ASSUME NEW k PROVE Copies(k)' = Copies(k)
      BY <3>1, <3>3, <3>4, <1>2 DEF Copies
    <3> QED BY <3>4, <3>5 DEF Counted
  <2>2. CASE WorkerGetPill(w)
    <3>1. Head(work_queue) = pill
      BY <2>2, <1>1, TailPlaces DEF WorkerGetPill, Work
    <3>2. ASSUME NEW k \in Ids PROVE Occ(work_queue', k) = Occ(work_queue, k)
      <4>1. pill.id # k
        BY ConstantsAssumption DEF pill, Ids
      <4>2. Occ(Tail(work_queue), k) = Occ(work_queue, k) - IF Head(work_queue).id = k THEN 1 ELSE 0
        BY <2>2, <1>1, OccTail DEF WorkerGetPill
      <4> QED BY <2>2, <3>1, <4>1, <4>2, <1>2 DEF WorkerGetPill
    <3>3. \A k : Hold(worker', item', k) = Hold(worker, item, k)
      <4>1. /\ item' = item
            /\ \A u \in Workers : worker[u] \in {"run", "put"} <=> worker'[u] \in {"run", "put"}
        BY <2>2, <1>1 DEF WorkerGetPill, Ends, Goes
      <4> QED BY <4>1, HoldSame
    <3> QED BY <2>2, <3>2, <3>3 DEF WorkerGetPill, Counted, Copies, enq_vars, deq_vars
  <2>3. CASE WorkerPut(w)
    <3> DEFINE d == item[w].id
    <3>1. pool_result[w].id = d /\ pool_result[w] \in Results
      BY <2>3, <1>1 DEF WorkerPut, Goes, Faithful, Outcomes, Succeeded, Failed
    <3>2. \A k : Occ(results_queue', k) = Occ(results_queue, k) + IF d = k THEN 1 ELSE 0
      BY <2>3, <1>1, <3>1, OccAppend DEF WorkerPut
    <3>3. \A k : Hold(worker', item', k) = Hold(worker, item, k) - IF d = k THEN 1 ELSE 0
      <4>1. /\ worker[w] \in {"run", "put"} /\ worker'[w] \notin {"run", "put"}
            /\ \A u \in Workers \ {w} : worker'[u] = worker[u] /\ item'[u] = item[u]
        BY <2>3, <1>1 DEF WorkerPut, Goes
      <4> QED BY <4>1, HoldRelease
    <3>4. UNCHANGED <<work_queue, enq_i, deq_i, results>>
      BY <2>3 DEF WorkerPut, enq_vars, deq_vars
    <3>5. ASSUME NEW k PROVE Copies(k)' = Copies(k)
      BY <3>2, <3>3, <3>4, <1>2 DEF Copies
    <3> QED BY <3>4, <3>5 DEF Counted
  <2>4. CASE WorkerStart(w) \/ WorkerStartFails(w) \/ WorkerGetFails(w) \/ WorkerRun(w)
    <3>1. UNCHANGED <<work_queue, results_queue, item, enq_i, deq_i, results>>
      BY <2>4 DEF WorkerStart, WorkerStartFails, WorkerGetFails, WorkerRun, enq_vars, deq_vars
    <3>2. \A u \in Workers : worker[u] \in {"run", "put"} <=> worker'[u] \in {"run", "put"}
      BY <2>4, <1>1 DEF WorkerStart, WorkerStartFails, WorkerGetFails, WorkerRun, Ends, Goes
    <3>3. \A k : Hold(worker', item', k) = Hold(worker, item, k)
      BY <3>1, <3>2, HoldSame
    <3> QED BY <3>1, <3>3, CountedSame
  <2> QED BY <1>8, <2>1, <2>2, <2>3, <2>4 DEF Worker
<1>9. CASE UNCHANGED vars
  BY <1>9, CountedSame DEF vars, pool_vars, enq_vars, deq_vars
<1> QED BY <1>3, <1>4, <1>5, <1>6, <1>7, <1>8, <1>9
           DEF Next, Enqueuer, Dequeuer, Terminating

\* The last element stays the last when the first is taken.
LEMMA TailLast ==
  ASSUME NEW S, NEW s \in Seq(S), s # <<>>
  PROVE  /\ Len(s) \in Nat \ {0} /\ Len(Tail(s)) = Len(s) - 1
         /\ Tail(s) = <<>> <=> Len(s) = 1
         /\ Tail(s) # <<>> => Tail(s)[Len(Tail(s))] = s[Len(s)]
<1>1. /\ Len(s) \in Nat \ {0} /\ Tail(s) \in Seq(S) /\ Len(Tail(s)) = Len(s) - 1
      /\ \A p \in 1 .. Len(s) - 1 : Tail(s)[p] = s[p + 1]
  BY LenProperties, HeadTailProperties, EmptySeq
<1>2. Tail(s) = <<>> <=> Len(Tail(s)) = 0
  BY <1>1, EmptySeq
<1> QED BY <1>1, <1>2

LEMMA LeavingStep ==
  ASSUME TypeInv, Phases, Leaving, [Next]_vars
  PROVE  Leaving'
<1>1. /\ work_queue \in Seq(Work \cup {pill})
      /\ worker \in [Workers -> {"none", "start", "get", "run", "put", "ended"}]
      /\ trc \in [Workers -> Codes \cup {"NULL"}]
      /\ i \in 0 .. pool_size /\ pool_size \in Nat
      /\ Pills \in Nat
  BY OccNat, ConstantsAssumption DEF TypeInv, TypeOK, Pills
<1>2. IsFiniteSet(Ended) /\ Cardinality(Ended) \in Nat
  <2>1. IsFiniteSet(Workers) /\ Ended \in SUBSET Workers
    BY FS_Interval, ConstantsAssumption DEF Workers, Ended
  <2> QED BY <2>1, FS_Subset, FS_CardinalityType
<1>3. ASSUME UNCHANGED <<client, i, work_queue, Ended>> PROVE Leaving'
  BY <1>3 DEF Leaving, PillsBegun, Pills
<1>4. ASSUME client' \in {"over", "crashed", "stuck"} PROVE Leaving'
  BY <1>4 DEF Leaving, PillsBegun
<1>5. ASSUME Client PROVE Leaving'
  <2> USE DEF Moves
  <2>1. CASE Create
    <3>1. Pills = 0 /\ Ended = {} /\ client' = "create" /\ work_queue' = work_queue
      BY <2>1 DEF Create, Leaving
    <3>2. Ended' = {}
      BY <2>1, <3>1, <1>1 DEF Create, Ended
    <3> QED BY <3>1, <3>2 DEF Leaving, PillsBegun, Pills
  <2>2. CASE CreateFails \/ MapNoThread \/ DestroyJoinFailed
    BY <2>2, <1>4 DEF CreateFails, MapNoThread, DestroyJoinFailed
  <2>3. CASE CreateEnd \/ MapStart \/ MapJoinEnq \/ MapReturn
    <3>1. /\ UNCHANGED <<work_queue, worker, trc>>
          /\ client \in {"create", "idle", "join_enq", "join_deq"}
          /\ client' \in {"idle", "join_enq", "join_deq"}
      BY <2>3 DEF CreateEnd, MapStart, MapJoinEnq, MapReturn, pool_vars
    <3>2. Ended' = Ended
      BY <3>1 DEF Ended
    <3> QED BY <3>1, <3>2 DEF Leaving, PillsBegun, Pills
  <2>4. CASE DestroyStart
    <3>1. /\ UNCHANGED <<work_queue, worker, trc>> /\ i' = 0
          /\ client = "idle" /\ client' = "pills"
      BY <2>4 DEF DestroyStart, pool_vars
    <3>2. Pills' = 0 /\ Ended' = {}
      BY <3>1 DEF Leaving, Pills, Ended
    <3>3. Cardinality(Ended') = 0
      BY <3>2, FS_EmptySet
    <3> QED BY <3>1, <3>2, <3>3 DEF Leaving, PillsBegun
  <2>5. CASE DestroyPill
    <3>1. /\ work_queue' = Append(work_queue, pill) /\ UNCHANGED <<worker, trc>>
          /\ i' = i + 1 /\ client = "pills" /\ client' = "pills"
      BY <2>5 DEF DestroyPill, pool_vars
    <3>2. Ended' = Ended
      BY <3>1 DEF Ended
    <3>3. Pills' = Pills + 1
      <4>1. Occ(Append(work_queue, pill), pill.id)
              = Occ(work_queue, pill.id) + IF pill.id = pill.id THEN 1 ELSE 0
        BY <1>1, OccAppend
      <4> QED BY <3>1, <4>1, <1>1 DEF Pills
    <3>4. work_queue'[Len(work_queue')] = pill
      BY <3>1, <1>1, AppendProperties, LenProperties
    <3>5. Pills + Cardinality(Ended) = i
      BY <3>1 DEF Leaving
    <3>6. Pills' + Cardinality(Ended') = i'
      BY <3>1, <3>2, <3>3, <3>5, <1>1, <1>2
    <3> QED BY <3>1, <3>4, <3>6 DEF Leaving
  <2>6. CASE DestroyPillsPut
    <3>1. /\ UNCHANGED <<work_queue, worker, trc>> /\ i = pool_size /\ i' = 0
          /\ client = "pills" /\ client' = "join"
      BY <2>6 DEF DestroyPillsPut, pool_vars
    <3>2. Ended' = Ended /\ Pills' = Pills
      BY <3>1 DEF Ended, Pills
    <3>3. \A w \in Workers : ~(w < i')
      BY <3>1, ConstantsAssumption DEF Workers
    <3>4. PillsBegun' => PillsBegun
      BY <3>1, <1>1 DEF PillsBegun
    <3> QED BY <3>1, <3>2, <3>3, <3>4 DEF Leaving
  <2>7. CASE DestroyJoin
    <3>1. /\ UNCHANGED <<work_queue, worker, trc>> /\ i' = i + 1 /\ i < pool_size
          /\ worker[i] = "ended" /\ trc[i] = "Success"
          /\ client = "join" /\ client' = "join"
      BY <2>7 DEF DestroyJoin, pool_vars
    <3>2. Ended' = Ended /\ Pills' = Pills
      BY <3>1 DEF Ended, Pills
    <3>3. \A w \in Workers : w < i' => w \in Ended
      <4>1. \A w \in Workers : w < i' => w < i \/ w = i
        BY <3>1, <1>1 DEF Workers
      <4>2. \A w \in Workers : w < i => w \in Ended
        BY <3>1 DEF Leaving
      <4>3. \A w \in Workers : w = i => w \in Ended
        BY <3>1 DEF Ended
      <4> QED BY <4>1, <4>2, <4>3
    <3> QED BY <3>1, <3>2, <3>3 DEF Leaving, PillsBegun
  <2>8. CASE DestroyEnd
    <3>1. /\ UNCHANGED <<work_queue, worker, trc>> /\ i = pool_size
          /\ client = "join" /\ client' = "destroyed"
      BY <2>8 DEF DestroyEnd, pool_vars
    <3>2. Ended' = Ended /\ Pills' = Pills
      BY <3>1 DEF Ended, Pills
    <3>3. \A w \in Workers : w \in Ended
      <4>1. \A w \in Workers : w < i
        BY <3>1, <1>1 DEF Workers
      <4> QED BY <3>1, <4>1 DEF Leaving
    <3> QED BY <3>1, <3>2, <3>3 DEF Leaving, PillsBegun
  <2> QED BY <1>5, <2>1, <2>2, <2>3, <2>4, <2>5, <2>6, <2>7, <2>8 DEF Client
<1>6. CASE EnqPut
  <2>1. /\ client \notin {"create", "pills", "join", "destroyed"}
        /\ UNCHANGED <<worker, trc, client, i>>
    BY <1>6 DEF EnqPut, TypeInv, Phases, pool_vars, client_vars
  <2>2. Ended' = Ended
    BY <2>1 DEF Ended
  <2>3. Task(enq_i) \in Work \cup {pill} /\ Task(enq_i).id # pill.id
    BY <1>6, ConstantsAssumption DEF EnqPut, Task, pill, Work, Ids, Values, TypeInv, TypeOK
  <2>4. Occ(Append(work_queue, Task(enq_i)), pill.id)
          = Occ(work_queue, pill.id) + IF Task(enq_i).id = pill.id THEN 1 ELSE 0
    BY <2>3, <1>1, OccAppend
  <2>5. Pills' = Pills
    BY <1>6, <2>3, <2>4, <1>1 DEF Pills, EnqPut, Task
  <2> QED BY <2>1, <2>2, <2>5 DEF Leaving, PillsBegun
<1>7. CASE EnqStart \/ EnqEnd \/ DeqStart \/ DeqStore \/ DeqTaskFailed \/ DeqFails \/ DeqEnd
  <2>1. UNCHANGED <<work_queue, worker, trc, client, i>>
    BY <1>7 DEF EnqStart, EnqEnd, DeqStart, DeqStore, DeqTaskFailed, DeqFails, DeqEnd,
                pool_vars, client_vars
  <2>2. Ended' = Ended
    BY <2>1 DEF Ended
  <2> QED BY <2>1, <2>2, <1>3
<1>8. CASE EnqCrashes \/ DeqCrashes
  BY <1>8, <1>4 DEF EnqCrashes, DeqCrashes, Crash
<1>9. ASSUME NEW w \in Workers, Worker(w) PROVE Leaving'
  <2>1. CASE WorkerGet(w)
    <3>1. /\ work_queue # <<>> /\ work_queue' = Tail(work_queue)
          /\ UNCHANGED <<client, i, trc>>
      BY <2>1 DEF WorkerGet, client_vars
    <3>2. Ended' = Ended
      BY <2>1, <1>1 DEF WorkerGet, Goes, Ended
    <3>3. Head(work_queue) # pill /\ Head(work_queue).id # pill.id
      <4>1. Head(work_queue) \in Work
        BY <2>1, <1>1, TailPlaces DEF WorkerGet, pill
      <4> QED BY <4>1, ConstantsAssumption DEF Work, Ids, pill
    <3>4. Pills' = Pills
      <4>1. Occ(Tail(work_queue), pill.id)
              = Occ(work_queue, pill.id) - IF Head(work_queue).id = pill.id THEN 1 ELSE 0
        BY <3>1, <1>1, OccTail
      <4> QED BY <3>1, <3>3, <4>1, <1>1 DEF Pills
    <3>5. PillsBegun' => work_queue' = <<>> \/ work_queue'[Len(work_queue')] = pill
      BY <3>1, <1>1, TailLast DEF Leaving, PillsBegun
    <3> QED BY <3>1, <3>2, <3>4, <3>5 DEF Leaving
  <2>2. CASE WorkerGetPill(w)
    <3>1. /\ work_queue # <<>> /\ work_queue' = Tail(work_queue)
          /\ UNCHANGED <<client, i>>
      BY <2>2 DEF WorkerGetPill, client_vars
    <3>2. Head(work_queue) = pill
      BY <2>2, <1>1, TailPlaces DEF WorkerGetPill, Work
    <3>3. Pills' = Pills - 1 /\ Pills >= 1
      <4>1. Occ(Tail(work_queue), pill.id)
              = Occ(work_queue, pill.id) - IF Head(work_queue).id = pill.id THEN 1 ELSE 0
        BY <3>1, <1>1, OccTail
      <4>2. Occ(work_queue, pill.id) >= 1
        BY <3>1, <3>2, <1>1, TailPlaces, OccNat
      <4> QED BY <3>1, <3>2, <4>1, <4>2, <1>1 DEF Pills
    <3>4. Ended' = Ended \cup {w} /\ w \notin Ended
      BY <2>2, <1>1 DEF WorkerGetPill, Ends, Goes, Ended
    <3>5. Cardinality(Ended') = Cardinality(Ended) + 1
      BY <3>4, <1>2, FS_AddElement
    <3>6. Pills' + Cardinality(Ended') = Pills + Cardinality(Ended)
      BY <3>3, <3>5, <1>1, <1>2
    <3>7. PillsBegun' => work_queue' = <<>> \/ work_queue'[Len(work_queue')] = pill
      BY <3>1, <1>1, TailLast DEF Leaving, PillsBegun
    <3>8. client \notin {"create", "idle", "join_enq", "join_deq", "destroyed"}
      BY <3>3, <3>4 DEF Leaving
    <3> QED BY <3>1, <3>4, <3>6, <3>7, <3>8 DEF Leaving
  <2>3. CASE WorkerStartFails(w) \/ WorkerGetFails(w) \/ WorkerStart(w) \/ WorkerRun(w) \/ WorkerPut(w)
    <3>1. UNCHANGED <<work_queue, client, i>>
      BY <2>3 DEF WorkerStartFails, WorkerGetFails, WorkerStart, WorkerRun, WorkerPut, client_vars
    <3>2. Ended' = Ended
      BY <2>3, <1>1 DEF WorkerStartFails, WorkerGetFails, WorkerStart, WorkerRun, WorkerPut,
                        Ends, Goes, Ended
    <3> QED BY <3>1, <3>2, <1>3
  <2> QED BY <1>9, <2>1, <2>2, <2>3 DEF Worker
<1>10. CASE UNCHANGED vars
  <2>1. UNCHANGED <<work_queue, worker, trc, client, i>>
    BY <1>10 DEF vars, pool_vars, client_vars
  <2>2. Ended' = Ended
    BY <2>1 DEF Ended
  <2> QED BY <2>1, <2>2, <1>3
<1> QED BY <1>5, <1>6, <1>7, <1>8, <1>9, <1>10 DEF Next, Enqueuer, Dequeuer, Terminating

LEMMA PoolInvStep == PoolInv /\ [Next]_vars => PoolInv'
<1> SUFFICES ASSUME PoolInv, [Next]_vars PROVE PoolInv'
  OBVIOUS
<1>1. /\ TypeInv /\ Phases /\ Leaving
      /\ ~cut_short => Faithful /\ Counted
  BY DEF PoolInv
<1>2. TypeInv' /\ Phases' /\ Leaving'
  BY <1>1, TypeInvStep, PhasesStep, LeavingStep
<1>3. ASSUME ~cut_short' PROVE Faithful' /\ Counted'
  <2>1. ~cut_short
    BY <1>1, <1>3, CutShortStays
  <2> QED BY <1>1, <1>3, <2>1, FaithfulStep, CountedStep
<1> QED BY <1>2, <1>3 DEF PoolInv

\* The invariant of the pool, for any number of calls and whatever fails.
THEOREM PoolInvHolds == Spec => []PoolInv
BY PoolInvInit, PoolInvStep, PTL DEF Spec
-------------------------------------------------------------------------------
\* The type invariant of the pool: no queue ever holds more than its blocks, no
\* counter passes its limit, and a busy thread has a work item (pool.c:29-46).
THEOREM PoolTypeCorrect == Spec => []TypeOK
BY TypeInvHolds, PTL DEF TypeInv

LEMMA PoolInvSuccess == PoolInv => SuccessFillsResults \/ cut_short
<1> SUFFICES ASSUME PoolInv, ~cut_short, client = "idle", maps > 0,
                    NEW k \in 0 .. arg_count - 1
             PROVE  results[k] = <<maps, k>>
  BY DEF SuccessFillsResults
<1>1. deq = "ended"
  BY DEF PoolInv, Phases
<1>2. k \in Ids /\ k < arg_count
  BY ConstantsAssumption DEF PoolInv, TypeInv, TypeOK, Ids
<1> QED BY <1>1, <1>2, AllStored DEF PoolInv

\* pool_map can return Success without every result only after one was cut short,
\* by the error of a result, by a failed malloc in the thread that takes them, or
\* by a thread that was not created: no order of the threads, no loss of a thread
\* of the pool and no size of the queues does it (pool.c:158-290).
THEOREM PoolSuccess == Spec => [](SuccessFillsResults \/ cut_short)
BY PoolInvHolds, PoolInvSuccess, PTL

LEMMA PoolInvOnePlace == PoolInv => EachTaskInOnePlace
<1> SUFFICES ASSUME PoolInv, ~cut_short, NEW k \in 0 .. arg_count - 1
             PROVE  Places(k) = IF k < enq_i THEN 1 ELSE 0
  BY DEF EachTaskInOnePlace
<1> DEFINE v == <<maps, k>>
<1>1. k \in Ids /\ v # Unset /\ pill.id # k
  BY ConstantsAssumption DEF PoolInv, TypeInv, TypeOK, Ids, Unset, pill
<1>2. {p \in DOMAIN work_queue : work_queue[p].arg = v} = PlacesOf(work_queue, k)
  <2>1. ASSUME NEW p \in DOMAIN work_queue
        PROVE  work_queue[p].arg = v <=> work_queue[p].id = k
    <3>1. CASE work_queue[p] = pill
      BY <3>1, <1>1 DEF pill
    <3>2. CASE work_queue[p] = Task(work_queue[p].id)
      BY <3>2 DEF Task
    <3> QED BY <3>1, <3>2 DEF PoolInv, Faithful
  <2> QED BY <2>1 DEF PlacesOf
<1>3. {w \in Workers : worker[w] \in {"run", "put"} /\ item[w].arg = v}
        = HoldersOf(worker, item, k)
  <2>1. ASSUME NEW w \in Workers, worker[w] \in {"run", "put"}
        PROVE  item[w].arg = v <=> item[w].id = k
    <3>1. item[w] = Task(item[w].id)
      BY <2>1 DEF PoolInv, Faithful
    <3>2. item[w].arg = <<maps, item[w].id>>
      BY <3>1 DEF Task
    <3> QED BY <3>2
  <2> QED BY <2>1 DEF HoldersOf
<1>4. {p \in DOMAIN results_queue :
         \/ results_queue[p].result = v
         \/ results_queue[p].rc # "Success" /\ results_queue[p].id = k}
        = PlacesOf(results_queue, k)
  <2>1. ASSUME NEW p \in DOMAIN results_queue
        PROVE  (\/ results_queue[p].result = v
                \/ results_queue[p].rc # "Success" /\ results_queue[p].id = k)
                 <=> results_queue[p].id = k
    <3>1. results_queue[p] \in Outcomes(results_queue[p].id)
      BY DEF PoolInv, Faithful
    <3>2. CASE results_queue[p] = Succeeded(results_queue[p].id)
      BY <3>2 DEF Succeeded
    <3>3. CASE results_queue[p] = Failed(results_queue[p].id)
      BY <3>3, <1>1 DEF Failed
    <3> QED BY <3>1, <3>2, <3>3 DEF Outcomes
  <2> QED BY <2>1 DEF PlacesOf
<1>5. results[k] = v <=> results[k] # Unset
  BY <1>1 DEF PoolInv, Faithful
<1>6. Places(k) = Copies(k)
  BY <1>2, <1>3, <1>4, <1>5 DEF Places, Copies, Occ, Hold
<1> QED BY <1>1, <1>6 DEF PoolInv, Counted

\* As long as no pool_map is cut short no task is lost or doubled on its way
\* through the two queues and the threads, even if threads of the pool are lost
\* to a failed malloc (pool.c:29-46, 177-185, 208-224).
THEOREM PoolOnePlace == Spec => []EachTaskInOnePlace
BY PoolInvHolds, PoolInvOnePlace, PTL

LEMMA PoolInvDestroyed ==
  ASSUME pool_size > 0
  PROVE  PoolInv => DestroyedClean
<1> SUFFICES ASSUME PoolInv, client = "destroyed"
             PROVE  /\ work_queue = <<>>
                    /\ \A w \in Workers : worker[w] = "ended"
                    /\ ~cut_short => results_queue = <<>>
  BY DEF DestroyedClean
<1>1. work_queue \in Seq(Work \cup {pill})
  BY DEF PoolInv, TypeInv, TypeOK
<1>2. Ended = Workers
  BY DEF PoolInv, Leaving, Ended
<1>3. Cardinality(Ended) = pool_size
  BY <1>2, FS_Interval, ConstantsAssumption DEF Workers
<1>4. Pills = 0
  <2>1. Pills + Cardinality(Ended) = pool_size /\ Pills \in Nat
    BY <1>1, OccNat DEF PoolInv, Leaving, Pills
  <2> QED BY <2>1, <1>3, ConstantsAssumption
<1>5. work_queue = <<>>
  <2> SUFFICES ASSUME work_queue # <<>> PROVE FALSE
    OBVIOUS
  <2>1. work_queue[Len(work_queue)] = pill
    BY DEF PoolInv, Leaving, PillsBegun
  <2>2. Len(work_queue) \in DOMAIN work_queue
    BY <1>1, LenProperties, EmptySeq
  <2>3. Occ(work_queue, pill.id) >= 1
    BY <1>1, <2>1, <2>2, OccNat
  <2> QED BY <1>4, <2>3 DEF Pills
<1>6. ~cut_short => results_queue = <<>>
  BY NoneLeft DEF PoolInv, NoneUnderWay
<1>7. \A w \in Workers : worker[w] = "ended"
  BY <1>2 DEF Ended
<1> QED BY <1>5, <1>6, <1>7

\* When pool_destroy returns Success no task or pill is in the work queue and every
\* thread has ended, whatever has failed; and no result is left in the queue it
\* frees unless a pool_map was cut short (pool.c:112-156).
THEOREM PoolDestroyed ==
  ASSUME pool_size > 0
  PROVE  Spec => []DestroyedClean
BY PoolInvHolds, PoolInvDestroyed, PTL
-------------------------------------------------------------------------------
LEMMA PlacedInit == Init => Placed
<1> SUFFICES ASSUME Init PROVE Placed
  OBVIOUS
<1>1. DOMAIN work_queue = {} /\ DOMAIN results_queue = {}
  BY LenProperties, EmptySeq DEF Init
<1> QED BY <1>1 DEF Init, Placed, AtPlace, pill, NoResult

LEMMA PlacedStep == TypeInv /\ Placed /\ [Next]_vars => Placed'
<1> SUFFICES ASSUME TypeInv, Placed, [Next]_vars PROVE Placed'
  OBVIOUS
<1>1. /\ work_queue \in Seq(Work \cup {pill}) /\ results_queue \in Seq(Results)
      /\ item \in [Workers -> Work \cup {pill}]
      /\ pool_result \in [Workers -> Results]
      /\ results \in [Ids -> Values \cup {Unset}]
      /\ maps \in Nat
  BY ConstantsAssumption DEF TypeInv, TypeOK
<1>2. ASSUME UNCHANGED <<work_queue, results_queue, item, pool_result, results, maps>>
      PROVE  Placed'
  BY <1>2 DEF Placed, AtPlace
<1>3. CASE MapStart
  <2>1. /\ maps' = maps + 1 /\ results' = [k \in Ids |-> Unset]
        /\ UNCHANGED <<work_queue, results_queue, item, pool_result>>
    BY <1>3 DEF MapStart, pool_vars
  <2>3. \A k \in Ids : AtPlace(results[k], k)'
    BY <2>1 DEF AtPlace
  <2>4. \A p \in DOMAIN work_queue : AtPlace(work_queue[p].arg, work_queue[p].id)'
    BY <2>1, <1>1 DEF Placed, AtPlace
  <2>5. \A p \in DOMAIN results_queue : AtPlace(results_queue[p].result, results_queue[p].id)'
    BY <2>1, <1>1 DEF Placed, AtPlace
  <2>6. \A w \in Workers : AtPlace(item[w].arg, item[w].id)'
    BY <2>1, <1>1 DEF Placed, AtPlace
  <2>7. \A w \in Workers : AtPlace(pool_result[w].result, pool_result[w].id)'
    BY <2>1, <1>1 DEF Placed, AtPlace
  <2> QED BY <2>1, <2>3, <2>4, <2>5, <2>6, <2>7 DEF Placed
<1>4. CASE EnqPut
  <2> DEFINE e == [id |-> enq_i, arg |-> <<maps, enq_i>>, fun |-> "fun"]
  <2>1. /\ work_queue' = Append(work_queue, e) /\ e \in Work \cup {pill} /\ maps > 0
        /\ UNCHANGED <<results_queue, item, pool_result, results, maps>>
    BY <1>4, ConstantsAssumption
       DEF EnqPut, TypeInv, TypeOK, Work, Ids, Values, pool_vars, deq_vars, client_vars
  <2>2. AtPlace(e.arg, e.id)
    BY <2>1, <1>1 DEF AtPlace
  <2> HIDE DEF e
  <2>3. \A p \in DOMAIN work_queue' :
           work_queue'[p] = e \/ (p \in DOMAIN work_queue /\ work_queue'[p] = work_queue[p])
    BY <2>1, <1>1, AppendPlaces
  <2> QED BY <2>1, <2>2, <2>3 DEF Placed, AtPlace
<1>5. CASE DestroyPill
  <2>1. /\ work_queue' = Append(work_queue, pill)
        /\ UNCHANGED <<results_queue, item, pool_result, results, maps>>
    BY <1>5 DEF DestroyPill, pool_vars, deq_vars
  <2>2. AtPlace(pill.arg, pill.id)
    BY DEF AtPlace, pill
  <2>3. \A p \in DOMAIN work_queue' :
           work_queue'[p] = pill \/ (p \in DOMAIN work_queue /\ work_queue'[p] = work_queue[p])
    BY <2>1, <1>1, AppendPlaces
  <2> QED BY <2>1, <2>2, <2>3 DEF Placed, AtPlace
<1>6. CASE DeqStore
  <2> DEFINE h == Head(results_queue)
  <2>1. /\ results' = [results EXCEPT ![h.id] = h.result]
        /\ results_queue # <<>> /\ results_queue' = Tail(results_queue)
        /\ UNCHANGED <<work_queue, item, pool_result, maps>>
    BY <1>6 DEF DeqStore, pool_vars, client_vars
  <2>2. AtPlace(h.result, h.id)
    BY <2>1, <1>1, TailPlaces DEF Placed
  <2> HIDE DEF h
  <2>3. \A k \in Ids : AtPlace(results'[k], k)
    BY <2>1, <2>2, <1>1 DEF Placed
  <2>4. \A p \in DOMAIN results_queue' :
           p + 1 \in DOMAIN results_queue /\ results_queue'[p] = results_queue[p + 1]
    BY <2>1, <1>1, TailPlaces
  <2> QED BY <2>1, <2>3, <2>4 DEF Placed, AtPlace
<1>7. CASE DeqTaskFailed
  <2>1. /\ results_queue # <<>> /\ results_queue' = Tail(results_queue)
        /\ UNCHANGED <<work_queue, item, pool_result, results, maps>>
    BY <1>7 DEF DeqTaskFailed, pool_vars, client_vars
  <2>2. \A p \in DOMAIN results_queue' :
           p + 1 \in DOMAIN results_queue /\ results_queue'[p] = results_queue[p + 1]
    BY <2>1, <1>1, TailPlaces
  <2> QED BY <2>1, <2>2 DEF Placed, AtPlace
<1>8. ASSUME NEW w \in Workers, Worker(w) PROVE Placed'
  <2>1. CASE WorkerGet(w) \/ WorkerGetPill(w)
    <3>1. /\ work_queue # <<>> /\ work_queue' = Tail(work_queue)
          /\ item' = item \/ item' = [item EXCEPT ![w] = Head(work_queue)]
          /\ UNCHANGED <<results_queue, pool_result, results, maps>>
      BY <2>1 DEF WorkerGet, WorkerGetPill, deq_vars, client_vars
    <3>2. AtPlace(Head(work_queue).arg, Head(work_queue).id)
      BY <3>1, <1>1, TailPlaces DEF Placed
    <3>3. \A u \in Workers : AtPlace(item'[u].arg, item'[u].id)
      BY <3>1, <3>2, <1>1 DEF Placed
    <3>4. \A p \in DOMAIN work_queue' :
             p + 1 \in DOMAIN work_queue /\ work_queue'[p] = work_queue[p + 1]
      BY <3>1, <1>1, TailPlaces
    <3> QED BY <3>1, <3>3, <3>4 DEF Placed, AtPlace
  <2>2. CASE WorkerRun(w)
    <3>1. /\ UNCHANGED <<work_queue, results_queue, item, results, maps>>
          /\ \A u \in Workers \ {w} : pool_result'[u] = pool_result[u]
          /\ pool_result'[w].id = item[w].id
          /\ pool_result'[w].result \in {item[w].arg, Unset}
      BY <2>2, <1>1 DEF WorkerRun, deq_vars, client_vars
    <3>2. AtPlace(pool_result'[w].result, pool_result'[w].id)
      BY <3>1 DEF Placed, AtPlace
    <3>3. \A u \in Workers : AtPlace(pool_result'[u].result, pool_result'[u].id)
      BY <3>1, <3>2 DEF Placed
    <3> QED BY <3>1, <3>3 DEF Placed, AtPlace
  <2>3. CASE WorkerPut(w)
    <3>1. /\ results_queue' = Append(results_queue, pool_result[w])
          /\ item' = [item EXCEPT ![w] = pill]
          /\ pool_result' = [pool_result EXCEPT ![w] = NoResult]
          /\ UNCHANGED <<work_queue, results, maps>>
      BY <2>3 DEF WorkerPut, deq_vars, client_vars
    <3>2. /\ \A u \in Workers : AtPlace(item'[u].arg, item'[u].id)
          /\ \A u \in Workers : AtPlace(pool_result'[u].result, pool_result'[u].id)
      <4>1. AtPlace(pill.arg, pill.id) /\ AtPlace(NoResult.result, NoResult.id)
        BY DEF AtPlace, pill, NoResult
      <4> QED BY <3>1, <4>1, <1>1 DEF Placed
    <3>3. \A p \in DOMAIN results_queue' :
             \/ results_queue'[p] = pool_result[w]
             \/ p \in DOMAIN results_queue /\ results_queue'[p] = results_queue[p]
      BY <3>1, <1>1, AppendPlaces
    <3> QED BY <3>1, <3>2, <3>3 DEF Placed, AtPlace
  <2>4. CASE WorkerStart(w) \/ WorkerStartFails(w) \/ WorkerGetFails(w)
    BY <2>4, <1>2 DEF WorkerStart, WorkerStartFails, WorkerGetFails, deq_vars, client_vars
  <2> QED BY <1>8, <2>1, <2>2, <2>3, <2>4 DEF Worker
<1>9. CASE Client /\ ~MapStart /\ ~DestroyPill
  BY <1>9, <1>2 DEF Client, Create, CreateFails, CreateEnd, MapJoinEnq, MapReturn, MapNoThread,
                DestroyStart, DestroyPillsPut, DestroyJoin, DestroyJoinFailed, DestroyEnd,
                pool_vars, deq_vars
<1>10. CASE EnqStart \/ EnqCrashes \/ EnqEnd \/ DeqStart \/ DeqCrashes \/ DeqFails \/ DeqEnd
  BY <1>10, <1>2 DEF EnqStart, EnqCrashes, EnqEnd, DeqStart, DeqCrashes, DeqFails, DeqEnd, Crash,
                 pool_vars, deq_vars, client_vars
<1>11. CASE UNCHANGED vars
  BY <1>11, <1>2 DEF vars, pool_vars, deq_vars, client_vars
<1> QED BY <1>3, <1>4, <1>5, <1>6, <1>7, <1>8, <1>9, <1>10, <1>11
           DEF Next, Enqueuer, Dequeuer, Terminating

\* A value at a place of the results array is the result for the argument of that
\* place, in this pool_map or in one cut short before it, whatever has failed
\* (pool.c:208-224).
THEOREM PoolStoredAtItsPlace == Spec => []StoredAtItsPlace
<1>1. TypeInv /\ Placed /\ [Next]_vars => Placed'
  BY PlacedStep
<1>2. Placed => StoredAtItsPlace
  BY DEF Placed, AtPlace, StoredAtItsPlace
<1> QED BY <1>1, <1>2, PlacedInit, TypeInvHolds, PTL DEF Spec
-------------------------------------------------------------------------------
\* pool_create has started the threads, those below i while it works.
Started ==
  /\ client = "create" => \A w \in Workers : w < i => worker[w] # "none"
  /\ client \notin {"create", "over", "crashed", "stuck"} =>
        \A w \in Workers : worker[w] # "none"

\* What each thread waits for, if it waits at all.
WorkerMayGo(w) ==
  \/ worker[w] \in {"start", "run"}
  \/ worker[w] = "get" /\ work_queue # <<>>
  \/ worker[w] = "put" /\ Len(results_queue) < ResultBlocks

EnqMayGo ==
  \/ enq = "start"
  \/ enq = "run" /\ (enq_i = arg_count \/ Len(work_queue) < WorkBlocks)

DeqMayGo ==
  \/ deq = "start"
  \/ deq = "run" /\ (deq_i = arg_count \/ results_queue # <<>>)

ClientMayGo ==
  \/ client \in {"create", "idle"}
  \/ client = "join_enq" /\ enq = "ended"
  \/ client = "join_deq" /\ deq = "ended"
  \/ client = "pills" /\ (i = pool_size \/ Len(work_queue) < WorkBlocks)
  \/ client = "join" /\ (i = pool_size \/ worker[i] = "ended")

SomebodyMayGo ==
  \/ client = "destroyed"
  \/ ClientMayGo \/ EnqMayGo \/ DeqMayGo
  \/ \E w \in Workers : WorkerMayGo(w)

LEMMA StartedStep == TypeInv /\ Started /\ [Next]_vars => Started'
<1> SUFFICES ASSUME TypeInv, Started, [Next]_vars PROVE Started'
  OBVIOUS
<1> USE DEF TypeInv, TypeOK, Started
<1>1. CASE Create
  <2>1. i \in Workers /\ worker' = [worker EXCEPT ![i] = "start"] /\ i' = i + 1
    BY <1>1, ConstantsAssumption DEF Create, Workers
  <2>2. \A w \in Workers : w < i' => w = i \/ w < i
    BY <2>1 DEF Workers
  <2>3. client = "create" /\ client' = "create"
    BY <1>1 DEF Create, Moves
  <2> QED
    BY <2>1, <2>2, <2>3
<1>2. CASE CreateEnd
  BY <1>2, ConstantsAssumption DEF CreateEnd, Moves, pool_vars, Workers
<1>3. CASE \/ CreateFails \/ MapStart \/ MapJoinEnq \/ MapReturn \/ MapNoThread
           \/ DestroyStart \/ DestroyPill \/ DestroyPillsPut
           \/ DestroyJoin \/ DestroyJoinFailed \/ DestroyEnd
  BY <1>3 DEF CreateFails, MapStart, MapJoinEnq, MapReturn, MapNoThread, DestroyStart, DestroyPill,
              DestroyPillsPut, DestroyJoin, DestroyJoinFailed, DestroyEnd, Moves, pool_vars
<1>4. CASE Enqueuer \/ Dequeuer \/ UNCHANGED vars
  BY <1>4 DEF Enqueuer, Dequeuer, EnqStart, EnqCrashes, EnqPut, EnqEnd, DeqStart, DeqCrashes,
              Crash, DeqStore, DeqTaskFailed, DeqFails, DeqEnd, vars, pool_vars, client_vars
<1>5. ASSUME NEW w \in Workers, Worker(w) PROVE Started'
  <2>1. /\ UNCHANGED client_vars
        /\ \E to \in {"get", "run", "put", "ended"} : worker' = [worker EXCEPT ![w] = to]
    BY <1>5 DEF Worker, WorkerStart, WorkerStartFails, WorkerGet, WorkerGetPill,
                WorkerGetFails, WorkerRun, WorkerPut, Goes, Ends
  <2> QED
    BY <2>1 DEF client_vars
<1> QED
  BY <1>1, <1>2, <1>3, <1>4, <1>5 DEF Next, Client, Terminating

\* While fewer results are stored than there are arguments, some argument is not
\* stored, and it is under way once all have been put.
LEMMA NotStored ==
  ASSUME TypeInv, Counted, enq_i = arg_count, deq_i < arg_count
  PROVE  \E k \in Ids : Occ(work_queue, k) + Hold(worker, item, k) + Occ(results_queue, k) = 1
<1> DEFINE S == {k \in Ids : results[k] # Unset}
<1>1. arg_count \in 0 .. MaxArgs /\ deq_i = Cardinality(S) /\ deq_i \in Nat
  BY DEF TypeInv, TypeOK, Counted
<1>2. IsFiniteSet(0 .. arg_count - 1) /\ Cardinality(0 .. arg_count - 1) = arg_count
  <2>1. arg_count \in Nat
    BY <1>1, ConstantsAssumption
  <2> QED
    BY <2>1, FS_Interval
<1>3. IsFiniteSet(S)
  <2>1. IsFiniteSet(Ids) /\ S \in SUBSET Ids
    BY ConstantsAssumption, FS_Interval DEF Ids
  <2> QED
    BY <2>1, FS_Subset
<1>4. PICK k \in 0 .. arg_count - 1 : k \notin S
  <2> SUFFICES ASSUME 0 .. arg_count - 1 \subseteq S PROVE FALSE
    OBVIOUS
  <2>1. arg_count <= Cardinality(S)
    <3> HIDE DEF S
    <3> QED
      BY <1>2, <1>3, FS_Subset
  <2> QED
    BY <1>1, <2>1
<1>5. k \in Ids /\ k < enq_i
  BY <1>1, <1>4, ConstantsAssumption DEF Ids
<1>6. Copies(k) = 1 /\ results[k] = Unset
  BY <1>4, <1>5 DEF Counted
<1> QED
  BY <1>5, <1>6, CopiesNat DEF Copies

\* No more results are stored than tasks have been put.
LEMMA StoredArePut ==
  ASSUME TypeInv, Counted
  PROVE  deq_i <= enq_i
<1> DEFINE S == {k \in Ids : results[k] # Unset}
<1>1. enq_i \in 0 .. arg_count /\ arg_count \in 0 .. MaxArgs /\ deq_i = Cardinality(S)
  BY DEF TypeInv, TypeOK, Counted
<1>2. \A k \in Ids : results[k] # Unset => k < enq_i
  <2> SUFFICES ASSUME NEW k \in Ids, results[k] # Unset PROVE k < enq_i
    OBVIOUS
  <2>1. Copies(k) = IF k < enq_i THEN 1 ELSE 0
    BY DEF Counted
  <2> QED BY <2>1, CopiesNat, <1>1 DEF Copies, Ids
<1>3. S \in SUBSET (0 .. enq_i - 1)
  BY <1>1, <1>2, ConstantsAssumption DEF Ids
<1>4. IsFiniteSet(0 .. enq_i - 1) /\ Cardinality(0 .. enq_i - 1) = enq_i
  BY <1>1, ConstantsAssumption, FS_Interval
<1>5. Cardinality(S) <= Cardinality(0 .. enq_i - 1)
  <2> HIDE DEF S
  <2> QED
    BY <1>3, <1>4, FS_Subset
<1> QED
  BY <1>1, <1>4, <1>5

LEMMA Going ==
  ASSUME Clean, pool_size > 0
  PROVE  PoolInv /\ Started => SomebodyMayGo
<1> SUFFICES ASSUME PoolInv, Started, ~SomebodyMayGo PROVE FALSE
  OBVIOUS
<1> USE DEF PoolInv
<1>0. /\ TypeInv /\ Phases /\ ~cut_short /\ Faithful /\ Counted /\ Leaving
      /\ WorkBlocks \in Nat \ {0} /\ ResultBlocks \in Nat \ {0}
  BY ConstantsAssumption DEF Phases
<1>1. /\ ~ClientMayGo /\ ~EnqMayGo /\ ~DeqMayGo
      /\ client \notin {"create", "over", "crashed", "stuck", "destroyed"}
      /\ \A w \in Workers : ~WorkerMayGo(w)
  BY <1>0 DEF SomebodyMayGo, ClientMayGo, Phases
<1>2. \A w \in Workers : \/ worker[w] = "get" /\ work_queue = <<>>
                         \/ worker[w] = "put" /\ Len(results_queue) >= ResultBlocks
                         \/ worker[w] = "ended"
  BY <1>0, <1>1 DEF WorkerMayGo, Started, TypeInv, TypeOK
<1>3. /\ Len(work_queue) \in Nat /\ (Len(work_queue) >= 1 => work_queue # <<>>)
      /\ Len(results_queue) \in Nat /\ (Len(results_queue) >= 1 => results_queue # <<>>)
      /\ (work_queue = <<>> => Len(work_queue) = 0)
      /\ (results_queue = <<>> => Len(results_queue) = 0)
  BY <1>0, LenProperties, EmptySeq DEF TypeInv, TypeOK
<1>4. 0 \in Workers
  BY <1>0, ConstantsAssumption DEF Workers
<1>5. CASE client \in {"join_enq", "join_deq"}
  <2>0. \A w \in Workers : worker[w] # "ended"
    <3>1. Ended = {} /\ \A w \in Workers : trc[w] = "Success"
      BY <1>0, <1>5 DEF Leaving, Phases
    <3> QED
      BY <3>1 DEF Ended
  <2>1. /\ \A w \in Workers : worker[w] # "ended"
        /\ enq \in {"run", "ended"} /\ deq \in {"run", "ended"}
        /\ enq_i \in 0 .. arg_count /\ deq_i \in 0 .. arg_count /\ arg_count \in Nat
        /\ deq = "ended" => deq_i = arg_count
        /\ enq = "ended" => enq_i = arg_count
    BY <1>0, <1>1, <1>5, <2>0, ConstantsAssumption
       DEF Phases, TypeInv, TypeOK, EnqMayGo, DeqMayGo
  <2>2. CASE enq = "run"
    <3>1. enq_i < arg_count /\ Len(work_queue) >= WorkBlocks
      BY <1>0, <1>1, <1>3, <2>1, <2>2 DEF EnqMayGo
    <3>2. results_queue # <<>>
      BY <1>0, <1>2, <1>3, <1>4, <2>1, <3>1
    <3>3. deq_i = arg_count
      BY <1>1, <2>1, <3>2 DEF DeqMayGo
    <3> QED
      BY <1>0, <2>1, <3>1, <3>3, StoredArePut
  <2>3. CASE enq = "ended"
    <3>1. client = "join_deq" /\ deq = "run"
      BY <1>1, <1>5, <2>1, <2>3 DEF ClientMayGo
    <3>2. deq_i < arg_count /\ results_queue = <<>>
      BY <1>1, <2>1, <3>1 DEF DeqMayGo
    <3>3. work_queue = <<>> /\ \A w \in Workers : worker[w] = "get"
      BY <1>0, <1>2, <1>3, <1>4, <2>1, <3>2
    <3>4. PICK k \in Ids : Occ(work_queue, k) + Hold(worker, item, k) + Occ(results_queue, k) = 1
      BY <1>0, <2>1, <2>3, <3>2, NotStored
    <3>5. Occ(work_queue, k) = 0 /\ Occ(results_queue, k) = 0
      BY <1>0, <3>2, <3>3, OccNat DEF TypeInv, TypeOK
    <3>6. HoldersOf(worker, item, k) = {}
      BY <3>3 DEF HoldersOf
    <3>7. Hold(worker, item, k) = 0
      BY <3>6, FS_EmptySet DEF Hold
    <3> QED
      BY <3>4, <3>5, <3>7
  <2> QED
    BY <2>1, <2>2, <2>3
<1>6. CASE client \in {"pills", "join"}
  <2>1. NoneUnderWay
    BY <1>0, <1>6, NoneLeft
  <2>2. \A w \in Workers : worker[w] = "ended" \/ (worker[w] = "get" /\ work_queue = <<>>)
    BY <1>2, <2>1 DEF NoneUnderWay
  <2>3. IsFiniteSet(Workers) /\ Cardinality(Workers) = pool_size
    BY FS_Interval, ConstantsAssumption DEF Workers
  <2>4. /\ Pills \in Nat /\ (work_queue = <<>> => Pills = 0)
        /\ Pills + Cardinality(Ended) = IF client = "pills" THEN i ELSE pool_size
    BY <1>0, <1>6, OccNat DEF TypeInv, TypeOK, Pills, Leaving
  <2>5. Ended \in SUBSET Workers /\ Cardinality(Ended) \in Nat
    <3>1. Ended \in SUBSET Workers
      BY DEF Ended
    <3> QED
      BY <2>3, <3>1, FS_Subset, FS_CardinalityType
  <2>6. Cardinality(Ended) = pool_size
    <3>1. CASE work_queue = <<>>
      <4>1. client = "join"
        BY <1>0, <1>1, <1>3, <1>6, <3>1 DEF ClientMayGo
      <4> QED
        BY <2>4, <2>5, <3>1, <4>1
    <3>2. CASE work_queue # <<>>
      <4>1. Ended = Workers
        BY <1>0, <2>2, <3>2 DEF Ended, Phases
      <4> QED
        BY <2>3, <4>1
    <3> QED
      BY <3>1, <3>2
  <2>7. Ended = Workers
    BY <2>3, <2>5, <2>6, FS_Subset
  <2>8. i \in 0 .. pool_size /\ i # pool_size /\ pool_size \in Nat
    BY <1>1, <1>6, ConstantsAssumption, <1>0 DEF ClientMayGo, TypeInv, TypeOK
  <2>9. CASE client = "pills"
    BY <2>4, <2>6, <2>8, <2>9
  <2>10. CASE client = "join"
    <3>1. i \in Workers
      BY <2>8 DEF Workers
    <3> QED
      BY <1>1, <2>7, <2>10, <3>1 DEF ClientMayGo, Ended
  <2> QED
    BY <1>6, <2>9, <2>10
<1>7. client \in {"join_enq", "join_deq", "pills", "join"}
  BY <1>0, <1>1 DEF ClientMayGo, TypeInv, TypeOK
<1> QED
  BY <1>5, <1>6, <1>7

\* When nothing fails and the pool has a thread, somebody can always go on until
\* pool_destroy has returned: however few blocks the two queues have, the client,
\* the threads of pool_map and those of the pool never all wait for each other
\* (pool.c:29-46, 112-156, 177-224).
THEOREM PoolNeverStuck ==
  ASSUME Clean, pool_size > 0
  PROVE  Spec => []SomebodyMayGo
<1>1. Init => Started
  BY ConstantsAssumption DEF Init, Started, Workers
<1> QED
  BY <1>1, StartedStep, TypeInvHolds, PoolInvHolds, Going, PTL DEF Spec
-------------------------------------------------------------------------------
\* The refinement mapping's two derived variables.
Computed == Stored \cup Underway
Mapping == client \in {"join_enq", "join_deq", "crashed", "stuck"}

\* While a thread of pool_map runs, or a task is under way, a call is.
LEMMA MapUnderWay ==
  ASSUME TypeInv, Phases, Faithful, Counted, ~cut_short, Running,
         enq \in {"start", "run"} \/ deq \in {"start", "run"} \/ ~NoneUnderWay
  PROVE  Mapping
<1>1. maps # 0 /\ client \notin {"idle", "pills", "join", "destroyed"}
  BY NoneLeft DEF Phases, TypeInv, TypeOK
<1> QED BY <1>1 DEF Mapping, Running, Phases, TypeInv, TypeOK

\* A task counted once has one holder.
LEMMA HoldOne ==
  ASSUME NEW wk, NEW it, NEW k, Hold(wk, it, k) <= 1,
         NEW u \in HoldersOf(wk, it, k), NEW w \in HoldersOf(wk, it, k)
  PROVE  u = w
<1> SUFFICES ASSUME u # w PROVE FALSE
  OBVIOUS
<1>1. IsFiniteSet({u}) /\ Cardinality({u}) = 1
  BY FS_Singleton
<1>2. Cardinality({u} \cup {w}) = 2
  BY <1>1, FS_AddElement
<1>3. Cardinality({u} \cup {w}) <= Hold(wk, it, k)
  BY HoldNat, FS_Subset DEF Hold
<1> QED BY <1>2, <1>3, HoldNat

LEMMA InitAbstract == Init => Abstract!Init
<1> SUFFICES ASSUME Init PROVE Abstract!Init
  OBVIOUS
<1>1. Stored = {}
  BY DEF Init, Stored, Unset, Ids
<1>2. Underway = {}
  BY LenProperties, EmptySeq DEF Init, Underway
<1> QED BY <1>1, <1>2 DEF Init, Abstract!Init

\* Running the function is Compute, storing a result is Store; the steps between
\* move a task or a result and leave both sets as they are.
LEMMA StepAbstract ==
  ASSUME TypeInv, Phases, Faithful, Counted, ~cut_short, cut_short' = cut_short, [Next]_vars
  PROVE  [Abstract!Next]_Abstract!vars
<1>1. /\ results_queue \in Seq(Results)
      /\ worker \in [Workers -> {"none", "start", "get", "run", "put", "ended"}]
      /\ item \in [Workers -> Work \cup {pill}]
      /\ pool_result \in [Workers -> Results]
      /\ results \in [Ids -> Values \cup {Unset}]
      /\ enq_i \in 0 .. arg_count /\ arg_count \in 0 .. MaxArgs
  BY DEF TypeInv, TypeOK
<1>2. \A k \in Ids : results[k] = <<maps, k>> <=> results[k] # Unset
  BY DEF Faithful, Unset, Ids
<1>3. \A k \in Ids : Copies(k) >= 1 => k \in 0 .. arg_count - 1
  <2> SUFFICES ASSUME NEW k \in Ids, Copies(k) >= 1 PROVE k \in 0 .. arg_count - 1
    OBVIOUS
  <2>1. Copies(k) = IF k < enq_i THEN 1 ELSE 0
    BY DEF Counted
  <2>2. Copies(k) \in Nat
    BY CopiesNat DEF Copies
  <2> QED BY <2>1, <2>2, <1>1, ConstantsAssumption DEF Ids
<1>4. ASSUME UNCHANGED <<results, results_queue, pool_result, maps, arg_count, Mapping>>,
             \A w \in Workers : worker[w] = "put" <=> worker'[w] = "put"
      PROVE  UNCHANGED Abstract!vars
  <2>1. Stored' = Stored /\ Underway' = Underway
    BY <1>4 DEF Stored, Underway
  <2> QED BY <1>4, <2>1 DEF Abstract!vars, Mapping
<1>5. ASSUME Client PROVE [Abstract!Next]_Abstract!vars
  <2> USE DEF Moves
  <2>1. CASE MapStart
    <3>1. NoneUnderWay
      BY <2>1, NoneLeft DEF MapStart
    <3>0. /\ client = "idle" /\ client' = "join_enq" /\ arg_count' \in 0 .. MaxArgs
      BY <2>1, <1>1, ConstantsAssumption DEF MapStart
    <3>2. Stored' = {}
      BY <2>1 DEF MapStart, Stored, Unset, Ids
    <3>3. Underway' = {}
      BY <2>1, <3>1, EmptySeq, LenProperties DEF MapStart, Underway, NoneUnderWay, pool_vars
    <3>4. Abstract!Start
      BY <3>0, <3>2, <3>3 DEF Abstract!Start
    <3> QED BY <3>4 DEF Abstract!Next
  <2>2. CASE MapReturn
    <3>1. deq = "ended"
      BY <2>2 DEF MapReturn
    <3>2. \A k \in Ids : k < arg_count => results[k] = <<maps, k>>
      BY <3>1, AllStored
    <3>3. \A k \in Ids : results[k] # Unset => k \in 0 .. arg_count - 1
      BY <1>3, CopiesNat DEF Copies
    <3>4. Stored = 0 .. arg_count - 1
      <4>1. \A k \in 0 .. arg_count - 1 : k \in Ids /\ k < arg_count
        BY <1>1, ConstantsAssumption DEF Ids
      <4> QED BY <4>1, <3>2, <3>3, <1>2 DEF Stored
    <3>5. UNCHANGED <<results, results_queue, pool_result, worker, maps, arg_count>>
      BY <2>2 DEF MapReturn, pool_vars, deq_vars
    <3>6. Stored' = Stored /\ Underway' = Underway
      BY <3>5 DEF Stored, Underway
    <3>7. Abstract!Return
      BY <2>2, <3>4, <3>5, <3>6 DEF MapReturn, Abstract!Return
    <3> QED BY <3>7 DEF Abstract!Next
  <2>3. CASE Create
    <3>1. NoneUnderWay
      BY <2>3, NoneLeft DEF Create, Phases
    <3>2. \A w \in Workers : worker[w] = "put" <=> worker'[w] = "put"
      BY <2>3, <3>1, <1>1 DEF Create, NoneUnderWay
    <3>3. UNCHANGED <<results, results_queue, pool_result, maps, arg_count, Mapping>>
      BY <2>3 DEF Create, deq_vars, Mapping
    <3> QED BY <3>2, <3>3, <1>4
  <2>4. ~MapNoThread
    BY DEF MapNoThread, Phases
  <2>5. CASE ~(MapStart \/ MapReturn \/ Create)
    <3>1. UNCHANGED <<results, results_queue, pool_vars, maps, arg_count, Mapping>>
      BY <1>5, <2>4, <2>5 DEF Client, CreateFails, CreateEnd, MapJoinEnq, DestroyStart, DestroyPill,
                DestroyPillsPut, DestroyJoin, DestroyJoinFailed, DestroyEnd, deq_vars, Mapping
    <3> QED BY <3>1, <1>4 DEF pool_vars
  <2> QED BY <2>1, <2>2, <2>3, <2>5
<1>6. CASE Running /\ DeqStore
  <2> DEFINE d == Head(results_queue).id
  <2>1. Head(results_queue) \in Results /\ Head(results_queue) \in Outcomes(d)
    BY <1>6, <1>1, TailPlaces DEF DeqStore, Faithful
  <2>2. d \in Ids /\ Head(results_queue).result = <<maps, d>>
    BY <1>6, <2>1 DEF DeqStore, Outcomes, Succeeded, Failed, Results
  <2>3. Occ(results_queue, d) >= 1
    BY <1>6, <1>1, TailPlaces, OccNat DEF DeqStore
  <2>4. d \in 0 .. arg_count - 1 /\ results[d] = Unset
    <3>1. Copies(d) <= 1 /\ Copies(d) >= 1
      <4>1. Copies(d) <= IF d < enq_i THEN 1 ELSE 0
        BY <2>2 DEF Counted
      <4> QED BY <4>1, <2>3, CopiesNat DEF Copies
    <3> QED BY <3>1, <2>2, <2>3, <1>3, CopiesNat DEF Copies
  <2>5. /\ UNCHANGED <<worker, pool_result, maps, arg_count, Mapping>>
        /\ results' = [results EXCEPT ![d] = <<maps, d>>]
        /\ results_queue' = Tail(results_queue) /\ results_queue # <<>>
    BY <1>6, <2>2 DEF DeqStore, pool_vars, client_vars, Mapping
  <2>6. Stored' = Stored \cup {d} /\ d \notin Stored
    BY <2>2, <2>4, <2>5, <1>1, <1>2 DEF Stored
  <2>7. d \in Underway
    BY <2>2, <2>5, <1>1, TailPlaces DEF Underway
  <2>8. \A k : k # d => (k \in Underway' <=> k \in Underway)
    <3>1. \A k : (\E p \in DOMAIN results_queue' : results_queue'[p].id = k)
                   => \E p \in DOMAIN results_queue : results_queue[p].id = k
      BY <2>5, <1>1, TailPlaces
    <3>2. ASSUME NEW p \in DOMAIN results_queue, results_queue[p].id # d
          PROVE  \E q \in DOMAIN results_queue' : results_queue'[q] = results_queue[p]
      <4>1. /\ DOMAIN results_queue = 1 .. Len(results_queue)
            /\ DOMAIN results_queue' = 1 .. Len(results_queue) - 1
            /\ Len(results_queue) \in Nat
            /\ \A q \in 1 .. Len(results_queue) - 1 : results_queue'[q] = results_queue[q + 1]
        BY <2>5, <1>1, LenProperties, HeadTailProperties
      <4>2. p # 1
        BY <3>2, <2>5, <1>1, TailPlaces
      <4>3. p - 1 \in DOMAIN results_queue' /\ results_queue'[p - 1] = results_queue[p]
        BY <4>1, <4>2
      <4> QED BY <4>3
    <3>3. ASSUME NEW k, k # d
          PROVE  (\E p \in DOMAIN results_queue' : results_queue'[p].id = k)
                   <=> \E p \in DOMAIN results_queue : results_queue[p].id = k
      <4>1. ASSUME NEW p \in DOMAIN results_queue, results_queue[p].id = k
            PROVE  \E q \in DOMAIN results_queue' : results_queue'[q].id = k
        BY <3>2, <3>3, <4>1
      <4> QED BY <3>1, <4>1
    <3> QED BY <2>5, <3>3 DEF Underway
  <2>9. Computed' = Computed
    BY <2>6, <2>7, <2>8 DEF Computed
  <2>10. Mapping
    BY <1>6, MapUnderWay DEF DeqStore
  <2>11. Abstract!Store(d)
    BY <2>5, <2>6, <2>7, <2>9, <2>10 DEF Abstract!Store, Computed, Mapping
  <2> QED BY <2>4, <2>11 DEF Abstract!Next
<1>7. CASE Running /\ (EnqCrashes \/ DeqCrashes)
  <2>1. Mapping
    BY <1>7, MapUnderWay DEF EnqCrashes, DeqCrashes
  <2>2. Mapping'
    BY <1>7 DEF EnqCrashes, DeqCrashes, Crash, Mapping
  <2>3. UNCHANGED <<results, results_queue, worker, pool_result, maps, arg_count, Mapping>>
    BY <1>7, <2>1, <2>2 DEF EnqCrashes, DeqCrashes, Crash, deq_vars, pool_vars, Mapping
  <2> QED BY <2>3, <1>4
<1>8. CASE EnqStart \/ EnqPut \/ EnqEnd \/ DeqStart \/ DeqTaskFailed \/ DeqFails \/ DeqEnd
  <2>1. ~DeqTaskFailed
    BY DEF DeqTaskFailed
  <2>2. UNCHANGED <<results, results_queue, worker, pool_result, maps, arg_count, Mapping>>
    BY <1>8, <2>1 DEF EnqStart, EnqPut, EnqEnd, DeqStart, DeqFails, DeqEnd, deq_vars, pool_vars,
                      client_vars, Mapping
  <2> QED BY <2>2, <1>4
<1>9. ASSUME NEW w \in Workers, Worker(w) PROVE [Abstract!Next]_Abstract!vars
  <2> USE DEF Goes
  <2>1. CASE WorkerRun(w)
    <3> DEFINE d == item[w].id
    <3>1. d \in Ids /\ item[w] = Task(d) /\ w \in HoldersOf(worker, item, d)
      <4>1. item[w] \in Work /\ item[w] = Task(d)
        BY <2>1 DEF WorkerRun, TypeInv, TypeOK, Faithful
      <4> QED BY <2>1, <4>1 DEF WorkerRun, Work, HoldersOf
    <3>2. Hold(worker, item, d) >= 1
      BY <3>1, HoldNat DEF HoldersOf
    <3>3. Copies(d) >= 1 /\ Copies(d) <= 1
      <4>1. Copies(d) <= IF d < enq_i THEN 1 ELSE 0
        BY <3>1 DEF Counted
      <4> QED BY <4>1, <3>2, CopiesNat DEF Copies
    <3>4. Hold(worker, item, d) <= 1 /\ Occ(results_queue, d) = 0 /\ results[d] = Unset
      BY <3>2, <3>3, CopiesNat DEF Copies
    <3>5. d \notin Stored
      BY <3>1, <3>4, <1>2 DEF Stored
    <3>6. d \notin Underway
      <4>1. \A p \in DOMAIN results_queue : results_queue[p].id # d
        BY <3>4, <1>1, OccNat
      <4>2. ASSUME NEW u \in Workers, worker[u] = "put", pool_result[u].id = d PROVE FALSE
        <5>1. item[u].id = d
          BY <4>2 DEF Faithful, Outcomes, Succeeded, Failed
        <5>2. u \in HoldersOf(worker, item, d)
          BY <4>2, <5>1 DEF HoldersOf
        <5>3. u = w
          BY <5>2, <3>1, <3>4, HoldOne
        <5> QED BY <2>1, <4>2, <5>3 DEF WorkerRun
      <4> QED BY <4>1, <4>2 DEF Underway
    <3>7. /\ UNCHANGED <<results, results_queue, maps, arg_count, Mapping>>
          /\ worker[w] = "run" /\ worker' = [worker EXCEPT ![w] = "put"]
          /\ pool_result'[w].id = d
          /\ \A u \in Workers \ {w} : pool_result'[u] = pool_result[u]
      BY <2>1, <1>1 DEF WorkerRun, deq_vars, client_vars, Mapping
    <3>8. Stored' = Stored
      BY <3>7 DEF Stored
    <3>9. Underway' = Underway \cup {d}
      BY <3>1, <3>7, <1>1 DEF Underway
    <3>10. Mapping
      <4>1. ~NoneUnderWay
        BY <3>7 DEF NoneUnderWay
      <4> QED BY <4>1, <1>9, MapUnderWay DEF Worker
    <3>11. d \in 0 .. arg_count - 1
      BY <3>1, <3>3, <1>3
    <3>12. Abstract!Compute(d)
      BY <3>5, <3>6, <3>7, <3>8, <3>9, <3>10 DEF Abstract!Compute, Mapping
    <3> QED BY <3>11, <3>12 DEF Abstract!Next
  <2>2. CASE WorkerPut(w)
    <3>1. /\ UNCHANGED <<results, maps, arg_count, Mapping>>
          /\ \A u \in Workers \ {w} : pool_result'[u] = pool_result[u]
          /\ worker[w] = "put" /\ worker' = [worker EXCEPT ![w] = "get"]
          /\ results_queue' = Append(results_queue, pool_result[w])
      BY <2>2, <1>1 DEF WorkerPut, Goes, deq_vars, client_vars, Mapping
    <3>2. /\ DOMAIN results_queue = 1 .. Len(results_queue)
          /\ DOMAIN results_queue' = 1 .. Len(results_queue) + 1
          /\ Len(results_queue) \in Nat
          /\ \A p \in 1 .. Len(results_queue) : results_queue'[p] = results_queue[p]
          /\ results_queue'[Len(results_queue) + 1] = pool_result[w]
      BY <3>1, <1>1, LenProperties, AppendProperties
    <3>3. \A k : (\E p \in DOMAIN results_queue' : results_queue'[p].id = k)
                   <=> \/ pool_result[w].id = k
                       \/ \E p \in DOMAIN results_queue : results_queue[p].id = k
      BY <3>2
    <3>4. \A k : (\E u \in Workers : worker[u] = "put" /\ pool_result[u].id = k)
                   <=> \/ pool_result[w].id = k
                       \/ \E u \in Workers : worker'[u] = "put" /\ pool_result'[u].id = k
      BY <3>1, <1>1
    <3>5. Underway' = Underway
      BY <3>3, <3>4 DEF Underway
    <3>6. Stored' = Stored
      BY <3>1 DEF Stored
    <3> QED BY <3>1, <3>5, <3>6 DEF Abstract!vars, Mapping
  <2>3. CASE WorkerStart(w) \/ WorkerStartFails(w) \/ WorkerGet(w) \/ WorkerGetPill(w) \/ WorkerGetFails(w)
    <3>1. /\ UNCHANGED <<results, results_queue, pool_result, maps, arg_count, Mapping>>
          /\ \A u \in Workers : worker[u] = "put" <=> worker'[u] = "put"
      BY <2>3, <1>1 DEF WorkerStart, WorkerStartFails, WorkerGet, WorkerGetPill, WorkerGetFails,
                Ends, deq_vars, client_vars, Mapping
    <3> QED BY <3>1, <1>4
  <2> QED BY <1>9, <2>1, <2>2, <2>3 DEF Worker
<1>10. CASE UNCHANGED vars
  BY <1>10, <1>4 DEF vars, pool_vars, deq_vars, client_vars, Mapping
<1> QED BY <1>5, <1>6, <1>7, <1>8, <1>9, <1>10 DEF Next, Enqueuer, Dequeuer, Terminating

\* Until one is cut short every pool_map is a parallel map: it applies the function
\* once to each argument and returns when every result is in its place, for any
\* number of threads, blocks, arguments and calls, also while threads of the pool
\* are lost (pool.c:158-291).
THEOREM PoolRefines == Spec => IsParallelMap
<1>1. ASSUME PoolInv, [Next]_vars PROVE [Abstract!Next]_Abstract!vars
  <2>1. CASE cut_short'
    BY <2>1 DEF Abstract!Next, Abstract!BreakOff
  <2>2. CASE ~cut_short'
    <3>1. TypeInv /\ TypeInv' /\ Phases
      BY <1>1, TypeInvStep DEF PoolInv
    <3>2. ~cut_short
      BY <1>1, <2>2, <3>1, CutShortStays
    <3>3. cut_short = FALSE /\ cut_short' = FALSE
      BY <2>2, <3>1, <3>2 DEF TypeInv, TypeOK
    <3>4. Faithful /\ Counted
      BY <1>1, <3>2 DEF PoolInv
    <3> QED BY <1>1, <3>1, <3>2, <3>3, <3>4, StepAbstract
  <2> QED BY <2>1, <2>2
<1> QED BY <1>1, InitAbstract, PoolInvHolds, PTL DEF Spec, IsParallelMap, Abstract!Spec
===============================================================================
