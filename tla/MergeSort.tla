------------------------------ MODULE MergeSort ------------------------------
(***************************************************************************)
(* The parallel merge sorts of java/Problem1/MergeSort.java, a thread for  *)
(* each half of a part, and java/Problem3/MergeSort.java, a fork/join task *)
(* for each; merge() is the same in both.  All threads work on one array   *)
(* without a lock: what keeps them apart is who waits for whom.            *)
(***************************************************************************)
EXTENDS Integers, Sequences, FiniteSets

CONSTANTS N,      \* arr.length
          Values  \* what the array may hold

ASSUME ConstantsAssumption == N \in Nat \ {0} /\ Values \subseteq Int

\* The arguments i and len of the calls on a part of the array.
Parts == {p \in [i : 0 .. N - 1, len : 1 .. N] : p.i + p.len <= N}
Whole == [i |-> 0, len |-> N]

LeftLen(p) == p.len \div 2
RightLen(p) == p.len - LeftLen(p)
LeftPart(p) == [i |-> p.i, len |-> LeftLen(p)]
RightPart(p) == [i |-> p.i + LeftLen(p), len |-> RightLen(p)]

\* merge's parameter j, where the right part begins.
J(p) == p.i + LeftLen(p)

VARIABLES arr,     \* the array
          pc,      \* where the thread is that sorts each part, if any
          k, m,    \* the locals k and m of its merge
          result,  \* the list it merges into
          arr0     \* history: the array to be sorted

vars == <<arr, pc, k, m, result, arr0>>

Init == /\ arr0 \in [0 .. N - 1 -> Values]
        /\ arr = arr0
        /\ pc = [p \in Parts |-> IF p = Whole THEN "started" ELSE "none"]
        /\ k = [p \in Parts |-> 0]
        /\ m = [p \in Parts |-> 0]
        /\ result = [p \in Parts |-> <<>>]
-------------------------------------------------------------------------------
At(p, from, to) == pc[p] = from /\ pc' = [pc EXCEPT ![p] = to]

\* A part of one element is sorted.
ReturnSingle(p) ==
  /\ p.len = 1
  /\ At(p, "started", "done")
  /\ UNCHANGED <<arr, k, m, result, arr0>>

\* Mutant: "t2.start()" is forgotten.
ForkOne(p) ==
  /\ p.len # 1
  /\ pc[p] = "started"
  /\ pc' = [pc EXCEPT ![p] = "joining", ![LeftPart(p)] = "started"]
  /\ UNCHANGED <<arr, k, m, result, arr0>>

Fork(p) ==
  /\ p.len # 1
  /\ pc[p] = "started"
  /\ pc' = [pc EXCEPT ![p] = "joining", ![LeftPart(p)] = "started",
                      ![RightPart(p)] = "started"]
  /\ UNCHANGED <<arr, k, m, result, arr0>>

\* Mutant: "t1.join()" twice, and none of t2.
JoinLeft(p) ==
  /\ At(p, "joining", "merging")
  /\ pc[LeftPart(p)] = "done"
  /\ k' = [k EXCEPT ![p] = p.i]
  /\ m' = [m EXCEPT ![p] = J(p)]
  /\ UNCHANGED <<arr, result, arr0>>

\* Both parts are sorted; merge begins.
Join(p) ==
  /\ At(p, "joining", "merging")
  /\ pc[LeftPart(p)] = "done"
  /\ pc[RightPart(p)] = "done"
  /\ k' = [k EXCEPT ![p] = p.i]
  /\ m' = [m EXCEPT ![p] = J(p)]
  /\ UNCHANGED <<arr, result, arr0>>

\* Mutant: "<=" for "<", one element more than the left part has.
InLeftOneMore(p) == k[p] - p.i <= LeftLen(p)

InLeft(p) == k[p] - p.i < LeftLen(p)
InRight(p) == m[p] - J(p) < RightLen(p)

\* The next element comes from the left: it is the smaller, or the only one.
TakeLeft(p) ==
  /\ pc[p] = "merging"
  /\ InLeft(p)
  /\ InRight(p) => arr[k[p]] < arr[m[p]]
  /\ result' = [result EXCEPT ![p] = Append(@, arr[k[p]])]
  /\ k' = [k EXCEPT ![p] = @ + 1]
  /\ UNCHANGED <<arr, pc, m, arr0>>

TakeRight(p) ==
  /\ pc[p] = "merging"
  /\ InLeft(p) /\ InRight(p)
  /\ ~(arr[k[p]] < arr[m[p]])
  /\ result' = [result EXCEPT ![p] = Append(@, arr[m[p]])]
  /\ m' = [m EXCEPT ![p] = @ + 1]
  /\ UNCHANGED <<arr, pc, k, arr0>>

\* The left part is used up: what remains of the right is where it belongs.
TakeNoMore(p) ==
  /\ ~InLeft(p)
  /\ At(p, "merging", "copying")
  /\ k' = [k EXCEPT ![p] = 0]
  /\ UNCHANGED <<arr, m, result, arr0>>

\* How many elements are copied back; merge has set right_len to m - j.
Merged(p) == LeftLen(p) + (m[p] - J(p))

\* Mutant: "arr[k]" for "arr[i+k]".
CopyBackToFront(p) ==
  /\ pc[p] = "copying"
  /\ k[p] < Merged(p)
  /\ arr' = [arr EXCEPT ![k[p]] = result[p][k[p] + 1]]
  /\ k' = [k EXCEPT ![p] = @ + 1]
  /\ UNCHANGED <<pc, m, result, arr0>>

CopyBack(p) ==
  /\ pc[p] = "copying"
  /\ k[p] < Merged(p)
  /\ arr' = [arr EXCEPT ![p.i + k[p]] = result[p][k[p] + 1]]
  /\ k' = [k EXCEPT ![p] = @ + 1]
  /\ UNCHANGED <<pc, m, result, arr0>>

Return(p) ==
  /\ k[p] >= Merged(p)
  /\ At(p, "copying", "done")
  /\ UNCHANGED <<arr, k, m, result, arr0>>
-------------------------------------------------------------------------------
Step(p) == \/ ReturnSingle(p) \/ Fork(p) \/ Join(p)
           \/ TakeLeft(p) \/ TakeRight(p) \/ TakeNoMore(p)
           \/ CopyBack(p) \/ Return(p)

Terminating == pc[Whole] = "done" /\ UNCHANGED vars

Next == (\E p \in Parts : Step(p)) \/ Terminating

Spec == Init /\ [][Next]_vars

\* Every thread that is started runs, and every forked task.
FairSpec == Spec /\ \A p \in Parts : WF_vars(Step(p))
-------------------------------------------------------------------------------
Indices(p) == p.i .. p.i + p.len - 1

\* The type invariant.
TypeOK == /\ arr \in [0 .. N - 1 -> Values]
          /\ pc \in [Parts -> {"none", "started", "joining", "merging",
                                "copying", "done"}]
          /\ k \in [Parts -> 0 .. N]
          /\ m \in [Parts -> 0 .. N]
          /\ \A p \in Parts : /\ result[p] \in Seq(Values)
                              /\ Len(result[p]) <= p.len
          /\ arr0 \in [0 .. N - 1 -> Values]

\* The elements of p are in order, and those it had at first, each as often.
Sorted(p) ==
  /\ \A x, y \in Indices(p) : x < y => arr[x] <= arr[y]
  /\ \A v \in Values : Cardinality({x \in Indices(p) : arr[x] = v})
                           = Cardinality({x \in Indices(p) : arr0[x] = v})

\* A part is sorted once its thread has returned, and stays so until the merge
\* of which it is a half copies back; the whole array is sorted at the end
\* (Problem1/MergeSort.java:47-76).
SortedWhenDone ==
  /\ pc[Whole] = "done" => Sorted(Whole)
  /\ \A p \in Parts : pc[p] \in {"joining", "merging"} =>
        \A half \in {LeftPart(p), RightPart(p)} : pc[half] = "done" => Sorted(half)

\* The threads that read or write the array at any moment do so in parts that
\* do not overlap: the only protection is who joins whom
\* (Problem1/MergeSort.java:67-75).
PartsApart ==
  LET Active == {p \in Parts : pc[p] \in {"started", "merging", "copying"}} IN
  \A p, q \in Active : p # q => Indices(p) \cap Indices(q) = {}

\* The sort returns, whatever order the threads run in.
SortReturns == <>(pc[Whole] = "done")
===============================================================================
