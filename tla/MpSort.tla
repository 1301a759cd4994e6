-------------------------------- MODULE MpSort --------------------------------
(***************************************************************************)
(* The sort of pythonsort/mpsort.py.  A process for each chunk of the list *)
(* sorts it and puts its elements, in order, in a queue of its own that    *)
(* holds one item, and None at the end.  The main process keeps the next   *)
(* item of every queue in a priority queue, pops the least, and gets the   *)
(* item that follows from the queue it came from.                          *)
(***************************************************************************)
EXTENDS Integers, SequencesExt

CONSTANTS Length,      \* len(lst)
          chunk_size,
          Values,      \* what the list may hold
          None         \* the sentinel

num_chunks == Length \div chunk_size
Processes == 0 .. num_chunks - 1
PQEntry == [value : Values, queue_index : Processes]

ASSUME ConstantsAssumption ==
          /\ Length \in Nat
          /\ chunk_size \in 1 .. Length
          /\ Values \subseteq Int
          /\ None \notin PQEntry

VARIABLES lst,          \* the list to be sorted
          queues,       \* an mp.Queue(maxsize=1) for each process
          to_put,       \* what each process has yet to put
          main,         \* where main is
          i,            \* how many queues main has got a first item from
          pqueue,       \* the entries in the priority queue
          next_index,   \* where the entry popped last came from
          sorted_list   \* the result

vars == <<lst, queues, to_put, main, i, pqueue, next_index, sorted_list>>

\* The place of the x-th element of list in order; equal elements stay in
\* theirs.
Place(list, x) ==
  Cardinality({y \in 1 .. Len(list) :
                 list[y] < list[x] \/ (list[y] = list[x] /\ y <= x)})

\* sorted(list)
SortedSeq(list) ==
  [k \in 1 .. Len(list) |->
     list[CHOOSE x \in 1 .. Len(list) : Place(list, x) = k]]

Chunk(list, p) == SubSeq(list, p * chunk_size + 1, (p + 1) * chunk_size)

\* Mutants: the process forgets to sort; it puts no sentinel.
EntriesUnsorted(values, p) ==
  Append([n \in 1 .. Len(values) |-> [value |-> values[n], queue_index |-> p]], None)
EntriesOnly(values, p) ==
  LET s == SortedSeq(values) IN
  [n \in 1 .. Len(s) |-> [value |-> s[n], queue_index |-> p]]

\* What the process puts: its chunk in order, and the sentinel.
Entries(values, p) ==
  LET s == SortedSeq(values) IN
  Append([n \in 1 .. Len(s) |-> [value |-> s[n], queue_index |-> p]], None)

\* main has started the processes, which share nothing before its first get.
Init == /\ lst \in [1 .. Length -> Values]
        /\ queues = [p \in Processes |-> <<>>]
        /\ to_put = [p \in Processes |-> Entries(Chunk(lst, p), p)]
        /\ main = "fill"
        /\ i = 0
        /\ pqueue = {}
        /\ next_index = 0
        /\ sorted_list = <<>>
-------------------------------------------------------------------------------
\* Mutant: a queue without a maxsize.
PutUnbounded(p) ==
  /\ to_put[p] # <<>>
  /\ queues' = [queues EXCEPT ![p] = Append(@, Head(to_put[p]))]
  /\ to_put' = [to_put EXCEPT ![p] = Tail(@)]
  /\ UNCHANGED <<lst, main, i, pqueue, next_index, sorted_list>>

\* A process puts its next item once its queue is empty.
Put(p) ==
  /\ to_put[p] # <<>>
  /\ queues[p] = <<>>
  /\ queues' = [queues EXCEPT ![p] = <<Head(to_put[p])>>]
  /\ to_put' = [to_put EXCEPT ![p] = Tail(@)]
  /\ UNCHANGED <<lst, main, i, pqueue, next_index, sorted_list>>

\* main waits for an item of queue p and takes it.
Get(p) == /\ queues[p] # <<>>
          /\ queues' = [queues EXCEPT ![p] = Tail(@)]

\* pqueue.put, which waits while num_chunks entries are in it.
PutEntry(entry) == /\ Cardinality(pqueue) < num_chunks
                   /\ pqueue' = pqueue \cup {entry}

\* The first item of every queue.
Fill ==
  /\ main = "fill"
  /\ Get(i)
  /\ PutEntry(Head(queues[i]))
  /\ i' = i + 1
  /\ main' = IF i + 1 = num_chunks THEN "merge" ELSE "fill"
  /\ UNCHANGED <<lst, to_put, next_index, sorted_list>>

\* An entry that is not greater than any other; of equal ones, either.
Pop ==
  /\ main = "merge" /\ main' = "refill"
  /\ \E entry \in pqueue :
        /\ \A other \in pqueue : entry.value <= other.value
        /\ pqueue' = pqueue \ {entry}
        /\ sorted_list' = Append(sorted_list, entry.value)
        /\ next_index' = entry.queue_index
  /\ UNCHANGED <<lst, queues, to_put, i>>

\* Mutant: the loop ends at the first sentinel.
RefillEnds ==
  /\ main = "refill"
  /\ Get(next_index)
  /\ LET item == Head(queues[next_index]) IN
        \/ item = None /\ main' = "join" /\ UNCHANGED pqueue
        \/ item # None /\ main' = "merge" /\ PutEntry(item)
  /\ UNCHANGED <<lst, to_put, i, next_index, sorted_list>>

\* The next item of the same queue, unless it is the sentinel.
Refill ==
  /\ main = "refill" /\ main' = "merge"
  /\ Get(next_index)
  /\ LET item == Head(queues[next_index]) IN
        \/ item = None /\ UNCHANGED pqueue
        \/ item # None /\ PutEntry(item)
  /\ UNCHANGED <<lst, to_put, i, next_index, sorted_list>>

MergeEnds ==
  /\ main = "merge" /\ main' = "join"
  /\ pqueue = {}
  /\ UNCHANGED <<lst, queues, to_put, i, pqueue, next_index, sorted_list>>

\* A process ends when it has put everything; main joins them all.
Join ==
  /\ main = "join" /\ main' = "done"
  /\ \A p \in Processes : to_put[p] = <<>>
  /\ UNCHANGED <<lst, queues, to_put, i, pqueue, next_index, sorted_list>>
-------------------------------------------------------------------------------
Main == Fill \/ Pop \/ Refill \/ MergeEnds \/ Join

Terminating == main = "done" /\ UNCHANGED vars

Next == Main \/ (\E p \in Processes : Put(p)) \/ Terminating

Spec == Init /\ [][Next]_vars

\* Every process runs.
FairSpec == Spec /\ WF_vars(Main) /\ \A p \in Processes : WF_vars(Put(p))
-------------------------------------------------------------------------------
Items == PQEntry \cup {None}

\* The type invariant; a queue holds one item at most.
TypeOK == /\ lst \in [1 .. Length -> Values]
          /\ queues \in [Processes -> {<<>>} \cup {<<item>> : item \in Items}]
          /\ to_put \in [Processes -> Seq(Items)]
          /\ main \in {"fill", "merge", "refill", "join", "done"}
          /\ i \in 0 .. num_chunks
          /\ pqueue \subseteq PQEntry
          /\ next_index \in Processes
          /\ sorted_list \in Seq(Values)

\* What the chunks hold.  Elements behind the last whole chunk are in none.
InChunks == SubSeq(lst, 1, num_chunks * chunk_size)

\* Whatever order the processes run in, the result grows in order, by the least
\* of the elements in chunks that it does not have, and has all of those when main
\* joins the processes (mpsort.py:51-52, 68-76).
EmitsInOrder ==
  /\ IsPrefix(sorted_list, SortedSeq(InChunks))
  /\ main \in {"join", "done"} => Len(sorted_list) = Len(InChunks)

\* "all processes should have terminated by now" (mpsort.py:78): when main
\* joins them each has put its sentinel and main has got it, so that none is
\* left waiting at its queue of one item.
AllDrained ==
  main \in {"join", "done"} =>
     \A p \in Processes : to_put[p] = <<>> /\ queues[p] = <<>>

\* main waits only for a process that has an item left to put, and never for
\* room in the priority queue of num_chunks entries (mpsort.py:63-66, 74-76).
WaitsForItems ==
  \A p \in Processes :
     (main = "fill" /\ p = i) \/ (main = "refill" /\ p = next_index) =>
        /\ queues[p] # <<>> \/ to_put[p] # <<>>
        /\ Cardinality(pqueue) < num_chunks

\* The sort ends: main and the processes never wait for each other forever.
SortEnds == <>(main = "done")
===============================================================================
