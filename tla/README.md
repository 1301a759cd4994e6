# A verification development for parallel-and-distributed-computing

The repository is a set of small concurrent programs in C, Java and Python:
a blocking queue on a spinlock and futexes, a barrier and a thread pool built
from that queue, test-and-set and ticket locks, a non-blocking queue, parallel
merge sorts, and a few sequential queues and lists. This directory holds TLA+
modules for them, the TLC configurations that check the modules on small
instances, and proofs that the TLA+ proof system checks for every instance.
Source paths below are relative to `src/src/`.

## The system

| Part | State | Operations | Built on |
|---|---|---|---|
| Blocking queue, `cpool/cqueue.c`, `cpool/spinlock.c` (same files in `cbarrier/`) | ring of blocks, `head`, `tail`, two counters that are also futex words, a spinlock | enqueue, dequeue (with timeouts), size, create, destroy | futex(2), atomics |
| Barrier, `cbarrier/barrier.c` | a queue of the numbers 1..limit, a queue of wake-up messages | create, wait, destroy | two blocking queues |
| Thread pool, `cpool/pool.c` | work queue, results queue, threads | create, map, destroy | two blocking queues, pthreads |
| Test-and-set locks, `cspinlock/spinlock.c`, `java/Locks/SpinLock.java` | one flag | acquire, timed acquire (Java), release | atomics |
| Ticket lock, `java/Locks/TicketLock.java` | two int counters | acquire, timed acquire, release | atomics |
| Non-blocking queue, `cqueue/cqueue.c` | ring, `head`, `tail`, `count` | enqueue (QueueFull), dequeue (QueueEmpty), size | the test-and-set lock |
| Merge sorts, `java/Problem1`, `java/Problem3` | one array | merge, sort with two threads or tasks per part | threads, fork/join |
| `pythonsort/mpsort.py` | one queue of one item per process, a priority queue | sort chunks, merge | multiprocessing |
| Python queues and list, `Queue/` | linked nodes, an array that doubles | put, get, append | - |
| Linked queue in C, `C/queue/` | linked nodes, size | enqueue, dequeue, size, destroy | - |
| Java queues and benchmark, `java/Problem7` | a list under a spinlock | add, remove | SpinLock.java |

The rest draws plots, measures time or prints (listed in PROJECT.json).

How the parts interact. Threads share a queue's handle; they meet in its
spinlock and in the kernel's two wait queues, one for each futex word. The
barrier and the pool know the queue only by its calls. The barrier's threads
talk through the two queues alone: a number taken from the first decides who
waits for a message in the second and who runs the action and puts the
messages. The pool is a circle: client, enqueueing thread, work queue, workers,
results queue, dequeueing thread, client (pthread_join).

What makes it hard: the queue's lock is released before the thread sleeps, and
the counters are read by the kernel without it; every queue is bounded, so
every put may wait; threads come late, fail, or run out of time; one of several
steps fails and the others go on; a pool or a barrier is used again after an
error. PROJECT.json lists each such place with its line and the properties
aimed at it.

What correct means: the queue is a FIFO queue whose sleepers are woken; nobody
passes the barrier before the limit is reached and nobody is left behind; a
map that returns Success has every result in its place and every call returns;
under a lock no update is lost, and a ticket lock serves in order; a call on the
non-blocking queue is refused only when the queue is full or empty, and a caller
that tries again neither loses nor doubles an item; a sort by several threads
or processes ends with all its elements in order, whatever order they run in.

## The modules

| Module | Models |
|---|---|
| `CQueue` | the blocking queue, each store and each futex call a step |
| `BoundedFifo` | what it promises: calls that take effect at one point, on a bounded sequence |
| `CQueueProofs` | its inductive invariant; no wake-up is lost; `CQueue` implements `BoundedFifo` |
| `Barrier` | barrier_create and barrier_wait over two queues |
| `OneShotBarrier` | what a barrier promises |
| `BarrierProofs` | the barrier's invariants; `Barrier` implements `OneShotBarrier` |
| `Pool` | pool_create, pool_map, pool_destroy and the three thread routines |
| `ParallelMap` | what pool_map promises |
| `PoolProofs` | the pool's inductive invariant; `Pool` implements `ParallelMap` |
| `SpinLock`, `SpinLockProofs` | the test-and-set locks with their counting tests |
| `TicketLock`, `FifoLock` | the ticket lock with its test; the lock that serves in order |
| `TicketLockProofs` | the ticket lock's invariant; `TicketLock` implements `FifoLock` |
| `TryQueue` | the non-blocking queue with its test program |
| `TryFifo` | what it promises: `BoundedFifo` with calls that are refused |
| `TryQueueProofs` | its invariant; `TryQueue` implements `TryFifo` |
| `MergeSort` | the Java merge sorts: threads or tasks that share one array |
| `MergeSortProofs` | its invariant: who works where, and what is sorted when |
| `MpSort` | the Python sort: processes, queues of one item, the merging loop |
| `MpSortProofs` | its invariant: where every item is, and why the result is the beginning of the sorted list |
| `MC...` | the instances TLC checks, one .cfg for each run |

### CQueue

Variables have the names of the fields of `cqueue_obj_t`; `asleep` is the
kernel's set of sleepers for each futex word. `pc` says where in a call each
thread is. The step that takes the lock also does what follows it until the
next store another thread can see: only holders of the lock write the ring, so
reading it then or a moment later is the same. But the two counters are also
read by the kernel, without the lock, so the two stores that move a block
(`available_msgs += 1; free_blocks -= 1`) are two steps, and so are release,
FUTEX_WAIT and FUTEX_WAKE. FUTEX_WAIT compares the word with 0 and puts the
thread to sleep in one step; it may also return for a time-out. The spinlock's
compare-and-swap is a step when it succeeds; failed attempts change nothing.
An item is its sender, its number and its size: enough to tell a lost, doubled
or reordered item, and an item too large for a block or a caller.

`BoundedFifo` is the promise. `IsFifo` maps the ring to a sequence: an item is
in it from the store that counts it available to the read that takes it away,
also while the other counter lags behind.

### Barrier and Pool

Both take a call on a queue as one step on a sequence. That is what
`CQueueProofs!Refinement` justifies: every behaviour of the ring is one of
`BoundedFifo`, in which each call takes effect at one point, and a call that
must wait has no effect until it can. The one thing the abstraction does not
show is a lost wake-up, which `NoLostWakeUp` excludes where no dequeue fails, and
`WakeUpsLostByFailuresOnly` everywhere else but after a dequeuer's error.

In `Barrier` the size check and the dequeue of barrier_wait are two steps, as in
the code; `Call` begins a wait, the names of the others say which line they
stand for. `arrived` and `passed` are history variables for `OneShotBarrier`.
`MallocMayFail` and `ActionMayFail` turn the failures on.

In `Pool` the client is one process: it creates the pool, one thread at a time
while those before already run, maps a few times and destroys the pool. The
argument `args[k]` of the m-th map and the function's result on it are the pair
`<<m, k>>`, so a result in the wrong place or of an earlier call is seen. The
function's error is a choice in `WorkerRun`. `MallocMayFail` turns on the
failures of malloc and pthread_create wherever the code calls them. cqueue_enqueue cannot fail with the arguments the pool gives it
(no NULL, no zero size, sizes equal to the block size), so the error branches
after it have no action.

Three things the code does are undefined in C, and are choices here.
dequeue_results_routine reads the code it returns from memory it has just freed
(`cpool/pool.c:218-219`): `DeqTaskFailed` may return any code, Success included.
Both routines of pool_map write through malloc's result before they look whether
it is NULL (160, 192): the process crashes (`EnqCrashes`, `DeqCrashes`).
pool_map does not look whether pthread_create has made its two threads (251-252)
and joins an id it never set (`MapNoThread`): the process crashes, or
pthread_join fails, or it waits for something else. When the client gets that
error it ends the process, as main in pooltest.c does at any error (`Running`);
after any other error of pool_map it may go on and call it again.

`cut_short` is a history variable: whether some pool_map has been cut short,
because a thread of its own was missing or because dequeue_results_routine
returned before the end of its loop. Such a map leaves tasks and results in the
pool, and from then on the code keeps few promises; the properties say which.
`ParallelMap` has the same break as `BreakOff`.

### SpinLock and TicketLock

Each module is the lock together with its test: threads that acquire, read the
counter, write it plus one, and release. A failed attempt of test-and-set, or a
look at a ticket that is not served, changes nothing and is no step. Threads in
`Timed` may give up; like main in the tests they do not try again. In the
ticket lock every int is taken modulo `Tickets` (2^32 in Java).

### TryQueue

The queue and the whole program `cqueuetest.c`: threads that enqueue, threads
that dequeue, and main, which joins them in order, gives up at the first that
failed, and at the end asks for the size. Here the ring has one `count`, nobody
sleeps in the kernel, and everything is done under the lock, so the stores of a
call are one step (`EnqStore`, `DeqTake`). What is left to go wrong is at the
edges: the refusals (`EnqFull`, `DeqEmpty`) give the lock back and the thread
tries again with the same item, and errors must give it back too. A thread with
an error is `failed`; when main returns the process ends for every thread.
`received` is a history variable: how often each item has been dequeued.
`TryFifo` extends `BoundedFifo` with the two refusals and the retry.

### MergeSort and MpSort

In `MergeSort` a thread is named by the part of the array it sorts, which is
what the arguments `i` and `len` say; no part is sorted twice, so the name is
unique. `Fork` starts the threads of both halves (in Problem3 the tasks) and
`Join` waits for both and enters merge. Every access of merge to the array is a
step of its own: `TakeLeft` and `TakeRight` compare and append to `result`,
`CopyBack` writes one element. merge copies back only what it has merged, not
what remained of the right half (`Merged`). An interrupt of the joins, which the
code ignores and nothing in it causes, is left out.

In `MpSort` a process is the sequence of items it has yet to put, ending with
the sentinel, and its queue holds one. `Fill`, `Pop`, `Refill` and `MergeEnds`
are main's two loops. Of two equal entries the priority queue may give either.
`queue.PriorityQueue`, `mp.Queue` and `sorted` come from Python's library and
are modelled by what they do.

## The runs

Each run's question stands in PROJECT.json and each .cfg begins with what it
sets up. What they show:

- `cqueue_qmain`: the workload of qmain.c on one block. Exclusive lock, no lost
  wake-up, and every thread returns with the queue empty.
- `cqueue_calls`: two blocks, a thread that mixes all calls, time-outs, every
  error return. The lock is given back, the ring's four numbers agree at every
  step, and the ring implements `BoundedFifo`. A woken dequeuer that then fails
  has used up the wake-up, so `NoLostWakeUp` is false here;
  `WakeUpsLostByFailuresOnly` says that nothing else loses one, neither a
  time-out nor any other error.
- `barrier_wait`: one thread more than the limit, each coming up to twice, while
  the action and malloc may fail. Messages and waiters match, nobody passes early
  or is let go before the action has succeeded, and every waiter is released
  unless a failure has used up a number or the action.
- `pool_calls`: create, two maps and destroy, with failures of the function, of
  malloc and of pthread_create, in pool_create, in pool_map and in every thread.
  Until a map is cut short no task is lost or doubled (`EachTaskInOnePlace`),
  every map is a parallel map (`IsParallelMap`) and every call returns as long as
  the pool keeps its threads (`EveryCallReturns`). Whatever fails, a stored result
  is at the place of its own argument (`StoredAtItsPlace`), and when pool_destroy
  returns Success no task is left and no thread runs (`DestroyedClean`). A map
  whose results thread stops at an error still returns (`MapReturns`) if no thread
  of the pool is lost and there are no more arguments than the two queues and the
  threads have room for: `WorkBlocks + pool_size + ResultBlocks`. If malloc fails
  in the dequeue, which leaves its result in the queue, that bound is exact: with
  one argument more pool_map can hang. A function that fails has its result taken
  from the queue, and there it takes two more.
- `spinlock_count`: the counting test, one thread with a timeout.
- `ticket_order`: threads that come back forever, one with timeouts, tickets
  that wrap. They enter in the order of their tickets; a thread that gives up
  keeps its place in line, and until one does nobody starves.
- `tryqueue_test`: cqueuetest.c with two threads on each side, a ring of two
  blocks and every error return. Each item is put once and taken once, the ring
  implements `TryFifo`, and the test ends, with success unless a call failed.
- `mergesort_array`: every array of five elements. Each part is sorted when its
  thread ends and until it is merged, threads that run at once work in parts
  that do not overlap, and the sort returns.
- `mpsort_chunks`: every list of six elements in three chunks. The result grows
  in order, has every element of the chunks when the loop ends, main waits only
  for processes that have something left to put and never for room in the
  priority queue, no process is left blocked at its queue when main joins it, and
  the sort ends.

Runs that find the code at odds with its tests:

- `barrier_late`: a thread that reads the size before the last number is taken
  waits forever (`cbarrier/barrier.c:59-70`).
- `pool_freed`: one thread, one argument, a function that fails. The code read
  from the freed result is Success, pool_map returns it, and the place in the
  results array is empty (`cpool/pool.c:218-219`); pooltest.c dereferences every
  place after Success. `PoolSuccess` says that `SuccessFillsResults` fails only
  after a map was cut short.
- `ticket_count`: a timed acquire that runs out leaves its ticket in the line;
  everybody behind it waits forever, as in the lock's own test.

More that the models show without a run of their own. A timed call on the queue
never returns Timeout: the result of syscall(2) is compared with an errno value
(`cpool/cqueue.c:183, 246`), so the time-out of a futex is taken for a wake-up
(`FutexTimeout`). `SuccessFillsResults` fails in a second way, also if the freed
memory keeps its code: results that a cut-short pool_map left in the queue are
counted by the next one (`cpool/pool.c:211`), which returns Success too early.

### Bounds, and why they are enough

- Queue: one and two blocks, two calls for each thread. One block makes
  every enqueue and dequeue meet a full or an empty ring; two make head and tail
  wrap at different times. The theorems below hold for every size.
- Barrier: limit 3 and four threads, one more than the limit, which is what a
  late thread needs (`barrier_late` has limit 2); `MaxCalls` 2 lets a thread come
  back after an error, and take a number that was another's.
- Pool: two threads, queues of one block, and up to five arguments in two
  successive maps together, so that one map can have one argument more than the
  pool has room for, and a second map can follow one that has failed. `pool_freed`
  needs one thread and one argument. The real sizes (16 blocks, 25 threads, 2500
  arguments) keep the order that matters: more arguments than blocks and threads.
- Locks: two or three threads; `Tickets` 4 makes the tickets wrap within a few
  rounds, and `Iterations` 0 is a thread that comes back forever.
- Non-blocking queue: two items for each of four threads on two blocks, so that
  the ring fills, empties and wraps, with sizes 0, of one and two bytes, and one
  too many. The theorem holds for every size.
- Sorts: five elements make halves of even and uneven length on three levels;
  three values give ties. Six elements in chunks of two, with three processes,
  give ties within a chunk and between chunks, and a process that is asked again
  after another's sentinel.

### Fairness

Every thread's steps together are weakly fair: the operating system runs every
thread, and the spin loops sleep between attempts. The spinlock is not
starvation-free under weak fairness, but every thread makes a bounded number of
calls, so after finitely many steps it is free for good. `NobodyStarves` in `ticket_order`, where threads come back
forever, needs no more than weak fairness: that is the ticket lock's merit.
Failures are choices inside a thread's step and are never forced: wherever a
step fails, one that succeeds is enabled too. In the ticket
lock neither is running out of time: the fairness is that of the other steps,
so a thread that could only give up would count as starving.
`DrainsAndStops` is checked without futex time-outs: a thread that times out
takes the spinlock again each time, without end, and weak fairness does not keep
it from always beating another thread to it.


Only `tryqueue_test` assumes more: strong fairness of taking the lock
(`TryLock`). A refused thread tries again without end, so the lock is never free
for good, and under weak fairness it could forever beat a thread that could make
room. What the code does against it is a pause: after each refusal the thread
sleeps without the lock (`cqueuetest.c:43, 68`), and so does a failed attempt of
the lock, so one that keeps trying finds it free. This is an assumption about
time that the code makes likely and does not enforce.

Deadlock is checked except where the system may really stop: a queue with
unequal numbers of calls, a barrier or pool whose parts have failed, a ticket
nobody holds. The .cfg files say which.

## What is proved

The assumptions on the constants (`ConstantsAssumption`) are all the proofs
use: any finite or infinite set of threads where the code needs no more, any
positive number of blocks, any sizes, failures on or off.

`CQueueProofs` has the inductive invariant of the queue, in six parts: types;
the lock is 1 exactly while one thread is between acquire and release; sleepers
are at their wait; a thread between its stores knows its block and its item;
and the ring: with `k` messages counted, and corrected by what the lock holder
has stored so far, `head = tail + k` modulo the ring, and `available_msgs` and
`free_blocks` add up to the number of blocks. The correction is why the
invariant must speak of `pc`: between two stores the counters do not add up.
It yields `TypeCorrect`, `MutualExclusion` and `RingIntegrity`.

The wake-ups need a count. A futex word is told by `Counter`, and a thread knows
of a message or block if it is awake inside the call that wants one, or has one
to announce; `Unannounced` is what the counter exceeds the known ones by while
somebody sleeps. `WakeUpsLost` shows for each step that this excess grows only
at the failure of a dequeuer that has found an item, and then by one. For
`NoWakeUpLost` that step is impossible, by the hypothesis `DequeuesSucceed`:
malloc works, and no dequeue passes a nonzero `max_size` smaller than an item
that fits in a block. Every call in the repository is such: qmain.c, barrier.c
and pool.c dequeue with the size their items have. Without the hypothesis the
property is false (`cqueue_calls`).

`Refinement` proves `Spec => IsFifo`: the initial states correspond, and
each step of the ring is the matching step of `BoundedFifo` or leaves it alone.
Two steps matter: the store to `available_msgs` appends, the read of the tail
block takes the head; all others, in particular the copy into the free block,
leave the sequence as it is, because the block is outside it (`BlocksDiffer`).

`BarrierProofs`: the numbers left are the last ones in order, and as many have
been taken, each by a thread of its own, as are missing; so when one is left
nobody has passed, and the thread that takes the last is the `threads_limit`-th
to have called. This gives `BarrierPromise` (`Spec => IsOneShotBarrier`), and
with "one thread at most acts" also `ActionFirst` and `BarrierTypeCorrect`.
`BarrierWakes` adds that whoever waits has a number, so that the thread that
acts finds `threads_limit - 1` others waiting, and that a waiter leaves only with
a message or by an error, which is counted.

`PoolProofs`: the invariant says in which phase the two threads of pool_map are
for each place of the client (`Phases`), that every task and result belongs to
the current call and carries the place it goes to (`Faithful`), how many copies
of each task there are in the two queues, with the workers and in the results
array (`Counted`), and that each pill pool_destroy has put is in the work queue,
behind every task, or has ended a worker (`Leaving`). Phases and pills hold
whatever fails; what is said of tasks and results holds until a map is cut short
(`PoolInv`), and a failure that is not such a break - a worker that returns at an
error, pool_create giving up - does not touch it. The theorems therefore have no
hypotheses about failures:

- `PoolTypeCorrect` and `PoolStoredAtItsPlace` hold in every state. The second
  has an invariant of its own (`Placed`): a value is tied to its id from the
  enqueue on, in whatever map it is taken.
- `PoolDestroyed` needs a pool with a thread, since its argument is that the last
  item in the queue is a pill. When all workers have ended by a pill no pill is
  left, and so nothing before one.
- `PoolOnePlace`, `PoolRefines` (`Spec => IsParallelMap`) and `PoolSuccess`
  (`SuccessFillsResults` or `cut_short`) say what holds until a map is cut short.
  Beyond that the code breaks them (`pool_freed`).

The proof needs the bound `MaxArgs` to be positive, which `Pool` assumes.

`PoolNeverStuck` says, when nothing fails (`Clean`) and the pool has a thread, that the cycle
enqueue thread, work queue, workers, results queue, dequeue thread never blocks
as a whole: a full work queue keeps no worker at `get`, so all are at `put`; then
the results are not empty and the dequeue thread takes one, unless it has
ended, and then there was no more to come (`StoredArePut`). If all has been put,
a result that is missing is under way (`NotStored`). Its guards are written out
(`SomebodyMayGo`), as ENABLED is not available; `EveryCallReturns` asks more, on
one instance. Without a thread in the pool a pool_map of one
argument waits forever.

`SpinLockProofs`: the flag is set exactly while one thread is inside, hence
`SpinNoLostUpdate`. The counter is the number of pairs of a thread and an
iteration whose addition is written (`Written`): a write adds one pair, so
`SpinCounts` gives the sum the tests expect once all threads have ended. That
they end is what remains of `CountsAll` for TLC.

`TicketLockProofs`: the threads in line, also those that have given up, have the
tickets from `nowServing` up to `nextTicket`, each ticket one thread, and there
are fewer of them than ints, so that they do not lap each other: this is where
`Tickets > Cardinality(Threads)` is needed. A thread inside has the ticket that
is served, so there is one at most (`TicketNoLostUpdate`), and while threads wait
and nobody has given up somebody has that ticket (`TicketSomebodyGoes`): what
`ticket_count` finds needs a timed acquire. `TicketCounts` is the sum as for the
spin lock, of an int that wraps. For
`TicketLockIsFifo` the lemma `OrderedIsQueue` says that the line in the order of
the tickets is the queue of the refinement mapping, so each step needs only
show what it does to that line: taking a ticket appends, entering is by its
head, release removes the head.

`TryQueueProofs`: the invariant of this ring has one counter and no store in
between, and the lock's holder knows whether there is room or an item; `Spec =>
IsTryFifo` then follows as for the blocking queue, by the same lemmas about
rings. `ItemsOnce` counts the places of an item in the ring: a put
adds one, a take turns one into a receipt, and an enqueuer always brings the item
after those it has put, so a retry after a refusal brings the same one.

`MergeSortProofs`: two parts that have been begun are nested or have no index in
common; nothing is begun inside a part that has only started, and everything
inside a part whose merge has begun is done (`Nested`). This holds because the
parts that `Fork` starts are halves and `Join` waits for both. So two threads that
work are apart (`SortersApart`), and with the bounds of the merge's cursors
(`Cursors`) the types follow (`SortTypeCorrect`). For `SortIsRight` the invariant
`Progress` says what each thread has achieved: while it merges, its list is in
order, holds what both cursors have passed, each value as often (`Count`), and
nothing that is left is smaller; while it copies back, the elements copied are
those of the list and the rest of the right half goes on where the list ends.
What one thread has achieved no other undoes, because a copy writes only inside
its own part, which is apart from all others that are being worked on or are
waited for (`HalfKept`). The counts are cardinalities of sets of indices, so no
induction over the array is needed.

`MpSortProofs`: what a process puts and main merges comes from `sorted`, so the
proof first needs that the sequence it returns exists. `SortedSeq` places each
element by its rank (`Place`: how many are smaller, or equal and not later). No
two indices have the same rank, so the ranks are all of `1 .. n` (`OneAtEach`),
and `SortedSeq` is in order and holds each value as often (`SortedInOrder`,
`SortedCount`), with no induction over the list. The invariant says what main
has got of each process's entries (`Got`): what is in the process's queue and
what it has yet to put is the rest (`Streams`), the priority queue holds the last
entry got of every process in `Held` (`Queued`), and what has been popped is in
order and not above what is left (`Ascends`), each value as often as among the
entries that have been popped (`Counted`). Where main is says how far it has asked
each process (`Phases`), hence `ProcessesDrained`. An entry of the process
being asked is not in the priority queue, so there is room, and that process has
not been asked for its sentinel: `MainFindsItems`. `ResultInOrder` follows by
counting the elements up to each value, of those in whole chunks (`InChunks`;
what lies behind the last whole chunk is in no chunk): a sequence in order, with nothing left
that is smaller, is the beginning of the only sorted whole (`IsBeginning`).

Only model-checked are the liveness properties (`DrainsAndStops`,
`WaitersReleased`, `EveryCallReturns`, `MapReturns`, `CountsAll`, `NobodyStarves`,
`TestPasses`, `SortReturns`, `SortEnds`): liveness under fairness, and so
ENABLED, is outside the prover's reach. All other properties of the passing runs are
theorems, some under the hypotheses named above.

## Not modelled

The parts marked `not_modelled` in PROJECT.json, with the reasons given there.
The linked queues in Python and C are sequential; each has a defect at the last
element (`Queue/my_queue.py:87`, `C/queue/queue.c:64`) that four calls in a unit
test show. The queues of `java/Problem7` are one library call under the lock
that `SpinLock` models, in two phases that do not overlap.

Of the parts that are modelled: destroying a queue or a barrier (who may still
be using it is the callers' affair, and all callers in the repository join their
threads first); NULL handles, which every function refuses on entry; the memory
order of the atomics, which are all sequentially consistent; spurious wake-ups
of a futex, which look like the wake-ups that are modelled; concurrent calls of
pool_map, and a client that goes on after pool_map has joined a thread that was
never created; sorting an empty array, which the Java sorts do not survive and no
program here does; and the read of `count` without the lock in `cqueue_size` while other
threads work, which no program in the repository does.

## Plan

1. Done: blocking queue, barrier, pool, locks, non-blocking queue, merge sorts;
   proofs of every safety property of all of them.
2. Then, if the programs come to need it: a linked queue against a sequence, and
   the Java queues on the spinlock.
