--------------------------------- MODULE Pool ---------------------------------
(***************************************************************************)
(* The thread pool of cpool/pool.c: pool_create starts pool_size threads   *)
(* that take work from one blocking queue and put results in another;      *)
(* pool_map starts a thread that puts the work and one that takes the      *)
(* results, and joins both; pool_destroy sends every thread a work item    *)
(* without a function and joins them.  One client makes the calls.         *)
(*                                                                         *)
(* A call on a queue is one step here, the step at which CQueue shows it   *)
(* takes effect (CQueue!IsFifo); a call that must wait is not enabled.     *)
(*                                                                         *)
(* What C leaves undefined is a choice over what may come of it: the read  *)
(* of a freed result (DeqTaskFailed), a write through the NULL that malloc *)
(* returned (EnqCrashes, DeqCrashes) and the join of a thread that was not *)
(* created (MapNoThread).                                                  *)
(***************************************************************************)
EXTENDS Integers, Sequences, FiniteSets

CONSTANTS pool_size,     \* how many threads the pool has
          WorkBlocks,    \* num_blocks of work_queue
          ResultBlocks,  \* num_blocks of results_queue
          TaskMayFail,   \* whether the mapped function may return an error
          MallocMayFail, \* whether malloc and pthread_create may fail
          MaxArgs,       \* bound: the arguments of two successive pool_maps
          MaxMaps        \* bound: the calls of pool_map

ASSUME ConstantsAssumption ==
          /\ pool_size \in Nat
          /\ WorkBlocks \in Nat \ {0}
          /\ ResultBlocks \in Nat \ {0}
          /\ TaskMayFail \in BOOLEAN
          /\ MallocMayFail \in BOOLEAN
          /\ MaxArgs \in Nat \ {0}
          /\ MaxMaps \in Nat

\* Error stands for every code but the other two.
Codes == {"Success", "OutOfMemory", "Error"}

Workers == 0 .. pool_size - 1
Ids == 0 .. MaxArgs - 1

\* The argument args[k] of the m-th pool_map, and the result of the function
\* on it, are the pair <<m, k>>.
Values == (1 .. MaxMaps) \X Ids
Unset == <<0, -1>>

\* pool_work_t and pool_result_t; item.fun is NULL in a pill.
Work == [id : Ids, arg : Values, fun : {"fun"}]
pill == [id |-> -1, arg |-> Unset, fun |-> "NULL"]
Results == [id : Ids, rc : Codes, result : Values \cup {Unset}]
NoResult == [id |-> 0, rc |-> "Success", result |-> Unset]

VARIABLES
  work_queue,     \* the work items not yet taken
  results_queue,  \* the results not yet taken
  worker,         \* where each thread of the pool is
  item,           \* the work item each thread holds
  pool_result,    \* the result each thread has computed
  trc,            \* what each thread returned
  enq, enq_i,     \* where enqueue_work_routine is, and its loop counter
  deq, deq_i,     \* where dequeue_results_routine is, and its loop counter
  deq_rc,         \* what dequeue_results_routine returned
  client,         \* where the client is
  i,              \* the loop counter of pool_create and pool_destroy
  rc,             \* what the client's call returns, or its last call returned
  maps,           \* how many times it has called pool_map
  arg_count,      \* the arguments of the last pool_map
  results,        \* the array the last pool_map fills: its first arg_count
                  \* places, and the memory behind them
  cut_short       \* history: whether some pool_map has gone without one of
                  \* its two threads, or dequeue_results_routine has returned
                  \* before the end of its loop

pool_vars == <<worker, item, pool_result, trc>>
enq_vars == <<enq, enq_i>>
deq_vars == <<deq, deq_i, deq_rc, results, cut_short>>
client_vars == <<client, i, rc, maps, arg_count>>
vars == <<work_queue, results_queue, pool_vars, enq_vars, deq_vars, client_vars>>

\* pool_create has made the two queues and is about to start the threads.
Init == /\ work_queue = <<>>
        /\ results_queue = <<>>
        /\ worker = [w \in Workers |-> "none"]
        /\ item = [w \in Workers |-> pill]
        /\ pool_result = [w \in Workers |-> NoResult]
        /\ trc = [w \in Workers |-> "Success"]
        /\ enq = "none" /\ enq_i = 0
        /\ deq = "none" /\ deq_i = 0 /\ deq_rc = "Success"
        /\ client = "create" /\ i = 0 /\ rc = "Success"
        /\ maps = 0 /\ arg_count = 0
        /\ results = [k \in Ids |-> Unset]
        /\ cut_short = FALSE

\* The process has not crashed, nor ended because main gave up at an error as
\* the one in pooltest.c does.
Running == client \notin {"over", "crashed"}

Crash == client' = "crashed" /\ UNCHANGED <<i, rc, maps, arg_count>>
-------------------------------------------------------------------------------
\* The threads of the pool (pool_thread_routine).

Goes(w, from, to) == worker[w] = from /\ worker' = [worker EXCEPT ![w] = to]

Ends(w, from, code) == /\ Goes(w, from, "ended")
                       /\ trc' = [trc EXCEPT ![w] = code]

WorkerStart(w) ==
  /\ Goes(w, "start", "get")
  /\ UNCHANGED <<work_queue, results_queue, item, pool_result, trc, enq_vars,
                 deq_vars, client_vars>>

\* There is no memory for the return code: the thread returns NULL.
WorkerStartFails(w) ==
  /\ MallocMayFail
  /\ Ends(w, "start", "NULL")
  /\ UNCHANGED <<work_queue, results_queue, item, pool_result, enq_vars,
                 deq_vars, client_vars>>

WorkerGet(w) ==
  /\ work_queue # <<>>
  /\ Head(work_queue).fun # "NULL"
  /\ Goes(w, "get", "run")
  /\ item' = [item EXCEPT ![w] = Head(work_queue)]
  /\ work_queue' = Tail(work_queue)
  /\ UNCHANGED <<results_queue, pool_result, trc, enq_vars, deq_vars, client_vars>>

WorkerGetPill(w) ==
  /\ work_queue # <<>>
  /\ Head(work_queue).fun = "NULL"
  /\ Ends(w, "get", "Success")
  /\ work_queue' = Tail(work_queue)
  /\ UNCHANGED <<results_queue, item, pool_result, enq_vars, deq_vars, client_vars>>

\* The queue keeps the item and the pool loses the thread.
WorkerGetFails(w) ==
  /\ MallocMayFail
  /\ work_queue # <<>>
  /\ Ends(w, "get", "OutOfMemory")
  /\ UNCHANGED <<work_queue, results_queue, item, pool_result, enq_vars,
                 deq_vars, client_vars>>

\* Mutant: a function that failed leaves no result.
WorkerRunSkips(w) ==
  /\ \/ /\ Goes(w, "run", "put")
        /\ pool_result' = [pool_result EXCEPT ![w] =
              [id |-> item[w].id, rc |-> "Success", result |-> item[w].arg]]
     \/ TaskMayFail /\ Goes(w, "run", "get") /\ UNCHANGED pool_result
  /\ UNCHANGED <<work_queue, results_queue, item, trc, enq_vars, deq_vars,
                 client_vars>>

WorkerRun(w) ==
  /\ Goes(w, "run", "put")
  /\ \/ pool_result' = [pool_result EXCEPT ![w] =
            [id |-> item[w].id, rc |-> "Success", result |-> item[w].arg]]
     \/ /\ TaskMayFail
        /\ pool_result' = [pool_result EXCEPT ![w] =
              [id |-> item[w].id, rc |-> "Error", result |-> Unset]]
  /\ UNCHANGED <<work_queue, results_queue, item, trc, enq_vars, deq_vars,
                 client_vars>>

\* Mutant: the item is not freed and the next one not taken.
WorkerPutRunsAgain(w) ==
  /\ Len(results_queue) < ResultBlocks
  /\ \E next \in {"get", "run"} : Goes(w, "put", next)
  /\ results_queue' = Append(results_queue, pool_result[w])
  /\ UNCHANGED <<work_queue, item, pool_result, trc, enq_vars, deq_vars, client_vars>>

\* The item is freed, and pool_result is a variable of the loop's body.
WorkerPut(w) ==
  /\ Len(results_queue) < ResultBlocks
  /\ Goes(w, "put", "get")
  /\ results_queue' = Append(results_queue, pool_result[w])
  /\ item' = [item EXCEPT ![w] = pill]
  /\ pool_result' = [pool_result EXCEPT ![w] = NoResult]
  /\ UNCHANGED <<work_queue, trc, enq_vars, deq_vars, client_vars>>

Worker(w) == /\ Running
             /\ \/ WorkerStart(w) \/ WorkerStartFails(w)
                \/ WorkerGet(w) \/ WorkerGetPill(w) \/ WorkerGetFails(w)
                \/ WorkerRun(w) \/ WorkerPut(w)
-------------------------------------------------------------------------------
\* The two threads of pool_map.

EnqStart ==
  /\ enq = "start"
  /\ enq' = "run"
  /\ UNCHANGED <<work_queue, results_queue, pool_vars, enq_i, deq_vars, client_vars>>

\* malloc has failed, and the return code is written through its result before
\* that is checked.
EnqCrashes ==
  /\ MallocMayFail
  /\ enq = "start"
  /\ Crash
  /\ UNCHANGED <<work_queue, results_queue, pool_vars, enq_vars, deq_vars>>

\* Mutant: "<=" for "<", one item too many.
EnqPutTooMany ==
  /\ enq = "run"
  /\ enq_i <= arg_count
  /\ Len(work_queue) < WorkBlocks
  /\ work_queue' = Append(work_queue,
        [id |-> enq_i, arg |-> <<maps, enq_i>>, fun |-> "fun"])
  /\ enq_i' = enq_i + 1
  /\ UNCHANGED <<results_queue, pool_vars, enq, deq_vars, client_vars>>

EnqPut ==
  /\ enq = "run"
  /\ enq_i < arg_count
  /\ Len(work_queue) < WorkBlocks
  /\ work_queue' = Append(work_queue,
        [id |-> enq_i, arg |-> <<maps, enq_i>>, fun |-> "fun"])
  /\ enq_i' = enq_i + 1
  /\ UNCHANGED <<results_queue, pool_vars, enq, deq_vars, client_vars>>

EnqEnd ==
  /\ enq = "run"
  /\ enq_i = arg_count
  /\ enq' = "ended"
  /\ UNCHANGED <<work_queue, results_queue, pool_vars, enq_i, deq_vars, client_vars>>

DeqStart ==
  /\ deq = "start"
  /\ deq' = "run"
  /\ UNCHANGED <<work_queue, results_queue, pool_vars, enq_vars, deq_i, deq_rc,
                 results, cut_short, client_vars>>

\* As in enqueue_work_routine.
DeqCrashes ==
  /\ MallocMayFail
  /\ deq = "start"
  /\ Crash
  /\ UNCHANGED <<work_queue, results_queue, pool_vars, enq_vars, deq_vars>>

DeqEnds(code) == deq' = "ended" /\ deq_rc' = code

\* Mutant: the results are stored in the order in which they come.
DeqStoreInOrder ==
  /\ deq = "run"
  /\ deq_i < arg_count
  /\ results_queue # <<>>
  /\ Head(results_queue).rc = "Success"
  /\ results_queue' = Tail(results_queue)
  /\ results' = [results EXCEPT ![deq_i] = Head(results_queue).result]
  /\ deq_i' = deq_i + 1
  /\ UNCHANGED <<work_queue, pool_vars, enq_vars, deq, deq_rc, cut_short,
                 client_vars>>

DeqStore ==
  /\ deq = "run"
  /\ deq_i < arg_count
  /\ results_queue # <<>>
  /\ Head(results_queue).rc = "Success"
  /\ results_queue' = Tail(results_queue)
  /\ results' = [results EXCEPT ![Head(results_queue).id] =
                   Head(results_queue).result]
  /\ deq_i' = deq_i + 1
  /\ UNCHANGED <<work_queue, pool_vars, enq_vars, deq, deq_rc, cut_short,
                 client_vars>>

\* The function failed: the thread returns the code it reads from the result
\* it has just freed, which may by now be any, and the rest of the results stay
\* in the queue.
DeqTaskFailed ==
  /\ deq = "run"
  /\ deq_i < arg_count
  /\ results_queue # <<>>
  /\ Head(results_queue).rc # "Success"
  /\ results_queue' = Tail(results_queue)
  /\ \E code \in Codes : DeqEnds(code)
  /\ cut_short' = TRUE
  /\ UNCHANGED <<work_queue, pool_vars, enq_vars, deq_i, results, client_vars>>

DeqFails ==
  /\ MallocMayFail
  /\ deq = "run"
  /\ deq_i < arg_count
  /\ results_queue # <<>>
  /\ DeqEnds("OutOfMemory")
  /\ cut_short' = TRUE
  /\ UNCHANGED <<work_queue, results_queue, pool_vars, enq_vars, deq_i, results,
                 client_vars>>

DeqEnd ==
  /\ deq = "run"
  /\ deq_i = arg_count
  /\ DeqEnds("Success")
  /\ UNCHANGED <<work_queue, results_queue, pool_vars, enq_vars, deq_i, results,
                 cut_short, client_vars>>

Enqueuer == Running /\ (EnqStart \/ EnqCrashes \/ EnqPut \/ EnqEnd)
Dequeuer == /\ Running
            /\ \/ DeqStart \/ DeqCrashes
               \/ DeqStore \/ DeqTaskFailed \/ DeqFails \/ DeqEnd
-------------------------------------------------------------------------------
\* The client: pool_create, some calls of pool_map, pool_destroy.

Moves(from, to) == client = from /\ client' = to

Create ==
  /\ Moves("create", "create")
  /\ i < pool_size
  /\ worker' = [worker EXCEPT ![i] = "start"]
  /\ i' = i + 1
  /\ UNCHANGED <<work_queue, results_queue, item, pool_result, trc, enq_vars,
                 deq_vars, rc, maps, arg_count>>

\* pool_create gives up; the client has no pool to call.
CreateFails ==
  /\ MallocMayFail
  /\ Moves("create", "over")
  /\ i < pool_size
  /\ rc' = "Error"
  /\ UNCHANGED <<work_queue, results_queue, pool_vars, enq_vars, deq_vars, i,
                 maps, arg_count>>

CreateEnd ==
  /\ Moves("create", "idle")
  /\ i = pool_size
  /\ UNCHANGED <<work_queue, results_queue, pool_vars, enq_vars, deq_vars, i,
                 rc, maps, arg_count>>

\* pthread_create has made a thread or not; pool_map does not look.
Created == {"start"} \cup {s \in {"none"} : MallocMayFail}

MapStart ==
  /\ Moves("idle", "join_enq")
  /\ maps < MaxMaps
  /\ maps' = maps + 1
  /\ arg_count' \in 0 .. MaxArgs - arg_count
  /\ enq' \in Created /\ enq_i' = 0
  /\ deq' \in Created /\ deq_i' = 0 /\ deq_rc' = "Success"
  /\ results' = [k \in Ids |-> Unset]
  /\ cut_short' = (cut_short \/ "none" \in {enq', deq'})
  /\ rc' = "Success"
  /\ UNCHANGED <<work_queue, results_queue, pool_vars, i>>

\* enqueue_work_routine always returns Success: with these arguments
\* cqueue_enqueue has no error to return.
MapJoinEnq ==
  /\ enq = "ended"
  /\ Moves("join_enq", "join_deq")
  /\ UNCHANGED <<work_queue, results_queue, pool_vars, enq_vars, deq_vars, i,
                 rc, maps, arg_count>>

\* Mutant: pool_map does not wait for dequeue_results_routine.
MapReturnEarly ==
  /\ Moves("join_deq", "idle")
  /\ rc' = deq_rc
  /\ UNCHANGED <<work_queue, results_queue, pool_vars, enq_vars, deq_vars, i,
                 maps, arg_count>>

MapReturn ==
  /\ deq = "ended"
  /\ Moves("join_deq", "idle")
  /\ rc' = deq_rc
  /\ UNCHANGED <<work_queue, results_queue, pool_vars, enq_vars, deq_vars, i,
                 maps, arg_count>>

\* pool_map joins a thread that was not created, by an id it never set.  That
\* is undefined: the process crashes, or pthread_join returns an error, and the
\* client ends the process as the test's does, or it waits for some other thread.
MapNoThread ==
  /\ \/ client = "join_enq" /\ enq = "none"
     \/ client = "join_deq" /\ deq = "none"
  /\ client' \in {"crashed", "over", "stuck"}
  /\ rc' = "Error"
  /\ UNCHANGED <<work_queue, results_queue, pool_vars, enq_vars, deq_vars, i,
                 maps, arg_count>>

DestroyStart ==
  /\ Moves("idle", "pills")
  /\ i' = 0
  /\ rc' = "Success"
  /\ UNCHANGED <<work_queue, results_queue, pool_vars, enq_vars, deq_vars, maps,
                 arg_count>>

DestroyPill ==
  /\ Moves("pills", "pills")
  /\ i < pool_size
  /\ Len(work_queue) < WorkBlocks
  /\ work_queue' = Append(work_queue, pill)
  /\ i' = i + 1
  /\ UNCHANGED <<results_queue, pool_vars, enq_vars, deq_vars, rc, maps, arg_count>>

\* Mutant: one pill too few.
DestroyPillsPutEarly ==
  /\ Moves("pills", "join")
  /\ i + 1 >= pool_size
  /\ i' = 0
  /\ UNCHANGED <<work_queue, results_queue, pool_vars, enq_vars, deq_vars, rc,
                 maps, arg_count>>

DestroyPillsPut ==
  /\ Moves("pills", "join")
  /\ i = pool_size
  /\ i' = 0
  /\ UNCHANGED <<work_queue, results_queue, pool_vars, enq_vars, deq_vars, rc,
                 maps, arg_count>>

DestroyJoin ==
  /\ Moves("join", "join")
  /\ i < pool_size
  /\ worker[i] = "ended"
  /\ trc[i] = "Success"
  /\ i' = i + 1
  /\ UNCHANGED <<work_queue, results_queue, pool_vars, enq_vars, deq_vars, rc,
                 maps, arg_count>>

\* A thread ended with an error: the others are not joined and nothing freed.
DestroyJoinFailed ==
  /\ Moves("join", "over")
  /\ i < pool_size
  /\ worker[i] = "ended"
  /\ trc[i] # "Success"
  /\ rc' = IF trc[i] = "NULL" THEN "Error" ELSE trc[i]
  /\ UNCHANGED <<work_queue, results_queue, pool_vars, enq_vars, deq_vars, i,
                 maps, arg_count>>

\* The queues are destroyed.
DestroyEnd ==
  /\ Moves("join", "destroyed")
  /\ i = pool_size
  /\ rc' = "Success"
  /\ UNCHANGED <<work_queue, results_queue, pool_vars, enq_vars, deq_vars, i,
                 maps, arg_count>>

Client == \/ Create \/ CreateFails \/ CreateEnd
          \/ MapStart \/ MapJoinEnq \/ MapReturn \/ MapNoThread
          \/ DestroyStart \/ DestroyPill \/ DestroyPillsPut
          \/ DestroyJoin \/ DestroyJoinFailed \/ DestroyEnd
-------------------------------------------------------------------------------
Terminating == client \in {"over", "crashed", "destroyed"} /\ UNCHANGED vars

Next == Client \/ Enqueuer \/ Dequeuer \/ (\E w \in Workers : Worker(w)) \/ Terminating

Spec == Init /\ [][Next]_vars

FairSpec == /\ Spec
            /\ WF_vars(Client) /\ WF_vars(Enqueuer) /\ WF_vars(Dequeuer)
            /\ \A w \in Workers : WF_vars(Worker(w))
-------------------------------------------------------------------------------
\* The type invariant.
TypeOK ==
  /\ work_queue \in Seq(Work \cup {pill}) /\ Len(work_queue) <= WorkBlocks
  /\ results_queue \in Seq(Results) /\ Len(results_queue) <= ResultBlocks
  /\ worker \in [Workers -> {"none", "start", "get", "run", "put", "ended"}]
  /\ item \in [Workers -> Work \cup {pill}]
  /\ \A w \in Workers : worker[w] \in {"run", "put"} => item[w] \in Work
  /\ pool_result \in [Workers -> Results]
  /\ trc \in [Workers -> Codes \cup {"NULL"}]
  /\ enq \in {"none", "start", "run", "ended"} /\ enq_i \in 0 .. arg_count
  /\ deq \in {"none", "start", "run", "ended"} /\ deq_i \in 0 .. arg_count
  /\ deq_rc \in Codes /\ rc \in Codes
  /\ client \in {"create", "idle", "join_enq", "join_deq", "pills", "join",
                 "over", "crashed", "stuck", "destroyed"}
  /\ i \in 0 .. pool_size
  /\ maps \in 0 .. MaxMaps /\ arg_count \in 0 .. MaxArgs
  /\ results \in [Ids -> Values \cup {Unset}]
  /\ cut_short \in BOOLEAN

\* When pool_map returns Success, each place of the results array holds the
\* result for the argument at that place (pool.c:208-224, 272-290).  The test
\* reads every one of them (pooltest.c:54-68).
SuccessFillsResults ==
  client = "idle" /\ maps > 0 /\ rc = "Success" =>
    \A k \in 0 .. arg_count - 1 : results[k] = <<maps, k>>

\* In how many places the argument k of the current pool_map is.
Places(k) ==
  LET v == <<maps, k>>
  IN  Cardinality({p \in DOMAIN work_queue : work_queue[p].arg = v})
    + Cardinality({w \in Workers : worker[w] \in {"run", "put"} /\ item[w].arg = v})
    + Cardinality({p \in DOMAIN results_queue :
                     \/ results_queue[p].result = v
                     \/ results_queue[p].rc # "Success" /\ results_queue[p].id = k})
    + IF results[k] = v THEN 1 ELSE 0

\* No task is lost and none doubled, also if its function fails or a thread of
\* the pool is lost: once enqueue_work_routine has put it, it is in the work
\* queue, with one thread, in the results queue or in the results, and in one of
\* them only (pool.c:29-46, 177-185, 208-224).
EachTaskInOnePlace ==
  ~cut_short => \A k \in 0 .. arg_count - 1 : Places(k) = IF k < enq_i THEN 1 ELSE 0

\* Whatever has failed, a result is stored at the place of its own argument, also
\* one that a pool_map cut short has left in the queue for a later one
\* (pool.c:208-224, 211).
StoredAtItsPlace ==
  \A k \in Ids : results[k] = Unset \/ \E m \in 1 .. maps : results[k] = <<m, k>>

\* pool_destroy's pills queue up behind every task: when it returns Success no
\* task or pill is left in the work queue and every thread has ended, whatever
\* has failed; and no result is left in the queue it frees unless a pool_map was
\* cut short (pool.c:112-156).
DestroyedClean ==
  client = "destroyed" => /\ work_queue = <<>>
                          /\ \A w \in Workers : worker[w] = "ended"
                          /\ results_queue = <<>> \/ cut_short

\* The arguments whose result is on its way to the client, or there.
Stored == {k \in Ids : results[k] = <<maps, k>>}
Underway ==
  {k \in Ids : \/ \E p \in DOMAIN results_queue : results_queue[p].id = k
               \/ \E w \in Workers : worker[w] = "put" /\ pool_result[w].id = k}

\* Until one is cut short every pool_map applies the function once to each
\* argument and returns when every result is in its place, also while threads of
\* the pool are lost (pool.c:158-291).
Abstract == INSTANCE ParallelMap
              WITH n <- arg_count,
                   mapping <- client \in {"join_enq", "join_deq", "crashed", "stuck"},
                   computed <- Stored \cup Underway,
                   stored <- Stored,
                   broken <- cut_short
IsParallelMap == Abstract!Spec

\* A thread of the pool has returned at an error.
ThreadLost == \E w \in Workers : worker[w] = "ended" /\ trc[w] # "Success"

\* Every call returns, pool_create, each pool_map and pool_destroy, unless a
\* pool_map is cut short or a thread is lost: the circle of the two queues never
\* blocks as a whole, and every thread gets its pill (pool.c:95-156, 254-290).
EveryCallReturns ==
  <>(client \in {"over", "crashed", "destroyed"} \/ cut_short \/ ThreadLost)

\* pool_map returns although the thread that empties the results queue stops at
\* an error, if the queues and the threads have room for what is left, no thread
\* of the pool is lost and malloc does not crash the process
\* (pool.c:211-220, 254-290).
MapReturns ==
  LET HasRoom == arg_count <= WorkBlocks + pool_size + ResultBlocks
  IN  client = "join_enq" /\ ~cut_short /\ HasRoom
        ~> client \in {"idle", "crashed"} \/ ThreadLost
===============================================================================
