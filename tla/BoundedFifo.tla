----------------------------- MODULE BoundedFifo -----------------------------
(***************************************************************************)
(* What a blocking queue promises its callers.  A call is three steps: the *)
(* caller invokes it, it takes effect on the queue in one indivisible      *)
(* step, and it returns.  A put waits while the queue is full, a get while *)
(* it is empty; a get may instead give up and leave the queue as it is.    *)
(***************************************************************************)
EXTENDS Naturals, Sequences

CONSTANTS Threads,   \* the callers
          Items,     \* what they put
          Capacity,  \* the largest number of items the queue holds
          NoItem     \* the value of a get that has not taken effect

VARIABLES queue,   \* the items, oldest first
          status,  \* where each caller's call is
          value,   \* what each caller puts, or what its last get returned
          length   \* the length each caller was last told

vars == <<queue, status, value, length>>

Init == /\ queue = <<>>
        /\ status = [t \in Threads |-> "idle"]
        /\ value = [t \in Threads |-> NoItem]
        /\ length = [t \in Threads |-> 0]

InvokePut(t) == /\ status[t] = "idle"
                /\ status' = [status EXCEPT ![t] = "putting"]
                /\ \E m \in Items : value' = [value EXCEPT ![t] = m]
                /\ UNCHANGED <<queue, length>>

Put(t) == /\ status[t] = "putting"
          /\ Len(queue) < Capacity
          /\ queue' = Append(queue, value[t])
          /\ status' = [status EXCEPT ![t] = "done"]
          /\ UNCHANGED <<value, length>>

InvokeGet(t) == /\ status[t] = "idle"
                /\ status' = [status EXCEPT ![t] = "getting"]
                /\ value' = [value EXCEPT ![t] = NoItem]
                /\ UNCHANGED <<queue, length>>

Get(t) == /\ status[t] = "getting"
          /\ queue # <<>>
          /\ queue' = Tail(queue)
          /\ status' = [status EXCEPT ![t] = "done"]
          /\ value' = [value EXCEPT ![t] = Head(queue)]
          /\ UNCHANGED length

InvokeSize(t) == /\ status[t] = "idle"
                 /\ status' = [status EXCEPT ![t] = "sizing"]
                 /\ UNCHANGED <<queue, value, length>>

Size(t) == /\ status[t] = "sizing"
           /\ status' = [status EXCEPT ![t] = "done"]
           /\ length' = [length EXCEPT ![t] = Len(queue)]
           /\ UNCHANGED <<queue, value>>

\* Only a get gives up, and it returns nothing.
GiveUp(t) == /\ status[t] = "getting"
             /\ status' = [status EXCEPT ![t] = "idle"]
             /\ UNCHANGED <<queue, value, length>>

Return(t) == /\ status[t] = "done"
             /\ status' = [status EXCEPT ![t] = "idle"]
             /\ UNCHANGED <<queue, value, length>>

Next == \E t \in Threads :
           \/ InvokePut(t) \/ Put(t)
           \/ InvokeGet(t) \/ Get(t) \/ GiveUp(t)
           \/ InvokeSize(t) \/ Size(t)
           \/ Return(t)

Spec == Init /\ [][Next]_vars
=============================================================================
