------------------------------- MODULE TryFifo -------------------------------
(***************************************************************************)
(* What a queue promises whose calls never wait: those of BoundedFifo,     *)
(* except that a put is refused when the queue is full and a get when it   *)
(* is empty, and only then.  A refused caller may try again.               *)
(***************************************************************************)
EXTENDS BoundedFifo

RefusePut(t) == /\ status[t] = "putting"
                /\ Len(queue) = Capacity
                /\ status' = [status EXCEPT ![t] = "put_refused"]
                /\ UNCHANGED <<queue, value, length>>

RefuseGet(t) == /\ status[t] = "getting"
                /\ queue = <<>>
                /\ status' = [status EXCEPT ![t] = "get_refused"]
                /\ UNCHANGED <<queue, value, length>>

Retry(t) == /\ \/ /\ status[t] = "put_refused"
                  /\ status' = [status EXCEPT ![t] = "putting"]
               \/ /\ status[t] = "get_refused"
                  /\ status' = [status EXCEPT ![t] = "getting"]
            /\ UNCHANGED <<queue, value, length>>

TryNext == Next \/ \E t \in Threads : RefusePut(t) \/ RefuseGet(t) \/ Retry(t)

TrySpec == Init /\ [][TryNext]_vars
=============================================================================
