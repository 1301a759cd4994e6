------------------------------ MODULE MCTryQueue ------------------------------
(***************************************************************************)
(* An instance of TryQueue for TLC: the order in which main joins, and     *)
(* sizes of which every kind of error return comes up.                     *)
(***************************************************************************)
EXTENDS TryQueue, TLC

CONSTANTS e1, e2, d1, d2

Joins == <<e1, d1, e2, d2>>
SizesPassed == (e1 :> {1}) @@ (e2 :> {0, 2, 3}) @@ (d1 :> {2}) @@ (d2 :> {0, 1, 2})
===============================================================================
