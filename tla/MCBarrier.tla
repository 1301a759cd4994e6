------------------------------- MODULE MCBarrier -------------------------------
(***************************************************************************)
(* Instances of Barrier for TLC.                                           *)
(***************************************************************************)
EXTENDS Barrier
================================================================================
