----------------------------- MODULE MCMergeSort -----------------------------
(***************************************************************************)
(* An instance of MergeSort for TLC.                                       *)
(***************************************************************************)
EXTENDS MergeSort
===============================================================================
