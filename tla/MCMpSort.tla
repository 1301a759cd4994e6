------------------------------- MODULE MCMpSort -------------------------------
(***************************************************************************)
(* An instance of MpSort for TLC.                                          *)
(***************************************************************************)
EXTENDS MpSort
===============================================================================
