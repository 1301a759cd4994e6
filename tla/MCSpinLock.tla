------------------------------ MODULE MCSpinLock ------------------------------
(***************************************************************************)
(* An instance of SpinLock for TLC.                                        *)
(***************************************************************************)
EXTENDS SpinLock

CONSTANTS t1, t2, t3

SomeThreads == {t1, t2, t3}
OneTimed == {t3}
===============================================================================
