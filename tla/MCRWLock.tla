------------------------------ MODULE MCRWLock ------------------------------
(***************************************************************************)
(* Small instances of RWLock for TLC: the tasks are model values.          *)
(***************************************************************************)
EXTENDS RWLock

CONSTANTS r1, r2, r3, w1, w2
=============================================================================
