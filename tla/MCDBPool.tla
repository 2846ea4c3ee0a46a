------------------------------- MODULE MCDBPool -------------------------------
(* Three threads and a pool of two, so that the pool runs empty. *)
EXTENDS DBPool

CONSTANTS t1, t2, t3

MCThreads == {t1, t2, t3}
=============================================================================
