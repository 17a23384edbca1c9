----------------------------- MODULE MCTaskPool -----------------------------
(* Small instances of the worker pool. *)
EXTENDS TaskPool, TLC

CONSTANTS t1, t2, t3, t4

\* The tasks whose messages are accepted are interchangeable.
MCSymmetry == Permutations(Tasks \ Unsendable)
=============================================================================
