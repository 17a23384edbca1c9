---------------------------- MODULE MCSharedWait ----------------------------
(* Small instances of the waiter table. *)
EXTENDS SharedWait, TLC

CONSTANTS main, w1, w2, r1, r2, o1, o2

\* The records of the main agent, and one of a worker.
MCOwner == [r \in Records |-> IF r = r1 THEN main ELSE w1]
=============================================================================
