----------------------------- MODULE MCExecutor -----------------------------
(* Small instances of the helper pool. *)
EXTENDS Executor

CONSTANTS c1, c2, j1, j2, j3, j4, w1, w2

\* j2 and j4 survive teardown; j1 and j2 cannot run together within three bytes.
MCMustRun      == {j2, j4} \cap Jobs
MCQueuedBytes  == [j \in Jobs |-> IF j = j3 THEN 2 ELSE 1]
MCWorkingBytes == [j \in Jobs |-> IF j \in {j1, j2} THEN 2 ELSE 1]
MCConcurrency  == [c \in Clients |-> IF c = c1 THEN 1 ELSE 2]
MCCapacity     == [c \in Clients |-> IF c = c1 THEN 2 ELSE 3]
=============================================================================
