---------------------------- MODULE MCHostTasks ----------------------------
(* Small instances of the host's operation table. *)
EXTENDS HostTasks, TLC

CONSTANTS d1, d2, d3

\* Payloads are interchangeable.
MCSymmetry == Permutations(Data)
=============================================================================
