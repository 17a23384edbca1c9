---------------------------- MODULE MCReactorWake ----------------------------
(* Small instances of the wake protocol. *)
EXTENDS ReactorWake

CONSTANTS p1, p2, p3
=============================================================================
