--------------------------------- MODULE MCGc ---------------------------------
(***************************************************************************)
(* Three cells and two registers: enough for a holder, a target and the    *)
(* weak cell between them, and for a chain to be cut behind the collector. *)
(***************************************************************************)
EXTENDS Gc, Sequences, TLC

CONSTANTS c1, c2, c3, r1, r2

Symmetry == Permutations(Cells) \union Permutations(Regs)

\* Heaps of two WeakMaps and two objects, larger than the runs reach.
EphemeronHeaps ==
    {[kind |-> <<"map", "map", "object", "object">>, key |-> k \o <<Nil, Nil>>, val |-> v]
        : k \in [1..2 -> 2..4], v \in [1..4 -> 2..4]}

\* The waiting index of the weak pass computes what the definition of ephemerons asks
\* for, keys that are marked through the value of another entry included.
ASSUME EphemeronsExact ==
    \A h \in EphemeronHeaps, roots \in {{1}, {1, 2}} :
        LET m0 == Claim([claimed |-> {}, grey |-> {}, weaks |-> {}], roots)
        IN  Ephemerons(h, Drain(h, m0), {}, {}).claimed = Reach(h, roots)
===============================================================================
