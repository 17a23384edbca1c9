------------------------------ MODULE MCPorts ------------------------------
(***************************************************************************)
(* Ports for TLC.  Every channel joins the isolates i and j.               *)
(***************************************************************************)
EXTENDS Ports, TLC

CONSTANTS i, j, m1

\* m1 is the large message.
MCBytes == [m \in Messages |-> IF m = m1 THEN 2 ELSE 1]

MCEqual == [m \in Messages |-> 1]

MCAcross == [e \in Ends |-> IF e[2] = 0 THEN i ELSE j]

MCStarted == Ends

MCUnstarted == {}

\* Posts do not nest.
MCFlat == [k \in Isolates |-> 1]

\* On i a getter or a listener may post as well.
MCNested == [k \in Isolates |-> IF k = i THEN 2 ELSE 1]

MessageSymmetry == Permutations(Messages)
=============================================================================
