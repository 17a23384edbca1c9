------------------------------- MODULE Lists -------------------------------
(***************************************************************************)
(* The linked lists of the runtime: what a list holds, unlinking a cell,   *)
(* and splitting a list while its order is kept.                           *)
(***************************************************************************)
EXTENDS Integers, Sequences, FiniteSets

RemoveIndex(s, i) == SubSeq(s, 1, i - 1) \o SubSeq(s, i + 1, Len(s))

Listed(s, x) == \E i \in 1..Len(s) : s[i] = x

Distinct(s) == \A a, b \in 1..Len(s) : s[a] = s[b] => a = b

\* The list without its first cell that holds x.
Without(s, x) ==
  IF Listed(s, x)
  THEN RemoveIndex(s, CHOOSE i \in 1..Len(s) : s[i] = x /\ \A k \in 1..(i - 1) : s[k] # x)
  ELSE s

\* The ways, at most m long, to list the set of indices I in ascending order: one, when I has
\* at most m members.
Ascending(I, m) ==
  {f \in UNION {[1..n -> I] : n \in 0..m} :
     /\ \A a, b \in DOMAIN f : a < b => f[a] < f[b]
     /\ \A i \in I : \E a \in DOMAIN f : f[a] = i}

\* The cells of s at the indices f lists.
Pick(s, f) == [k \in DOMAIN f |-> s[f[k]]]
=============================================================================
