-------------------------- MODULE ReactorWakeProofs --------------------------
(***************************************************************************)
(* The wake protocol of module ReactorWake is right for any finite number  *)
(* of producers.  The argument: as long as no system call fails, the flag  *)
(* wake_pending stands for exactly one token, which is a write about to be *)
(* made, the byte in the pipe, or a loop between emptying the pipe and     *)
(* clearing the flag; and retained_work counts the producers that may      *)
(* still post.                                                             *)
(***************************************************************************)
EXTENDS ReactorWake, FiniteSetTheorems, TLAPS

\* The producers retained_work counts.
Busy == {p \in Producers : pc[p] \in {"work", "post", "post-write", "release"}}

\* The producers that won the exchange and have not written yet.
Writing == {p \in Producers : pc[p] \in {"post-write", "wake-write"}}

\* retained_work counts the busy producers, and the loop saw it at zero.
CountInv ==
  /\ retained = Cardinality(Busy)
  /\ loop \in {"check", "exited"} => Busy = {}

\* A producer's item is accepted by the end of its post, not before.
AcceptInv ==
  \A p \in Producers : pc[p] \in {"idle", "work", "post", "post-write"} => p \notin accepted

\* The flag stands for one token.
TokenInv ==
  /\ pipe \in {0, 1}
  /\ ~pending => Writing = {} /\ pipe = 0 /\ loop \notin {"drain", "clear"}
  /\ pending => Writing # {} \/ pipe = 1 \/ loop = "clear"
  /\ Writing # {} => pipe = 0 /\ loop \notin {"drain", "clear"}
  /\ \A p, q \in Writing : p = q
  /\ loop = "drain" => pipe = 1
  /\ loop = "clear" => pipe = 0

\* An accepted item still queued has the flag set or is about to be taken.
ItemInv ==
  /\ items \cap accepted # {} => pending \/ loop = "callback"
  /\ loop = "exited" => items \cap accepted = {}

\* The inductive invariant.
IInv ==
  /\ TypeOK /\ CountInv /\ AcceptInv
  /\ ~failed => TokenInv /\ ItemInv

-----------------------------------------------------------------------------
(* Counting. *)

LEMMA BusyFinite == IsFiniteSet(Busy) /\ Cardinality(Busy) \in Nat
<1>1. IsFiniteSet(Busy)
  BY WakeAssumption, FS_Subset DEF Busy
<1> QED
  BY <1>1, FS_CardinalityType

-----------------------------------------------------------------------------
(* One lemma for each action. *)

LEMMA RetainKeeps ==
  ASSUME IInv, NEW p \in Producers, Retain(p)
  PROVE  IInv'
<1> USE DEF Retain, Goto
<1>1. TypeOK'
  BY WakeAssumption DEF IInv, TypeOK
<1>2. CountInv'
  <2>1. Busy' = Busy \cup {p} /\ p \notin Busy
    BY DEF IInv, TypeOK, Busy
  <2>2. Cardinality(Busy') = Cardinality(Busy) + 1
    BY <2>1, BusyFinite, FS_AddElement
  <2> QED
    BY <2>1, <2>2 DEF IInv, CountInv
<1>3. AcceptInv'
  BY DEF IInv, TypeOK, AcceptInv
<1>4. ASSUME ~failed'
      PROVE  TokenInv'
  BY <1>4 DEF IInv, TypeOK, TokenInv, Writing
<1>5. ASSUME ~failed'
      PROVE  ItemInv'
  BY <1>5 DEF IInv, TypeOK, ItemInv, AcceptInv
<1> QED
  BY <1>1, <1>2, <1>3, <1>4, <1>5 DEF IInv

LEMMA PushKeeps ==
  ASSUME IInv, NEW p \in Producers, Push(p)
  PROVE  IInv'
<1> USE DEF Push, Goto
<1>1. TypeOK'
  BY WakeAssumption DEF IInv, TypeOK
<1>2. CountInv'
  <2>1. Busy' = Busy
    BY DEF IInv, TypeOK, Busy
  <2> QED
    BY <2>1 DEF IInv, CountInv
<1>3. AcceptInv'
  BY DEF IInv, TypeOK, AcceptInv
<1>4. ASSUME ~failed'
      PROVE  TokenInv'
  BY <1>4 DEF IInv, TypeOK, TokenInv, Writing
<1>5. ASSUME ~failed'
      PROVE  ItemInv'
  BY <1>5 DEF IInv, TypeOK, ItemInv, AcceptInv
<1> QED
  BY <1>1, <1>2, <1>3, <1>4, <1>5 DEF IInv

LEMMA ExchangeKeeps ==
  ASSUME IInv, NEW p \in Producers, Exchange(p)
  PROVE  IInv'
<1> USE DEF Exchange, Goto, WakeReturns, Coalesces
<1>1. TypeOK'
  BY WakeAssumption DEF IInv, TypeOK
<1>2. CountInv'
  <2>1. Busy' = Busy
    BY DEF IInv, TypeOK, Busy
  <2> QED
    BY <2>1 DEF IInv, CountInv
<1>3. AcceptInv'
  BY DEF IInv, TypeOK, AcceptInv
<1>4. ASSUME ~failed'
      PROVE  TokenInv'
  BY <1>4 DEF IInv, TypeOK, TokenInv, Writing
<1>5. ASSUME ~failed'
      PROVE  ItemInv'
  BY <1>5 DEF IInv, TypeOK, ItemInv, AcceptInv, CountInv, Busy
<1> QED
  BY <1>1, <1>2, <1>3, <1>4, <1>5 DEF IInv

LEMMA WriteKeeps ==
  ASSUME IInv, NEW p \in Producers, Write(p)
  PROVE  IInv'
<1> USE DEF Write, Goto, WakeReturns
<1>1. TypeOK'
  <2>1. /\ pipe' \in Nat /\ retained' \in Nat
        /\ pending' \in BOOLEAN /\ failed' \in BOOLEAN
    <3>1. pipe' \in Nat /\ retained' \in Nat
      BY DEF IInv, TypeOK
    <3>2. pending' \in BOOLEAN /\ failed' \in BOOLEAN
      BY Zenon DEF IInv, TypeOK
    <3> QED
      BY <3>1, <3>2
  <2>2. /\ items' \subseteq Producers /\ accepted' \subseteq Producers
        /\ lock' \in Producers \cup {Free}
    BY DEF IInv, TypeOK
  <2>3. pc' = [pc EXCEPT ![p] = "release"] \/ pc' = [pc EXCEPT ![p] = "done"]
    OBVIOUS
  <2>4. loop' = loop
    OBVIOUS
  <2> QED
    BY <2>1, <2>2, <2>3, <2>4 DEF IInv, TypeOK
<1>2. CountInv'
  <2>1. Busy' = Busy
    BY DEF IInv, TypeOK, Busy
  <2> QED
    BY <2>1 DEF IInv, CountInv
<1>3. AcceptInv'
  BY DEF IInv, TypeOK, AcceptInv
<1>4. ASSUME ~failed'
      PROVE  TokenInv'
  BY <1>4 DEF IInv, TypeOK, TokenInv, Writing
<1>5. ASSUME ~failed'
      PROVE  ItemInv'
  BY <1>5 DEF IInv, TypeOK, ItemInv, AcceptInv, CountInv, Busy, TokenInv, Writing
<1> QED
  BY <1>1, <1>2, <1>3, <1>4, <1>5 DEF IInv

LEMMA ReleaseWorkKeeps ==
  ASSUME IInv, NEW p \in Producers, ReleaseWork(p)
  PROVE  IInv'
<1> USE DEF ReleaseWork, Goto
<1>1. TypeOK'
  <2>1. p \in Busy
    BY DEF Busy
  <2>2. retained > 0
    BY <2>1, BusyFinite, FS_EmptySet DEF IInv, CountInv
  <2> QED
    BY <2>2 DEF IInv, TypeOK
<1>2. CountInv'
  <2>1. Busy' = Busy \ {p} /\ p \in Busy
    BY DEF IInv, TypeOK, Busy
  <2>2. Cardinality(Busy') = Cardinality(Busy) - 1
    BY <2>1, BusyFinite, FS_RemoveElement
  <2> QED
    BY <2>1, <2>2 DEF IInv, CountInv
<1>3. AcceptInv'
  BY DEF IInv, TypeOK, AcceptInv
<1>4. ASSUME ~failed'
      PROVE  TokenInv'
  BY <1>4 DEF IInv, TypeOK, TokenInv, Writing
<1>5. ASSUME ~failed'
      PROVE  ItemInv'
  BY <1>5 DEF IInv, TypeOK, ItemInv, AcceptInv
<1> QED
  BY <1>1, <1>2, <1>3, <1>4, <1>5 DEF IInv

LEMMA CheckKeeps ==
  ASSUME IInv, Check
  PROVE  IInv'
<1> USE DEF Check, Idle
<1>1. TypeOK'
  BY WakeAssumption DEF IInv, TypeOK
<1>2. CountInv'
  <2>1. Busy' = Busy
    BY DEF Busy
  <2>2. Cardinality(Busy) = 0 => Busy = {}
    BY BusyFinite, FS_EmptySet
  <2> QED
    BY <2>1, <2>2, BusyFinite DEF IInv, CountInv, TypeOK
<1>3. AcceptInv'
  BY DEF IInv, TypeOK, AcceptInv
<1>4. ASSUME ~failed'
      PROVE  TokenInv'
  BY <1>4 DEF IInv, TypeOK, TokenInv, Writing
<1>5. ASSUME ~failed'
      PROVE  ItemInv'
  BY <1>5 DEF IInv, TypeOK, ItemInv, AcceptInv
<1> QED
  BY <1>1, <1>2, <1>3, <1>4, <1>5 DEF IInv

LEMMA PumpKeeps ==
  ASSUME IInv, Pump
  PROVE  IInv'
<1> USE DEF Pump
<1>1. TypeOK'
  BY WakeAssumption DEF IInv, TypeOK
<1>2. CountInv'
  <2>1. Busy' = Busy
    BY DEF IInv, TypeOK, Busy
  <2> QED
    BY <2>1 DEF IInv, CountInv
<1>3. AcceptInv'
  BY DEF IInv, TypeOK, AcceptInv
<1>4. ASSUME ~failed'
      PROVE  TokenInv'
  BY <1>4 DEF IInv, TypeOK, TokenInv, Writing
<1>5. ASSUME ~failed'
      PROVE  ItemInv'
  BY <1>5 DEF IInv, TypeOK, ItemInv, AcceptInv
<1> QED
  BY <1>1, <1>2, <1>3, <1>4, <1>5 DEF IInv

LEMMA ReportKeeps ==
  ASSUME IInv, Report
  PROVE  IInv'
<1> USE DEF Report
<1>1. TypeOK'
  BY WakeAssumption DEF IInv, TypeOK
<1>2. CountInv'
  <2>1. Busy' = Busy
    BY DEF IInv, TypeOK, Busy
  <2> QED
    BY <2>1 DEF IInv, CountInv
<1>3. AcceptInv'
  BY DEF IInv, TypeOK, AcceptInv
<1>4. ASSUME ~failed'
      PROVE  TokenInv'
  BY <1>4 DEF IInv, TypeOK, TokenInv, Writing
<1>5. ASSUME ~failed'
      PROVE  ItemInv'
  BY <1>5 DEF IInv, TypeOK, ItemInv, AcceptInv
<1> QED
  BY <1>1, <1>2, <1>3, <1>4, <1>5 DEF IInv

LEMMA DispatchKeeps ==
  ASSUME IInv, Dispatch
  PROVE  IInv'
<1> USE DEF Dispatch, NextStage
<1>1. TypeOK'
  <2>1. NextStage(loop) \in {"clear", "callback", "run"}
    BY DEF IInv, TypeOK
  <2> HIDE DEF NextStage
  <2>2. pending' \in BOOLEAN
    BY Zenon DEF IInv, TypeOK
  <2>3. pipe' \in Nat /\ items' \subseteq Producers
    BY DEF IInv, TypeOK
  <2> QED
    BY <2>1, <2>2, <2>3 DEF IInv, TypeOK
<1>2. CountInv'
  <2>1. Busy' = Busy
    BY DEF IInv, TypeOK, Busy
  <2> QED
    BY <2>1 DEF IInv, CountInv
<1>3. AcceptInv'
  BY DEF IInv, TypeOK, AcceptInv
<1>4. ASSUME ~failed'
      PROVE  TokenInv'
  BY <1>4 DEF IInv, TypeOK, TokenInv, Writing
<1>5. ASSUME ~failed'
      PROVE  ItemInv'
  BY <1>5 DEF IInv, TypeOK, ItemInv, AcceptInv, TokenInv
<1> QED
  BY <1>1, <1>2, <1>3, <1>4, <1>5 DEF IInv

-----------------------------------------------------------------------------
(* The theorems. *)

LEMMA InitEstablishes == Init => IInv
<1> SUFFICES ASSUME Init PROVE IInv
  OBVIOUS
<1>1. Busy = {} /\ Writing = {}
  BY DEF Init, Busy, Writing
<1>2. Cardinality({}) = 0
  BY FS_EmptySet
<1> QED
  BY <1>1, <1>2 DEF Init, IInv, TypeOK, CountInv, AcceptInv, TokenInv, ItemInv

LEMMA NextKeeps == IInv /\ [Next]_vars => IInv'
<1> SUFFICES ASSUME IInv, [Next]_vars PROVE IInv'
  OBVIOUS
<1>1. ASSUME NEW p \in Producers, Retain(p) \/ ProducerStep(p) PROVE IInv'
  BY <1>1, RetainKeeps, PushKeeps, ExchangeKeeps, WriteKeeps, ReleaseWorkKeeps
     DEF ProducerStep
<1>2. CASE Check \/ Pump \/ Report \/ Dispatch
  BY <1>2, CheckKeeps, PumpKeeps, ReportKeeps, DispatchKeeps
<1>3. CASE UNCHANGED vars
  BY <1>3 DEF vars, IInv, TypeOK, CountInv, AcceptInv, TokenInv, ItemInv, Busy, Writing
<1> QED
  BY <1>1, <1>2, <1>3 DEF Next, Exited

\* The invariant above holds in every reachable state.
THEOREM Invariance == Spec => []IInv
<1> QED
  BY InitEstablishes, NextKeeps, PTL DEF Spec

\* However many threads wake the loop, and wherever they are between the exchange and the
\* write of mal_reactor_wake, an accepted item has a pollable wake or a loop about to take
\* it, and the pipe holds at most one byte.
THEOREM WakeRemains == Spec => []PollableWakeRemains
<1>1. IInv => PollableWakeRemains
  BY DEF IInv, TypeOK, TokenInv, ItemInv, Writing, PollableWakeRemains
<1> QED
  BY <1>1, Invariance, PTL

\* mal_host_has_referenced_work ends the loop only when no producer will post, and, unless a
\* wake failed, with every accepted item taken.
THEOREM IdleExit == Spec => []ExitsIdle
<1>1. IInv => ExitsIdle
  BY DEF IInv, CountInv, ItemInv, Busy, ExitsIdle
<1> QED
  BY <1>1, Invariance, PTL
=============================================================================
