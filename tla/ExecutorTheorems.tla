------------------------- MODULE ExecutorTheorems ---------------------------
(***************************************************************************)
(* The theorems about the helper pool: its invariants, and that it         *)
(* implements its contract.                                                *)
(***************************************************************************)
EXTENDS ExecutorProofs, FiniteSetTheorems

(* Counting. *)

\* An interval that starts at one.
LEMMA IntervalSize ==
  ASSUME NEW n \in Nat
  PROVE  IsFiniteSet(1..n) /\ Cardinality(1..n) = n
<1>1. 1 \in Int /\ n \in Int
  OBVIOUS
<1> QED
  BY <1>1, FS_Interval

\* A list without repetitions has as many cells as elements.
LEMMA ListSize ==
  ASSUME NEW S, NEW q \in Seq(S), Distinct(q), NEW I \in SUBSET (1..Len(q))
  PROVE  /\ IsFiniteSet({q[i] : i \in I})
         /\ Cardinality({q[i] : i \in I}) = Cardinality(I)
<1> DEFINE f == [i \in I |-> q[i]]
           B == {q[i] : i \in I}
<1>1. f \in [I -> B]
  BY Zenon
<1>2. \A a, b \in I : f[a] = f[b] => a = b
  BY Zenon DEF Distinct
<1>3. \A t \in B : \E a \in I : f[a] = t
  BY Zenon
<1>4. Len(q) \in Nat
  OBVIOUS
<1>5. IsFiniteSet(I)
  BY <1>4, IntervalSize, FS_Subset, Zenon
<1> HIDE DEF B, f
<1>6. f \in Bijection(I, B)
  BY <1>1, <1>2, <1>3, Zenon DEF Bijection, Injection, Surjection, IsInjective
<1>7. ExistsBijection(I, B)
  BY <1>6, Zenon DEF ExistsBijection
<1> QED
  BY <1>5, <1>7, FS_Bijection, Zenon DEF B

\* One row of units.
LEMMA RowSize ==
  ASSUME NEW x, NEW n \in Nat
  PROVE  IsFiniteSet({x} \X (1..n)) /\ Cardinality({x} \X (1..n)) = n
<1> DEFINE f == [k \in 1..n |-> <<x, k>>]
<1>1. f \in [1..n -> {x} \X (1..n)]
  BY Zenon
<1>2. \A a, b \in 1..n : f[a] = f[b] => a = b
  BY Zenon
<1>3. \A t \in {x} \X (1..n) : \E a \in 1..n : f[a] = t
  OBVIOUS
<1> HIDE DEF f
<1>4. f \in Bijection(1..n, {x} \X (1..n))
  BY <1>1, <1>2, <1>3, Zenon DEF Bijection, Injection, Surjection, IsInjective
<1>5. ExistsBijection(1..n, {x} \X (1..n))
  BY <1>4, Zenon DEF ExistsBijection
<1> QED
  BY <1>5, IntervalSize, FS_Bijection

\* Every set of units of a finite set is finite.
LEMMA UnitsAreFinite ==
  ASSUME NEW S, IsFiniteSet(S), NEW b, NEW M \in Nat
  PROVE  IsFiniteSet(Units(S, b, M)) /\ Cardinality(Units(S, b, M)) \in Nat
<1>1. IsFiniteSet(S \X (1..M))
  BY IntervalSize, FS_Product, Zenon
<1>2. Units(S, b, M) \in SUBSET (S \X (1..M))
  BY Zenon DEF Units
<1> QED
  BY <1>1, <1>2, FS_Subset, FS_CardinalityType, Zenon

\* Disjoint sets have disjoint units.
LEMMA UnitsOfUnion ==
  ASSUME NEW S, NEW T, IsFiniteSet(S), IsFiniteSet(T), S \cap T = {},
         NEW b, NEW M \in Nat
  PROVE  Cardinality(Units(S \cup T, b, M)) =
           Cardinality(Units(S, b, M)) + Cardinality(Units(T, b, M))
<1> DEFINE A == Units(S, b, M)
           B == Units(T, b, M)
<1>1. Units(S \cup T, b, M) = A \cup B
  BY Zenon DEF Units
<1>2. A \cap B = {}
  BY Zenon DEF Units
<1>3. /\ IsFiniteSet(A) /\ Cardinality(A) \in Nat
      /\ IsFiniteSet(B) /\ Cardinality(B) \in Nat
  BY UnitsAreFinite, Zenon
<1> HIDE DEF A, B
<1>4. Cardinality(A \cup B) = Cardinality(A) + Cardinality(B) - Cardinality(A \cap B)
  BY <1>3, FS_Union, Zenon
<1>5. Cardinality(A \cap B) = 0
  BY <1>2, FS_EmptySet, Zenon
<1>6. Cardinality(A \cup B) = Cardinality(A) + Cardinality(B)
  BY <1>3, <1>4, <1>5
<1> QED
  BY <1>1, <1>6, Zenon DEF A, B

\* One more element adds its units.
LEMMA UnitsOfOneMore ==
  ASSUME NEW S, IsFiniteSet(S), NEW x, x \notin S, NEW b, NEW M \in Nat, b[x] \in 0..M
  PROVE  Cardinality(Units(S \cup {x}, b, M)) = Cardinality(Units(S, b, M)) + b[x]
<1>1. Units({x}, b, M) = {x} \X (1..b[x])
  BY DEF Units
<1>2. Cardinality({x} \X (1..b[x])) = b[x]
  <2>1. b[x] \in Nat
    OBVIOUS
  <2> QED
    BY <2>1, RowSize, Zenon
<1>3. IsFiniteSet({x}) /\ S \cap {x} = {}
  BY FS_Singleton, Zenon
<1>4. Cardinality(Units(S \cup {x}, b, M)) =
        Cardinality(Units(S, b, M)) + Cardinality(Units({x}, b, M))
  BY <1>3, UnitsOfUnion
<1> QED
  BY <1>1, <1>2, <1>4, Zenon

\* The bytes mal_executor_client_shutdown subtracts are those of the jobs it drops.
LEMMA BytesUnits ==
  ASSUME NEW q \in Seq(Jobs), Distinct(q), NEW I \in SUBSET (1..Len(q))
  PROVE  Bytes(q, I) = Cardinality(Units({q[i] : i \in I}, QueuedBytes, MaxQueueBytes))
<1> DEFINE A == {p \in I \X (1..MaxQueueBytes) : p[2] <= QueuedBytes[q[p[1]]]}
           B == Units({q[i] : i \in I}, QueuedBytes, MaxQueueBytes)
           f == [p \in A |-> <<q[p[1]], p[2]>>]
<1>1. f \in [A -> B]
  BY Zenon DEF Units
<1>2. \A s, t \in A : f[s] = f[t] => s = t
  <2> SUFFICES ASSUME NEW s \in A, NEW t \in A, f[s] = f[t]
               PROVE  s = t
    BY Zenon
  <2>1. q[s[1]] = q[t[1]] /\ s[2] = t[2] /\ s[1] \in 1..Len(q) /\ t[1] \in 1..Len(q)
    BY Zenon
  <2>2. s[1] = t[1]
    BY <2>1, Zenon DEF Distinct
  <2> QED
    BY <2>1, <2>2
<1>3. \A t \in B : \E p \in A : f[p] = t
  <2> SUFFICES ASSUME NEW t \in B PROVE \E p \in A : f[p] = t
    BY Zenon
  <2>1. PICK i \in I : t[1] = q[i]
    BY Zenon DEF Units
  <2>2. <<i, t[2]>> \in A /\ f[<<i, t[2]>>] = t
    BY <2>1 DEF Units
  <2> QED
    BY <2>2, Zenon
<1>4. IsFiniteSet(A)
  <2>1. Len(q) \in Nat
    OBVIOUS
  <2>2. IsFiniteSet(I)
    BY <2>1, IntervalSize, FS_Subset, Zenon
  <2>3. IsFiniteSet(I \X (1..MaxQueueBytes))
    BY <2>2, IntervalSize, FS_Product, LimitsAssumption, Zenon
  <2>4. A \in SUBSET (I \X (1..MaxQueueBytes))
    BY Zenon
  <2> QED
    BY <2>3, <2>4, FS_Subset, Zenon
<1>5. Bytes(q, I) = Cardinality(A)
  BY Zenon DEF Bytes
<1> HIDE DEF A, B, f
<1>6. f \in Bijection(A, B)
  BY <1>1, <1>2, <1>3, Zenon DEF Bijection, Injection, Surjection, IsInjective
<1>7. ExistsBijection(A, B)
  BY <1>6, Zenon DEF ExistsBijection
<1> QED
  BY <1>4, <1>5, <1>7, FS_Bijection, Zenon DEF B

\* The facts about sizes that the steps of the pool assume.
LEMMA CountingHolds == Counting
<1>1. SetSizes
  <2>1. IsFiniteSet({}) /\ Cardinality({}) = 0
    BY FS_EmptySet, Zenon
  <2>2. ASSUME NEW S, IsFiniteSet(S)
        PROVE  Cardinality(S) \in Nat /\ (Cardinality(S) = 0 <=> S = {})
    BY <2>2, FS_CardinalityType, FS_EmptySet, Zenon
  <2>3. ASSUME NEW S, NEW T, IsFiniteSet(S), T \subseteq S
        PROVE  IsFiniteSet(T)
    BY <2>3, FS_Subset, Zenon
  <2>4. ASSUME NEW S, NEW x, IsFiniteSet(S), x \notin S
        PROVE  Cardinality(S \cup {x}) = Cardinality(S) + 1
    BY <2>4, FS_AddElement, Zenon
  <2>5. ASSUME NEW S, NEW T, IsFiniteSet(S), IsFiniteSet(T), S \cap T = {}
        PROVE  Cardinality(S \cup T) = Cardinality(S) + Cardinality(T)
    <3>1. Cardinality(S \cup T) = Cardinality(S) + Cardinality(T) - Cardinality(S \cap T)
      BY <2>5, FS_Union, Zenon
    <3>2. Cardinality(S \cap T) = 0 /\ Cardinality(S) \in Nat /\ Cardinality(T) \in Nat
      BY <2>5, FS_EmptySet, FS_CardinalityType, Zenon
    <3> QED
      BY <3>1, <3>2
  <2> QED
    BY <2>1, <2>2, <2>3, <2>4, <2>5, Zenon DEF SetSizes
<1>2. UnitSizes
  <2> SUFFICES ASSUME NEW M \in Nat
               PROVE  /\ \A S, b : IsFiniteSet(S) => Cardinality(Units(S, b, M)) \in Nat
                      /\ \A S, b, x : IsFiniteSet(S) /\ x \notin S /\ b[x] \in 0..M =>
                           Cardinality(Units(S \cup {x}, b, M)) =
                             Cardinality(Units(S, b, M)) + b[x]
                      /\ \A S, T, b : IsFiniteSet(S) /\ IsFiniteSet(T) /\ S \cap T = {} =>
                           Cardinality(Units(S \cup T, b, M)) =
                             Cardinality(Units(S, b, M)) + Cardinality(Units(T, b, M))
    BY Zenon DEF UnitSizes
  <2>1. \A S, b : IsFiniteSet(S) => Cardinality(Units(S, b, M)) \in Nat
    BY UnitsAreFinite, Zenon
  <2>2. \A S, b, x : IsFiniteSet(S) /\ x \notin S /\ b[x] \in 0..M =>
          Cardinality(Units(S \cup {x}, b, M)) = Cardinality(Units(S, b, M)) + b[x]
    BY UnitsOfOneMore, Zenon
  <2>3. \A S, T, b : IsFiniteSet(S) /\ IsFiniteSet(T) /\ S \cap T = {} =>
          Cardinality(Units(S \cup T, b, M)) =
            Cardinality(Units(S, b, M)) + Cardinality(Units(T, b, M))
    BY UnitsOfUnion
  <2> QED
    BY <2>1, <2>2, <2>3, Zenon
<1>3. CellSizes
  <2> SUFFICES ASSUME NEW q \in Seq(Jobs), Distinct(q), NEW I \in SUBSET (1..Len(q))
               PROVE  /\ IsFiniteSet({q[i] : i \in I})
                      /\ Cardinality({q[i] : i \in I}) = Cardinality(I)
                      /\ Bytes(q, I) =
                           Cardinality(Units({q[i] : i \in I}, QueuedBytes, MaxQueueBytes))
    BY Zenon DEF CellSizes
  <2>1. IsFiniteSet({q[i] : i \in I}) /\ Cardinality({q[i] : i \in I}) = Cardinality(I)
    BY ListSize, Zenon
  <2>2. Bytes(q, I) = Cardinality(Units({q[i] : i \in I}, QueuedBytes, MaxQueueBytes))
    BY BytesUnits, Zenon
  <2> QED
    BY <2>1, <2>2, Zenon
<1> QED
  BY <1>1, <1>2, <1>3, Zenon DEF Counting

-----------------------------------------------------------------------------
(* The theorems. *)

\* The initial state satisfies the invariant.
LEMMA InitHolds == Init => IInv
<1> SUFFICES ASSUME Init PROVE IInv
  OBVIOUS
<1> USE DEF Init
<1>1. TypeOK
  BY DEF TypeOK, PCs, Phases, Fates
<1>2. \A c \in Clients : \A y : ~Listed(queue[c], y) /\ ~Listed(discards[c], y) /\ ~Listed(ready, y)
  BY DEF Listed
<1>3. Threads /\ Fits /\ MustRunSurvives /\ NoStall
  BY NamesAssumption, LimitsAssumption DEF Threads, Fits, MustRunSurvives, NoStall
<1>4. ReadyExact
  BY DEF ReadyExact, Distinct, Listed
<1>5. OnePlace
  BY <1>2, NamesAssumption DEF OnePlace, Distinct
<1>6. Accounting
  <2>1. QueuedJobs = {} /\ QueuedUnits(QueuedJobs) = {} /\ WorkingUnits = {}
    BY DEF QueuedJobs, QueuedUnits, WorkingUnits
  <2>2. \A c \in Clients : RunningFor(c) = {} /\ Len(queue[c]) = 0
    BY DEF RunningFor
  <2>3. /\ Cardinality(QueuedJobs) = 0 /\ Cardinality(QueuedUnits(QueuedJobs)) = 0
        /\ Cardinality(WorkingUnits) = 0
        /\ \A c \in Clients : Cardinality(RunningFor(c)) = 0
    BY <2>1, <2>2, CountingHolds, EmptySize, Zenon
  <2>4. \A c \in Clients : Concurrency[c] \in Nat /\ QueueCapacity[c] \in Nat
    BY LimitsAssumption
  <2> QED
    BY <2>2, <2>3, <2>4, LimitsAssumption DEF Accounting
<1>7. Teardown
  BY <1>2 DEF Teardown
<1>8. Registry
  <2>1. Registered = {}
    BY DEF Registered
  <2> QED
    BY <2>1, CountingHolds, EmptySize DEF Registry
<1> QED
  BY <1>1, <1>3, <1>4, <1>5, <1>6, <1>7, <1>8 DEF IInv

\* Every step keeps the invariant.
LEMMA NextKeeps == IInv /\ [Next]_vars => IInv'
<1> SUFFICES ASSUME IInv, [Next]_vars PROVE IInv'
  OBVIOUS
<1>1. ASSUME NEW c \in Clients, ClientInit(c) PROVE IInv'
  BY <1>1, CountingHolds, ClientInitKeeps
<1>2. ASSUME NEW c \in Clients, NEW j \in Jobs, Submit(c, j) PROVE IInv'
  BY <1>2, CountingHolds, SubmitKeeps
<1>3. ASSUME NEW c \in Clients, NEW j \in Jobs, Cancel(c, j) PROVE IInv'
  BY <1>3, CountingHolds, CancelKeeps
<1>4. ASSUME NEW c \in Clients, Shutdown(c) PROVE IInv'
  BY <1>4, CountingHolds, ShutdownKeeps
<1>5. ASSUME NEW c \in Clients, Discard(c) PROVE IInv'
  BY <1>5, DiscardKeeps
<1>6. ASSUME NEW c \in Clients, Discarded(c) PROVE IInv'
  BY <1>6, DiscardedKeeps
<1>7. ASSUME NEW c \in Clients, Drain(c) PROVE IInv'
  BY <1>7, DrainKeeps
<1>8. ASSUME NEW c \in Clients, ClientFree(c) PROVE IInv'
  BY <1>8, ClientFreeKeeps
<1>9. ASSUME NEW c \in Clients, Unregister(c) PROVE IInv'
  BY <1>9, CountingHolds, UnregisterKeeps
<1>10. ASSUME NEW c \in Clients, Join(c) PROVE IInv'
  BY <1>10, JoinKeeps
<1>11. ASSUME NEW w \in Workers, Lock(w) PROVE IInv'
  BY <1>11, LockKeeps
<1>12. ASSUME NEW w \in Workers, NEW i \in 1..Len(ready), Take(w, i) PROVE IInv'
  BY <1>12, CountingHolds, TakeKeeps
<1>13. ASSUME NEW w \in Workers, Rest(w) PROVE IInv'
  BY <1>13, CountingHolds, RestKeeps
<1>14. ASSUME NEW w \in Workers, Settle(w) PROVE IInv'
  BY <1>14, CountingHolds, SettleKeeps
<1>15. CASE UNCHANGED vars
  <2> USE <1>15 DEF vars, poolVars, workerVars, clientVars, countVars
  <2>1. TypeOK' /\ Threads' /\ Teardown'
    BY DEF IInv, TypeOK, Threads, Teardown
  <2>2. ReadyExact' /\ OnePlace' /\ Fits' /\ Accounting' /\ MustRunSurvives'
    BY QuietKept
  <2>3. Registry'
    BY RegistryKept DEF IInv
  <2>4. NoStall'
    BY DEF IInv, NoStall
  <2> QED
    BY <2>1, <2>2, <2>3, <2>4 DEF IInv
<1> QED
  BY <1>1, <1>2, <1>3, <1>4, <1>5, <1>6, <1>7, <1>8, <1>9, <1>10, <1>11, <1>12, <1>13,
     <1>14, <1>15 DEF Next

\* IInv holds in every reachable state of the pool.
THEOREM Invariance == Spec => []IInv
  BY InitHolds, NextKeeps, PTL DEF Spec

\* Every field keeps its type: no unsigned counter of executor.c wraps below zero, for
\* any number of clients, jobs and workers.
THEOREM TypeCorrect == Spec => []TypeOK
<1>1. IInv => TypeOK
  BY DEF IInv
<1> QED
  BY <1>1, Invariance, PTL

\* The ready list holds exactly the clients with queued work, once each.
THEOREM ReadyListExact == Spec => []ReadyExact
<1>1. IInv => ReadyExact
  BY DEF IInv
<1> QED
  BY <1>1, Invariance, PTL

\* Queued work never meets a pool whose workers all wait.
THEOREM NoLostWakeup == Spec => []NoStall
<1>1. IInv => NoStall
  BY DEF IInv
<1> QED
  BY <1>1, Invariance, PTL

\* The counters agree with the lists and threads and keep every limit.
THEOREM CountersExact == Spec => []Accounting
<1>1. IInv => Accounting
  BY DEF IInv
<1> QED
  BY <1>1, Invariance, PTL

\* Each accepted payload is in one place only.
THEOREM PayloadsInOnePlace == Spec => []OnePlace
<1>1. IInv => OnePlace
  BY DEF IInv
<1> QED
  BY <1>1, Invariance, PTL

\* Teardown never discards a must_run job.
THEOREM MustRunJobsSurvive == Spec => []MustRunSurvives
<1>1. IInv => MustRunSurvives
  BY DEF IInv
<1> QED
  BY <1>1, Invariance, PTL

\* No thread uses a freed client or pool.
THEOREM NoUseAfterFree == Spec => []Lifetime
<1>1. IInv => Lifetime
  <2> SUFFICES ASSUME IInv PROVE Lifetime
    OBVIOUS
  <2>1. ASSUME NEW w \in Workers, pc[w] = "run" PROVE HasState(jobClient[w])
    <3>1. jobClient[w] \in Clients /\ w \in RunningFor(jobClient[w])
      BY <2>1 DEF IInv, TypeOK, Threads, RunningFor
    <3>2. running[jobClient[w]] # 0
      BY <3>1, RunningFinite, CountingHolds, EmptySize DEF IInv, Accounting
    <3> QED
      BY <3>1, <3>2 DEF IInv, Teardown, HasState
  <2>2. ASSUME NEW i \in 1..Len(ready) PROVE HasState(ready[i])
    <3>1. ready[i] \in Clients /\ Listed(ready, ready[i])
      BY DEF IInv, TypeOK, Listed
    <3> QED
      BY <3>1 DEF IInv, ReadyExact, Teardown, HasState
  <2>3. ASSUME pool # "live" PROVE \A c \in Clients : ~HasState(c)
    BY <2>3 DEF IInv, Registry, Registered, HasState
  <2>4. pool = "absent" => \A w \in Workers : pc[w] = "absent"
    BY DEF IInv, Registry
  <2> QED
    BY <2>1, <2>2, <2>3, <2>4 DEF Lifetime
<1> QED
  BY <1>1, Invariance, PTL

-----------------------------------------------------------------------------
(* The remaining steps are steps of the contract, or are not seen.            *)

\* mal_executor_client_shutdown closes the client of the contract.
LEMMA ShutdownCloses ==
  ASSUME IInv, NEW c \in Clients, Shutdown(c)
  PROVE  Contract!Close(c)
<1>1. /\ phase[c] = "open" /\ phase' = [phase EXCEPT ![c] = "discarding"] /\ pc' = Broadcast(pc)
      /\ UNCHANGED <<job, jobClient>>
  BY DEF Shutdown
<1>2. phase'[c] = "discarding" /\ \A d \in Clients \ {c} : phase'[d] = phase[d]
  BY <1>1 DEF IInv, TypeOK
<1>3. Client[c] = "open" /\ Client'[c] = "closing"
  BY <1>1, <1>2 DEF Client
<1>4. Client' = [Client EXCEPT ![c] = "closing"]
  BY <1>2, <1>3, ClientMoves
<1>5. discards[c] = <<>>
  BY <1>1 DEF IInv, Teardown
<1>6. \A k : ~Listed(discards[c], k)
  BY <1>5, EmptyCells DEF IInv, TypeOK
<1>7. ASSUME NEW d \in Clients
      PROVE  Pending'[d] = Pending[d]
  <2>1. CASE d = c
    BY <1>6, <2>1, ShutdownSplit, Zenon DEF Pending
  <2>2. CASE d # c
    BY <2>2, ShutdownSplit DEF Pending
  <2> QED
    BY <2>1, <2>2
<1>8. Pending' = Pending
  BY <1>7, Zenon DEF Pending
<1>9. Active' = Active
  <2>1. Woken(pc, pc')
    BY <1>1, BroadcastWakes, Zenon DEF IInv, TypeOK
  <2> QED
    BY <1>1, <2>1, ActiveKept DEF Woken
<1>10. ASSUME NEW k \in Jobs
       PROVE  Done'[k] = Done[k]
  <2>1. fate'[k] = fate[k] \/ (fate'[k] = "dropped" /\ \E i \in 1..Len(queue[c]) : queue[c][i] = k)
    BY DEF Shutdown
  <2>2. Listed(queue[c], k) => fate[k] = "queued"
    BY DEF IInv, OnePlace
  <2> QED
    BY <2>1, <2>2 DEF Listed, Done
<1>11. Done' = Done
  BY <1>10, Zenon DEF Done
<1> QED
  BY <1>3, <1>4, <1>8, <1>9, <1>11, Zenon DEF Contract!Close, Client, Pending, Active, Done

\* Teardown returns when the client has no job left.
LEMMA DrainCloses ==
  ASSUME Counting, IInv, NEW c \in Clients, Drain(c)
  PROVE  Contract!Closed(c) \/ UNCHANGED <<Client, Pending, Active, Done>>
<1> USE DEF Drain, workerVars
<1>1. Pending' = Pending /\ Active' = Active /\ Done' = Done
  BY PendingKept, ActiveKept, DoneKept
<1>2. \A d \in Clients \ {c} : phase'[d] = phase[d]
  BY DEF IInv, TypeOK
<1>3. CASE Busy(c)
  <2>1. phase'[c] = "settling"
    BY <1>3 DEF IInv, TypeOK
  <2>2. Client' = Client
    BY <1>2, <2>1, ClientKept
  <2> QED
    BY <1>1, <2>2
<1>4. CASE ~Busy(c)
  <2>1. phase'[c] = "drained"
    BY <1>4 DEF IInv, TypeOK
  <2>2. Client[c] = "closing" /\ Client'[c] = "absent"
    BY <2>1 DEF Client
  <2>3. Client' = [Client EXCEPT ![c] = "absent"]
    BY <1>2, <2>2, ClientMoves
  <2>4. queue[c] = <<>> /\ running[c] = 0 /\ discards[c] = <<>>
    BY <1>4 DEF Busy, IInv, Teardown
  <2>5. Pending[c] = {}
    BY <2>4, EmptyCells DEF Pending, IInv, TypeOK
  <2>6. RunningFor(c) = {}
    BY <2>4, RunningFinite, EmptySize DEF IInv, Accounting
  <2>7. Active[c] = {}
    BY <2>6 DEF Active
  <2> QED
    BY <1>1, <2>2, <2>3, <2>5, <2>7, Zenon DEF Contract!Closed, Client, Pending, Active, Done
<1> QED
  BY <1>3, <1>4

\* mal_executor_client_init opens a client of the contract.
LEMMA ClientInitOpens ==
  ASSUME IInv, NEW c \in Clients, ClientInit(c)
  PROVE  Contract!Open(c)
<1> USE DEF ClientInit
<1>1. phase[c] = "none" /\ phase'[c] = "open" /\ \A d \in Clients \ {c} : phase'[d] = phase[d]
  BY Zenon DEF IInv, TypeOK
<1>2. Client[c] = "absent" /\ Client'[c] = "open"
  BY <1>1, Zenon DEF Client
<1>3. Client' = [Client EXCEPT ![c] = "open"]
  BY <1>1, <1>2, ClientMoves, Zenon
<1>4. \A w \in Workers : pc'[w] = "run" <=> pc[w] = "run"
  BY Zenon DEF IInv, TypeOK, Registry
<1>5. Pending' = Pending /\ Active' = Active /\ Done' = Done
  BY <1>4, PendingKept, ActiveKept, DoneKept
<1> QED
  BY <1>2, <1>3, <1>5, Zenon DEF Contract!Open, Client, Pending, Active, Done

\* The other steps of a client are not seen.
LEMMA ClientHides ==
  ASSUME IInv, NEW c \in Clients, Discarded(c) \/ ClientFree(c) \/ Unregister(c) \/ Join(c)
  PROVE  UNCHANGED <<Client, Pending, Active, Done>>
<1>1. /\ phase \in [Clients -> Phases] /\ pc \in [Workers -> PCs]
      /\ UNCHANGED <<queue, discards, job, jobClient, fate>>
  BY Zenon DEF IInv, TypeOK, Discarded, ClientFree, Unregister, Join, workerVars
<1>2. \/ phase[c] = "discarding" /\ phase' = [phase EXCEPT ![c] = "draining"]
      \/ phase[c] = "drained" /\ phase' = [phase EXCEPT ![c] = "released"]
      \/ phase[c] = "released" /\ phase' = [phase EXCEPT ![c] = "none"]
      \/ phase[c] = "released" /\ phase' = [phase EXCEPT ![c] = "joining"]
      \/ phase[c] = "joining" /\ phase' = [phase EXCEPT ![c] = "none"]
  BY Zenon DEF Discarded, ClientFree, Unregister, Join
<1>3. Client' = Client
  <2>1. \A d \in Clients \ {c} : phase'[d] = phase[d]
    BY <1>1, <1>2, Zenon
  <2>2. \/ phase[c] = "discarding" /\ phase'[c] = "draining"
        \/ phase[c] = "drained" /\ phase'[c] = "released"
        \/ phase[c] = "released" /\ phase'[c] = "none"
        \/ phase[c] = "released" /\ phase'[c] = "joining"
        \/ phase[c] = "joining" /\ phase'[c] = "none"
    BY <1>1, <1>2, Zenon
  <2> QED
    BY <2>1, <2>2, ClientKept, Zenon
<1>4. \/ pc' = pc
      \/ pc' = Broadcast(pc)
      \/ \A w \in Workers : pc[w] \in {"absent", "exited"} /\ pc'[w] = "absent"
  BY Zenon DEF Discarded, ClientFree, Unregister, Join, workerVars
<1>5. \A w \in Workers : pc'[w] = "run" <=> pc[w] = "run"
  BY <1>1, <1>4, BroadcastWakes DEF Woken
<1> QED
  BY <1>1, <1>3, <1>5, PendingKept, ActiveKept, DoneKept

\* Nor are those of a worker between two jobs.
LEMMA WorkerHides ==
  ASSUME IInv, NEW w \in Workers, Lock(w) \/ Rest(w)
  PROVE  UNCHANGED <<Client, Pending, Active, Done>>
<1>1. UNCHANGED <<phase, queue, discards, job, jobClient, fate>>
  BY Zenon DEF Lock, Rest, clientVars
<1>2. \A v \in Workers : pc'[v] = "run" <=> pc[v] = "run"
  BY Zenon DEF IInv, TypeOK, Lock, Rest
<1> QED
  BY <1>1, <1>2, ClientKept, PendingKept, ActiveKept, DoneKept, Zenon

\* The initial states map to initial states of the contract.
LEMMA InitMaps == Init => Contract!Init
<1> SUFFICES ASSUME Init PROVE Contract!Init
  BY Zenon
<1> USE DEF Init
<1>1. \A c \in Clients : Client[c] = "absent"
  BY Zenon DEF Client
<1>2. \A c \in Clients : Pending[c] = {}
  BY DEF Pending, Listed
<1>3. \A c \in Clients : Active[c] = {}
  BY Zenon DEF Active, RunningFor
<1>4. \A j \in Jobs : Done[j] = "no"
  BY Zenon DEF Done
<1> QED
  BY <1>1, <1>2, <1>3, <1>4, Zenon DEF Contract!Init, Client, Pending, Active, Done

\* Every step maps to a step of the contract, or to none.
LEMMA NextMaps == IInv /\ [Next]_vars => [Contract!Next]_(Contract!vars)
<1> DEFINE Hidden == UNCHANGED <<Client, Pending, Active, Done>>
<1> SUFFICES ASSUME IInv, [Next]_vars PROVE Contract!Next \/ Hidden
  BY Zenon DEF Contract!vars, Client, Pending, Active, Done
<1> HIDE DEF Hidden
<1>1. ASSUME NEW c \in Clients, ClientInit(c) PROVE Contract!Next
  BY <1>1, ClientInitOpens, Zenon DEF Contract!Next
<1>2. ASSUME NEW c \in Clients, NEW j \in Jobs, Submit(c, j) PROVE Contract!Next
  BY <1>2, SubmitAccepts, Zenon DEF Contract!Next
<1>3. ASSUME NEW c \in Clients, NEW j \in Jobs, Cancel(c, j) PROVE Contract!Next
  BY <1>3, CancelReturns, Zenon DEF Contract!Next
<1>4. ASSUME NEW c \in Clients, Shutdown(c) PROVE Contract!Next
  BY <1>4, ShutdownCloses, Zenon DEF Contract!Next
<1>5. ASSUME NEW c \in Clients, Discard(c) PROVE Contract!Next
  BY <1>5, DiscardDrops, Zenon DEF Contract!Next
<1>6. ASSUME NEW c \in Clients, Drain(c) PROVE Contract!Next \/ Hidden
  BY <1>6, CountingHolds, DrainCloses, Zenon DEF Contract!Next, Hidden
<1>7. ASSUME NEW c \in Clients, Discarded(c) \/ ClientFree(c) \/ Unregister(c) \/ Join(c)
      PROVE  Hidden
  BY <1>7, ClientHides, Zenon DEF Hidden
<1>8. ASSUME NEW w \in Workers, Lock(w) \/ Rest(w) PROVE Hidden
  BY <1>8, WorkerHides, Zenon DEF Hidden
<1>9. ASSUME NEW w \in Workers, NEW i \in 1..Len(ready), Take(w, i) PROVE Contract!Next
  BY <1>9, TakeStarts, Zenon DEF Contract!Next
<1>10. ASSUME NEW w \in Workers, Settle(w) PROVE Contract!Next
  BY <1>10, SettleFinishes, Zenon DEF Contract!Next
<1>11. CASE UNCHANGED vars
  <2>1. UNCHANGED <<phase, queue, discards, fate, job, jobClient, pc>>
    BY <1>11, Zenon DEF vars, poolVars, workerVars, clientVars, countVars
  <2> QED
    BY <2>1, ClientKept, PendingKept, ActiveKept, DoneKept DEF Hidden
<1> QED
  BY <1>1, <1>2, <1>3, <1>4, <1>5, <1>6, <1>7, <1>8, <1>9, <1>10, <1>11 DEF Next

\* Every behaviour of the pool is a behaviour of the contract of executor.h: an accepted
\* payload ends exactly once, only teardown discards, never a must_run job, and
\* mal_executor_client_shutdown returns only when its client has no job left.
THEOREM Refinement == Spec => ImplementsContract
  BY InitMaps, NextMaps, Invariance, PTL DEF Spec, Contract!Spec, ImplementsContract
=============================================================================
