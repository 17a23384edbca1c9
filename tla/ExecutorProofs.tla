--------------------------- MODULE ExecutorProofs ---------------------------
(***************************************************************************)
(* Proofs about the helper pool, for any number of clients, jobs, workers  *)
(* and any limits.  IInv is the inductive invariant: the properties of     *)
(* module Executor strengthened with what they rest on.                    *)
(***************************************************************************)
EXTENDS Executor, ListProofs

\* The worker inside the mutex scans, and only a running worker holds a job.
Threads ==
  /\ \A w \in Workers : pc[w] = "scan" <=> mutex = w
  /\ \A w \in Workers : pc[w] = "run" <=> job[w] # Idle
  /\ \A w \in Workers : pc[w] = "run" <=> jobClient[w] # Idle

\* Accepted jobs fit the limits on their own.
Fits ==
  \A j \in Jobs : fate[j] \in {"queued", "running"} =>
    QueuedBytes[j] <= MaxQueueBytes /\ WorkingBytes[j] <= MaxWorkingBytes

\* Where a client may have jobs while it is set up and torn down.
Teardown ==
  \A c \in Clients :
    /\ accepting[c] <=> phase[c] = "open"
    /\ ~accepting[c] => \A j \in Jobs : Listed(queue[c], j) => j \in MustRun
    /\ phase[c] \in {"none", "drained", "released", "joining"} =>
         queue[c] = <<>> /\ running[c] = 0
    /\ discards[c] # <<>> => phase[c] = "discarding"
    /\ \A j \in Jobs : Listed(discards[c], j) => j \notin MustRun

\* The clients counted in pool->clients.
Registered == {c \in Clients : phase[c] \notin {"none", "joining"}}

\* The registry and the pool's life.
Registry ==
  /\ clients = Cardinality(Registered)
  /\ pool = "live" <=> Registered # {}
  /\ pool = "stopping" <=> \E c \in Clients : phase[c] = "joining"
  /\ \A c, d \in Clients : phase[c] = "joining" /\ phase[d] = "joining" => c = d
  /\ pool = "absent" => \A w \in Workers : pc[w] = "absent"
  /\ pool = "live" =>
       /\ \E w \in Workers : pc[w] # "absent"
       /\ \A w \in Workers : pc[w] # "exited"

IInv ==
  /\ TypeOK
  /\ Threads
  /\ ReadyExact
  /\ OnePlace
  /\ Fits
  /\ Accounting
  /\ Teardown
  /\ MustRunSurvives
  /\ Registry
  /\ NoStall

-----------------------------------------------------------------------------
(* Counting.  Sizes of sets are facts of the library on finite sets.  The      *)
(* steps of the pool take the few they need as an assumption, which module     *)
(* ExecutorTheorems discharges.                                                *)

\* One pair per unit of b on S.
Units(S, b, M) == {p \in S \X (1..M) : p[2] <= b[p[1]]}

\* Sizes of sets.
SetSizes ==
  /\ IsFiniteSet({}) /\ Cardinality({}) = 0
  /\ \A S : IsFiniteSet(S) => Cardinality(S) \in Nat /\ (Cardinality(S) = 0 <=> S = {})
  /\ \A S, T : IsFiniteSet(S) /\ T \subseteq S => IsFiniteSet(T)
  /\ \A S, x : IsFiniteSet(S) /\ x \notin S => Cardinality(S \cup {x}) = Cardinality(S) + 1
  /\ \A S, T : IsFiniteSet(S) /\ IsFiniteSet(T) /\ S \cap T = {} =>
       Cardinality(S \cup T) = Cardinality(S) + Cardinality(T)

\* Sums of bytes as numbers of units.
UnitSizes ==
  \A M \in Nat :
    /\ \A S, b : IsFiniteSet(S) => Cardinality(Units(S, b, M)) \in Nat
    /\ \A S, b, x : IsFiniteSet(S) /\ x \notin S /\ b[x] \in 0..M =>
         Cardinality(Units(S \cup {x}, b, M)) = Cardinality(Units(S, b, M)) + b[x]
    /\ \A S, T, b : IsFiniteSet(S) /\ IsFiniteSet(T) /\ S \cap T = {} =>
         Cardinality(Units(S \cup T, b, M)) =
           Cardinality(Units(S, b, M)) + Cardinality(Units(T, b, M))

\* The jobs of a list at some of its indices, and their bytes.
CellSizes ==
  \A q \in Seq(Jobs) : Distinct(q) => \A I \in SUBSET (1..Len(q)) :
    /\ IsFiniteSet({q[i] : i \in I})
    /\ Cardinality({q[i] : i \in I}) = Cardinality(I)
    /\ Bytes(q, I) = Cardinality(Units({q[i] : i \in I}, QueuedBytes, MaxQueueBytes))

Counting == SetSizes /\ UnitSizes /\ CellSizes

\* The empty set.
LEMMA EmptySize ==
  ASSUME Counting
  PROVE  /\ IsFiniteSet({}) /\ Cardinality({}) = 0
         /\ \A S : IsFiniteSet(S) => (Cardinality(S) = 0 <=> S = {})
  BY Zenon DEF Counting, SetSizes

\* Sizes are natural numbers.
LEMMA SizeIsNat ==
  ASSUME Counting, NEW S, IsFiniteSet(S)
  PROVE  Cardinality(S) \in Nat
  BY Zenon DEF Counting, SetSizes

\* Parts of a finite set.
LEMMA SubsetFinite ==
  ASSUME Counting, NEW S, IsFiniteSet(S), NEW U \in SUBSET S
  PROVE  IsFiniteSet(U)
  BY Zenon DEF Counting, SetSizes

\* One more element.
LEMMA AddOne ==
  ASSUME Counting, NEW S, IsFiniteSet(S), NEW x, x \notin S
  PROVE  Cardinality(S \cup {x}) = Cardinality(S) + 1
  BY Zenon DEF Counting, SetSizes

\* One element less.
LEMMA RemoveOne ==
  ASSUME Counting, NEW S, IsFiniteSet(S), NEW x \in S
  PROVE  IsFiniteSet(S \ {x}) /\ Cardinality(S \ {x}) = Cardinality(S) - 1
<1> DEFINE rest == S \ {x}
<1>1. rest \cup {x} = S /\ x \notin rest /\ rest \in SUBSET S
  BY Zenon
<1> HIDE DEF rest
<1>2. IsFiniteSet(rest)
  BY <1>1, SubsetFinite, Zenon
<1>3. Cardinality(rest) \in Nat
  BY <1>2, SizeIsNat, Zenon
<1>4. Cardinality(S) = Cardinality(rest) + 1
  BY <1>1, <1>2, AddOne, Zenon
<1>5. Cardinality(rest) = Cardinality(S) - 1
  BY <1>3, <1>4
<1> QED
  BY <1>2, <1>5, Zenon DEF rest

\* Two sets with nothing in common.
LEMMA UnionSize ==
  ASSUME Counting, NEW S, IsFiniteSet(S), NEW U, IsFiniteSet(U), S \cap U = {}
  PROVE  Cardinality(S \cup U) = Cardinality(S) + Cardinality(U)
  BY Zenon DEF Counting, SetSizes

\* A sum of bytes is a natural number.
LEMMA UnitsFinite ==
  ASSUME Counting, NEW S, IsFiniteSet(S), NEW b, NEW M \in Nat
  PROVE  Cardinality(Units(S, b, M)) \in Nat
  BY Zenon DEF Counting, UnitSizes

\* One more job adds its bytes.
LEMMA UnitsAdd ==
  ASSUME Counting, NEW S, IsFiniteSet(S), NEW x, x \notin S, NEW b, NEW M \in Nat, b[x] \in 0..M
  PROVE  Cardinality(Units(S \cup {x}, b, M)) = Cardinality(Units(S, b, M)) + b[x]
<1>1. \A T, d, y : IsFiniteSet(T) /\ y \notin T /\ d[y] \in 0..M =>
        Cardinality(Units(T \cup {y}, d, M)) = Cardinality(Units(T, d, M)) + d[y]
  BY Zenon DEF Counting, UnitSizes
<1> QED
  BY <1>1, Zenon

\* The bytes of two sets of jobs.
LEMMA UnitsUnion ==
  ASSUME Counting, NEW S, NEW U, IsFiniteSet(S), IsFiniteSet(U), S \cap U = {},
         NEW b, NEW M \in Nat
  PROVE  Cardinality(Units(S \cup U, b, M)) =
           Cardinality(Units(S, b, M)) + Cardinality(Units(U, b, M))
  BY DEF Counting, UnitSizes

\* The jobs at some indices of a queue.
LEMMA CellsCount ==
  ASSUME Counting, NEW q \in Seq(Jobs), Distinct(q), NEW I \in SUBSET (1..Len(q))
  PROVE  /\ IsFiniteSet({q[i] : i \in I})
         /\ Cardinality({q[i] : i \in I}) = Cardinality(I)
         /\ Bytes(q, I) = Cardinality(Units({q[i] : i \in I}, QueuedBytes, MaxQueueBytes))
  BY Zenon DEF Counting, CellSizes

\* Units depend on the values of b on S only.
LEMMA UnitsAgree ==
  ASSUME NEW S, NEW b, NEW d, NEW M, \A x \in S : b[x] = d[x]
  PROVE  Units(S, b, M) = Units(S, d, M)
  BY Zenon DEF Units

-----------------------------------------------------------------------------
(* The queues, the ready list and the queued bytes. *)

\* Queues are finite.
LEMMA QueueLengths ==
  ASSUME TypeOK, NEW c \in Clients
  PROVE  Len(queue[c]) \in Nat
<1>1. queue[c] \in Seq(Jobs)
  BY Zenon DEF TypeOK
<1> QED
  BY <1>1

\* mal_executor_ready_add lists its client when it has a job that may run, and changes
\* nothing else.
LEMMA ReadyAddCells ==
  ASSUME NEW list \in Seq(Clients), Distinct(list),
         NEW c \in Clients, NEW q \in Seq(Jobs), NEW runnable,
         \A j \in Jobs : Listed(q, j) => j \in runnable,
         NEW new, new = ReadyAdd(list, c, q, runnable)
  PROVE  /\ new \in Seq(Clients)
         /\ Distinct(new)
         /\ \A y : Listed(new, y) <=> Listed(list, y) \/ (y = c /\ q # <<>>)
<1>1. q # <<>> => Head(q) \in Jobs /\ Listed(q, Head(q))
  BY DEF Listed
<1>2. CASE Listed(list, c) \/ q = <<>>
  BY <1>2, Zenon DEF ReadyAdd
<1>3. CASE ~Listed(list, c) /\ q # <<>>
  <2>1. new = Append(list, c)
    BY <1>1, <1>3, Zenon DEF ReadyAdd
  <2> QED
    BY <1>3, <2>1, AppendCells
<1> QED
  BY <1>2, <1>3, Zenon

-----------------------------------------------------------------------------
(* Wake-ups. *)

\* Some waiters were woken and nothing else changed.
Woken(old, new) ==
  \A w \in Workers : new[w] = old[w] \/ (old[w] = "waiting" /\ new[w] = "start")

\* pthread_cond_signal wakes a worker that waits, if one does.
LEMMA SignalledWakes ==
  ASSUME NEW old \in [Workers -> PCs], NEW new \in Signalled(old)
  PROVE  /\ new \in [Workers -> PCs]
         /\ Woken(old, new)
         /\ (\E w \in Workers : old[w] = "waiting") => \E w \in Workers : new[w] = "start"
<1>1. CASE \E w \in Workers : old[w] = "waiting"
  <2>1. PICK w \in Workers : old[w] = "waiting" /\ new = [old EXCEPT ![w] = "start"]
    BY <1>1, Zenon DEF Signalled
  <2> QED
    BY <2>1, Zenon DEF Woken, PCs
<1>2. CASE ~ \E w \in Workers : old[w] = "waiting"
  BY <1>2, Zenon DEF Signalled, Woken
<1> QED
  BY <1>1, <1>2, Zenon

\* pthread_cond_broadcast leaves no worker waiting.
LEMMA BroadcastWakes ==
  ASSUME NEW old \in [Workers -> PCs]
  PROVE  /\ Broadcast(old) \in [Workers -> PCs]
         /\ Woken(old, Broadcast(old))
         /\ \A w \in Workers : Broadcast(old)[w] # "waiting"
  BY Zenon DEF Broadcast, Woken, PCs

\* A broadcast of pool->settled resumes the shutdowns that wait for it.
LEMMA SettledWakes ==
  ASSUME NEW old \in [Clients -> Phases]
  PROVE  /\ Settled(old) \in [Clients -> Phases]
         /\ \A c \in Clients :
              \/ Settled(old)[c] = old[c]
              \/ old[c] = "settling" /\ Settled(old)[c] = "draining"
  BY Zenon DEF Settled, Phases

-----------------------------------------------------------------------------
(* What the parts of the invariant depend on. *)

\* What Threads depends on.
LEMMA ThreadsKept ==
  ASSUME Threads, Woken(pc, pc'), UNCHANGED <<mutex, job, jobClient>>
  PROVE  Threads'
  BY Zenon DEF Threads, Woken

\* What the place of a job depends on.
LEMMA OnePlaceKept ==
  ASSUME OnePlace, UNCHANGED <<queue, discards, job, fate>>
  PROVE  OnePlace'
  BY Zenon DEF OnePlace

\* A step that moves one job that no worker runs into the queue of its client, or out of
\* the lists.
LEMMA OneJobMoves ==
  ASSUME OnePlace, NEW j \in Jobs, NEW c \in Clients, UNCHANGED job,
         \A d \in Clients : Distinct(queue'[d]) /\ Distinct(discards'[d]),
         \A d \in Clients, k \in Jobs : k # j => /\ Listed(queue'[d], k) <=> Listed(queue[d], k)
                                                 /\ Listed(discards'[d], k) <=> Listed(discards[d], k),
         \A k \in Jobs : k # j => fate'[k] = fate[k],
         \A w \in Workers : job[w] # j,
         \A d \in Clients : ~Listed(discards'[d], j) /\ (Listed(queue'[d], j) => d = c),
         fate'[j] \notin {"running", "dropped"}, fate'[j] = "queued" <=> Listed(queue'[c], j)
  PROVE  OnePlace'
<1>1. ASSUME NEW k \in Jobs, k # j
      PROVE  /\ fate'[k] = fate[k]
             /\ \A d \in Clients : /\ Listed(queue'[d], k) <=> Listed(queue[d], k)
                                   /\ Listed(discards'[d], k) <=> Listed(discards[d], k)
  BY <1>1, Zenon
<1>2. ASSUME NEW d \in Clients, NEW e \in Clients, d # e, NEW k \in Jobs
      PROVE  /\ ~(Listed(queue'[d], k) /\ Listed(queue'[e], k))
             /\ ~(Listed(discards'[d], k) /\ Listed(discards'[e], k))
  <2>1. CASE k = j
    <3>1. ~Listed(discards'[d], j) /\ (d = c \/ ~Listed(queue'[d], j))
      BY Zenon
    <3>2. e = c \/ ~Listed(queue'[e], j)
      BY Zenon
    <3> QED
      BY <1>2, <2>1, <3>1, <3>2, Zenon
  <2>2. CASE k # j
    <3>1. /\ Listed(queue'[d], k) <=> Listed(queue[d], k)
          /\ Listed(queue'[e], k) <=> Listed(queue[e], k)
          /\ Listed(discards'[d], k) <=> Listed(discards[d], k)
          /\ Listed(discards'[e], k) <=> Listed(discards[e], k)
      BY <1>1, <2>2, Zenon
    <3>2. /\ ~(Listed(queue[d], k) /\ Listed(queue[e], k))
          /\ ~(Listed(discards[d], k) /\ Listed(discards[e], k))
      BY <1>2, Zenon DEF OnePlace
    <3> QED
      BY <3>1, <3>2, Zenon
  <2> QED
    BY <2>1, <2>2, Zenon
<1>3. ASSUME NEW k \in Jobs
      PROVE  /\ fate'[k] = "queued" <=> \E d \in Clients : Listed(queue'[d], k)
             /\ fate'[k] = "dropped" <=> \E d \in Clients : Listed(discards'[d], k)
             /\ fate'[k] = "running" <=> \E w \in Workers : job'[w] = k
  <2>1. CASE k = j
    BY <2>1, Zenon
  <2>2. CASE k # j
    <3>1. /\ fate[k] = "queued" <=> \E d \in Clients : Listed(queue[d], k)
          /\ fate[k] = "dropped" <=> \E d \in Clients : Listed(discards[d], k)
          /\ fate[k] = "running" <=> \E w \in Workers : job[w] = k
      BY Zenon DEF OnePlace
    <3>2. /\ (\E d \in Clients : Listed(queue'[d], k)) <=> \E d \in Clients : Listed(queue[d], k)
          /\ (\E d \in Clients : Listed(discards'[d], k)) <=>
               \E d \in Clients : Listed(discards[d], k)
          /\ fate'[k] = fate[k] /\ job' = job
      BY <1>1, <2>2, Zenon
    <3> QED
      BY <3>1, <3>2, Zenon
  <2> QED
    BY <2>1, <2>2, Zenon
<1> QED
  BY <1>2, <1>3 DEF OnePlace

\* What the limits depend on.
LEMMA FitsKept ==
  ASSUME Fits, UNCHANGED fate
  PROVE  Fits'
  BY Zenon DEF Fits

\* RunningFor and WorkingUnits depend on the running workers.
LEMMA RunningKept ==
  ASSUME \A w \in Workers : pc'[w] = "run" <=> pc[w] = "run", UNCHANGED <<job, jobClient>>
  PROVE  /\ \A c \in Clients : RunningFor(c)' = RunningFor(c)
         /\ WorkingUnits' = WorkingUnits
  BY Zenon DEF RunningFor, WorkingUnits

\* What the counters depend on.
LEMMA AccountingKept ==
  ASSUME Accounting, UNCHANGED <<queue, running, countVars, fate, job, jobClient>>,
         \A w \in Workers : pc'[w] = "run" <=> pc[w] = "run"
  PROVE  Accounting'
<1>1. QueuedJobs' = QueuedJobs
  BY Zenon DEF QueuedJobs
<1>2. QueuedUnits(QueuedJobs)' = QueuedUnits(QueuedJobs)
  BY <1>1, Zenon DEF QueuedUnits
<1> QED
  BY <1>1, <1>2, RunningKept, Zenon DEF Accounting, countVars

\* What the registry depends on.
LEMMA RegistryKept ==
  ASSUME TypeOK, Registry, UNCHANGED poolVars,
         \A c \in Clients :
           \/ phase'[c] = phase[c]
           \/ {phase[c], phase'[c]} \cap {"none", "joining"} = {},
         \A w \in Workers :
           /\ pc'[w] = "absent" <=> pc[w] = "absent"
           /\ pc'[w] = "exited" => pc[w] = "exited" \/ pool = "stopping"
  PROVE  Registry'
<1>1. Registered' = Registered
  BY Zenon DEF Registered
<1>2. \A c \in Clients : phase'[c] = "joining" <=> phase[c] = "joining"
  BY Zenon
<1> QED
  BY <1>1, <1>2, Zenon DEF Registry, TypeOK, poolVars

\* Queued work lives in a pool with threads.
LEMMA ReadyLive ==
  ASSUME TypeOK, ReadyExact, Teardown, Registry, ready # <<>>
  PROVE  /\ pool = "live"
         /\ \E w \in Workers : pc[w] \in {"start", "scan", "waiting", "run"}
<1>1. PICK c \in Clients : Listed(ready, c)
  <2>1. PICK y : Listed(ready, y)
    BY EmptyCells, Zenon DEF TypeOK
  <2>2. y \in Clients
    BY <2>1 DEF Listed, TypeOK
  <2> QED
    BY <2>1, <2>2, Zenon
<1>2. queue[c] # <<>>
  BY <1>1, Zenon DEF ReadyExact
<1>3. phase[c] \notin {"none", "joining"}
  BY <1>2, Zenon DEF Teardown
<1>4. pool = "live"
  BY <1>3, Zenon DEF Registry, Registered
<1> QED
  BY <1>4, Zenon DEF Registry, TypeOK, PCs

\* What the wake-up argument depends on.
LEMMA NoStallKept ==
  ASSUME NoStall, ready' # <<>> => ready # <<>>, Woken(pc, pc')
  PROVE  NoStall'
  BY Zenon DEF NoStall, Woken

-----------------------------------------------------------------------------
(* The steps that change a queue are counted; mal_executor_submit.            *)

\* Counting one queued job more or less.
LEMMA QueuedMore ==
  ASSUME Counting, TypeOK, TypeOK', NEW j \in Jobs, fate[j] # "queued",
         fate' = [fate EXCEPT ![j] = "queued"], QueuedBytes[j] <= MaxQueueBytes
  PROVE  /\ Cardinality(QueuedJobs)' = Cardinality(QueuedJobs) + 1
         /\ Cardinality(QueuedUnits(QueuedJobs))' =
              Cardinality(QueuedUnits(QueuedJobs)) + QueuedBytes[j]
<1>1. QueuedJobs' = QueuedJobs \cup {j} /\ j \notin QueuedJobs
  BY Zenon DEF QueuedJobs, TypeOK
<1>2. IsFiniteSet(QueuedJobs) /\ QueuedBytes[j] \in 0..MaxQueueBytes
  BY NamesAssumption, LimitsAssumption, SubsetFinite DEF QueuedJobs
<1>3. Cardinality(QueuedJobs \cup {j}) = Cardinality(QueuedJobs) + 1
  BY <1>1, <1>2, AddOne, Zenon
<1>4. Cardinality(Units(QueuedJobs \cup {j}, QueuedBytes, MaxQueueBytes)) =
        Cardinality(Units(QueuedJobs, QueuedBytes, MaxQueueBytes)) + QueuedBytes[j]
  BY <1>1, <1>2, UnitsAdd, LimitsAssumption, Zenon
<1>5. /\ QueuedUnits(QueuedJobs)' = Units(QueuedJobs \cup {j}, QueuedBytes, MaxQueueBytes)
      /\ QueuedUnits(QueuedJobs) = Units(QueuedJobs, QueuedBytes, MaxQueueBytes)
  BY <1>1, Zenon DEF QueuedUnits, Units
<1> QED
  BY <1>1, <1>3, <1>4, <1>5, Zenon

\* One queued job less, and its bytes.
LEMMA QueuedFewer ==
  ASSUME Counting, TypeOK, NEW j \in Jobs, fate[j] = "queued", QueuedBytes[j] <= MaxQueueBytes,
         NEW f, f # "queued", fate' = [fate EXCEPT ![j] = f]
  PROVE  /\ Cardinality(QueuedJobs)' = Cardinality(QueuedJobs) - 1
         /\ Cardinality(QueuedUnits(QueuedJobs))' =
              Cardinality(QueuedUnits(QueuedJobs)) - QueuedBytes[j]
         /\ Cardinality(QueuedJobs)' \in Nat
         /\ Cardinality(QueuedUnits(QueuedJobs))' \in Nat
<1> DEFINE R == QueuedJobs \ {j}
<1>1. QueuedJobs' = R /\ QueuedJobs = R \cup {j} /\ j \notin R
  BY Zenon DEF QueuedJobs, TypeOK
<1>2. IsFiniteSet(R) /\ Cardinality(R) \in Nat /\ QueuedBytes[j] \in 0..MaxQueueBytes
  <2>1. IsFiniteSet(R)
    BY NamesAssumption, SubsetFinite, Zenon DEF QueuedJobs
  <2> QED
    BY <2>1, LimitsAssumption, SizeIsNat
<1>3. QueuedUnits(QueuedJobs)' = Units(R, QueuedBytes, MaxQueueBytes)
  BY <1>1, Zenon DEF QueuedUnits, Units
<1>4. QueuedUnits(QueuedJobs) = Units(R \cup {j}, QueuedBytes, MaxQueueBytes)
  BY <1>1, Zenon DEF QueuedUnits, Units
<1> HIDE DEF R
<1>5. Cardinality(R \cup {j}) = Cardinality(R) + 1
  BY <1>1, <1>2, AddOne, Zenon
<1>6. Cardinality(Units(R \cup {j}, QueuedBytes, MaxQueueBytes)) =
        Cardinality(Units(R, QueuedBytes, MaxQueueBytes)) + QueuedBytes[j]
  BY <1>1, <1>2, UnitsAdd, LimitsAssumption, Zenon
<1>7. Cardinality(Units(R, QueuedBytes, MaxQueueBytes)) \in Nat
  BY <1>2, UnitsFinite, LimitsAssumption, Zenon
<1> QED
  BY <1>1, <1>2, <1>3, <1>4, <1>5, <1>6, <1>7

\* mal_executor_submit keeps the invariant.
LEMMA SubmitKeeps ==
  ASSUME Counting, IInv, NEW c \in Clients, NEW j \in Jobs, Submit(c, j)
  PROVE  IInv'
<1>a. /\ fate[j] = "fresh" /\ Admits(c, j)
      /\ queue' = [queue EXCEPT ![c] = Append(@, j)]
      /\ ready' = ReadyAdd(ready, c, queue'[c], Runnable(accepting[c]))
      /\ fate' = [fate EXCEPT ![j] = "queued"]
      /\ pc' \in Signalled(pc)
  BY Zenon DEF Submit
<1>b. poolQueued' = poolQueued + 1 /\ queuedBytes' = queuedBytes + QueuedBytes[j]
  BY Zenon DEF Submit
<1>c. UNCHANGED <<pool, clients, mutex, job, jobClient, running, accepting, phase, discards,
                 workingBytes>>
  BY Zenon DEF Submit, poolVars
<1>1. /\ phase[c] = "open" /\ accepting[c]
      /\ QueuedBytes[j] \in Nat /\ QueuedBytes[j] + queuedBytes <= MaxQueueBytes
      /\ QueuedBytes[j] <= MaxQueueBytes /\ WorkingBytes[j] <= MaxWorkingBytes
  <2>1. phase[c] = "open" /\ accepting[c]
    BY Zenon DEF Submit, Admits, IInv, Teardown
  <2>2. QueuedBytes[j] \in Nat /\ queuedBytes \in Nat /\ MaxQueueBytes \in Nat
    BY LimitsAssumption, Zenon DEF IInv, TypeOK
  <2>3. QueuedBytes[j] <= MaxQueueBytes - queuedBytes /\ WorkingBytes[j] <= MaxWorkingBytes
    BY <1>a, Zenon DEF Admits
  <2> QED
    BY <2>1, <2>2, <2>3
<1>2. pc' \in [Workers -> PCs] /\ Woken(pc, pc')
  BY <1>a, SignalledWakes, Zenon DEF IInv, TypeOK
<1>3. /\ queue'[c] \in Seq(Jobs) /\ queue'[c] # <<>> /\ Distinct(queue'[c])
      /\ Len(queue'[c]) = Len(queue[c]) + 1
      /\ \A k : Listed(queue'[c], k) <=> Listed(queue[c], k) \/ k = j
  <2>1. queue[c] \in Seq(Jobs) /\ Distinct(queue[c]) /\ ~Listed(queue[c], j)
    BY <1>a, Zenon DEF IInv, TypeOK, OnePlace
  <2>2. queue'[c] = Append(queue[c], j)
    BY <1>a, Zenon DEF IInv, TypeOK
  <2> QED
    BY <2>1, <2>2, AppendCells
<1>4. \A d \in Clients : d # c => queue'[d] = queue[d]
  BY <1>a, Zenon DEF IInv, TypeOK
<1>5. /\ ready' \in Seq(Clients) /\ Distinct(ready')
      /\ \A d \in Clients : Listed(ready', d) <=> Listed(ready, d) \/ d = c
  <2>1. ready \in Seq(Clients) /\ Distinct(ready)
    BY Zenon DEF IInv, TypeOK, ReadyExact
  <2>2. ready' = ReadyAdd(ready, c, queue'[c], Jobs)
    BY <1>a, <1>1, Zenon DEF Runnable
  <2> QED
    BY <1>3, <2>1, <2>2, ReadyAddCells
<1>6. fate'[j] = "queued" /\ \A k \in Jobs : k # j => fate'[k] = fate[k]
  BY <1>a, Zenon DEF IInv, TypeOK
<1>7. TypeOK'
  <2>1. queue' \in [Clients -> Seq(Jobs)]
    BY <1>a, <1>3, Zenon DEF IInv, TypeOK
  <2>2. poolQueued' \in Nat /\ queuedBytes' \in Nat
    <3>1. poolQueued \in Nat /\ queuedBytes \in Nat
      BY Zenon DEF IInv, TypeOK
    <3> QED
      BY <1>b, <1>1, <3>1
  <2>3. fate' \in [Jobs -> Fates]
    BY <1>a, Zenon DEF IInv, TypeOK, Fates
  <2> QED
    BY <1>c, <1>2, <1>5, <2>1, <2>2, <2>3, Zenon DEF IInv, TypeOK
<1>8. Threads'
  BY <1>c, <1>2, ThreadsKept, Zenon DEF IInv
<1>9. ReadyExact'
  BY <1>3, <1>4, <1>5, Zenon DEF IInv, ReadyExact
<1>10. OnePlace'
  <2>1. \A d \in Clients : ~Listed(queue[d], j) /\ ~Listed(discards[d], j)
    BY <1>a, Zenon DEF IInv, OnePlace
  <2>2. \A w \in Workers : job[w] # j
    BY <1>a, Zenon DEF IInv, OnePlace
  <2>3. \A d \in Clients : Distinct(queue'[d]) /\ Distinct(discards'[d])
    BY <1>c, <1>3, <1>4, Zenon DEF IInv, OnePlace
  <2>4. \A d \in Clients, k \in Jobs :
          Listed(queue'[d], k) <=> Listed(queue[d], k) \/ (d = c /\ k = j)
    BY <1>3, <1>4, Zenon
  <2>5. OnePlace /\ UNCHANGED <<job, discards>>
    BY <1>c, Zenon DEF IInv
  <2>6. \A d \in Clients : ~Listed(discards'[d], j) /\ (Listed(queue'[d], j) => d = c)
    BY <2>1, <2>4, <2>5, Zenon
  <2>7. /\ fate'[j] \notin {"running", "dropped"} /\ Listed(queue'[c], j)
        /\ fate'[j] = "queued" /\ \A k \in Jobs : k # j => fate'[k] = fate[k]
    BY <1>6, <2>4, Zenon
  <2> QED
    BY <2>2, <2>3, <2>4, <2>5, <2>6, <2>7, OneJobMoves, Zenon
<1>11. Fits'
  BY <1>1, <1>6, Zenon DEF IInv, Fits
<1>12. Accounting'
  <2>1. /\ Cardinality(QueuedJobs)' = Cardinality(QueuedJobs) + 1
        /\ Cardinality(QueuedUnits(QueuedJobs))' =
             Cardinality(QueuedUnits(QueuedJobs)) + QueuedBytes[j]
    BY <1>a, <1>1, <1>7, QueuedMore, Zenon DEF IInv
  <2>2. poolQueued' <= MaxQueued
    BY <1>a, <1>b, LimitsAssumption DEF Admits, IInv, TypeOK
  <2>3. \A d \in Clients : Len(queue'[d]) <= QueueCapacity[d]
    <3>1. Len(queue'[c]) <= QueueCapacity[c]
      <4>1. Len(queue[c]) \in Nat /\ QueueCapacity[c] \in Nat
        BY QueueLengths, LimitsAssumption, Zenon DEF IInv
      <4>2. Len(queue[c]) < QueueCapacity[c]
        BY <1>a, Zenon DEF Admits
      <4> QED
        BY <1>3, <4>1, <4>2
    <3> QED
      BY <1>4, <3>1, Zenon DEF IInv, Accounting
  <2>4. (\A d \in Clients : RunningFor(d)' = RunningFor(d)) /\ WorkingUnits' = WorkingUnits
    BY <1>c, <1>2, RunningKept, Zenon DEF Woken
  <2> QED
    BY <1>b, <1>c, <1>1, <2>1, <2>2, <2>3, <2>4 DEF IInv, TypeOK, Accounting
<1>13. Teardown'
  BY <1>c, <1>1, <1>4, Zenon DEF IInv, Teardown
<1>14. MustRunSurvives'
  BY <1>6, LimitsAssumption, Zenon DEF IInv, MustRunSurvives
<1>15. Registry'
  BY <1>c, <1>2, RegistryKept, Zenon DEF IInv, Woken, poolVars
<1>16. NoStall'
  <2>1. pool = "live"
    BY <1>1, Zenon DEF IInv, Registry, Registered
  <2>2. PICK w \in Workers : pc[w] \in {"start", "scan", "waiting", "run"}
    BY <2>1, Zenon DEF IInv, Registry, TypeOK, PCs
  <2>3. CASE pc[w] = "waiting"
    BY <1>a, <2>3, SignalledWakes, Zenon DEF NoStall, IInv, TypeOK
  <2>4. CASE pc[w] # "waiting"
    BY <1>2, <2>2, <2>4, Zenon DEF NoStall, Woken
  <2> QED
    BY <2>3, <2>4, Zenon
<1> QED
  BY <1>7, <1>8, <1>9, <1>10, <1>11, <1>12, <1>13, <1>14, <1>15, <1>16, Zenon DEF IInv

-----------------------------------------------------------------------------
(* The steps that move no job: the client's life cycle and a worker's waits. *)

\* The parts such a step cannot disturb.
LEMMA QuietKept ==
  ASSUME IInv, UNCHANGED <<ready, queue, running, discards, job, jobClient, countVars, fate>>,
         \A w \in Workers : pc'[w] = "run" <=> pc[w] = "run"
  PROVE  ReadyExact' /\ OnePlace' /\ Fits' /\ Accounting' /\ MustRunSurvives'
<1>1. ReadyExact' /\ MustRunSurvives'
  BY Zenon DEF IInv, ReadyExact, MustRunSurvives
<1>2. OnePlace' /\ Fits'
  BY OnePlaceKept, FitsKept, Zenon DEF IInv
<1>3. Accounting'
  BY AccountingKept, Zenon DEF IInv
<1> QED
  BY <1>1, <1>2, <1>3, Zenon

\* mal_executor_client_init keeps the invariant.
LEMMA ClientInitKeeps ==
  ASSUME Counting, IInv, NEW c \in Clients, ClientInit(c)
  PROVE  IInv'
<1> USE DEF ClientInit
<1>1. TypeOK'
  BY DEF IInv, TypeOK, Phases, PCs, countVars
<1>2. pool = "absent" => \A w \in Workers : pc[w] = "absent"
  BY Zenon DEF IInv, Registry
<1>3. \A w \in Workers : (pc'[w] = "run" <=> pc[w] = "run") /\ (pc'[w] = "scan" <=> pc[w] = "scan")
  BY <1>2, Zenon DEF IInv, TypeOK
<1>4. Threads'
  BY <1>3, Zenon DEF IInv, Threads
<1>5. ReadyExact' /\ OnePlace' /\ Fits' /\ Accounting' /\ MustRunSurvives'
  BY <1>3, QuietKept, Zenon
<1>6. Teardown'
  BY Zenon DEF IInv, TypeOK, Teardown
<1>7. Registry'
  <2>1. Registered' = Registered \cup {c} /\ c \notin Registered
    BY Zenon DEF Registered, IInv, TypeOK
  <2>2. IsFiniteSet(Registered)
    BY NamesAssumption, SubsetFinite, Zenon DEF Registered
  <2>3. clients' = Cardinality(Registered')
    BY <2>1, <2>2, AddOne, Zenon DEF IInv, Registry
  <2>4. pool' = "live" /\ \A d \in Clients : phase'[d] # "joining"
    BY Zenon DEF RegistryFree, IInv, TypeOK
  <2>5. \E w \in Workers : pc'[w] # "absent"
    BY <2>4, Zenon DEF IInv, Registry
  <2>6. \A w \in Workers : pc'[w] # "exited"
    BY Zenon DEF IInv, Registry
  <2> QED
    BY <2>1, <2>3, <2>4, <2>5, <2>6, Zenon DEF Registry
<1>8. NoStall'
  <2>1. CASE pool = "absent"
    BY <2>1, Zenon DEF NoStall
  <2>2. CASE pool = "live"
    BY <2>2, Zenon DEF IInv, NoStall
  <2> QED
    BY <2>1, <2>2, Zenon
<1> QED
  BY <1>1, <1>4, <1>5, <1>6, <1>7, <1>8, Zenon DEF IInv

\* A shutdown has called back every job it discarded.
LEMMA DiscardedKeeps ==
  ASSUME IInv, NEW c \in Clients, Discarded(c)
  PROVE  IInv'
<1> USE DEF Discarded, workerVars, poolVars
<1>1. TypeOK'
  BY Zenon DEF IInv, TypeOK, Phases, countVars
<1>2. Threads' /\ NoStall'
  BY Zenon DEF IInv, Threads, NoStall
<1>3. ReadyExact' /\ OnePlace' /\ Fits' /\ Accounting' /\ MustRunSurvives'
  BY QuietKept, Zenon
<1>4. Teardown'
  BY Zenon DEF IInv, TypeOK, Teardown
<1>5. Registry'
  BY RegistryKept, Zenon DEF IInv, TypeOK
<1> QED
  BY <1>1, <1>2, <1>3, <1>4, <1>5, Zenon DEF IInv

\* A shutdown waits for the running jobs of its client.
LEMMA DrainKeeps ==
  ASSUME IInv, NEW c \in Clients, Drain(c)
  PROVE  IInv'
<1> USE DEF Drain, workerVars, poolVars
<1>1. TypeOK'
  BY Zenon DEF IInv, TypeOK, Phases, countVars
<1>2. Threads' /\ NoStall'
  BY Zenon DEF IInv, Threads, NoStall
<1>3. ReadyExact' /\ OnePlace' /\ Fits' /\ Accounting' /\ MustRunSurvives'
  BY QuietKept, Zenon
<1>4. Teardown'
  BY Zenon DEF IInv, TypeOK, Teardown, Busy
<1>5. Registry'
  BY RegistryKept, Zenon DEF IInv, TypeOK
<1> QED
  BY <1>1, <1>2, <1>3, <1>4, <1>5, Zenon DEF IInv

\* mal_executor_client_free keeps the invariant.
LEMMA ClientFreeKeeps ==
  ASSUME IInv, NEW c \in Clients, ClientFree(c)
  PROVE  IInv'
<1> USE DEF ClientFree, poolVars
<1>0. pc' \in [Workers -> PCs] /\ Woken(pc, pc')
  BY BroadcastWakes, Zenon DEF IInv, TypeOK
<1>1. TypeOK'
  BY <1>0, Zenon DEF IInv, TypeOK, Phases, countVars
<1>2. Threads' /\ NoStall'
  BY <1>0, ThreadsKept, NoStallKept, Zenon DEF IInv
<1>3. ReadyExact' /\ OnePlace' /\ Fits' /\ Accounting' /\ MustRunSurvives'
  BY <1>0, QuietKept, Zenon DEF Woken
<1>4. Teardown'
  BY Zenon DEF IInv, TypeOK, Teardown
<1>5. Registry'
  BY <1>0, RegistryKept, Zenon DEF IInv, TypeOK, Woken
<1> QED
  BY <1>1, <1>2, <1>3, <1>4, <1>5, Zenon DEF IInv

\* mal_executor_client_free leaves the registry, and the last client stops the pool.
LEMMA UnregisterKeeps ==
  ASSUME Counting, IInv, NEW c \in Clients, Unregister(c)
  PROVE  IInv'
<1> USE DEF Unregister
<1>0. pc' \in [Workers -> PCs] /\ Woken(pc, pc')
  <2>1. pc \in [Workers -> PCs] /\ (pc' = pc \/ pc' = Broadcast(pc))
    BY Zenon DEF IInv, TypeOK
  <2>2. Woken(pc, pc)
    BY Zenon DEF Woken
  <2> QED
    BY <2>1, <2>2, BroadcastWakes, Zenon
<1>1. Registered' = Registered \ {c} /\ c \in Registered
  BY Zenon DEF Registered, IInv, TypeOK
<1>2. IsFiniteSet(Registered) /\ IsFiniteSet(Registered')
  BY NamesAssumption, SubsetFinite, Zenon DEF Registered
<1>3. clients' = Cardinality(Registered') /\ clients' \in Nat
  BY <1>1, <1>2, RemoveOne, SizeIsNat, Zenon DEF IInv, Registry
<1>4. TypeOK'
  BY <1>0, <1>3, Zenon DEF IInv, TypeOK, Phases, countVars
<1>5. Threads' /\ NoStall'
  BY <1>0, ThreadsKept, NoStallKept, Zenon DEF IInv
<1>6. ReadyExact' /\ OnePlace' /\ Fits' /\ Accounting' /\ MustRunSurvives'
  BY <1>0, QuietKept, Zenon DEF Woken
<1>7. Teardown'
  BY Zenon DEF IInv, TypeOK, Teardown
<1>8. Registry'
  <2>1. pool = "live" /\ \A d \in Clients : phase[d] # "joining"
    BY <1>1, Zenon DEF RegistryFree, IInv, Registry
  <2>2. clients' = 0 <=> Registered' = {}
    BY <1>2, <1>3, EmptySize, Zenon
  <2>3. CASE clients' # 0
    BY <1>3, <2>1, <2>2, <2>3, Zenon DEF IInv, TypeOK, Registry
  <2>4. CASE clients' = 0
    BY <1>3, <2>1, <2>2, <2>4, Zenon DEF IInv, TypeOK, Registry
  <2> QED
    BY <2>3, <2>4, Zenon
<1> QED
  BY <1>4, <1>5, <1>6, <1>7, <1>8, Zenon DEF IInv

\* The last client joins the workers.
LEMMA JoinKeeps ==
  ASSUME IInv, NEW c \in Clients, Join(c)
  PROVE  IInv'
<1> USE DEF Join
<1>1. TypeOK'
  BY Zenon DEF IInv, TypeOK, Phases, PCs, countVars
<1>2. \A w \in Workers : pc[w] \notin {"run", "scan"} /\ pc'[w] \notin {"run", "scan"}
  BY Zenon
<1>3. Threads'
  BY <1>2, Zenon DEF IInv, Threads
<1>4. ReadyExact' /\ OnePlace' /\ Fits' /\ Accounting' /\ MustRunSurvives'
  BY <1>2, QuietKept, Zenon
<1>5. Teardown'
  BY Zenon DEF IInv, TypeOK, Teardown
<1>6. pool # "live"
  BY Zenon DEF IInv, Registry
<1>7. ready = <<>>
  BY <1>6, ReadyLive, Zenon DEF IInv
<1>8. NoStall'
  BY <1>7, Zenon DEF NoStall
<1>9. Registry'
  <2>1. Registered' = Registered /\ Registered = {}
    BY <1>6, Zenon DEF Registered, IInv, TypeOK, Registry
  <2>2. \A d \in Clients : phase'[d] # "joining"
    BY Zenon DEF IInv, TypeOK, Registry
  <2> QED
    BY <2>1, <2>2, Zenon DEF IInv, Registry
<1> QED
  BY <1>1, <1>3, <1>4, <1>5, <1>8, <1>9, Zenon DEF IInv

\* A worker takes the mutex.
LEMMA LockKeeps ==
  ASSUME IInv, NEW w \in Workers, Lock(w)
  PROVE  IInv'
<1> USE DEF Lock, clientVars, poolVars
<1>1. TypeOK'
  BY Zenon DEF IInv, TypeOK, PCs, countVars
<1>2. Threads'
  BY NamesAssumption, Zenon DEF IInv, TypeOK, Threads
<1>3. ReadyExact' /\ OnePlace' /\ Fits' /\ Accounting' /\ MustRunSurvives'
  <2>1. \A v \in Workers : pc'[v] = "run" <=> pc[v] = "run"
    BY Zenon DEF IInv, TypeOK
  <2> QED
    BY <2>1, QuietKept, Zenon
<1>4. Teardown'
  BY Zenon DEF IInv, Teardown
<1>5. Registry'
  BY RegistryKept, Zenon DEF IInv, TypeOK
<1>6. NoStall'
  BY Zenon DEF IInv, TypeOK, NoStall
<1> QED
  BY <1>1, <1>2, <1>3, <1>4, <1>5, <1>6, Zenon DEF IInv

\* When no ready client is eligible, some worker runs a job and will scan again.
LEMMA BlockedByRunning ==
  ASSUME Counting, IInv, ready # <<>>, \A i \in 1..Len(ready) : ~Eligible(ready[i])
  PROVE  \E w \in Workers : pc[w] = "run"
<1> DEFINE c == ready[1]
           j == Head(queue[c])
<1>1. c \in Clients /\ Listed(ready, c) /\ ~Eligible(c)
  BY DEF IInv, TypeOK, Listed
<1>2. j \in Jobs /\ Listed(queue[c], j)
  BY <1>1, TailCells DEF IInv, TypeOK, ReadyExact, OnePlace
<1> HIDE DEF c, j
<1>3. WorkingBytes[j] \in Nat /\ WorkingBytes[j] <= MaxWorkingBytes
  <2>1. fate[j] = "queued"
    BY <1>1, <1>2, Zenon DEF IInv, OnePlace
  <2> QED
    BY <1>2, <2>1, LimitsAssumption, Zenon DEF IInv, Fits
<1>4. CASE running[c] # 0
  <2>1. RunningFor(c) # {}
    BY <1>1, <1>4, EmptySize, Zenon DEF IInv, Accounting
  <2> QED
    BY <2>1, Zenon DEF RunningFor
<1>5. CASE running[c] = 0
  <2>1. workingBytes # 0
    <3>1. running[c] < Concurrency[c] /\ MaxWorkingBytes \in Nat
      BY <1>1, <1>5, LimitsAssumption
    <3>2. ~(WorkingBytes[j] <= MaxWorkingBytes - workingBytes)
      BY <1>1, <3>1, Zenon DEF Eligible, j
    <3> QED
      BY <1>3, <3>1, <3>2
  <2>2. WorkingUnits # {}
    BY <2>1, EmptySize, Zenon DEF IInv, Accounting
  <2> QED
    BY <2>2, Zenon DEF WorkingUnits, IInv, Threads
<1> QED
  BY <1>4, <1>5, Zenon

\* A worker with nothing to run waits, or exits when the pool stops.
LEMMA RestKeeps ==
  ASSUME Counting, IInv, NEW w \in Workers, Rest(w)
  PROVE  IInv'
<1> USE DEF Rest, clientVars, poolVars
<1>1. TypeOK'
  BY Zenon DEF IInv, TypeOK, PCs, countVars
<1>2. Threads'
  BY NamesAssumption, Zenon DEF IInv, TypeOK, Threads
<1>3. \A v \in Workers : pc'[v] = "run" <=> pc[v] = "run"
  BY Zenon DEF IInv, TypeOK
<1>4. ReadyExact' /\ OnePlace' /\ Fits' /\ Accounting' /\ MustRunSurvives'
  BY <1>3, QuietKept, Zenon
<1>5. Teardown'
  BY Zenon DEF IInv, Teardown
<1>6. Registry'
  BY RegistryKept, Zenon DEF IInv, TypeOK
<1>7. NoStall'
  BY <1>3, BlockedByRunning, Zenon DEF NoStall
<1> QED
  BY <1>1, <1>2, <1>4, <1>5, <1>6, <1>7, Zenon DEF IInv

\* The jobs teardown keeps and the jobs it sets aside.
LEMMA ShutdownSplit ==
  ASSUME IInv, NEW c \in Clients, Shutdown(c)
  PROVE  /\ queue' \in [Clients -> Seq(Jobs)] /\ discards' \in [Clients -> Seq(Jobs)]
         /\ Distinct(queue'[c]) /\ Distinct(discards'[c])
         /\ Len(queue'[c]) <= Len(queue[c])
         /\ \A k : Listed(queue'[c], k) <=> Listed(queue[c], k) /\ k \in MustRun
         /\ \A k : Listed(discards'[c], k) <=> Listed(queue[c], k) /\ k \notin MustRun
         /\ \A d \in Clients : d # c => queue'[d] = queue[d] /\ discards'[d] = discards[d]
<1> DEFINE q    == queue[c]
           keep == Kept(q)
           drop == (1..Len(q)) \ keep
<1>1. q \in Seq(Jobs) /\ Distinct(q)
  BY Zenon DEF IInv, TypeOK, OnePlace
<1>2. keep \in SUBSET (1..Len(q)) /\ drop \in SUBSET (1..Len(q))
  BY Zenon DEF Kept
<1>3. PICK f \in Ascending(keep, Len(q)), g \in Ascending(drop, Len(q)) :
        /\ queue' = [queue EXCEPT ![c] = Pick(q, f)]
        /\ discards' = [discards EXCEPT ![c] = Pick(q, g)]
  BY Zenon DEF Shutdown
<1>4. \A k : (\E i \in keep : q[i] = k) <=> Listed(q, k) /\ k \in MustRun
  BY Zenon DEF Kept, Listed
<1>5. \A k : (\E i \in drop : q[i] = k) <=> Listed(q, k) /\ k \notin MustRun
  BY Zenon DEF Kept, Listed
<1> HIDE DEF q, keep, drop
<1>6. /\ Pick(q, f) \in Seq(Jobs) /\ Distinct(Pick(q, f)) /\ Len(Pick(q, f)) <= Len(q)
      /\ \A k : Listed(Pick(q, f), k) <=> Listed(q, k) /\ k \in MustRun
  BY <1>1, <1>2, <1>4, PickCells
<1>7. /\ Pick(q, g) \in Seq(Jobs) /\ Distinct(Pick(q, g))
      /\ \A k : Listed(Pick(q, g), k) <=> Listed(q, k) /\ k \notin MustRun
  BY <1>1, <1>2, <1>5, PickCells
<1>8. queue'[c] = Pick(q, f) /\ discards'[c] = Pick(q, g)
  BY <1>3, Zenon DEF IInv, TypeOK
<1>9. \A d \in Clients : d # c => queue'[d] = queue[d] /\ discards'[d] = discards[d]
  BY <1>3, Zenon DEF IInv, TypeOK
<1>10. queue' \in [Clients -> Seq(Jobs)] /\ discards' \in [Clients -> Seq(Jobs)]
  BY <1>3, <1>6, <1>7, Zenon DEF IInv, TypeOK
<1> QED
  BY <1>6, <1>7, <1>8, <1>9, <1>10, Zenon DEF q

\* The counters lose what the dropped jobs held.
LEMMA ShutdownCounts ==
  ASSUME Counting, IInv, NEW c \in Clients, Shutdown(c)
  PROVE  /\ poolQueued' = Cardinality(QueuedJobs)' /\ poolQueued' \in Nat
         /\ queuedBytes' = Cardinality(QueuedUnits(QueuedJobs))' /\ queuedBytes' \in Nat
         /\ poolQueued' <= poolQueued /\ queuedBytes' <= queuedBytes
<1> DEFINE q    == queue[c]
           drop == (1..Len(q)) \ Kept(q)
           D    == {q[i] : i \in drop}
           R    == QueuedJobs \ D
           size(S) == Cardinality(Units(S, QueuedBytes, MaxQueueBytes))
<1>1. q \in Seq(Jobs) /\ Distinct(q) /\ drop \in SUBSET (1..Len(q))
  BY Zenon DEF IInv, TypeOK, OnePlace
<1>2. /\ poolQueued' = poolQueued - Cardinality(drop)
      /\ queuedBytes' = queuedBytes - Bytes(q, drop)
      /\ fate' = [j \in Jobs |-> IF j \in D THEN "dropped" ELSE fate[j]]
  BY DEF Shutdown
<1>3. D \subseteq QueuedJobs
  <2> SUFFICES ASSUME NEW i \in drop PROVE q[i] \in QueuedJobs
    BY Zenon
  <2>1. q[i] \in Jobs /\ Listed(q, q[i])
    BY <1>1 DEF Listed
  <2> QED
    BY <2>1, Zenon DEF QueuedJobs, IInv, OnePlace
<1>4. QueuedJobs' = R
  BY <1>2, <1>3, Zenon DEF QueuedJobs
<1>5. IsFiniteSet(D) /\ Cardinality(D) = Cardinality(drop)
  <2> HIDE DEF q, drop
  <2> QED
    BY <1>1, CellsCount, Zenon
<1>6. Bytes(q, drop) = size(D)
  BY <1>1, CellsCount, Zenon
<1>7. QueuedJobs = R \cup D /\ R \cap D = {}
  BY <1>3, Zenon
<1>8. IsFiniteSet(R)
  BY NamesAssumption, SubsetFinite, Zenon DEF QueuedJobs
<1>9. QueuedUnits(QueuedJobs)' = Units(R, QueuedBytes, MaxQueueBytes)
  BY <1>4, Zenon DEF QueuedUnits, Units
<1>10. QueuedUnits(QueuedJobs) = Units(R \cup D, QueuedBytes, MaxQueueBytes)
  BY <1>7, Zenon DEF QueuedUnits, Units
<1> HIDE DEF q, drop, D, R
<1>11. Cardinality(R \cup D) = Cardinality(R) + Cardinality(D)
  BY <1>5, <1>7, <1>8, UnionSize, Zenon
<1>12. size(R \cup D) = size(R) + size(D)
  BY <1>5, <1>7, <1>8, UnitsUnion, LimitsAssumption
<1>13. size(R) \in Nat /\ size(D) \in Nat
  BY <1>5, <1>8, UnitsFinite, LimitsAssumption, Zenon
<1>14. Cardinality(R) \in Nat /\ Cardinality(D) \in Nat
  BY <1>5, <1>8, SizeIsNat, Zenon
<1>15. poolQueued = Cardinality(R \cup D) /\ queuedBytes = size(R \cup D)
  BY <1>7, <1>10, Zenon DEF IInv, Accounting
<1>16. poolQueued' = Cardinality(R) /\ poolQueued' <= poolQueued
  BY <1>2, <1>5, <1>11, <1>14, <1>15
<1> HIDE DEF size
<1>17. queuedBytes' = size(R) /\ queuedBytes' <= queuedBytes
  BY <1>2, <1>6, <1>12, <1>13, <1>15
<1> QED
  BY <1>4, <1>9, <1>13, <1>14, <1>16, <1>17, Zenon DEF size

\* mal_executor_client_shutdown keeps the invariant.
LEMMA ShutdownKeeps ==
  ASSUME Counting, IInv, NEW c \in Clients, Shutdown(c)
  PROVE  IInv'
<1>1. /\ phase[c] = "open" /\ mutex = Free
      /\ accepting' = [accepting EXCEPT ![c] = FALSE]
      /\ ready' = ReadyAdd(ReadyRemove(ready, c), c, queue'[c], MustRun)
      /\ pc' = Broadcast(pc)
      /\ phase' = [phase EXCEPT ![c] = "discarding"]
      /\ UNCHANGED <<pool, clients, mutex, job, jobClient, running, workingBytes>>
  BY Zenon DEF Shutdown, Runnable, poolVars
<1>2. pc' \in [Workers -> PCs] /\ Woken(pc, pc') /\ \A w \in Workers : pc'[w] # "waiting"
  BY <1>1, BroadcastWakes, Zenon DEF IInv, TypeOK
<1>3. \A k \in Jobs :
        fate'[k] = IF Listed(queue[c], k) /\ k \notin MustRun THEN "dropped" ELSE fate[k]
  <2>1. fate' = [k \in Jobs |->
                   IF \E i \in (1..Len(queue[c])) \ Kept(queue[c]) : queue[c][i] = k
                   THEN "dropped" ELSE fate[k]]
    BY Zenon DEF Shutdown
  <2>2. \A k : (\E i \in (1..Len(queue[c])) \ Kept(queue[c]) : queue[c][i] = k) <=>
                 Listed(queue[c], k) /\ k \notin MustRun
    BY Zenon DEF Kept, Listed
  <2> QED
    BY <2>1, <2>2, Zenon
<1>4. fate' \in [Jobs -> Fates]
  BY Zenon DEF Shutdown, IInv, TypeOK, Fates
<1>5. /\ ready' \in Seq(Clients) /\ Distinct(ready')
      /\ \A d \in Clients :
           Listed(ready', d) <=> (Listed(ready, d) /\ d # c) \/ (d = c /\ queue'[c] # <<>>)
  <2> DEFINE rest == ReadyRemove(ready, c)
  <2>1. /\ rest \in Seq(Clients) /\ Distinct(rest)
        /\ \A d : Listed(rest, d) <=> Listed(ready, d) /\ d # c
    BY WithoutCells, Zenon DEF ReadyRemove, IInv, TypeOK, ReadyExact
  <2> HIDE DEF rest
  <2>2. queue'[c] \in Seq(Jobs) /\ \A k \in Jobs : Listed(queue'[c], k) => k \in MustRun
    BY ShutdownSplit, Zenon
  <2>3. ready' = ReadyAdd(rest, c, queue'[c], MustRun)
    BY <1>1, Zenon DEF rest
  <2> QED
    BY <2>1, <2>2, <2>3, ReadyAddCells
<1>6. TypeOK'
  <2>1. accepting' \in [Clients -> BOOLEAN] /\ phase' \in [Clients -> Phases]
    BY <1>1, Zenon DEF IInv, TypeOK, Phases
  <2> QED
    BY <1>1, <1>2, <1>4, <1>5, <2>1, ShutdownSplit, ShutdownCounts, Zenon DEF IInv, TypeOK
<1>7. Threads'
  BY <1>1, <1>2, ThreadsKept, Zenon DEF IInv
<1>8. ReadyExact'
  BY <1>5, ShutdownSplit, Zenon DEF IInv, ReadyExact
<1>9. OnePlace'
  <2>1. discards[c] = <<>>
    BY <1>1, Zenon DEF IInv, Teardown
  <2>2. \A k : ~Listed(discards[c], k)
    BY <2>1, EmptyCells, Zenon DEF IInv, TypeOK
  <2>3. \A d \in Clients : Distinct(queue'[d]) /\ Distinct(discards'[d])
    BY ShutdownSplit, Zenon DEF IInv, OnePlace
  <2>4. \A d \in Clients, k \in Jobs :
          /\ Listed(queue'[d], k) <=> Listed(queue[d], k) /\ (d = c => k \in MustRun)
          /\ Listed(discards'[d], k) <=>
               Listed(discards[d], k) \/ (d = c /\ Listed(queue[c], k) /\ k \notin MustRun)
    BY <2>2, ShutdownSplit, Zenon
  <2>5. \A k \in Jobs : Listed(queue[c], k) =>
          /\ fate[k] = "queued"
          /\ \A d \in Clients : ~Listed(discards[d], k) /\ (d # c => ~Listed(queue[d], k))
          /\ \A w \in Workers : job[w] # k
    BY Zenon DEF IInv, OnePlace
  <2>6. \A d, e \in Clients : d # e =>
          \A k \in Jobs : /\ ~(Listed(queue'[d], k) /\ Listed(queue'[e], k))
                          /\ ~(Listed(discards'[d], k) /\ Listed(discards'[e], k))
    BY <2>4, <2>5 DEF IInv, OnePlace
  <2>7. \A k \in Jobs :
          /\ fate'[k] = "queued" <=> \E d \in Clients : Listed(queue'[d], k)
          /\ fate'[k] = "dropped" <=> \E d \in Clients : Listed(discards'[d], k)
          /\ fate'[k] = "running" <=> \E w \in Workers : job'[w] = k
    BY <1>1, <1>3, <2>4, <2>5 DEF IInv, OnePlace
  <2> QED
    BY <1>1, <2>3, <2>6, <2>7, Zenon DEF IInv, OnePlace
<1>10. Fits'
  BY <1>3, Zenon DEF IInv, Fits
<1>11. Accounting'
  <2>1. poolQueued' <= MaxQueued /\ queuedBytes' <= MaxQueueBytes
    <3>1. /\ poolQueued \in Nat /\ queuedBytes \in Nat
          /\ MaxQueued \in Nat /\ MaxQueueBytes \in Nat
      BY LimitsAssumption, Zenon DEF IInv, TypeOK
    <3>2. poolQueued <= MaxQueued /\ queuedBytes <= MaxQueueBytes
      BY Zenon DEF IInv, Accounting
    <3> QED
      BY <3>1, <3>2, ShutdownCounts
  <2>2. \A d \in Clients : Len(queue'[d]) <= QueueCapacity[d]
    <3>1. Len(queue'[c]) <= QueueCapacity[c]
      <4>1. /\ Len(queue[c]) \in Nat /\ Len(queue'[c]) \in Nat
            /\ QueueCapacity[c] \in Nat
        BY ShutdownSplit, LimitsAssumption DEF IInv, TypeOK
      <4>2. Len(queue[c]) <= QueueCapacity[c]
        BY Zenon DEF IInv, Accounting
      <4> QED
        BY <4>1, <4>2, ShutdownSplit
    <3> QED
      BY <3>1, ShutdownSplit, Zenon DEF IInv, Accounting
  <2>3. (\A d \in Clients : RunningFor(d)' = RunningFor(d)) /\ WorkingUnits' = WorkingUnits
    BY <1>1, <1>2, RunningKept, Zenon DEF Woken
  <2> QED
    BY <1>1, <2>1, <2>2, <2>3, ShutdownCounts, Zenon DEF IInv, Accounting
<1>12. Teardown'
  <2>1. ~accepting'[c] /\ phase'[c] = "discarding"
    BY <1>1, Zenon DEF IInv, TypeOK
  <2>2. \A d \in Clients : d # c =>
          /\ accepting'[d] = accepting[d] /\ phase'[d] = phase[d] /\ running'[d] = running[d]
          /\ queue'[d] = queue[d] /\ discards'[d] = discards[d]
    BY <1>1, ShutdownSplit, Zenon DEF IInv, TypeOK
  <2>3. \A k \in Jobs : /\ Listed(queue'[c], k) => k \in MustRun
                        /\ Listed(discards'[c], k) => k \notin MustRun
    BY ShutdownSplit, Zenon
  <2> QED
    BY <2>1, <2>2, <2>3 DEF IInv, Teardown
<1>13. MustRunSurvives'
  BY <1>3, LimitsAssumption, Zenon DEF IInv, MustRunSurvives
<1>14. Registry'
  BY <1>1, <1>2, RegistryKept, Zenon DEF IInv, TypeOK, Woken, poolVars
<1>15. NoStall'
  <2>1. pool = "live"
    BY <1>1, Zenon DEF IInv, Registry, Registered
  <2>2. PICK w \in Workers : pc[w] \in {"start", "scan", "waiting", "run"}
    BY <2>1, Zenon DEF IInv, Registry, TypeOK, PCs
  <2> QED
    BY <1>2, <2>2, Zenon DEF NoStall, Woken
<1> QED
  BY <1>6, <1>7, <1>8, <1>9, <1>10, <1>11, <1>12, <1>13, <1>14, <1>15, Zenon DEF IInv

\* mal_executor_cancel keeps the invariant.
LEMMA CancelKeeps ==
  ASSUME Counting, IInv, NEW c \in Clients, NEW j \in Jobs, Cancel(c, j)
  PROVE  IInv'
<1>a. /\ phase[c] = "open" /\ Listed(queue[c], j)
      /\ queue' = [queue EXCEPT ![c] = Without(@, j)]
      /\ ready' = IF queue'[c] = <<>> THEN ReadyRemove(ready, c) ELSE ready
      /\ phase' = Settled(phase)
      /\ fate' = [fate EXCEPT ![j] = "cancelled"]
  BY Zenon DEF Cancel
<1>b. poolQueued' = poolQueued - 1 /\ queuedBytes' = queuedBytes - QueuedBytes[j]
  BY Zenon DEF Cancel
<1>c. UNCHANGED <<pool, clients, mutex, pc, job, jobClient, running, accepting, discards,
                 workingBytes>>
  BY Zenon DEF Cancel, poolVars, workerVars
<1>1. /\ fate[j] = "queued" /\ accepting[c]
      /\ QueuedBytes[j] <= MaxQueueBytes
  <2>1. fate[j] = "queued"
    BY <1>a, Zenon DEF IInv, OnePlace
  <2> QED
    BY <1>a, <2>1, Zenon DEF IInv, Fits, Teardown
<1>2. /\ queue'[c] \in Seq(Jobs) /\ Distinct(queue'[c])
      /\ Len(queue'[c]) <= Len(queue[c])
      /\ \A k : Listed(queue'[c], k) <=> Listed(queue[c], k) /\ k # j
  <2>1. queue'[c] = Without(queue[c], j)
    BY <1>a, Zenon DEF IInv, TypeOK
  <2> QED
    BY <2>1, WithoutCells DEF IInv, TypeOK, OnePlace
<1>3. \A d \in Clients : d # c => queue'[d] = queue[d]
  BY <1>a, Zenon DEF IInv, TypeOK
<1>4. /\ ready' \in Seq(Clients) /\ Distinct(ready')
      /\ \A d \in Clients : Listed(ready', d) <=> Listed(ready, d) /\ (d = c => queue'[c] # <<>>)
  <2>1. CASE queue'[c] = <<>>
    BY <1>a, <2>1, WithoutCells, Zenon DEF IInv, TypeOK, ReadyExact, ReadyRemove
  <2>2. CASE queue'[c] # <<>>
    BY <1>a, <2>2, Zenon DEF IInv, TypeOK, ReadyExact
  <2> QED
    BY <2>1, <2>2, Zenon
<1>5. fate'[j] = "cancelled" /\ \A k \in Jobs : k # j => fate'[k] = fate[k]
  BY <1>a, Zenon DEF IInv, TypeOK
<1>6. /\ phase' \in [Clients -> Phases]
      /\ \A d \in Clients :
           phase'[d] = phase[d] \/ (phase[d] = "settling" /\ phase'[d] = "draining")
  BY <1>a, SettledWakes, Zenon DEF IInv, TypeOK
<1>7. /\ Cardinality(QueuedJobs)' = Cardinality(QueuedJobs) - 1
      /\ Cardinality(QueuedUnits(QueuedJobs))' =
           Cardinality(QueuedUnits(QueuedJobs)) - QueuedBytes[j]
      /\ Cardinality(QueuedJobs)' \in Nat
      /\ Cardinality(QueuedUnits(QueuedJobs))' \in Nat
  BY <1>a, <1>1, QueuedFewer, Zenon DEF IInv
<1>8. TypeOK'
  BY <1>a, <1>b, <1>c, <1>2, <1>4, <1>6, <1>7, Zenon DEF IInv, TypeOK, Fates, Accounting
<1>9. Threads'
  BY <1>c, Zenon DEF IInv, Threads
<1>10. ReadyExact'
  <2>2. queue[c] # <<>>
    BY <1>a, EmptyCells, Zenon DEF IInv, TypeOK
  <2> QED
    BY <1>3, <1>4, <2>2, Zenon DEF IInv, ReadyExact
<1>11. OnePlace'
  <2>1. \A d \in Clients : d # c => ~Listed(queue[d], j)
    BY <1>a, Zenon DEF IInv, OnePlace
  <2>2. \A d \in Clients : Distinct(queue'[d]) /\ Distinct(discards'[d])
    BY <1>c, <1>2, <1>3, Zenon DEF IInv, OnePlace
  <2>3. \A d \in Clients, k \in Jobs : Listed(queue'[d], k) <=> Listed(queue[d], k) /\ k # j
    BY <1>2, <1>3, <2>1, Zenon
  <2>4. (\A d \in Clients : ~Listed(discards[d], j)) /\ (\A w \in Workers : job[w] # j)
    BY <1>1, Zenon DEF IInv, OnePlace
  <2>5. OnePlace /\ UNCHANGED <<job, discards>>
    BY <1>c, Zenon DEF IInv
  <2>6. fate'[j] \notin {"queued", "running", "dropped"}
    BY <1>5, Zenon
  <2> QED
    BY <1>5, <2>2, <2>3, <2>4, <2>5, <2>6, OneJobMoves, Zenon
<1>12. Fits'
  BY <1>5, Zenon DEF IInv, Fits
<1>13. Accounting'
  <2>1. poolQueued' <= MaxQueued /\ queuedBytes' <= MaxQueueBytes
    <3>1. /\ poolQueued \in Nat /\ queuedBytes \in Nat /\ QueuedBytes[j] \in Nat
          /\ MaxQueued \in Nat /\ MaxQueueBytes \in Nat
      BY LimitsAssumption, Zenon DEF IInv, TypeOK
    <3>2. poolQueued <= MaxQueued /\ queuedBytes <= MaxQueueBytes
      BY Zenon DEF IInv, Accounting
    <3> QED
      BY <1>b, <3>1, <3>2
  <2>2. \A d \in Clients : Len(queue'[d]) <= QueueCapacity[d]
    <3>1. Len(queue'[c]) <= QueueCapacity[c]
      <4>1. /\ Len(queue[c]) \in Nat /\ Len(queue'[c]) \in Nat
            /\ QueueCapacity[c] \in Nat
        BY <1>2, QueueLengths, LimitsAssumption DEF IInv
      <4>2. Len(queue[c]) <= QueueCapacity[c]
        BY Zenon DEF IInv, Accounting
      <4> QED
        BY <1>2, <4>1, <4>2
    <3> QED
      BY <1>3, <3>1, Zenon DEF IInv, Accounting
  <2>3. (\A d \in Clients : RunningFor(d)' = RunningFor(d)) /\ WorkingUnits' = WorkingUnits
    BY <1>c, RunningKept, Zenon
  <2> QED
    BY <1>b, <1>c, <1>7, <2>1, <2>2, <2>3, Zenon DEF IInv, Accounting
<1>14. Teardown'
  BY <1>a, <1>c, <1>1, <1>3, <1>6 DEF IInv, Teardown
<1>15. MustRunSurvives'
  BY <1>5, LimitsAssumption, Zenon DEF IInv, MustRunSurvives
<1>16. Registry'
  BY <1>c, <1>6, RegistryKept, Zenon DEF IInv, poolVars
<1>17. NoStall'
  <2>1. queue[c] # <<>>
    BY <1>a, EmptyCells, Zenon DEF IInv, TypeOK
  <2>2. Listed(ready, c)
    BY <2>1, Zenon DEF IInv, ReadyExact
  <2>3. ready # <<>>
    BY <2>2, EmptyCells, Zenon DEF IInv, TypeOK
  <2> QED
    BY <1>c, <2>3, Zenon DEF IInv, NoStall
<1> QED
  BY <1>8, <1>9, <1>10, <1>11, <1>12, <1>13, <1>14, <1>15, <1>16, <1>17, Zenon DEF IInv

\* A shutdown calls back one discarded job.
LEMMA DiscardKeeps ==
  ASSUME IInv, NEW c \in Clients, Discard(c)
  PROVE  IInv'
<1> DEFINE j == Head(discards[c])
<1>a. /\ phase[c] = "discarding" /\ discards[c] # <<>>
      /\ discards' = [discards EXCEPT ![c] = Tail(@)]
      /\ fate' = [fate EXCEPT ![j] = "discarded"]
  BY Zenon DEF Discard
<1>b. UNCHANGED <<pool, clients, mutex, pc, job, jobClient, ready, queue, running, accepting,
                 phase, poolQueued, queuedBytes, workingBytes>>
  BY Zenon DEF Discard, poolVars, workerVars, countVars
<1>1. /\ j \in Jobs /\ Listed(discards[c], j)
      /\ discards'[c] \in Seq(Jobs) /\ Distinct(discards'[c])
      /\ \A k : Listed(discards'[c], k) <=> Listed(discards[c], k) /\ k # j
  <2>1. discards[c] \in Seq(Jobs) /\ discards[c] # <<>> /\ Distinct(discards[c])
    BY <1>a, Zenon DEF IInv, TypeOK, OnePlace
  <2>2. discards'[c] = Tail(discards[c])
    BY <1>a, Zenon DEF IInv, TypeOK
  <2> QED
    BY <2>1, <2>2, TailCells
<1>2. \A d \in Clients : d # c => discards'[d] = discards[d]
  BY <1>a, Zenon DEF IInv, TypeOK
<1>3. fate'[j] = "discarded" /\ \A k \in Jobs : k # j => fate'[k] = fate[k]
  BY <1>a, <1>1, Zenon DEF IInv, TypeOK
<1> HIDE DEF j
<1>4. fate[j] = "dropped" /\ j \notin MustRun
  BY <1>1, Zenon DEF IInv, OnePlace, Teardown
<1>5. TypeOK'
  <2>1. discards' \in [Clients -> Seq(Jobs)]
    BY <1>a, <1>1, Zenon DEF IInv, TypeOK
  <2>2. fate' \in [Jobs -> Fates]
    BY <1>a, <1>1, Zenon DEF IInv, TypeOK, Fates
  <2> QED
    BY <1>b, <2>1, <2>2, Zenon DEF IInv, TypeOK
<1>6. Threads' /\ ReadyExact' /\ NoStall'
  BY <1>b, Zenon DEF IInv, Threads, ReadyExact, NoStall
<1>7. OnePlace'
  <2>1. \A d \in Clients : d # c => ~Listed(discards[d], j)
    BY <1>1, Zenon DEF IInv, OnePlace
  <2>2. \A d \in Clients : Distinct(queue'[d]) /\ Distinct(discards'[d])
    BY <1>b, <1>1, <1>2, Zenon DEF IInv, OnePlace
  <2>3. \A d \in Clients, k \in Jobs :
          Listed(discards'[d], k) <=> Listed(discards[d], k) /\ k # j
    BY <1>1, <1>2, <2>1, Zenon
  <2>4. (\A d \in Clients : ~Listed(queue[d], j)) /\ (\A w \in Workers : job[w] # j)
    BY <1>1, <1>4, Zenon DEF IInv, OnePlace
  <2>5. OnePlace /\ UNCHANGED <<job, queue>> /\ j \in Jobs
    BY <1>b, <1>1, Zenon DEF IInv
  <2>6. fate'[j] \notin {"queued", "running", "dropped"}
    BY <1>3, Zenon
  <2> QED
    BY <1>3, <2>2, <2>3, <2>4, <2>5, <2>6, OneJobMoves, Zenon
<1>8. Fits'
  BY <1>3, Zenon DEF IInv, Fits
<1>9. Accounting'
  <2>1. QueuedJobs' = QueuedJobs
    BY <1>3, <1>4, Zenon DEF QueuedJobs
  <2>2. QueuedUnits(QueuedJobs)' = QueuedUnits(QueuedJobs)
    BY <2>1, Zenon DEF QueuedUnits
  <2>3. (\A d \in Clients : RunningFor(d)' = RunningFor(d)) /\ WorkingUnits' = WorkingUnits
    BY <1>b, RunningKept, Zenon
  <2> QED
    BY <1>b, <2>1, <2>2, <2>3, Zenon DEF IInv, Accounting
<1>10. Teardown'
  BY <1>a, <1>b, <1>1, <1>2, Zenon DEF IInv, Teardown
<1>11. MustRunSurvives'
  BY <1>3, <1>4, LimitsAssumption, Zenon DEF IInv, MustRunSurvives
<1>12. Registry'
  BY <1>b, RegistryKept, Zenon DEF IInv, poolVars
<1> QED
  BY <1>5, <1>6, <1>7, <1>8, <1>9, <1>10, <1>11, <1>12, Zenon DEF IInv

-----------------------------------------------------------------------------
(* The steps of the pool are steps of the contract.  What a client sees: *)

Client == [c \in Clients |->
             CASE phase[c] = "open" -> "open"
               [] phase[c] \in {"discarding", "draining", "settling"} -> "closing"
               [] OTHER -> "absent"]
Pending == [c \in Clients |-> {j \in Jobs : Listed(queue[c], j) \/ Listed(discards[c], j)}]
Active  == [c \in Clients |-> {job[w] : w \in RunningFor(c)}]
Done    == [j \in Jobs |-> IF fate[j] \in {"ran", "discarded", "cancelled"} THEN fate[j] ELSE "no"]

\* A worker that waits, is woken or scans is not seen.
LEMMA ActiveKept ==
  ASSUME \A w \in Workers : pc'[w] = "run" <=> pc[w] = "run", UNCHANGED <<job, jobClient>>
  PROVE  Active' = Active
<1>1. \A c \in Clients : RunningFor(c)' = RunningFor(c)
  BY RunningKept, Zenon
<1> QED
  BY <1>1, Zenon DEF Active

\* What the pending jobs of the contract depend on.
LEMMA PendingKept ==
  ASSUME UNCHANGED <<queue, discards>>
  PROVE  Pending' = Pending
  BY Zenon DEF Pending

\* What the finished jobs of the contract depend on.
LEMMA DoneKept ==
  ASSUME UNCHANGED fate
  PROVE  Done' = Done
  BY Zenon DEF Done

\* What the client of the contract depends on.
LEMMA ClientKept ==
  ASSUME \A c \in Clients : \/ phase'[c] = phase[c]
                            \/ {phase[c], phase'[c]} \subseteq {"discarding", "draining", "settling"}
                            \/ {phase[c], phase'[c]} \subseteq {"none", "drained", "released", "joining"}
  PROVE  Client' = Client
<1>1. ASSUME NEW c \in Clients
      PROVE  Client'[c] = Client[c]
  BY Zenon DEF Client
<1> QED
  BY <1>1, Zenon DEF Client

\* One client's phase changes.
LEMMA ClientMoves ==
  ASSUME NEW c \in Clients, \A d \in Clients \ {c} : phase'[d] = phase[d]
  PROVE  Client' = [Client EXCEPT ![c] = Client'[c]]
<1>1. ASSUME NEW d \in Clients \ {c}
      PROVE  Client'[d] = Client[d]
  BY <1>1, Zenon DEF Client
<1> QED
  BY <1>1, Zenon DEF Client

\* One client's pending jobs change.
LEMMA PendingMoves ==
  ASSUME NEW c \in Clients,
         \A d \in Clients \ {c} : queue'[d] = queue[d] /\ discards'[d] = discards[d]
  PROVE  Pending' = [Pending EXCEPT ![c] = Pending'[c]]
<1>1. ASSUME NEW d \in Clients \ {c}
      PROVE  Pending'[d] = Pending[d]
  BY <1>1, Zenon DEF Pending
<1> QED
  BY <1>1, Zenon DEF Pending

\* The fate of one job changes at most.
LEMMA DoneMoves ==
  ASSUME NEW j \in Jobs, \A k \in Jobs \ {j} : fate'[k] = fate[k]
  PROVE  Done' = [Done EXCEPT ![j] = Done'[j]]
<1>1. ASSUME NEW k \in Jobs \ {j}
      PROVE  Done'[k] = Done[k]
  BY <1>1, Zenon DEF Done
<1> QED
  BY <1>1, Zenon DEF Done

-----------------------------------------------------------------------------
\* mal_executor_submit is an accepting step of the contract.
LEMMA SubmitAccepts ==
  ASSUME IInv, NEW c \in Clients, NEW j \in Jobs, Submit(c, j)
  PROVE  Contract!Accept(c, j)
<1>a. /\ fate[j] = "fresh" /\ Admits(c, j) /\ phase[c] \in {"open", "drained"}
      /\ queue' = [queue EXCEPT ![c] = Append(@, j)]
      /\ fate' = [fate EXCEPT ![j] = "queued"]
      /\ pc' \in Signalled(pc)
      /\ UNCHANGED <<phase, discards, job, jobClient>>
  BY Zenon DEF Submit
<1>b. /\ queue \in [Clients -> Seq(Jobs)] /\ pc \in [Workers -> PCs] /\ DOMAIN fate = Jobs
  BY Zenon DEF IInv, TypeOK
<1>1. phase[c] = "open"
  BY <1>a, Zenon DEF Admits, IInv, Teardown
<1>2. Client[c] = "open" /\ Client' = Client
  BY <1>a, <1>1, ClientKept, Zenon DEF Client
<1>3. /\ queue'[c] = Append(queue[c], j) /\ queue[c] \in Seq(Jobs)
      /\ \A d \in Clients \ {c} : queue'[d] = queue[d] /\ discards'[d] = discards[d]
  BY <1>a, <1>b, Zenon
<1>4. \A d \in Clients : ~Listed(queue[d], j) /\ ~Listed(discards[d], j) /\ Distinct(queue[d])
  BY <1>a, Zenon DEF IInv, OnePlace
<1>5. \A w \in Workers : job[w] # j
  BY <1>a, Zenon DEF IInv, OnePlace
<1>6. \A k : Listed(queue'[c], k) <=> Listed(queue[c], k) \/ k = j
  <2>1. Distinct(queue[c]) /\ ~Listed(queue[c], j) /\ queue[c] \in Seq(Jobs)
    BY <1>3, <1>4, Zenon
  <2>2. \A k : Listed(Append(queue[c], j), k) <=> Listed(queue[c], k) \/ k = j
    BY <2>1, AppendCells, Zenon
  <2> QED
    BY <1>3, <2>2, Zenon
<1>7. Pending' = [Pending EXCEPT ![c] = Pending[c] \cup {j}]
  <2>1. Pending'[c] = Pending[c] \cup {j}
    BY <1>a, <1>6, Zenon DEF Pending
  <2> QED
    BY <1>3, <2>1, PendingMoves, Zenon
<1>8. pc' \in [Workers -> PCs] /\ Woken(pc, pc')
  BY <1>a, <1>b, SignalledWakes, Zenon
<1>9. Active' = Active
  BY <1>a, <1>8, ActiveKept, Zenon DEF Woken
<1>10. Done' = Done /\ Done[j] = "no"
  <2>1. Done[j] = "no" /\ Done'[j] = "no"
    BY <1>a, <1>b, Zenon DEF Done
  <2>2. \A k \in Jobs \ {j} : fate'[k] = fate[k]
    BY <1>a, <1>b, Zenon
  <2>3. \A k \in Jobs : Done'[k] = Done[k]
    BY <2>1, <2>2, Zenon DEF Done
  <2> QED
    BY <2>1, <2>3, Zenon DEF Done
<1>11. \A d \in Clients : j \notin Pending[d] \cup Active[d]
  BY <1>4, <1>5, Zenon DEF Pending, Active, RunningFor
<1> QED
  BY <1>2, <1>7, <1>9, <1>10, <1>11, Zenon
  DEF Contract!Accept, Contract!Unclaimed, Client, Pending, Active, Done

\* mal_executor_cancel is a returning step of the contract.
LEMMA CancelReturns ==
  ASSUME IInv, NEW c \in Clients, NEW j \in Jobs, Cancel(c, j)
  PROVE  Contract!Return(c, j)
<1>a. /\ phase[c] = "open" /\ Listed(queue[c], j)
      /\ queue' = [queue EXCEPT ![c] = Without(@, j)]
      /\ phase' = Settled(phase)
      /\ fate' = [fate EXCEPT ![j] = "cancelled"]
      /\ UNCHANGED <<discards, pc, job, jobClient>>
  BY Zenon DEF Cancel, workerVars
<1>b. queue \in [Clients -> Seq(Jobs)] /\ DOMAIN fate = Jobs
  BY Zenon DEF IInv, TypeOK
<1>1. Client[c] = "open" /\ Client' = Client
  <2>1. \A d \in Clients : phase'[d] = phase[d] \/ (phase[d] = "settling" /\ phase'[d] = "draining")
    BY <1>a, SettledWakes, Zenon DEF IInv, TypeOK
  <2> QED
    BY <1>a, <2>1, ClientKept, Zenon DEF Client
<1>2. /\ queue'[c] = Without(queue[c], j) /\ queue[c] \in Seq(Jobs)
      /\ \A d \in Clients \ {c} : queue'[d] = queue[d] /\ discards'[d] = discards[d]
  BY <1>a, <1>b, Zenon
<1>3. Distinct(queue[c]) /\ ~Listed(discards[c], j)
  BY <1>a, Zenon DEF IInv, OnePlace
<1>4. \A k : Listed(queue'[c], k) <=> Listed(queue[c], k) /\ k # j
  <2>1. \A k : Listed(Without(queue[c], j), k) <=> Listed(queue[c], k) /\ k # j
    BY <1>2, <1>3, WithoutCells, Zenon
  <2> QED
    BY <1>2, <2>1, Zenon
<1>5. j \in Pending[c]
  BY <1>a, Zenon DEF Pending
<1>6. Pending' = [Pending EXCEPT ![c] = Pending[c] \ {j}]
  <2>1. Pending'[c] = Pending[c] \ {j}
    BY <1>a, <1>3, <1>4, Zenon DEF Pending
  <2> QED
    BY <1>2, <2>1, PendingMoves, Zenon
<1>7. Active' = Active
  BY <1>a, ActiveKept, Zenon
<1>8. Done' = [Done EXCEPT ![j] = "cancelled"]
  <2>1. Done'[j] = "cancelled" /\ \A k \in Jobs \ {j} : fate'[k] = fate[k]
    BY <1>a, <1>b, Zenon DEF Done
  <2> QED
    BY <2>1, DoneMoves, Zenon
<1> QED
  BY <1>1, <1>5, <1>6, <1>7, <1>8, Zenon DEF Contract!Return, Client, Pending, Active, Done

\* Discarding a queue drops its jobs in the contract.
LEMMA DiscardDrops ==
  ASSUME IInv, NEW c \in Clients, Discard(c)
  PROVE  \E j \in Jobs : Contract!Drop(c, j)
<1>a. /\ phase[c] = "discarding" /\ discards[c] # <<>>
      /\ discards' = [discards EXCEPT ![c] = Tail(@)]
      /\ fate' = [fate EXCEPT ![Head(discards[c])] = "discarded"]
      /\ UNCHANGED <<queue, phase, pc, job, jobClient>>
  BY Zenon DEF Discard, workerVars
<1>b. discards \in [Clients -> Seq(Jobs)] /\ DOMAIN fate = Jobs
  BY Zenon DEF IInv, TypeOK
<1>c. /\ discards'[c] = Tail(discards[c]) /\ discards[c] \in Seq(Jobs)
      /\ \A d \in Clients \ {c} : queue'[d] = queue[d] /\ discards'[d] = discards[d]
  BY <1>a, <1>b, Zenon
<1>1. PICK j \in Jobs :
        /\ j = Head(discards[c]) /\ Listed(discards[c], j)
        /\ \A k : Listed(discards'[c], k) <=> Listed(discards[c], k) /\ k # j
  <2>1. discards[c] \in Seq(Jobs) /\ discards[c] # <<>> /\ Distinct(discards[c])
    BY <1>a, <1>c, Zenon DEF IInv, OnePlace
  <2>2. /\ Head(discards[c]) \in Jobs /\ Listed(discards[c], Head(discards[c]))
        /\ \A k : Listed(Tail(discards[c]), k) <=> Listed(discards[c], k) /\ k # Head(discards[c])
    BY <2>1, TailCells, Zenon
  <2>3. discards'[c] = Tail(discards[c])
    BY <1>c, Zenon
  <2> QED
    BY <2>2, <2>3, Zenon
<1>2. fate'[j] = "discarded" /\ \A k \in Jobs \ {j} : fate'[k] = fate[k]
  BY <1>a, <1>b, <1>1, Zenon
<1>5. j \notin MustRun /\ ~Listed(queue[c], j)
  BY <1>a, <1>1, Zenon DEF IInv, OnePlace, Teardown
<1>6. Client[c] = "closing" /\ Client' = Client
  BY <1>a, ClientKept, Zenon DEF Client
<1>7. j \in Pending[c] \ MustRun
  BY <1>1, <1>5, Zenon DEF Pending
<1>8. Pending'[c] = Pending[c] \ {j}
  BY <1>a, <1>1, <1>5, Zenon DEF Pending
<1>9. Pending' = [Pending EXCEPT ![c] = Pending[c] \ {j}]
  BY <1>c, <1>8, PendingMoves, Zenon
<1>10. Active' = Active
  BY <1>a, ActiveKept, Zenon
<1>11. Done' = [Done EXCEPT ![j] = "discarded"]
  <2>1. Done'[j] = "discarded"
    BY <1>1, <1>2, Zenon DEF Done
  <2> QED
    BY <1>1, <1>2, <2>1, DoneMoves, Zenon
<1>12. Contract!Drop(c, j)
  BY <1>6, <1>7, <1>9, <1>10, <1>11, Zenon DEF Contract!Drop, Client, Pending, Active, Done
<1> QED
  BY <1>12, Zenon

\* QueuedUnits and WorkingUnits are units in the sense of module ListProofs.
JobBytes == [w \in Workers |-> IF job[w] = Idle THEN 0 ELSE WorkingBytes[job[w]]]

\* Counting one running job more or less.
LEMMA WorkingChange ==
  ASSUME Counting, TypeOK, NEW w \in Workers, NEW k \in Jobs \cup {Idle},
         job' = [job EXCEPT ![w] = k],
         JobBytes[w] <= MaxWorkingBytes, JobBytes'[w] <= MaxWorkingBytes
  PROVE  /\ Cardinality(WorkingUnits)' + JobBytes[w] =
              Cardinality(WorkingUnits) + JobBytes'[w]
         /\ Cardinality(WorkingUnits)' \in Nat /\ Cardinality(WorkingUnits) \in Nat
<1> DEFINE R == Workers \ {w}
           M == MaxWorkingBytes
<1>1. Workers = R \cup {w} /\ w \notin R /\ IsFiniteSet(R)
  BY NamesAssumption, RemoveOne, Zenon
<1>2. /\ WorkingUnits = Units(R \cup {w}, JobBytes, M)
      /\ WorkingUnits' = Units(R \cup {w}, JobBytes', M)
  <2>1. ASSUME NEW p \in Workers \X (1..M)
        PROVE  /\ p[2] <= JobBytes[p[1]] <=>
                    job[p[1]] # Idle /\ p[2] <= WorkingBytes[job[p[1]]]
               /\ p[2] <= JobBytes'[p[1]] <=>
                    job'[p[1]] # Idle /\ p[2] <= WorkingBytes[job'[p[1]]]
    BY LimitsAssumption DEF JobBytes
  <2> QED
    BY <1>1, <2>1, Zenon DEF WorkingUnits, Units
<1>3. JobBytes[w] \in 0..M /\ JobBytes'[w] \in 0..M /\ M \in Nat
  BY LimitsAssumption DEF JobBytes, TypeOK
<1>4. \A v \in R : JobBytes[v] = JobBytes'[v]
  BY Zenon DEF JobBytes, TypeOK
<1> HIDE DEF R, M
<1>5. Units(R, JobBytes, M) = Units(R, JobBytes', M)
  BY <1>4, UnitsAgree, Zenon
<1>6. Cardinality(Units(R \cup {w}, JobBytes, M)) =
        Cardinality(Units(R, JobBytes, M)) + JobBytes[w]
  BY <1>1, <1>3, UnitsAdd, Zenon
<1>7. Cardinality(Units(R \cup {w}, JobBytes', M)) =
        Cardinality(Units(R, JobBytes', M)) + JobBytes'[w]
  BY <1>1, <1>3, UnitsAdd, Zenon
<1>8. Cardinality(Units(R, JobBytes, M)) \in Nat
  BY <1>1, <1>3, UnitsFinite, Zenon
<1> QED
  BY <1>2, <1>3, <1>5, <1>6, <1>7, <1>8

\* The running jobs are finitely many.
LEMMA RunningFinite ==
  ASSUME Counting, NEW c
  PROVE  IsFiniteSet(RunningFor(c)) /\ Cardinality(RunningFor(c)) \in Nat
<1>1. IsFiniteSet(RunningFor(c))
  BY NamesAssumption, SubsetFinite, Zenon DEF RunningFor
<1> QED
  BY <1>1, SizeIsNat, Zenon

\* A worker takes a job.
LEMMA TakeKeeps ==
  ASSUME Counting, IInv, NEW w \in Workers, NEW i \in 1..Len(ready), Take(w, i)
  PROVE  IInv'
<1>0. PICK c \in Clients, j \in Jobs :
        c = ready[i] /\ Listed(ready, c) /\ queue[c] # <<>> /\ j = Head(queue[c])
  <2>1. PICK c \in Clients : c = ready[i] /\ Listed(ready, c)
    BY DEF IInv, TypeOK, Listed
  <2>2. queue[c] # <<>> /\ queue[c] \in Seq(Jobs) /\ Distinct(queue[c])
    BY <2>1, Zenon DEF IInv, TypeOK, ReadyExact, OnePlace
  <2>3. Head(queue[c]) \in Jobs
    BY <2>2, TailCells, Zenon
  <2> QED
    BY <2>1, <2>2, <2>3, Zenon
<1>1. /\ pc[w] = "scan" /\ Eligible(c)
      /\ queue' = [queue EXCEPT ![c] = Tail(@)]
      /\ ready' = ReadyAdd(ReadyRemove(ready, c), c, queue'[c], Runnable(accepting[c]))
      /\ running' = [running EXCEPT ![c] = @ + 1]
      /\ poolQueued' = poolQueued - 1
      /\ queuedBytes' = queuedBytes - QueuedBytes[j]
      /\ workingBytes' = workingBytes + WorkingBytes[j]
      /\ mutex' = Free
      /\ pc' = [pc EXCEPT ![w] = "run"]
      /\ job' = [job EXCEPT ![w] = j]
      /\ jobClient' = [jobClient EXCEPT ![w] = c]
      /\ fate' = [fate EXCEPT ![j] = "running"]
      /\ UNCHANGED <<pool, clients, accepting, phase, discards>>
  BY <1>0, Zenon DEF Take, Selects, poolVars
<1>2. c \in Clients /\ Listed(ready, c)
  BY <1>0, Zenon
<1>3. queue[c] \in Seq(Jobs) /\ queue[c] # <<>> /\ Distinct(queue[c])
  BY <1>0, Zenon DEF IInv, TypeOK, OnePlace
<1>4. queue'[c] = Tail(queue[c]) /\ \A d \in Clients : d # c => queue'[d] = queue[d]
  BY <1>1, <1>2, Zenon DEF IInv, TypeOK
<1>5. /\ j \in Jobs /\ Listed(queue[c], j)
      /\ queue'[c] \in Seq(Jobs) /\ Distinct(queue'[c]) /\ Len(queue'[c]) = Len(queue[c]) - 1
      /\ \A k : Listed(queue'[c], k) <=> Listed(queue[c], k) /\ k # j
  BY <1>0, <1>3, <1>4, TailCells
<1>6. WorkingBytes[j] <= MaxWorkingBytes - workingBytes /\ running[c] < Concurrency[c]
  BY <1>0, <1>1, Zenon DEF Eligible
<1>7. /\ fate[j] = "queued" /\ QueuedBytes[j] <= MaxQueueBytes
      /\ WorkingBytes[j] <= MaxWorkingBytes
      /\ QueuedBytes[j] \in Nat /\ WorkingBytes[j] \in Nat
  <2>1. fate[j] = "queued"
    BY <1>2, <1>5, Zenon DEF IInv, OnePlace
  <2> QED
    BY <1>5, <2>1, LimitsAssumption, Zenon DEF IInv, Fits
<1>8. fate'[j] = "running" /\ \A k \in Jobs : k # j => fate'[k] = fate[k]
  BY <1>1, <1>5, Zenon DEF IInv, TypeOK
<1>9. /\ mutex = w /\ job[w] = Idle /\ jobClient[w] = Idle
      /\ \A v \in Workers : v # w => pc[v] # "scan"
  BY <1>1, Zenon DEF IInv, Threads
<1>10. /\ pc'[w] = "run" /\ job'[w] = j /\ jobClient'[w] = c
       /\ \A v \in Workers : v # w =>
            pc'[v] = pc[v] /\ job'[v] = job[v] /\ jobClient'[v] = jobClient[v]
  BY <1>1, Zenon DEF IInv, TypeOK
<1>11. /\ ready' \in Seq(Clients) /\ Distinct(ready')
       /\ \A d \in Clients :
            Listed(ready', d) <=> (Listed(ready, d) /\ d # c) \/ (d = c /\ queue'[c] # <<>>)
  <2> DEFINE rest == ReadyRemove(ready, c)
  <2>1. /\ rest \in Seq(Clients) /\ Distinct(rest)
        /\ \A d : Listed(rest, d) <=> Listed(ready, d) /\ d # c
    BY WithoutCells, Zenon DEF ReadyRemove, IInv, TypeOK, ReadyExact
  <2>2. \A k \in Jobs : Listed(queue'[c], k) => k \in Runnable(accepting[c])
    BY <1>2, <1>5, Zenon DEF Runnable, IInv, Teardown
  <2>3. ready' = ReadyAdd(rest, c, queue'[c], Runnable(accepting[c]))
    BY <1>1, Zenon
  <2> DEFINE may == Runnable(accepting[c])
  <2> HIDE DEF rest, may
  <2>4. ready' = ReadyAdd(rest, c, queue'[c], may)
        /\ \A k \in Jobs : Listed(queue'[c], k) => k \in may
    BY <2>2, <2>3, Zenon DEF may
  <2> QED
    BY <1>2, <1>5, <2>1, <2>4, ReadyAddCells
<1>12. /\ Cardinality(QueuedJobs)' = Cardinality(QueuedJobs) - 1
       /\ Cardinality(QueuedUnits(QueuedJobs))' =
            Cardinality(QueuedUnits(QueuedJobs)) - QueuedBytes[j]
       /\ Cardinality(QueuedJobs)' \in Nat
       /\ Cardinality(QueuedUnits(QueuedJobs))' \in Nat
  BY <1>1, <1>5, <1>7, QueuedFewer, Zenon DEF IInv
<1>13. /\ poolQueued' = Cardinality(QueuedJobs)' /\ poolQueued' <= poolQueued
       /\ queuedBytes' = Cardinality(QueuedUnits(QueuedJobs))' /\ queuedBytes' <= queuedBytes
  <2>1. poolQueued = Cardinality(QueuedJobs)
        /\ queuedBytes = Cardinality(QueuedUnits(QueuedJobs))
    BY Zenon DEF IInv, Accounting
  <2>2. poolQueued \in Nat /\ queuedBytes \in Nat
    BY Zenon DEF IInv, TypeOK
  <2> QED
    BY <1>1, <1>7, <1>12, <2>1, <2>2
<1>14. TypeOK'
  <2>1. running' \in [Clients -> Nat] /\ workingBytes' \in Nat
    <3>1. running \in [Clients -> Nat] /\ workingBytes \in Nat
      BY Zenon DEF IInv, TypeOK
    <3>2. running' = [running EXCEPT ![c] = running[c] + 1]
          /\ workingBytes' = workingBytes + WorkingBytes[j]
      BY <1>1, Zenon
    <3> QED
      BY <1>7, <3>1, <3>2
  <2>4. queue' \in [Clients -> Seq(Jobs)]
    <3>1. Tail(queue[c]) \in Seq(Jobs)
      BY <1>4, <1>5, Zenon
    <3> QED
      BY <1>1, <3>1, Zenon DEF IInv, TypeOK
  <2>2. /\ pc' \in [Workers -> PCs] /\ job' \in [Workers -> Jobs \cup {Idle}]
        /\ jobClient' \in [Workers -> Clients \cup {Idle}]
    BY <1>1, <1>2, <1>5, Zenon DEF IInv, TypeOK, PCs
  <2>3. fate' \in [Jobs -> Fates]
    BY <1>1, Zenon DEF IInv, TypeOK, Fates
  <2> QED
    BY <1>1, <1>11, <1>12, <1>13, <2>1, <2>2, <2>3, <2>4, Zenon DEF IInv, TypeOK
<1>15. Threads'
  <2>1. j # Idle /\ c # Idle
    BY <1>2, <1>5, NamesAssumption, Zenon
  <2> QED
    BY <1>1, <1>9, <1>10, <2>1, NamesAssumption DEF IInv, Threads
<1>16. ReadyExact'
  BY <1>4, <1>11, Zenon DEF IInv, ReadyExact
<1>17. OnePlace'
  <2>1. \A d \in Clients : d # c => ~Listed(queue[d], j)
    BY <1>2, <1>5, Zenon DEF IInv, OnePlace
  <2>2. \A d \in Clients : Distinct(queue'[d])
    BY <1>4, <1>5, Zenon DEF IInv, OnePlace
  <2>3. \A d \in Clients, k \in Jobs : Listed(queue'[d], k) <=> Listed(queue[d], k) /\ k # j
    BY <1>4, <1>5, <2>1, Zenon
  <2>4. (\A d \in Clients : ~Listed(discards[d], j)) /\ (\A v \in Workers : job[v] # j)
    BY <1>5, <1>7, Zenon DEF IInv, OnePlace
  <2>5. \A u, v \in Workers : job'[u] = job'[v] /\ job'[u] # Idle => u = v
    BY <1>10, <2>4 DEF IInv, OnePlace
  <2>6. \A k \in Jobs :
          /\ fate'[k] = "queued" <=> \E d \in Clients : Listed(queue'[d], k)
          /\ fate'[k] = "dropped" <=> \E d \in Clients : Listed(discards[d], k)
          /\ fate'[k] = "running" <=> \E v \in Workers : job'[v] = k
    <3> SUFFICES ASSUME NEW k \in Jobs
                 PROVE  /\ fate'[k] = "queued" <=> \E d \in Clients : Listed(queue'[d], k)
                        /\ fate'[k] = "dropped" <=> \E d \in Clients : Listed(discards[d], k)
                        /\ fate'[k] = "running" <=> \E v \in Workers : job'[v] = k
      BY Zenon
    <3>1. CASE k = j
      BY <1>8, <1>10, <2>3, <2>4, <3>1, Zenon
    <3>2. CASE k # j
      <4>1. (\E v \in Workers : job'[v] = k) <=> (\E v \in Workers : job[v] = k)
        BY <1>9, <1>10, <3>2, NamesAssumption, Zenon
      <4> QED
        BY <1>8, <2>3, <3>2, <4>1, Zenon DEF IInv, OnePlace
    <3> QED
      BY <3>1, <3>2, Zenon
  <2> QED
    BY <1>1, <2>2, <2>3, <2>5, <2>6 DEF IInv, OnePlace
<1>18. Fits'
  BY <1>7, <1>8, Zenon DEF IInv, Fits
<1>19. Accounting'
  <2>1. poolQueued' <= MaxQueued /\ queuedBytes' <= MaxQueueBytes
    <3>1. /\ poolQueued \in Nat /\ queuedBytes \in Nat
          /\ poolQueued' \in Nat /\ queuedBytes' \in Nat
          /\ MaxQueued \in Nat /\ MaxQueueBytes \in Nat
      BY <1>12, <1>13, LimitsAssumption, Zenon DEF IInv, TypeOK
    <3>2. poolQueued <= MaxQueued /\ queuedBytes <= MaxQueueBytes
      BY Zenon DEF IInv, Accounting
    <3> QED
      BY <1>13, <3>1, <3>2
  <2>2. \A d \in Clients : Len(queue'[d]) <= QueueCapacity[d]
    <3>1. Len(queue'[c]) <= QueueCapacity[c]
      <4>1. /\ Len(queue[c]) \in Nat /\ Len(queue'[c]) \in Nat
            /\ QueueCapacity[c] \in Nat
        BY <1>2, <1>3, <1>5, LimitsAssumption
      <4>2. Len(queue[c]) <= QueueCapacity[c]
        BY <1>2, Zenon DEF IInv, Accounting
      <4> QED
        BY <1>5, <4>1, <4>2
    <3> QED
      BY <1>4, <3>1, Zenon DEF IInv, Accounting
  <2>3. workingBytes' = Cardinality(WorkingUnits)' /\ workingBytes' <= MaxWorkingBytes
    <3>1. JobBytes[w] = 0 /\ JobBytes'[w] = WorkingBytes[j]
      BY <1>5, <1>9, <1>10, NamesAssumption, Zenon DEF JobBytes
    <3>2. JobBytes[w] <= MaxWorkingBytes /\ JobBytes'[w] <= MaxWorkingBytes
      BY <1>7, <3>1, LimitsAssumption
    <3>3. /\ Cardinality(WorkingUnits)' + JobBytes[w] =
               Cardinality(WorkingUnits) + JobBytes'[w]
          /\ Cardinality(WorkingUnits)' \in Nat /\ Cardinality(WorkingUnits) \in Nat
      BY <1>1, <1>5, <1>14, <3>2, WorkingChange, Zenon DEF IInv
    <3>4. workingBytes = Cardinality(WorkingUnits)
      BY Zenon DEF IInv, Accounting
    <3> QED
      BY <1>1, <1>6, <1>7, <3>1, <3>3, <3>4, LimitsAssumption
  <2>4. \A d \in Clients :
          running'[d] = Cardinality(RunningFor(d)') /\ running'[d] <= Concurrency[d]
    <3>1. RunningFor(c)' = RunningFor(c) \cup {w} /\ w \notin RunningFor(c)
      BY <1>1, <1>10, Zenon DEF RunningFor
    <3>2. Cardinality(RunningFor(c) \cup {w}) = Cardinality(RunningFor(c)) + 1
      BY <3>1, RunningFinite, AddOne, Zenon
    <3>3. running[c] = Cardinality(RunningFor(c)) /\ running'[c] = running[c] + 1
      BY <1>1, <1>2, Zenon DEF IInv, TypeOK, Accounting
    <3>4. running'[c] <= Concurrency[c]
      BY <1>2, <1>6, <3>3, LimitsAssumption DEF IInv, TypeOK
    <3>5. \A d \in Clients : d # c => RunningFor(d)' = RunningFor(d) /\ running'[d] = running[d]
      BY <1>1, <1>9, <1>10, Zenon DEF RunningFor, IInv, TypeOK
    <3> QED
      BY <3>1, <3>2, <3>3, <3>4, <3>5, Zenon DEF IInv, Accounting
  <2> QED
    BY <1>13, <2>1, <2>2, <2>3, <2>4, Zenon DEF Accounting
<1>20. Teardown'
  <2>1. phase[c] \notin {"none", "drained", "released", "joining"}
    BY <1>2, <1>3, Zenon DEF IInv, Teardown
  <2>2. \A d \in Clients : d # c => running'[d] = running[d]
    BY <1>1, Zenon DEF IInv, TypeOK
  <2> QED
    BY <1>1, <1>4, <1>5, <2>1, <2>2 DEF IInv, Teardown
<1>21. MustRunSurvives'
  BY <1>8, LimitsAssumption, Zenon DEF IInv, MustRunSurvives
<1>22. Registry'
  <2>1. \A v \in Workers : /\ pc'[v] = "absent" <=> pc[v] = "absent"
                           /\ pc'[v] = "exited" => pc[v] = "exited"
    BY <1>1, <1>10, Zenon
  <2> QED
    BY <1>1, <2>1, RegistryKept, Zenon DEF IInv, poolVars
<1>23. NoStall'
  BY <1>10, Zenon DEF NoStall
<1> QED
  BY <1>14, <1>15, <1>16, <1>17, <1>18, <1>19, <1>20, <1>21, <1>22, <1>23, Zenon DEF IInv

\* A worker settles the job it ran.
LEMMA SettleKeeps ==
  ASSUME Counting, IInv, NEW w \in Workers, Settle(w)
  PROVE  IInv'
<1>0. PICK c \in Clients, j \in Jobs : c = jobClient[w] /\ j = job[w]
  BY Zenon DEF Settle, IInv, TypeOK, Threads
<1>1. /\ pc[w] = "run" /\ mutex = Free /\ mutex' = w
      /\ workingBytes' = workingBytes - WorkingBytes[j]
      /\ running' = [running EXCEPT ![c] = @ - 1]
      /\ phase' = Settled(phase)
      /\ job' = [job EXCEPT ![w] = Idle]
      /\ jobClient' = [jobClient EXCEPT ![w] = Idle]
      /\ fate' = [fate EXCEPT ![j] = "ran"]
      /\ UNCHANGED <<pool, clients, ready, queue, accepting, discards, poolQueued, queuedBytes>>
  BY <1>0, Zenon DEF Settle, poolVars
<1> DEFINE scanning == [pc EXCEPT ![w] = "scan"]
<1>2. pc' \in [Workers -> PCs] /\ Woken(scanning, pc')
  <2>1. scanning \in [Workers -> PCs]
    BY Zenon DEF IInv, TypeOK, PCs
  <2>2. pc' \in Signalled(scanning) \/ pc' = scanning
    BY Zenon DEF Settle
  <2> HIDE DEF scanning
  <2>3. Woken(scanning, scanning)
    BY Zenon DEF Woken
  <2> QED
    BY <2>1, <2>2, <2>3, SignalledWakes, Zenon
<1>3. /\ pc'[w] = "scan"
      /\ \A v \in Workers : v # w =>
           pc'[v] = pc[v] \/ (pc[v] = "waiting" /\ pc'[v] = "start")
  BY <1>2, Zenon DEF Woken, IInv, TypeOK
<1>4. /\ job'[w] = Idle /\ jobClient'[w] = Idle
      /\ \A v \in Workers : v # w => job'[v] = job[v] /\ jobClient'[v] = jobClient[v]
  BY <1>1, Zenon DEF IInv, TypeOK
<1> HIDE DEF scanning
<1>5. fate[j] = "running" /\ \A v \in Workers : job[v] = j => v = w
  BY <1>0, NamesAssumption, Zenon DEF IInv, OnePlace
<1>6. fate'[j] = "ran" /\ \A k \in Jobs : k # j => fate'[k] = fate[k]
  BY <1>1, Zenon DEF IInv, TypeOK
<1>7. WorkingBytes[j] \in Nat /\ WorkingBytes[j] <= MaxWorkingBytes
  BY <1>5, LimitsAssumption, Zenon DEF IInv, Fits
<1>8. /\ phase' \in [Clients -> Phases]
      /\ \A d \in Clients :
           phase'[d] = phase[d] \/ (phase[d] = "settling" /\ phase'[d] = "draining")
  BY <1>1, SettledWakes, Zenon DEF IInv, TypeOK
<1>9. /\ RunningFor(c)' = RunningFor(c) \ {w} /\ w \in RunningFor(c)
      /\ \A d \in Clients : d # c => RunningFor(d)' = RunningFor(d)
  BY <1>0, <1>1, <1>3, <1>4 DEF RunningFor
<1>10. /\ running[c] = Cardinality(RunningFor(c)) /\ running[c] # 0
       /\ running'[c] = Cardinality(RunningFor(c)') /\ running'[c] \in Nat
       /\ running'[c] <= running[c]
       /\ \A d \in Clients : d # c => running'[d] = running[d]
  <2>1. running[c] = Cardinality(RunningFor(c)) /\ running[c] \in Nat
    BY Zenon DEF IInv, TypeOK, Accounting
  <2>2. running'[c] = running[c] - 1 /\ \A d \in Clients : d # c => running'[d] = running[d]
    BY <1>1, Zenon DEF IInv, TypeOK
  <2>3. Cardinality(RunningFor(c) \ {w}) = Cardinality(RunningFor(c)) - 1
    BY <1>9, RunningFinite, RemoveOne, Zenon
  <2>4. Cardinality(RunningFor(c)) # 0
    BY <1>9, RunningFinite, EmptySize, Zenon
  <2> QED
    BY <1>9, <2>1, <2>2, <2>3, <2>4
<1>11. job' \in [Workers -> Jobs \cup {Idle}] /\ jobClient' \in [Workers -> Clients \cup {Idle}]
  BY <1>1, Zenon DEF IInv, TypeOK
<1>12. workingBytes' = Cardinality(WorkingUnits)' /\ workingBytes' \in Nat
       /\ workingBytes' <= workingBytes
  <2>1. JobBytes[w] = WorkingBytes[j] /\ JobBytes'[w] = 0
    BY <1>0, <1>4, NamesAssumption, Zenon DEF JobBytes
  <2>2. JobBytes[w] <= MaxWorkingBytes /\ JobBytes'[w] <= MaxWorkingBytes
    BY <1>7, <2>1, LimitsAssumption
  <2>3. /\ Cardinality(WorkingUnits)' + JobBytes[w] =
             Cardinality(WorkingUnits) + JobBytes'[w]
        /\ Cardinality(WorkingUnits)' \in Nat /\ Cardinality(WorkingUnits) \in Nat
    <3>1. TypeOK /\ Idle \in Jobs \cup {Idle} /\ job' = [job EXCEPT ![w] = Idle]
      BY <1>1, Zenon DEF IInv
    <3> QED
      BY <2>2, <3>1, WorkingChange, Zenon
  <2>4. workingBytes = Cardinality(WorkingUnits)
    BY Zenon DEF IInv, Accounting
  <2> QED
    BY <1>1, <1>7, <2>1, <2>3, <2>4
<1>13. TypeOK'
  <2>1. running' \in [Clients -> Nat]
    BY <1>1, <1>10, Zenon DEF IInv, TypeOK
  <2>2. fate' \in [Jobs -> Fates]
    BY <1>1, Zenon DEF IInv, TypeOK, Fates
  <2>3. mutex' \in Workers \cup {Free}
    BY <1>1, Zenon
  <2>4. TypeOK
    BY Zenon DEF IInv
  <2> QED
    BY <1>1, <1>2, <1>8, <1>11, <1>12, <2>1, <2>2, <2>3, <2>4, Zenon DEF TypeOK
<1>14. Threads'
  <2>1. Threads /\ Free \notin Workers
    BY NamesAssumption, Zenon DEF IInv
  <2>2. \A v \in Workers : pc'[v] = "scan" <=> mutex' = v
    BY <1>1, <1>3, <2>1, Zenon DEF Threads
  <2>3. \A v \in Workers : pc'[v] = "run" <=> v # w /\ pc[v] = "run"
    BY <1>3, Zenon
  <2> QED
    BY <1>4, <2>1, <2>2, <2>3, Zenon DEF Threads
<1>15. ReadyExact'
  BY <1>1, Zenon DEF IInv, ReadyExact
<1>16. OnePlace'
  <2>1. \A d \in Clients : ~Listed(queue[d], j) /\ ~Listed(discards[d], j)
    BY <1>5, Zenon DEF IInv, OnePlace
  <2>2. \A u, v \in Workers : job'[u] = job'[v] /\ job'[u] # Idle => u = v
    <3>1. \A u, v \in Workers : job[u] = job[v] /\ job[u] # Idle => u = v
      BY Zenon DEF IInv, OnePlace
    <3> QED
      BY <1>4, <3>1, Zenon
  <2>3. \A k \in Jobs : (\E v \in Workers : job'[v] = k) <=> k # j /\ \E v \in Workers : job[v] = k
    BY <1>0, <1>4, <1>5, NamesAssumption, Zenon
  <2>4. OnePlace /\ UNCHANGED <<queue, discards>>
    BY <1>1, Zenon DEF IInv
  <2>5. ASSUME NEW k \in Jobs
        PROVE  /\ fate'[k] = "queued" <=> \E d \in Clients : Listed(queue[d], k)
               /\ fate'[k] = "dropped" <=> \E d \in Clients : Listed(discards[d], k)
               /\ fate'[k] = "running" <=> \E v \in Workers : job'[v] = k
    <3>1. CASE k = j
      BY <1>6, <2>1, <2>3, <3>1, Zenon
    <3>2. CASE k # j
      BY <1>6, <2>3, <2>4, <3>2, Zenon DEF OnePlace
    <3> QED
      BY <3>1, <3>2, Zenon
  <2> QED
    BY <2>2, <2>4, <2>5, Zenon DEF OnePlace
<1>17. Fits'
  BY <1>6, Zenon DEF IInv, Fits
<1>18. Accounting'
  <2>1. QueuedJobs' = QueuedJobs
    BY <1>5, <1>6, Zenon DEF QueuedJobs
  <2>2. QueuedUnits(QueuedJobs)' = QueuedUnits(QueuedJobs)
    BY <2>1, Zenon DEF QueuedUnits
  <2>3. workingBytes' <= MaxWorkingBytes
    BY <1>12, LimitsAssumption DEF IInv, TypeOK, Accounting
  <2>4. \A d \in Clients :
          running'[d] = Cardinality(RunningFor(d)') /\ running'[d] <= Concurrency[d]
    <3>1. running'[c] <= Concurrency[c]
      BY <1>10, LimitsAssumption DEF IInv, TypeOK, Accounting
    <3> QED
      BY <1>9, <1>10, <3>1, Zenon DEF IInv, Accounting
  <2> QED
    BY <1>1, <1>12, <2>1, <2>2, <2>3, <2>4, Zenon DEF IInv, Accounting
<1>19. Teardown'
  <2>1. \A d \in Clients : running[d] = 0 => running'[d] = 0
    BY <1>10, Zenon
  <2>2. ASSUME NEW d \in Clients, phase'[d] \in {"none", "drained", "released", "joining"}
        PROVE  queue[d] = <<>> /\ running'[d] = 0
    BY <1>8, <2>1, <2>2, Zenon DEF IInv, Teardown
  <2>3. \A d \in Clients : /\ phase'[d] = "open" <=> phase[d] = "open"
                           /\ phase'[d] = "discarding" <=> phase[d] = "discarding"
    BY <1>8, Zenon
  <2>4. Teardown /\ UNCHANGED <<queue, accepting, discards>>
    BY <1>1, Zenon DEF IInv
  <2> QED
    BY <2>2, <2>3, <2>4, Zenon DEF Teardown
<1>20. MustRunSurvives'
  BY <1>6, LimitsAssumption, Zenon DEF IInv, MustRunSurvives
<1>21. Registry'
  <2>1. \A v \in Workers : /\ pc'[v] = "absent" <=> pc[v] = "absent"
                           /\ pc'[v] = "exited" => pc[v] = "exited"
    BY <1>1, <1>3, Zenon
  <2> QED
    BY <1>1, <1>8, <2>1, RegistryKept, Zenon DEF IInv, poolVars
<1>22. NoStall'
  BY <1>3, Zenon DEF NoStall
<1> QED
  BY <1>13, <1>14, <1>15, <1>16, <1>17, <1>18, <1>19, <1>20, <1>21, <1>22, Zenon DEF IInv

-----------------------------------------------------------------------------
(* The steps of the contract that a worker takes.                             *)

\* Taking a job starts it in the contract.
LEMMA TakeStarts ==
  ASSUME IInv, NEW w \in Workers, NEW i \in 1..Len(ready), Take(w, i)
  PROVE  \E c \in Clients, j \in Jobs : Contract!Start(c, j)
<1>0. PICK c \in Clients, j \in Jobs :
        c = ready[i] /\ queue[c] # <<>> /\ j = Head(queue[c]) /\ Distinct(queue[c])
  <2>1. PICK c \in Clients : c = ready[i] /\ Listed(ready, c)
    BY DEF IInv, TypeOK, Listed
  <2>2. queue[c] # <<>> /\ queue[c] \in Seq(Jobs) /\ Distinct(queue[c])
    BY <2>1, Zenon DEF IInv, TypeOK, ReadyExact, OnePlace
  <2>3. Head(queue[c]) \in Jobs
    BY <2>2, TailCells, Zenon
  <2> QED
    BY <2>1, <2>2, <2>3, Zenon
<1>1. /\ pc[w] = "scan"
      /\ queue' = [queue EXCEPT ![c] = Tail(@)]
      /\ pc' = [pc EXCEPT ![w] = "run"]
      /\ job' = [job EXCEPT ![w] = j]
      /\ jobClient' = [jobClient EXCEPT ![w] = c]
      /\ fate' = [fate EXCEPT ![j] = "running"]
      /\ UNCHANGED <<phase, discards>>
  BY <1>0, Zenon DEF Take
<1>2. Listed(queue[c], j) /\ \A k : Listed(queue'[c], k) <=> Listed(queue[c], k) /\ k # j
  <2>1. queue[c] \in Seq(Jobs) /\ queue'[c] = Tail(queue[c])
    BY <1>1, Zenon DEF IInv, TypeOK
  <2>2. /\ Listed(queue[c], Head(queue[c]))
        /\ \A k : Listed(Tail(queue[c]), k) <=> Listed(queue[c], k) /\ k # Head(queue[c])
    BY <1>0, <2>1, TailCells, Zenon
  <2> QED
    BY <1>0, <2>1, <2>2, Zenon
<1>3. ~Listed(discards[c], j) /\ fate[j] = "queued"
  BY <1>2, Zenon DEF IInv, OnePlace
<1>4. j \in Pending[c] /\ Pending'[c] = Pending[c] \ {j}
  BY <1>1, <1>2, <1>3, Zenon DEF Pending
<1>5. \A d \in Clients \ {c} : queue'[d] = queue[d] /\ discards'[d] = discards[d]
  BY <1>1, Zenon DEF IInv, TypeOK
<1>6. Pending' = [Pending EXCEPT ![c] = Pending[c] \ {j}]
  BY <1>4, <1>5, PendingMoves, Zenon
<1>7. Client' = Client
  BY <1>1, ClientKept, Zenon
<1>8. Client[c] = "closing" => j \in MustRun
  <2>1. Client[c] = "closing" => ~accepting[c]
    BY Zenon DEF Client, IInv, Teardown
  <2> QED
    BY <1>2, <2>1, Zenon DEF IInv, Teardown
<1>9. /\ pc'[w] = "run" /\ job'[w] = j /\ jobClient'[w] = c
      /\ \A v \in Workers \ {w} :
           pc'[v] = pc[v] /\ job'[v] = job[v] /\ jobClient'[v] = jobClient[v]
  BY <1>1, Zenon DEF IInv, TypeOK
<1>10. \A d \in Clients : w \notin RunningFor(d)
  BY <1>1, Zenon DEF RunningFor
<1>11. Active'[c] = Active[c] \cup {j}
  <2>1. RunningFor(c)' = RunningFor(c) \cup {w}
    BY <1>9, Zenon DEF RunningFor
  <2> QED
    BY <1>9, <1>10, <2>1 DEF Active, RunningFor
<1>12. ASSUME NEW d \in Clients \ {c}
       PROVE  Active'[d] = Active[d]
  <2>1. RunningFor(d)' = RunningFor(d)
    BY <1>9, <1>10, Zenon DEF RunningFor
  <2> QED
    BY <1>9, <1>10, <2>1 DEF Active, RunningFor
<1>13. Active' = [Active EXCEPT ![c] = Active[c] \cup {j}]
  BY <1>11, <1>12, Zenon DEF Active
<1>14. Done' = Done
  <2>1. Done'[j] = Done[j] /\ \A k \in Jobs \ {j} : fate'[k] = fate[k]
    BY <1>1, <1>3, Zenon DEF Done, IInv, TypeOK
  <2> QED
    BY <2>1, DoneMoves, Zenon DEF Done
<1>15. Contract!Start(c, j)
  BY <1>4, <1>6, <1>7, <1>8, <1>13, <1>14, Zenon DEF Contract!Start, Client, Pending, Active, Done
<1> QED
  BY <1>15, Zenon

\* Settling a job finishes it in the contract.
LEMMA SettleFinishes ==
  ASSUME IInv, NEW w \in Workers, Settle(w)
  PROVE  \E c \in Clients, j \in Jobs : Contract!Finish(c, j)
<1>0. PICK c \in Clients, j \in Jobs : c = jobClient[w] /\ j = job[w]
  BY Zenon DEF Settle, IInv, TypeOK, Threads
<1>1. /\ pc[w] = "run" /\ phase' = Settled(phase)
      /\ job' = [job EXCEPT ![w] = Idle]
      /\ jobClient' = [jobClient EXCEPT ![w] = Idle]
      /\ fate' = [fate EXCEPT ![j] = "ran"]
      /\ UNCHANGED <<queue, discards>>
  BY <1>0, Zenon DEF Settle
<1>2. Client' = Client
  <2>1. \A d \in Clients : phase'[d] = phase[d] \/ (phase[d] = "settling" /\ phase'[d] = "draining")
    BY <1>1, SettledWakes, Zenon DEF IInv, TypeOK
  <2> QED
    BY <2>1, ClientKept, Zenon
<1>3. Pending' = Pending
  BY <1>1, PendingKept, Zenon
<1>4. Done' = [Done EXCEPT ![j] = "ran"]
  <2>1. Done'[j] = "ran" /\ \A k \in Jobs \ {j} : fate'[k] = fate[k]
    BY <1>1, Zenon DEF Done, IInv, TypeOK
  <2> QED
    BY <2>1, DoneMoves, Zenon
<1>5. /\ pc'[w] = "scan"
      /\ \A v \in Workers \ {w} : pc'[v] = "run" <=> pc[v] = "run"
  <2> DEFINE scanning == [pc EXCEPT ![w] = "scan"]
  <2>1. scanning \in [Workers -> PCs]
    BY Zenon DEF IInv, TypeOK, PCs
  <2>2. pc' \in Signalled(scanning) \/ pc' = scanning
    BY Zenon DEF Settle
  <2>3. \A v \in Workers : scanning[v] = IF v = w THEN "scan" ELSE pc[v]
    BY Zenon DEF IInv, TypeOK
  <2> HIDE DEF scanning
  <2>4. pc' = scanning \/ Woken(scanning, pc')
    BY <2>1, <2>2, SignalledWakes, Zenon
  <2> QED
    BY <2>3, <2>4, Zenon DEF Woken
<1>6. \A v \in Workers \ {w} : job'[v] = job[v] /\ jobClient'[v] = jobClient[v]
  BY <1>1, Zenon DEF IInv, TypeOK
<1>7. RunningFor(c)' = RunningFor(c) \ {w} /\ w \in RunningFor(c)
  BY <1>0, <1>1, <1>5, <1>6, Zenon DEF RunningFor
<1>8. \A v \in Workers : job[v] = j => v = w
  BY <1>0, NamesAssumption, Zenon DEF IInv, OnePlace
<1>9. j \in Active[c] /\ Active'[c] = Active[c] \ {j}
  BY <1>0, <1>6, <1>7, <1>8 DEF Active, RunningFor
<1>10. ASSUME NEW d \in Clients \ {c}
       PROVE  Active'[d] = Active[d]
  <2>1. RunningFor(d)' = RunningFor(d) /\ w \notin RunningFor(d)
    BY <1>0, <1>5, <1>6, Zenon DEF RunningFor
  <2> QED
    BY <1>6, <2>1 DEF Active, RunningFor
<1>11. Active' = [Active EXCEPT ![c] = Active[c] \ {j}]
  BY <1>9, <1>10, Zenon DEF Active
<1>12. Contract!Finish(c, j)
  BY <1>2, <1>3, <1>4, <1>9, <1>11, Zenon DEF Contract!Finish, Client, Pending, Active, Done
<1> QED
  BY <1>12, Zenon
=============================================================================
