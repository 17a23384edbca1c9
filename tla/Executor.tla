------------------------------ MODULE Executor ------------------------------
(***************************************************************************)
(* One process-wide helper pool of runtime/src/executor.c: clients submit  *)
(* jobs into bounded queues, the pool's worker threads take them from the  *)
(* ready clients round-robin, and a client's teardown discards ordinary    *)
(* queued jobs and waits for the rest.  The classes (I/O, DNS, crypto, GC) *)
(* have separate pools that share nothing but the registry mutex, so one   *)
(* pool is modelled.                                                       *)
(*                                                                         *)
(* A critical section of pool->mutex is one action, except a worker's: it  *)
(* keeps the mutex from settling one job to taking the next or waiting, so *)
(* "mutex" names the worker inside.  A job's payload is its name.          *)
(***************************************************************************)
EXTENDS Integers, Sequences, FiniteSets, Lists

CONSTANTS
  Clients,        \* MalExecutorClient values
  Jobs,           \* payloads, each submitted at most once
  Workers,        \* the threads mal_executor_pool_new may create
  Free,           \* the mutex is not held by a worker
  Idle,           \* the job and the client of a worker that runs no job
  MustRun,        \* jobs submitted with must_run
  QueuedBytes,    \* queued_bytes of a job
  WorkingBytes,   \* working_bytes of a job
  Concurrency,    \* concurrency of a client
  QueueCapacity,  \* queue_capacity of a client
  MaxQueued,      \* MAL_EXECUTOR_MAX_QUEUED
  MaxQueueBytes,  \* MAL_EXECUTOR_QUEUE_BYTES
  MaxWorkingBytes \* MAL_EXECUTOR_WORKING_BYTES

ASSUME NamesAssumption ==
  /\ Free \notin Workers
  /\ Idle \notin Jobs \cup Clients
  /\ IsFiniteSet(Workers)
  /\ IsFiniteSet(Jobs)
  /\ IsFiniteSet(Clients)

ASSUME LimitsAssumption ==
  /\ MustRun \subseteq Jobs
  /\ QueuedBytes \in [Jobs -> Nat]
  /\ WorkingBytes \in [Jobs -> Nat]
  /\ Concurrency \in [Clients -> Nat \ {0}]
  /\ QueueCapacity \in [Clients -> Nat \ {0}]
  /\ MaxQueued \in Nat
  /\ MaxQueueBytes \in Nat
  /\ MaxWorkingBytes \in Nat

VARIABLES
  pool,         \* "absent", "live" or "stopping"
  mutex,        \* the worker inside the pool mutex between two waits, or Free
  pc,           \* per worker: absent, start, scan, waiting, run, exited
  job,          \* per worker: the job it runs, or Idle
  jobClient,    \* per worker: the client of that job, or Idle
  ready,        \* ready_head .. ready_tail
  queue,        \* per client: head .. tail
  running,      \* per client
  accepting,    \* per client
  phase,        \* per client: where its owner is in init, teardown and free
  discards,     \* per client: the local list of jobs teardown will discard
  clients,      \* pool->clients
  poolQueued,   \* pool->queued
  queuedBytes,  \* pool->queued_bytes
  workingBytes, \* pool->working_bytes
  fate          \* per job, what became of its payload

poolVars   == <<pool, clients>>
workerVars == <<mutex, pc, job, jobClient>>
clientVars == <<queue, running, accepting, phase, discards>>
countVars  == <<poolQueued, queuedBytes, workingBytes>>
vars == <<poolVars, workerVars, ready, clientVars, countVars, fate>>

Phases == {"none", "open", "discarding", "draining", "settling", "drained",
           "released", "joining"}
Fates  == {"fresh", "queued", "running", "ran", "dropped", "discarded", "cancelled"}
PCs    == {"absent", "start", "scan", "waiting", "run", "exited"}

-----------------------------------------------------------------------------
(* The ready list and the condition variables. *)

\* mal_executor_ready_remove.
ReadyRemove(list, c) == Without(list, c)

\* Faulty variants used to confirm that the properties can fail end in "Bug".
\* The ready flag is not tested.
ReadyAddTwiceBug(list, c, q, runnable) == IF q = <<>> THEN list ELSE Append(list, c)

\* The jobs a client may still start, given its accepting flag.
Runnable(accepts) == IF accepts THEN Jobs ELSE MustRun

\* mal_executor_ready_add, given the client's queue and the jobs it may start.
ReadyAdd(list, c, q, runnable) ==
  IF Listed(list, c) \/ q = <<>> \/ Head(q) \notin runnable
  THEN list
  ELSE Append(list, c)

\* A submission wakes nobody.
SignalLostBug(pcs) == {pcs}

\* pthread_cond_signal(&pool->work): one waiter, if any, will scan again.
Signalled(pcs) ==
  IF \E w \in Workers : pcs[w] = "waiting"
  THEN {[pcs EXCEPT ![w] = "start"] : w \in {v \in Workers : pcs[v] = "waiting"}}
  ELSE {pcs}

\* pthread_cond_broadcast(&pool->work).
Broadcast(pcs) == [w \in Workers |-> IF pcs[w] = "waiting" THEN "start" ELSE pcs[w]]

\* pthread_cond_broadcast(&pool->settled): every teardown tests its condition again.
Settled(phases) ==
  [c \in Clients |-> IF phases[c] = "settling" THEN "draining" ELSE phases[c]]

-----------------------------------------------------------------------------
Init ==
  /\ pool = "absent"
  /\ mutex = Free
  /\ pc = [w \in Workers |-> "absent"]
  /\ job = [w \in Workers |-> Idle]
  /\ jobClient = [w \in Workers |-> Idle]
  /\ ready = <<>>
  /\ queue = [c \in Clients |-> <<>>]
  /\ running = [c \in Clients |-> 0]
  /\ accepting = [c \in Clients |-> FALSE]
  /\ phase = [c \in Clients |-> "none"]
  /\ discards = [c \in Clients |-> <<>>]
  /\ clients = 0
  /\ poolQueued = 0
  /\ queuedBytes = 0
  /\ workingBytes = 0
  /\ fate = [j \in Jobs |-> "fresh"]

\* mal_executor_client_free keeps the registry mutex while it joins the workers.
RegistryFree == \A c \in Clients : phase[c] # "joining"

\* mal_executor_client_init; the first client of the class creates the pool with
\* as many of its threads as pthread_create grants.
ClientInit(c) ==
  /\ phase[c] = "none"
  /\ RegistryFree
  /\ phase' = [phase EXCEPT ![c] = "open"]
  /\ accepting' = [accepting EXCEPT ![c] = TRUE]
  /\ clients' = clients + 1
  /\ \/ /\ pool = "absent"
        /\ pool' = "live"
        /\ \E T \in SUBSET Workers :
             /\ T # {}
             /\ pc' = [w \in Workers |-> IF w \in T THEN "start" ELSE "absent"]
     \/ /\ pool = "live"
        /\ UNCHANGED <<pool, pc>>
  /\ UNCHANGED <<mutex, job, jobClient, ready, queue, running, discards, countVars, fate>>

\* The submission conditions of mal_executor_submit.
Admits(c, j) ==
  /\ WorkingBytes[j] <= MaxWorkingBytes
  /\ accepting[c]
  /\ Len(queue[c]) < QueueCapacity[c]
  /\ poolQueued < MaxQueued
  /\ QueuedBytes[j] <= MaxQueueBytes - queuedBytes

\* mal_executor_submit.  A refused submission changes nothing and leaves the payload
\* with its caller.
Submit(c, j) ==
  /\ phase[c] \in {"open", "drained"}
  /\ mutex = Free
  /\ fate[j] = "fresh"
  /\ Admits(c, j)
  /\ queue' = [queue EXCEPT ![c] = Append(@, j)]
  /\ poolQueued' = poolQueued + 1
  /\ queuedBytes' = queuedBytes + QueuedBytes[j]
  /\ ready' = ReadyAdd(ready, c, queue'[c], Runnable(accepting[c]))
  /\ pc' \in Signalled(pc)
  /\ fate' = [fate EXCEPT ![j] = "queued"]
  /\ UNCHANGED <<poolVars, mutex, job, jobClient, running, accepting, phase, discards,
                 workingBytes>>

\* mal_executor_cancel; a job no longer queued is left alone.
Cancel(c, j) ==
  /\ phase[c] = "open"
  /\ mutex = Free
  /\ Listed(queue[c], j)
  /\ queue' = [queue EXCEPT ![c] = Without(@, j)]
  /\ poolQueued' = poolQueued - 1
  /\ queuedBytes' = queuedBytes - QueuedBytes[j]
  /\ ready' = IF queue'[c] = <<>> THEN ReadyRemove(ready, c) ELSE ready
  /\ phase' = Settled(phase)
  /\ fate' = [fate EXCEPT ![j] = "cancelled"]
  /\ UNCHANGED <<poolVars, workerVars, running, accepting, discards, workingBytes>>

-----------------------------------------------------------------------------
(* mal_executor_client_shutdown and mal_executor_client_free. *)

\* The queued bytes of the jobs at the indices I of list q, one pair per byte.
Bytes(q, I) ==
  Cardinality({b \in I \X (1..MaxQueueBytes) : b[2] <= QueuedBytes[q[b[1]]]})

\* The jobs teardown keeps, by index.
Kept(q) == {i \in 1..Len(q) : q[i] \in MustRun}

\* Teardown waits for queued jobs only.
BusyQueueOnlyBug(c) == queue[c] # <<>>

\* The condition on which teardown waits.
Busy(c) == running[c] # 0 \/ queue[c] # <<>>

\* The first critical section: close the client, keep its must_run jobs and set the
\* others aside.
Shutdown(c) ==
  LET q    == queue[c]
      keep == Kept(q)
      drop == (1..Len(q)) \ keep
  IN  /\ phase[c] = "open"
      /\ mutex = Free
      /\ accepting' = [accepting EXCEPT ![c] = FALSE]
      /\ \E f \in Ascending(keep, Len(q)), g \in Ascending(drop, Len(q)) :
           /\ queue' = [queue EXCEPT ![c] = Pick(q, f)]
           /\ discards' = [discards EXCEPT ![c] = Pick(q, g)]
      /\ poolQueued' = poolQueued - Cardinality(drop)
      /\ queuedBytes' = queuedBytes - Bytes(q, drop)
      /\ ready' = ReadyAdd(ReadyRemove(ready, c), c, queue'[c], Runnable(FALSE))
      /\ pc' = Broadcast(pc)
      /\ phase' = [phase EXCEPT ![c] = "discarding"]
      /\ fate' = [j \in Jobs |->
                    IF \E i \in drop : q[i] = j THEN "dropped" ELSE fate[j]]
      /\ UNCHANGED <<poolVars, mutex, job, jobClient, running, workingBytes>>

\* Outside the mutex: one discard callback.
Discard(c) ==
  /\ phase[c] = "discarding"
  /\ discards[c] # <<>>
  /\ discards' = [discards EXCEPT ![c] = Tail(@)]
  /\ fate' = [fate EXCEPT ![Head(discards[c])] = "discarded"]
  /\ UNCHANGED <<poolVars, workerVars, ready, queue, running, accepting, phase, countVars>>

\* The callbacks are done.
Discarded(c) ==
  /\ phase[c] = "discarding"
  /\ discards[c] = <<>>
  /\ phase' = [phase EXCEPT ![c] = "draining"]
  /\ UNCHANGED <<poolVars, workerVars, ready, queue, running, accepting, discards,
                 countVars, fate>>

\* One test of the wait loop on pool->settled.
Drain(c) ==
  /\ phase[c] = "draining"
  /\ mutex = Free
  /\ phase' = [phase EXCEPT ![c] = IF Busy(c) THEN "settling" ELSE "drained"]
  /\ UNCHANGED <<poolVars, workerVars, ready, queue, running, accepting, discards,
                 countVars, fate>>

\* client_free shuts the drained client down again, which only wakes the workers, and
\* frees its state.
ClientFree(c) ==
  /\ phase[c] = "drained"
  /\ mutex = Free
  /\ pc' = Broadcast(pc)
  /\ phase' = [phase EXCEPT ![c] = "released"]
  /\ UNCHANGED <<poolVars, mutex, job, jobClient, ready, queue, running, accepting,
                 discards, countVars, fate>>

\* The registry section of client_free: the last client stops the pool.
Unregister(c) ==
  /\ phase[c] = "released"
  /\ RegistryFree
  /\ clients' = clients - 1
  /\ \/ /\ clients' # 0
        /\ phase' = [phase EXCEPT ![c] = "none"]
        /\ UNCHANGED <<pool, pc>>
     \/ /\ clients' = 0
        /\ mutex = Free
        /\ pool' = "stopping"
        /\ pc' = Broadcast(pc)
        /\ phase' = [phase EXCEPT ![c] = "joining"]
  /\ UNCHANGED <<mutex, job, jobClient, ready, queue, running, accepting, discards,
                 countVars, fate>>

\* Every worker was joined; the pool is freed.
Join(c) ==
  /\ phase[c] = "joining"
  /\ \A w \in Workers : pc[w] \in {"absent", "exited"}
  /\ pool' = "absent"
  /\ pc' = [w \in Workers |-> "absent"]
  /\ phase' = [phase EXCEPT ![c] = "none"]
  /\ UNCHANGED <<clients, mutex, job, jobClient, ready, queue, running, accepting,
                 discards, countVars, fate>>

-----------------------------------------------------------------------------
(* mal_executor_worker. *)

\* Enter the mutex, at thread start or after pthread_cond_wait.
Lock(w) ==
  /\ pc[w] = "start"
  /\ mutex = Free
  /\ mutex' = w
  /\ pc' = [pc EXCEPT ![w] = "scan"]
  /\ UNCHANGED <<poolVars, job, jobClient, ready, clientVars, countVars, fate>>

\* One job too many.
EligibleOffByOneBug(c) ==
  /\ running[c] <= Concurrency[c]
  /\ WorkingBytes[Head(queue[c])] <= MaxWorkingBytes - workingBytes

\* A ready client the scan does not skip.
Eligible(c) ==
  /\ running[c] < Concurrency[c]
  /\ WorkingBytes[Head(queue[c])] <= MaxWorkingBytes - workingBytes

\* The scan stops at ready cell i.
Selects(i) ==
  /\ Eligible(ready[i])
  /\ \A k \in 1..(i - 1) : ~Eligible(ready[k])

\* Take the head job of the selected client, move the client to the tail of the ready
\* list, leave the mutex and run the job.
Take(w, i) ==
  LET c == ready[i]
      j == Head(queue[c])
  IN  /\ pc[w] = "scan"
      /\ Selects(i)
      /\ queue' = [queue EXCEPT ![c] = Tail(@)]
      /\ ready' = ReadyAdd(ReadyRemove(ready, c), c, queue'[c], Runnable(accepting[c]))
      /\ running' = [running EXCEPT ![c] = @ + 1]
      /\ poolQueued' = poolQueued - 1
      /\ queuedBytes' = queuedBytes - QueuedBytes[j]
      /\ workingBytes' = workingBytes + WorkingBytes[j]
      /\ mutex' = Free
      /\ pc' = [pc EXCEPT ![w] = "run"]
      /\ job' = [job EXCEPT ![w] = j]
      /\ jobClient' = [jobClient EXCEPT ![w] = c]
      /\ fate' = [fate EXCEPT ![j] = "running"]
      /\ UNCHANGED <<poolVars, accepting, phase, discards>>

\* Nothing is eligible: leave the mutex, for good when the pool stops.
Rest(w) ==
  /\ pc[w] = "scan"
  /\ \A i \in 1..Len(ready) : ~Eligible(ready[i])
  /\ mutex' = Free
  /\ pc' = [pc EXCEPT ![w] = IF pool = "stopping" THEN "exited" ELSE "waiting"]
  /\ UNCHANGED <<poolVars, job, jobClient, ready, clientVars, countVars, fate>>

\* The job's callback returned: enter the mutex and settle it.
Settle(w) ==
  LET c == jobClient[w]
  IN  /\ pc[w] = "run"
      /\ mutex = Free
      /\ mutex' = w
      /\ workingBytes' = workingBytes - WorkingBytes[job[w]]
      /\ running' = [running EXCEPT ![c] = @ - 1]
      /\ LET scanning == [pc EXCEPT ![w] = "scan"]
         IN  pc' \in IF poolQueued > 1 THEN Signalled(scanning) ELSE {scanning}
      /\ phase' = Settled(phase)
      /\ job' = [job EXCEPT ![w] = Idle]
      /\ jobClient' = [jobClient EXCEPT ![w] = Idle]
      /\ fate' = [fate EXCEPT ![job[w]] = "ran"]
      /\ UNCHANGED <<poolVars, ready, queue, accepting, discards, poolQueued,
                     queuedBytes>>

-----------------------------------------------------------------------------
Next ==
  \/ \E c \in Clients :
       \/ ClientInit(c)
       \/ \E j \in Jobs : Submit(c, j) \/ Cancel(c, j)
       \/ Shutdown(c)
       \/ Discard(c)
       \/ Discarded(c)
       \/ Drain(c)
       \/ ClientFree(c)
       \/ Unregister(c)
       \/ Join(c)
  \/ \E w \in Workers :
       \/ Lock(w)
       \/ \E i \in 1..Len(ready) : Take(w, i)
       \/ Rest(w)
       \/ Settle(w)

Spec == Init /\ [][Next]_vars

\* Threads keep running, callbacks return, and a thread that keeps finding the mutex
\* free gets it; nobody has to submit, cancel or tear down.
Fairness ==
  /\ \A w \in Workers :
       /\ SF_vars(Lock(w) \/ Settle(w))
       /\ WF_vars(\E i \in 1..Len(ready) : Take(w, i))
       /\ WF_vars(Rest(w))
  /\ \A c \in Clients :
       /\ WF_vars(Discard(c))
       /\ WF_vars(Discarded(c))
       /\ SF_vars(Drain(c))

FairSpec == Spec /\ Fairness

-----------------------------------------------------------------------------
(* What the pool promises. *)

\* A client whose MalExecutorClientState is allocated.
HasState(c) == phase[c] \notin {"none", "released", "joining"}

\* The workers running a job of client c.
RunningFor(c) == {w \in Workers : pc[w] = "run" /\ jobClient[w] = c}

QueuedJobs == {j \in Jobs : fate[j] = "queued"}

\* Type correctness of the pool's, the clients' and the workers' fields; the unsigned
\* counters never wrap below zero.
TypeOK ==
  /\ pool \in {"absent", "live", "stopping"}
  /\ mutex \in Workers \cup {Free}
  /\ pc \in [Workers -> PCs]
  /\ job \in [Workers -> Jobs \cup {Idle}]
  /\ jobClient \in [Workers -> Clients \cup {Idle}]
  /\ ready \in Seq(Clients)
  /\ queue \in [Clients -> Seq(Jobs)]
  /\ running \in [Clients -> Nat]
  /\ accepting \in [Clients -> BOOLEAN]
  /\ phase \in [Clients -> Phases]
  /\ discards \in [Clients -> Seq(Jobs)]
  /\ clients \in Nat
  /\ poolQueued \in Nat
  /\ queuedBytes \in Nat
  /\ workingBytes \in Nat
  /\ fate \in [Jobs -> Fates]

\* The ready list holds every client with queued work once and no other client, so the
\* worker's scan never dereferences an empty queue's head (executor.c:88) and no queued
\* job is out of the scan's reach, whatever submissions, cancellations and teardowns
\* preceded it.
ReadyExact ==
  /\ Distinct(ready)
  /\ \A c \in Clients : Listed(ready, c) <=> queue[c] # <<>>

\* Wake-ups are not lost: a submission signals one worker only and a finishing worker
\* signals another only when more than one job is queued (executor.c:114), yet queued
\* work never meets a pool whose workers all wait.
NoStall ==
  ready # <<>> => \E w \in Workers : pc[w] \in {"start", "scan", "run"}

\* One pair per byte of the queued jobs in S, and per byte of the running jobs.
QueuedUnits(S) == {b \in S \X (1..MaxQueueBytes) : b[2] <= QueuedBytes[b[1]]}
WorkingUnits   == {b \in Workers \X (1..MaxWorkingBytes) :
                     job[b[1]] # Idle /\ b[2] <= WorkingBytes[job[b[1]]]}

\* The counters agree with the lists and threads they summarise and keep the limits:
\* pool->queued, pool->queued_bytes and pool->working_bytes, and every client's running
\* within its concurrency.
Accounting ==
  /\ poolQueued = Cardinality(QueuedJobs) /\ poolQueued <= MaxQueued
  /\ queuedBytes = Cardinality(QueuedUnits(QueuedJobs)) /\ queuedBytes <= MaxQueueBytes
  /\ workingBytes = Cardinality(WorkingUnits) /\ workingBytes <= MaxWorkingBytes
  /\ \A c \in Clients :
       /\ running[c] = Cardinality(RunningFor(c)) /\ running[c] <= Concurrency[c]
       /\ Len(queue[c]) <= QueueCapacity[c]

\* No thread touches freed memory: a worker that will settle a job finds its client's
\* state allocated, the ready list names only allocated clients, and a freed pool has
\* neither clients nor threads left.
Lifetime ==
  /\ \A w \in Workers : pc[w] = "run" => HasState(jobClient[w])
  /\ \A i \in 1..Len(ready) : HasState(ready[i])
  /\ pool # "live" =>
       /\ \A c \in Clients : ~HasState(c)
       /\ pool = "absent" => \A w \in Workers : pc[w] = "absent"

\* Each accepted payload is in one place only (one cell of one queue, one cell of one
\* teardown's discard list, or one worker) until it was run, discarded or handed back by
\* cancel, and afterwards in none: it is never run twice or run after its discard.
OnePlace ==
  /\ \A c \in Clients : Distinct(queue[c]) /\ Distinct(discards[c])
  /\ \A c, d \in Clients : c # d =>
       \A j \in Jobs : /\ ~(Listed(queue[c], j) /\ Listed(queue[d], j))
                       /\ ~(Listed(discards[c], j) /\ Listed(discards[d], j))
  /\ \A v, w \in Workers : job[v] = job[w] /\ job[v] # Idle => v = w
  /\ \A j \in Jobs :
       /\ fate[j] = "queued" <=> \E c \in Clients : Listed(queue[c], j)
       /\ fate[j] = "dropped" <=> \E c \in Clients : Listed(discards[c], j)
       /\ fate[j] = "running" <=> \E w \in Workers : job[w] = j

\* A must_run job is never set aside by its client's teardown (executor.h: "must_run
\* jobs survive client teardown").
MustRunSurvives == \A j \in MustRun : fate[j] \notin {"dropped", "discarded"}

\* Every accepted job is eventually run, discarded or cancelled, and a client's teardown
\* returns: its wait on pool->settled is always answered.  A job is accepted once and its
\* fate is then final, so it is enough that again and again no job is pending; a teardown
\* may follow another.
JobsFinish ==
  /\ []<>(\A j \in Jobs : fate[j] \in {"fresh", "ran", "discarded", "cancelled"})
  /\ \A c \in Clients : []<>(phase[c] \notin {"discarding", "draining", "settling"})

-----------------------------------------------------------------------------
(* The pool implements what executor.h promises its clients. *)

Contract == INSTANCE ExecutorContract WITH
  client  <- [c \in Clients |->
                CASE phase[c] = "open" -> "open"
                  [] phase[c] \in {"discarding", "draining", "settling"} -> "closing"
                  [] OTHER -> "absent"],
  pending <- [c \in Clients |->
                {j \in Jobs : Listed(queue[c], j) \/ Listed(discards[c], j)}],
  active  <- [c \in Clients |-> {job[w] : w \in RunningFor(c)}],
  done    <- [j \in Jobs |->
                IF fate[j] \in {"ran", "discarded", "cancelled"} THEN fate[j] ELSE "no"]

\* Every behaviour of the pool is one of the contract's: a payload ends once, teardown
\* alone discards, and teardown returns only when the client has no job left.
ImplementsContract == Contract!Spec
=============================================================================
