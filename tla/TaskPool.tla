------------------------------ MODULE TaskPool ------------------------------
(***************************************************************************)
(* The worker pool of src/workers/runtime.ts (createPool) with its         *)
(* executors, src/workers/pool-worker.ts.  The pool is a closure on the    *)
(* event loop of its creator: "pool" holds the closure's variables, and    *)
(* dispatch, finishShutdown and failPool are functions of it.  A           *)
(* submission runs user code (iterating the transfer list, getters of the  *)
(* arguments), which may call back into the pool: "frames" is the stack of *)
(* submissions in progress.  Events of the loop wait until it is empty.    *)
(* Executors are threads; their messages and their exit reach the loop in  *)
(* order.                                                                  *)
(***************************************************************************)
EXTENDS Integers, Sequences, FiniteSets, Lists

CONSTANTS
  Tasks,          \* calls of run; one that throws may be made again
  Size,           \* options.size
  MaxQueuedTasks, \* options.maxQueuedTasks
  Unsendable,     \* tasks whose message to an executor is refused
  None

ASSUME PoolAssumption ==
  /\ Size \in Nat \ {0}
  /\ MaxQueuedTasks \in Nat
  /\ Unsendable \subseteq Tasks
  /\ None \notin Tasks
  /\ None \notin 1..Size

Executors == 1..Size
Outcomes  == {"completed", "failed", "cancelled"}

VARIABLES
  pool,     \* the closure: state, ready, jobs, mailbox (of the local queue channel),
            \* slot (worker.job), owner (job.worker), settled, queued, active,
            \* count (completed, failed, cancelled), shuttingDown, referenced,
            \* cached (workerHandlesReferenced) and handles, what the handles really are.
            \* The shutdown promise exists from the moment the state is not "open" and
            \* settles with "closed"
  frames,   \* submissions in progress, innermost last: <<task, stage>>
  aborted,  \* tasks whose AbortSignal has fired since the call of run
  flag,     \* the shared cancellation flags
  inbox,    \* per executor: requests its port holds
  outbox,   \* per executor: responses the loop has not received
  exec,     \* per executor: "starting", "up", "crashed" or "stopped" (not yet seen by
            \* the loop), "reaped"
  started,  \* per executor: its entry was evaluated
  running   \* per executor: the task it executes, or None

execVars == <<outbox, exec, started, running>>
vars == <<pool, frames, aborted, flag, inbox, execVars>>

Init ==
  /\ pool = [state |-> "open", ready |-> FALSE, jobs |-> {}, mailbox |-> <<>>,
             slot |-> [e \in Executors |-> None], owner |-> [t \in Tasks |-> None],
             settled |-> [t \in Tasks |-> "no"], queued |-> 0, active |-> 0,
             count |-> [o \in Outcomes |-> 0], shuttingDown |-> FALSE,
             referenced |-> TRUE, cached |-> "undefined", handles |-> "ref"]
  /\ frames = <<>>
  /\ aborted = {}
  /\ flag = [t \in Tasks |-> FALSE]
  /\ inbox = [e \in Executors |-> <<>>]
  /\ outbox = [e \in Executors |-> <<>>]
  /\ exec = [e \in Executors |-> "starting"]
  /\ started = [e \in Executors |-> FALSE]
  /\ running = [e \in Executors |-> None]

-----------------------------------------------------------------------------
(* The closure's functions. *)

\* settle, for every task in T, and the counter its callers increment.
Settle(p, T, outcome) ==
  LET S == {t \in T : p.settled[t] = "no"}
  IN  [p EXCEPT !.settled = [t \in Tasks |-> IF t \in S THEN outcome ELSE @[t]],
                !.count[outcome] = @ + Cardinality(S)]

\* updateReferences, skipped when it has nothing to change.
UpdateReferences(p) ==
  LET desired == IF p.referenced /\ (~p.ready \/ p.jobs # {}) THEN "ref" ELSE "unref"
  IN  IF p.cached = desired THEN p ELSE [p EXCEPT !.cached = desired, !.handles = desired]

\* finishShutdown: closes the queue and asks every executor to stop, which references its
\* handle (runtime/src/runtime/workers.c:3709).
FinishShutdown(p) ==
  IF ~p.shuttingDown /\ p.state \in {"closing", "terminating"} /\ p.jobs = {}
  THEN [p EXCEPT !.shuttingDown = TRUE, !.handles = "ref"]
  ELSE p

\* Drop every job, as failPool and terminate do.
DropJobs(p, outcome) ==
  FinishShutdown(UpdateReferences([Settle(p, p.jobs, outcome) EXCEPT
    !.state = "terminating", !.jobs = {}, !.queued = 0, !.active = 0]))

Idle(p) == {e \in Executors : p.slot[e] = None}

\* The tasks dispatch will hand over and how many messages it receives for them.
Sendable(p) == SelectSeq(p.mailbox, LAMBDA t : t \in p.jobs \ Unsendable)

Handed(p) == IF Len(Sendable(p)) < Cardinality(Idle(p))
             THEN Len(Sendable(p)) ELSE Cardinality(Idle(p))

\* The last message handed over stays in the mailbox.
ReceivedOneLessBug(p) == IF Len(p.mailbox) = 0 THEN 0 ELSE Len(p.mailbox) - 1

Received(p) ==
  IF Handed(p) < Cardinality(Idle(p)) THEN Len(p.mailbox)
  ELSE IF Handed(p) = 0 THEN 0
  ELSE CHOOSE n \in 1..Len(p.mailbox) : p.mailbox[n] = Sendable(p)[Handed(p)]

\* The task dispatch gives executor e, the idle ones in their order, or None.
Assigned(p, e) ==
  LET rank == Cardinality({d \in Idle(p) : d <= e})
  IN  IF e \in Idle(p) /\ rank <= Handed(p) THEN Sendable(p)[rank] ELSE None

\* A closing pool no longer dispatches.
DispatchesOpenBug(p) == p.ready /\ p.state = "open"

Dispatches(p) == p.ready /\ p.state \in {"open", "closing"}

\* dispatch: hand the oldest queued tasks to the idle executors; a task whose message is
\* refused fails.
Dispatch(p) ==
  IF ~Dispatches(p) THEN p
  ELSE LET n      == Received(p)
           given  == [e \in Executors |-> Assigned(p, e)]
           taken  == {p.mailbox[k] : k \in 1..n} \cap p.jobs
           lost   == taken \cap Unsendable
           handed == {e \in Executors : given[e] # None}
           q == [p EXCEPT
                  !.mailbox = SubSeq(@, n + 1, Len(@)),
                  !.queued = @ - Cardinality(taken),
                  !.active = @ + Cardinality(handed),
                  !.jobs = @ \ lost,
                  !.slot = [e \in Executors |-> IF e \in handed THEN given[e] ELSE @[e]],
                  !.owner = [t \in Tasks |-> IF \E e \in handed : given[e] = t
                                             THEN CHOOSE e \in handed : given[e] = t ELSE @[t]]]
       IN  FinishShutdown(UpdateReferences(Settle(q, lost, "failed")))

\* The requests dispatch posts.
Posted(p) ==
  [e \in Executors |-> IF Dispatches(p) /\ Assigned(p, e) # None
                       THEN Append(inbox[e], Assigned(p, e)) ELSE inbox[e]]

\* The state after p, dispatch included.
Dispatching(p) ==
  /\ pool' = Dispatch(p)
  /\ inbox' = Posted(p)

-----------------------------------------------------------------------------
(* Calls of the pool's methods, from the program or from user code of a    *)
(* submission in progress.                                                 *)

Top(t, stage) == frames # <<>> /\ frames[Len(frames)] = <<t, stage>>
Pop == frames' = SubSeq(frames, 1, Len(frames) - 1)

Limit == MaxQueuedTasks + Size

\* Submissions in progress are not counted.
InProgressForgottenBug == 0

\* admitting.
InProgress == Len(frames)

InFrames(t) == \E i \in 1..Len(frames) : frames[i][1] = t

\* A call not made yet.
Fresh(t) == ~InFrames(t) /\ t \notin pool.jobs /\ pool.settled[t] = "no"

\* run and the start of submit: the checks, then the transfer list is iterated.
RunBegin(t) ==
  /\ Fresh(t)
  /\ pool.state = "open"
  /\ Cardinality(pool.jobs) + InProgress < MaxQueuedTasks + (IF pool.ready THEN Size ELSE 0)
  /\ frames' = Append(frames, <<t, "prep">>)
  /\ UNCHANGED <<pool, aborted, flag, inbox, execVars>>

\* Messages in the local mailbox and places reserved by posts in progress.
Occupied == Len(pool.mailbox) + Cardinality({i \in 1..Len(frames) : frames[i][2] = "post"})

\* postMessage reserves a place and starts to clone the arguments.
RunPost(t) ==
  /\ Top(t, "prep")
  /\ pool.state = "open" /\ t \notin aborted /\ Occupied < Limit
  /\ frames' = [frames EXCEPT ![Len(frames)] = <<t, "post">>]
  /\ UNCHANGED <<pool, aborted, flag, inbox, execVars>>

\* Any failure of a submission: its own checks, the transfer list, the clone, the byte
\* limits, a queue closed meanwhile.  Its name stands for a new call afterwards, with a
\* signal and a flag of its own.
RunThrow(t) ==
  /\ Top(t, "prep") \/ Top(t, "post")
  /\ Pop
  /\ aborted' = aborted \ {t} /\ flag' = [flag EXCEPT ![t] = FALSE]
  /\ UNCHANGED <<pool, inbox, execVars>>

\* The branch of job.abort for a task no executor has.
AbortQueued(p, t) ==
  [Settle(p, {t}, "cancelled") EXCEPT
     !.mailbox = Without(@, t), !.jobs = @ \ {t}, !.queued = @ - 1]

\* The clone is published; an abort that came during the clone takes effect now.
RunCommit(t) ==
  LET p == [pool EXCEPT !.jobs = @ \cup {t}, !.mailbox = Append(@, t), !.queued = @ + 1]
  IN  /\ Top(t, "post") /\ ~pool.shuttingDown
      /\ Dispatching(IF t \in aborted THEN AbortQueued(p, t) ELSE p)
      /\ Pop
      /\ UNCHANGED <<aborted, flag, execVars>>

\* The signal of t fires, during the submission or while the listener of job.abort is
\* attached; at any other time it has no effect on the pool.
Abort(t) ==
  LET live == t \in pool.jobs /\ pool.settled[t] = "no"
  IN  /\ t \notin aborted /\ (live \/ InFrames(t))
      /\ aborted' = aborted \cup {t}
      /\ flag' = [flag EXCEPT ![t] = TRUE]
      /\ IF live
         THEN Dispatching(IF pool.owner[t] = None THEN AbortQueued(pool, t)
                          ELSE Settle(pool, {t}, "cancelled"))
         ELSE UNCHANGED <<pool, inbox>>
      /\ UNCHANGED <<frames, execVars>>

Close ==
  /\ pool' = FinishShutdown([pool EXCEPT !.state = IF @ = "open" THEN "closing" ELSE @])
  /\ UNCHANGED <<frames, aborted, flag, inbox, execVars>>

\* Dropped tasks keep running.
FlagsKeptBug(p) == flag

\* The flags terminate and failPool set.
Flags(p) == [t \in Tasks |-> flag[t] \/ t \in p.jobs]

Terminate ==
  /\ IF pool.state \in {"closed", "terminating"} THEN UNCHANGED <<pool, flag>>
     ELSE pool' = DropJobs(pool, "cancelled") /\ flag' = Flags(pool)
  /\ UNCHANGED <<frames, aborted, inbox, execVars>>

\* ref and unref.
Reference(on) ==
  /\ pool' = UpdateReferences([pool EXCEPT !.referenced = on])
  /\ UNCHANGED <<frames, aborted, flag, inbox, execVars>>

-----------------------------------------------------------------------------
(* Events of the loop, outside any submission. *)

\* Every executor evaluated its entry.
Ready ==
  /\ frames = <<>> /\ ~pool.ready /\ \A e \in Executors : started[e]
  /\ Dispatching([pool EXCEPT !.ready = TRUE])
  /\ UNCHANGED <<frames, aborted, flag, execVars>>

\* onResponse.
Response(e) ==
  LET t  == Head(outbox[e])[1]
      ok == Head(outbox[e])[2]
      p  == [pool EXCEPT !.slot[e] = None, !.active = @ - 1, !.jobs = @ \ {t}]
  IN  /\ frames = <<>> /\ outbox[e] # <<>>
      /\ outbox' = [outbox EXCEPT ![e] = Tail(@)]
      /\ IF pool.slot[e] = t
         THEN Dispatching(Settle(p, {t}, IF ok THEN "completed" ELSE "failed"))
         ELSE UNCHANGED <<pool, inbox>>
      /\ UNCHANGED <<frames, aborted, flag, exec, started, running>>

\* The error event and the closed promise of an executor: failPool, unless the pool asked
\* it to stop.  The responses it posted come first.
Exit(e) ==
  /\ frames = <<>> /\ exec[e] \in {"crashed", "stopped"} /\ outbox[e] = <<>>
  /\ exec' = [exec EXCEPT ![e] = "reaped"]
  /\ IF pool.state \in {"open", "closing"} /\ (exec[e] = "crashed" \/ ~pool.shuttingDown)
     THEN pool' = DropJobs(pool, "failed") /\ flag' = Flags(pool)
     ELSE UNCHANGED <<pool, flag>>
  /\ UNCHANGED <<frames, aborted, inbox, outbox, started, running>>

\* Every terminate() of finishShutdown settled.
Closed ==
  /\ frames = <<>> /\ pool.shuttingDown /\ pool.state # "closed"
  /\ \A e \in Executors : exec[e] = "reaped"
  /\ pool' = [pool EXCEPT !.state = "closed"]
  /\ UNCHANGED <<frames, aborted, flag, inbox, execVars>>

-----------------------------------------------------------------------------
(* The executors. *)

\* The entry is imported and the port started.
Start(e) ==
  /\ exec[e] = "starting"
  /\ exec' = [exec EXCEPT ![e] = "up"]
  /\ started' = [started EXCEPT ![e] = TRUE]
  /\ UNCHANGED <<pool, frames, aborted, flag, inbox, outbox, running>>

\* The message listener receives a request.
Take(e) ==
  /\ exec[e] = "up" /\ running[e] = None /\ inbox[e] # <<>>
  /\ running' = [running EXCEPT ![e] = Head(inbox[e])]
  /\ inbox' = [inbox EXCEPT ![e] = Tail(@)]
  /\ UNCHANGED <<pool, frames, aborted, flag, outbox, exec, started>>

\* The task settles and its response is posted; throwIfCancelled turns a result into a
\* failure when the flag is set.
Finish(e, ok) ==
  /\ running[e] # None /\ (ok => ~flag[running[e]])
  /\ outbox' = [outbox EXCEPT ![e] = Append(@, <<running[e], ok>>)]
  /\ flag' = [flag EXCEPT ![running[e]] = TRUE]
  /\ running' = [running EXCEPT ![e] = None]
  /\ UNCHANGED <<pool, frames, aborted, inbox, exec, started>>

Ends(e, how) ==
  /\ exec[e] \in {"starting", "up"}
  /\ exec' = [exec EXCEPT ![e] = how]
  /\ running' = [running EXCEPT ![e] = None]
  /\ inbox' = [inbox EXCEPT ![e] = <<>>]
  /\ UNCHANGED <<pool, frames, aborted, flag, outbox, started>>

\* An uncaught error or an exit of its own accord, before or after the start.
Crash(e) == Ends(e, "crashed")

\* The answer to terminate.
Stop(e) == pool.shuttingDown /\ Ends(e, "stopped")

Submission(t) == RunBegin(t) \/ RunPost(t) \/ RunThrow(t) \/ RunCommit(t)
Loop == Ready \/ Closed \/ \E e \in Executors : Response(e) \/ Exit(e)
Executor(e) ==
  Start(e) \/ Take(e) \/ (\E ok \in BOOLEAN : Finish(e, ok)) \/ Crash(e) \/ Stop(e)

Next ==
  \/ \E t \in Tasks : Submission(t) \/ Abort(t)
  \/ Close \/ Terminate \/ \E on \in BOOLEAN : Reference(on)
  \/ Loop
  \/ \E e \in Executors : Executor(e)

Spec == Init /\ [][Next]_vars

-----------------------------------------------------------------------------
(* Properties. *)

TypeOK ==
  /\ pool.state \in {"open", "closing", "terminating", "closed"}
  /\ pool.ready \in BOOLEAN /\ pool.shuttingDown \in BOOLEAN /\ pool.referenced \in BOOLEAN
  /\ pool.jobs \subseteq Tasks /\ pool.mailbox \in Seq(Tasks)
  /\ pool.slot \in [Executors -> Tasks \cup {None}]
  /\ pool.owner \in [Tasks -> Executors \cup {None}]
  /\ pool.settled \in [Tasks -> Outcomes \cup {"no"}]
  /\ pool.count \in [Outcomes -> 0..Cardinality(Tasks)]
  /\ pool.queued \in 0..Cardinality(Tasks) /\ pool.active \in (-Size)..Size
  /\ pool.cached \in {"undefined", "ref", "unref"} /\ pool.handles \in {"ref", "unref"}
  /\ aborted \subseteq Tasks
  /\ frames \in Seq(Tasks \X {"prep", "post"})
  /\ flag \in [Tasks -> BOOLEAN]
  /\ inbox \in [Executors -> Seq(Tasks)]
  /\ outbox \in [Executors -> Seq(Tasks \X BOOLEAN)]
  /\ exec \in [Executors -> {"starting", "up", "crashed", "stopped", "reaped"}]
  /\ started \in [Executors -> BOOLEAN]
  /\ running \in [Executors -> Tasks \cup {None}]

Working == pool.state \in {"open", "closing"}
Queued  == {t \in Tasks : Listed(pool.mailbox, t)}
Busy    == {e \in Executors : pool.slot[e] # None}

\* While the pool works, its jobs are the queued and the running ones, each in one place,
\* the two counters stats() reports agree with the mailbox and the executors, and a
\* submission that passed the admission check, nested in others or not, finds a place.
\* The executors' handles keep the event loop alive exactly while the pool is referenced and
\* starts or has jobs, though updateReferences trusts what it remembers of them.  A started,
\* closing pool without jobs has asked its executors to stop, whichever way the last
\* task left, so that the shutdown promise can settle.
Accounts ==
  /\ Working =>
       /\ pool.queued = Len(pool.mailbox) /\ pool.active = Cardinality(Busy)
       /\ Distinct(pool.mailbox)
       /\ pool.jobs = Queued \cup {pool.slot[e] : e \in Busy}
       /\ \A e \in Busy : pool.slot[e] \notin Queued /\ pool.owner[pool.slot[e]] = e
  /\ Working /\ ~pool.shuttingDown =>
       (pool.handles = "ref" <=> pool.referenced /\ (~pool.ready \/ pool.jobs # {}))
  /\ \A t \in Tasks : Top(t, "prep") /\ pool.state = "open" => Occupied < Limit
  /\ pool.ready /\ pool.state \in {"closing", "terminating"} /\ pool.jobs = {} => pool.shuttingDown

\* No executor is idle while a task waits, and an executor with a request in progress is
\* sent no other, however responses, aborts and refused messages interleave: the check of
\* pool-worker.ts:16 never throws.
WorkConserving ==
  /\ Working /\ pool.ready /\ pool.mailbox # <<>> => Idle(pool) = {}
  /\ \A e \in Executors :
       Len(inbox[e]) + Len(outbox[e]) + (IF running[e] = None THEN 0 ELSE 1) <= 1

\* A task given its outcome while it still runs has its cancellation flag set.
CancellationReaches ==
  \A e \in Executors :
    running[e] # None /\ pool.settled[running[e]] # "no" => flag[running[e]]

\* An accepted task is handed to one executor and never replayed.
NoReplay ==
  [][\A t \in Tasks : pool.owner[t] # None =>
       /\ pool.owner'[t] = pool.owner[t]
       /\ \A e \in Executors : Listed(inbox'[e], t) => Listed(inbox[e], t)]_vars

\* stats(): the active count is a number of tasks.
ActiveIsACount == pool.active >= 0

=============================================================================
