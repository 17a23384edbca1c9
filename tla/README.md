# Verification of the concurrent runtime

Maligator compiles JavaScript to C and links it with a native runtime. Most of the repository is a
sequential translator and a sequential library. What is hard to get right by testing is the part of
the runtime in which threads, event loops, user callbacks and the incremental collector meet. This
directory models that part in TLA+, checks it with TLC on small instances and proves four components
with TLAPS for any size. All paths below are relative to the repository's root.

## The parts and how they interact

An isolate is a thread with its own heap, its own collector and its own event loop.

| Part | Code | Module | Meets |
|---|---|---|---|
| Helper pools: bounded queues and worker threads for I/O, DNS, crypto and collector jobs | `runtime/src/executor.c` | `Executor` | every client thread and every helper thread |
| Its promise to clients | `runtime/src/executor.h` | `ExecutorContract` | refined by `Executor` |
| Operation table and posted queue: how a helper's result reaches the loop | `runtime/src/host/host_task.c` | `HostTasks` | the loop and the helper threads |
| Wake of a sleeping loop, and the loop's decision to end | `runtime/src/host/reactor.c`, `runtime/src/runtime/web_host_timer.c` | `ReactorWake` | the loop and the helper threads |
| `Atomics.wait`, `waitAsync`, `notify`, interruption | `runtime/src/shared_memory.c`, `runtime/src/runtime/atomics_async.c` | `SharedWait` | isolates that share a buffer |
| Message ports and channels | `runtime/src/runtime/workers.c` | `Ports` | isolates, getters and listeners, the collector |
| Worker pool, `createPool` | `src/workers/runtime.ts`, `src/workers/pool-worker.ts`, threads and mailboxes of `runtime/src/runtime/workers.c` | `TaskPool` | the creator's loop, user code, executors |
| Collector: minor, synchronous and incremental major, weak values | `runtime/src/gc.c`, `gc.h`, `heap.c`, `weak_collection.c`, `builtin_weak_ref.c` | `Gc` | the mutator and the helper threads |

The parts stack up: a helper of `Executor` posts a result through `HostTasks`, whose push calls the
wake of `ReactorWake`. `ReactorWake` is the composition of the last two at the grain of atomic
accesses; `HostTasks` then takes from it that a successful wake is answered (`woken`). `Ports` takes
from `Gc` that the sweep is later than the remark (`condemned`).

`Lists` holds the linked-list operations that several modules share. An `MC...` module only gives
names and values to the constants of the module it extends.

## How state and actions correspond to the code

Variables carry the names of the structure fields they model; a comment gives the field where the
name differs. One action is one critical section, or one stretch of a thread between two points at
which others can interfere. Where the code holds a lock over several sections, or releases something
after an unlock, the lock holder or the list of remaining releases is a variable. The `map` of
`PROJECT.json` names the lines behind every definition. Definitions that end in `Bug` are faulty
variants used to confirm that the properties can fail; nothing else refers to them.

**Executor.** One pool. Submission, cancellation and the sections of teardown are one action each; a
worker keeps the mutex from settling a job to taking the next or waiting, so `mutex` names the worker
inside. The scan starts at the head of the ready list and takes the first client with room, and moves
it to the tail. The pool is created by the first client and joined by the last.
Condition variables are signalled as in the code, one waiter or all. Spurious wake-ups are left out:
the pool must not depend on them to make progress, and the code tests its conditions in loops.

**HostTasks.** The table is a sequence of slots with generations, the free list a sequence, a handle
the pair of index and generation. Posts are one critical section, and may be refused or rolled back by
a failed wake. A drain takes the batch in one section and transfers node by node while producers
continue. Stale handles are used in every call. Owners bound to an operation are named by its
generation. Generations are not wrapped (2^44 operations).

**ReactorWake.** The exchange of `wake_pending`, the system call, the release of retained work, and
the loop's reads of the count and of the flag are steps of their own. A system call may fail. Leaving
the loop through `beforeExit` handlers or a stop request is left out.

**SharedWait.** One bucket of the waiter table. A signaller holds the interrupt's lock over two
sections (`ilock`). The condition variable may wake for no reason. An asynchronous waiter and its
mailbox are reference counted, and posts, timers, teardown and the last wrapper of the buffer come in
any order.

**Ports.** An isolate has a stack of native frames, because a post runs user getters and a dispatch
runs listeners, and both may call every operation again. Releases after an unlock are in `todo`.
A message carries at most one port. Node's and the transactional post are both modelled: `Node` is
the set of channels with Node's policy, since the policy belongs to the channel. `referenced` is a
free choice; what JavaScript sees of a swept wrapper is not modelled. In an isolate's shutdown a port
closes its channel and is unbound in one step, since the isolate's mailbox is gone and no one can see
the state between. Several transferred ports and BroadcastChannel are left out.

**TaskPool.** `pool` is the closure of `createPool`, and dispatch, shutdown and failure are functions
of it. `frames` is the stack of submissions whose user code is running. Executors are threads whose
messages and exits reach the loop in order. The name of a submission that threw is free for another
call, so the number of calls is not bounded, only that of tasks at a time. How an executor's thread
ends, is stopped and crashes comes from `workers.c`, as does the limit of its mailbox.

**Gc.** A cell has a key and a value. Marking is the same set of operators for minor, synchronous and
incremental collections, as in the code. An object's edges are copied when it is handed to a helper
and an environment is read in place. Budgets, thresholds and pressure, which only decide when a
collection runs and how far a step goes, are free choices. A result goes to a free register or
replaces the register it was computed from; allowing any register gives no other behaviour, since a
register can be dropped first, and neither does a second register with the same cell. Registers and
the kept `deref()` targets stand for all roots; the other sources (realms, handles, host queues) are
scanned in the same way and are left out. Conservative scanning of native
stacks, raw buffers, WeakSet, FinalizationRegistry with its cleanup jobs, and teardown are left out.
A WeakMap has one entry.

Failed allocations are left out, except in the enqueueing of `waitAsync`.

## Runs

Passing runs, and what they show:

| Run | Instance | Shows |
|---|---|---|
| `executor` | 2 clients, 3 jobs (one `must_run`, two that cannot run together), 2 workers | the ready list and counters are exact, no client, pool or payload is used after its end, queued work never meets a pool that sleeps, the contract is implemented; every job ends and every teardown returns |
| `task_pool` | 4 tasks (one refused), 2 executors, 1 queue place | the books of the scheduler are exact while it works, nested submissions included; the executors keep the event loop alive exactly while the pool is referenced and either starts or has work, no executor idles while a task waits or is sent a second one, a dropped task has its flag set, none is replayed |
| `shared_wait` | 2 agents, one interruptible, 1 record, 1 element of 2 values | no lost wake-up, no missed store, a notification is never swallowed, references are exact, notification is in order, waits end |
| `host_tasks` | 2 operations, 2 payloads, capacity 1 growing to 2 | handles reach their own operation, one terminal task that comes last, one place for each payload; accepted payloads settle |
| `reactor_wake` | 3 producers | a pollable wake remains, the loop ends only when idle; accepted items are taken although nothing else wakes the loop |
| `ports` | 2 isolates, 1 channel, 2 messages of different size, 4 calls | no lost wake-up, nothing after `close`; what is queued is dispatched |
| `ports_getters` | 2 isolates, 2 channels (one with Node's policy), 2 messages, 2 frames in one isolate and 1 in the other, 3 calls | one place for each message and each port in transit, exact quotas and references when getters post, close, move and collect and ports cross isolates; shutdown gives back all but cycles; a transactional transfer loses no port |
| `gc` | 3 cells (objects and one environment), 2 registers, helpers | nothing reachable is reclaimed or hidden from the remark, old-to-young pointers are remembered |
| `gc_weak` | 3 cells (objects and one WeakRef or WeakMap), 2 registers | no weak reader sees a reclaimed cell; `gc()` leaves exactly what is reachable |

Every property of a passing run is violated by at least one faulty variant of the code it is about
(`mutants` in `PROJECT.json`).

### Why the bounds are enough

Each instance is the smallest in which the interesting cases meet, and no smaller:

* `executor`: two clients make the round-robin matter; a job that has to wait for working bytes needs
  another that holds them; one `must_run` job outlives a teardown that discards an ordinary one.
* `host_tasks`: two operations and capacity one force both growth and the reuse of a slot, so a
  stale handle meets a new operation.
* `reactor_wake`: one producer coalesces with a second while a third is between exchange and write.
  Any number is covered by the proofs.
* `task_pool`: two executors and one place admit three tasks; with four, submissions nested in each
  other meet the limit while the outer ones have not committed, so counting them matters.
* `ports`: the large message fills the endpoint, so the second is refused; four calls suffice for
  start, post, close and another post.
* `ports_getters`: both channels join the two isolates, so a port can be sent to the other isolate and
  travel on from there. Three calls are enough to nest a post in a getter and to put each channel's
  port into the other's queue. The endpoint's byte limit is that of one message, so posts that list a
  port are refused, too.
* `gc`, `gc_weak`: with three cells a chain can be cut behind the collector and joined to a marked
  cell. The index of waiting WeakMap entries needs two maps and two more cells; `MCGc` therefore
  compares that algorithm with the definition of reachability on all heaps of two maps and two objects
  (`EphemeronsExact`), outside the state machine. Both runs also pass with `MaxSpecial = 2` (453
  thousand and 1.0 million states), too slow to repeat each time.

Deadlock is checked except in the `ports` runs, where the calls are bounded and isolates may
simply be idle.

### Fairness

* `Executor`: workers run, callbacks return, and a mutex that is requested over and over is granted
  (strong fairness on taking it).
* `SharedWait`: the same for threads; leaving a wait needs the interrupt's lock and is strongly fair;
  a loop that keeps coming back to its macrotasks drains its mailbox. No fairness is assumed of
  programs (waits, stores, signals), of timers, or of spurious wake-ups. The liveness of `waitAsync`
  is conditional on an owner that does not block for ever.
* `HostTasks`: the loop answers a wake (this is what `ReactorWake` establishes) and consumers release
  the tasks they dequeue.
* `ReactorWake`: threads run and the backend reports a readable pipe. The step that leaves the block
  without a wake has none, so `ItemsTaken` depends on wakes alone.
* `Ports`: a live isolate's loop drains, getters and listeners return, releases are performed. New
  calls by JavaScript have none.
* `TaskPool` and `Gc` state no liveness.

## Findings

Three runs are expected to fail; each shows a disagreement between the code and what it says.

* `task_pool_stats`: `terminate()` and `failPool()` zero the active counter and leave the slots, so a
  response already under way decrements it below zero (`src/workers/runtime.ts:276`), although
  `stats()` is documented to report active tasks.
* `ports_sweep`: whether a port is pinned is asked when the roots are scanned. A message that arrives
  between the remark and the sweep of its wrapper is dispatched on a wrapper the sweep will reclaim
  (`runtime/src/runtime/workers.c:896`), although "the loop owns a started port while it ... still has
  a delivery".
* `gc_deref`: `deref()` has no barrier, and the target is only kept to the end of the turn. A target
  that was only weakly reachable when the cycle began can be stored in a marked object and is
  reclaimed under it (`runtime/src/builtin_weak_ref.c:73`); `mal_gc_verify` would abort. The passing
  run `gc_weak` therefore leaves out dereferencing an unmarked target while marking
  (`DerefsUnmarked = FALSE`), and shows that nothing else goes wrong.

Met while reading, with no run of its own:

* A wake that fails takes back the flag another wake has coalesced with, so that one's "pollable wake"
  (`runtime/src/host/reactor.h:136`) is gone. `ReactorWake` has this step; its properties speak about
  histories without a failed wake.
* Two ports that travel in each other's queues keep both channels for ever. `LeftoversAreCycles` says
  that nothing else is kept.
* After a failed compilation the development session does not watch files that only the failed build
  read, against `website/docs/guides/development.md:12`.

## Proofs

TLAPS checks the theorems below for every value of the constants that satisfies the named
assumptions. Each component has an inductive invariant `IInv`, one lemma per action that the action
preserves it, a theorem `Invariance`, and one short theorem per property.

**Helper pool** (`ExecutorProofs`, `ExecutorTheorems`).
Assumptions: `NamesAssumption` (finite sets of workers, jobs and clients), `LimitsAssumption` (sizes
and limits are numbers). `ReadyListExact`, `NoLostWakeup` (`NoStall`), `CountersExact`
(`Accounting`) and `NoUseAfterFree` (`Lifetime`) are the properties of run `executor`; `TypeCorrect`
says that no unsigned counter goes below zero, `PayloadsInOnePlace` that a payload is in one list or
worker until it ends, `MustRunJobsSurvive` that teardown never discards a `must_run` job. None of these
is inductive alone: that a counter does not underflow needs `Accounting`, which needs that a job is
listed once (`OnePlace`) and that only a running worker has a job (`Threads`); `NoStall` needs that an
accepted job fits the limits on its own (`Fits`), else an idle pool could refuse the head of every
queue; `Lifetime` needs which jobs a client in teardown may still have (`Teardown`) and that the pool
lives as long as its registered clients (`Registry`).

`Refinement` is the property `ImplementsContract` of that run: every behaviour of the pool is a
behaviour of `ExecutorContract`, hidden steps included. What a client sees is the refinement mapping of
`Executor`: its phase, its listed jobs, the jobs workers run for it, and how each job ended. Given
`IInv`, each step of the pool either is the step of the contract it stands for (a submission accepts a
job, `Take` starts it, `Settle` finishes it, `Cancel` returns it, `Discard` drops it, `Shutdown` closes
the client, the last test of `Drain` lets teardown return) or leaves all four unchanged (the registry,
the locks and the waits of the workers). `OnePlace` makes the jobs accepted, started and ended the
contract's; `Teardown` and `Accounting` make the client's lists and the set of its running jobs empty
when `Drain` finds its counters zero. The contract states no fairness, so this is the whole of it.

`ExecutorProofs` has `IInv`, the lemmas on what a step leaves alone and the steps; `ExecutorTheorems`
has the theorems. The first takes the facts it needs on the sizes of finite sets as a hypothesis
(`Counting`), which the second discharges from the library (`CountingHolds`), so that no theorem
depends on it.

**Wake of the loop** (`ReactorWakeProofs`). Assumption: `WakeAssumption` (finitely many producers).
`WakeRemains` and `IdleExit` are the two invariants of run `reactor_wake`. The argument (`TokenInv`):
while no system call has failed, `wake_pending` stands for exactly one token, which is a write about
to be made, the byte in the pipe, or a loop between emptying the pipe and clearing the flag; and
`retained_work` counts the producers that may still post (`CountInv`).

**Operation table and posted queue** (`HostTasksProofs`). Assumption: `TasksAssumption` (limits are
numbers, the first capacity is not zero). `HandlesHold` (`HandlesExact`), `TerminalHolds`
(`TerminalIsLast`), `PayloadsHold` (`PayloadOnce`) and `TypesHold` (`TypeOK`) are the invariants of run
`host_tasks`. The argument rests on generations: each is issued once and an occupied slot has the
generation of its handle (`Table`), so every operation is in one state, `State(h)`, and every step
moves it at one handle. `Queue` says that the queue has tasks of operations that have not ended, and a
terminal task exactly of those in state "queued"; `Held` that the loop holds the terminal task of an
ended operation until its slot is retired; `Payloads` that an owned payload is in one of the four
lists, once. The three need each other: that a stale handle stays dead while its terminal task is held
(`HandlesExact`) needs `Held`, which needs that the queue had one terminal task of the operation
(`Ordered`), which needs that progress and completion are refused in state "queued". Cancellation
selects tasks by slot index alone; that it drops its own operation's tasks and no other's is what
`Queue` and the single resolving handle of a slot give. This invariant was model-checked before it was
proved, on 2.4 million states (3 payloads, 3 operations, capacity 2, 2 posted nodes).

**Shared waiter table** (`SharedWaitInv`, `SharedWaitProofs`, `SharedWaitRefs`). Assumptions:
`AgentsAssumption` (agents and records are different things, records have owners, there is an element
and a value) and, for the reference counts only, `FiniteAssumption` (finitely many agents and records).
`SleepersFound` (`NoLostWakeup`), `StoresSeen` (`NoMissedStore`), `OutcomesTrue` (`OutcomesAgree`),
the action property `NotifiedInOrder` (`FifoNotify`), `RefsHold` (`RefsExact`) and `TypesHold`
(`TypeOK`) are the safety properties of run `shared_wait`.

The argument of the first four follows the list (`IInv`): an agent is in it exactly while it sleeps or
was woken by somebody other than a notify, and its result is "timed-out" until a notify takes it out
(`Sync`, and `Async` for the records of `waitAsync`); what is posted or ready was notified (`Posted`);
a signaller holds the interrupt's lock from reading the current waiter to its broadcast
(`Interrupts`), which is what keeps the waiter it read alive and the broadcast from coming too early.

The reference counts need a second invariant beside it (`RInv`): a notified record is in the chain of
one notifier, which has still its own reference on it and, until it has posted it, keeps its owner from
freeing it (`Chains`); what is ready was posted once and is linked (`Readies`); then every count is
the number of its holders (`Counts`). `RefsExact` adds to `Counts` that the backing lives while a
waiter is in the list and that what is ready or about to be woken is still there. That a count moves by
one where one holder comes or goes is where finiteness enters. `TypeOK` has the bounds of the counts and
therefore comes last. Both invariants were model-checked first, on the instance of run `shared_wait`.

`ListProofs` has the facts about linked lists (append, unlink, take from the head, filter) as
statements about cells; `Executor`, `SharedWait` and
`HostTasks` use it.

Only model-checked:

* liveness (`JobsFinish`, `WaitsEnd`, `PayloadsSettle`, `ItemsTaken`, `Dispatched`): fairness and
  `ENABLED` are beyond the prover;
* `Gc`: marking is a RECURSIVE operator, and what it computes for every heap needs an induction over
  the heap, which the prover cannot instantiate;
* `Ports` and `TaskPool`.

## Not modelled, and why

The map covers about one percent of the repository's lines. Most of the rest is sequential code whose
correctness is the semantics of JavaScript: the compiler front end, the optimizer and the C generator
(equivalence of programs, which bounded instances do not decide), the interpreter, the built-in
objects, the object storage (hash tables whose layout is their substance), codecs and adapters to
system calls. `PROJECT.json` lists each part with its reason. Parts with concurrency that are left out:

* worker construction, start and exit handshakes and BroadcastChannel in `workers.c`;
* the process-wide GC coordinator (`gc_process.c`): it only starts collections, and `Gc` lets them
  start at any time;
* the limits on shared memory: single atomic updates;
* the artifact store's directory lock and its takeover after a crash (`src/artifact-store.ts:320`):
  two waiters can both take over from a dead owner. What this would break is a matter of the build
  steps under the lock, which are not modelled;
* the development session: file notifications and child processes;
* timers and descriptor registration of the reactor, on one thread.
