----------------------------- MODULE HostTasks -----------------------------
(***************************************************************************)
(* The operation table and task queues of runtime/src/host/host_task.c:    *)
(* generation-checked handles, one reserved terminal task per operation,   *)
(* progress tasks, cancellation, and the queue through which other threads *)
(* post to the loop.                                                       *)
(*                                                                         *)
(* The table belongs to the loop's thread.  A post is one critical section *)
(* of the posted queue.  A drain takes the batch in one, then transfers it *)
(* node by node while producers go on posting, so "batch" is a variable    *)
(* and the loop does nothing else until it is empty.  A payload is its     *)
(* name; a handle is the pair of an index and a generation.                *)
(***************************************************************************)
EXTENDS Integers, Sequences, FiniteSets, Lists

CONSTANTS
  Data,            \* payloads, each passed to at most one call
  NoData,          \* the payload of a cancellation, and of a task it was taken from
  InitialCapacity, \* the capacity of the first growth (8 in the code)
  MaxCapacity,     \* MAL_HOST_HANDLE_INDEX_MASK
  MaxGeneration,   \* bound: operations started
  MaxPosts         \* bound: nodes in the posted queue

ASSUME TasksAssumption ==
  /\ NoData \notin Data
  /\ InitialCapacity \in Nat \ {0} /\ MaxCapacity \in Nat
  /\ MaxGeneration \in Nat /\ MaxPosts \in Nat

VARIABLES
  slot,      \* operations: a sequence of [occupied, gen, state, owner]
  free,      \* free_operation and its next_free chain
  live,      \* live_operations
  nextGen,   \* mal_host_next_operation_generation
  queue,     \* head .. tail: [kind, op, data]
  queued,    \* queued_count
  held,      \* tasks dequeued and not released, oldest first
  posted,    \* state->head .. tail
  accepting, \* state->accepting
  batch,     \* posted nodes the loop is transferring
  woken,     \* a successful wake the loop has not answered with a drain
  fate,      \* per payload: new, owned (by the host), taken or destroyed
  issued,    \* history: the handles of started operations
  ended,     \* history: operations whose terminal task was dequeued
  phase      \* open, shut or freed

tableVars == <<slot, free, live, nextGen, issued>>
queueVars == <<queue, queued, held>>
postVars  == <<posted, accepting, batch, woken>>
vars == <<tableVars, queueVars, postVars, fate, ended, phase>>

Generations == 1..MaxGeneration
Handles == (1..MaxCapacity) \X Generations
NoOwner == 0

Init ==
  /\ slot = <<>> /\ free = <<>> /\ live = 0 /\ nextGen = 1
  /\ queue = <<>> /\ queued = 0 /\ held = <<>>
  /\ posted = <<>> /\ accepting = TRUE /\ batch = <<>> /\ woken = FALSE
  /\ fate = [d \in Data |-> "new"]
  /\ issued = {} /\ ended = {}
  /\ phase = "open"

\* The loop's thread is not inside a transfer.
Loop == batch = <<>> /\ phase # "freed"

-----------------------------------------------------------------------------
(* The table. *)

\* A handle is valid whatever its generation.
ResolvesIndexBug(h) == h[1] \in 1..Len(slot) /\ slot[h[1]].occupied

\* mal_host_operation_slot finds the operation of handle h.
Resolves(h) == h[1] \in 1..Len(slot) /\ slot[h[1]].occupied /\ slot[h[1]].gen = h[2]

InState(h, states) == Resolves(h) /\ slot[h[1]].state \in states

Empty == [occupied |-> FALSE, gen |-> 0, state |-> "invalid", owner |-> NoOwner]

\* mal_host_operations_grow: new slots join the free list in ascending order.
GrownTo == IF Len(slot) = 0 THEN InitialCapacity ELSE 2 * Len(slot)
Grown == IF free # <<>> THEN slot
         ELSE [i \in 1..GrownTo |-> IF i <= Len(slot) THEN slot[i] ELSE Empty]
FreeList == IF free # <<>> THEN free ELSE [i \in 1..(GrownTo - Len(slot)) |-> Len(slot) + i]

\* mal_host_operation_start.
Start ==
  /\ Loop /\ nextGen <= MaxGeneration
  /\ free = <<>> => GrownTo <= MaxCapacity
  /\ slot' = [Grown EXCEPT ![Head(FreeList)] =
                [occupied |-> TRUE, gen |-> nextGen, state |-> "starting", owner |-> NoOwner]]
  /\ free' = Tail(FreeList)
  /\ live' = live + 1
  /\ nextGen' = nextGen + 1
  /\ issued' = issued \cup {<<Head(FreeList), nextGen>>}
  /\ UNCHANGED <<queueVars, postVars, fate, ended, phase>>

\* mal_host_operation_retire.
Retired(i) == [slot EXCEPT ![i] = [@ EXCEPT !.state = "released", !.owner = NoOwner,
                                            !.occupied = FALSE]]

Retire(i) ==
  /\ slot' = Retired(i)
  /\ free' = <<i>> \o free
  /\ live' = live - 1

\* mal_host_operation_abort_start, while the operation is still starting.
AbortStart(h) ==
  /\ Loop /\ InState(h, {"starting"})
  /\ Retire(h[1])
  /\ UNCHANGED <<nextGen, issued, queueVars, postVars, fate, ended, phase>>

Activate(h) ==
  /\ Loop /\ InState(h, {"starting"})
  /\ slot' = [slot EXCEPT ![h[1]].state = "active"]
  /\ UNCHANGED <<free, live, nextGen, issued, queueVars, postVars, fate, ended, phase>>

\* mal_host_operation_bind and unbind; an owner is the state object made for one operation,
\* named by its generation.
Bind(h) ==
  /\ Loop /\ Resolves(h)
  /\ \/ slot[h[1]].owner = NoOwner /\ slot' = [slot EXCEPT ![h[1]].owner = h[2]]
     \/ slot[h[1]].owner = h[2] /\ slot' = [slot EXCEPT ![h[1]].owner = NoOwner]
  /\ UNCHANGED <<free, live, nextGen, issued, queueVars, postVars, fate, ended, phase>>

-----------------------------------------------------------------------------
(* The queue. *)

Task(kind, h, d) == [kind |-> kind, op |-> h, data |-> d]

\* A completion is accepted after a cancellation.
OpenStatesBug(kind) == {"active", "cancelling", "queued"}

\* The states in which a call of this kind is accepted.
OpenStates(kind) == {"active"}

Accepted(kind, h) == InState(h, OpenStates(kind))

\* The table after an accepted call: a terminal task ends the operation.
AfterCall(kind, h) ==
  IF kind = "progress" THEN slot ELSE [slot EXCEPT ![h[1]].state = "queued"]

Enqueue(t) == queue' = Append(queue, t) /\ queued' = queued + 1

\* mal_host_operation_progress and _complete, called on the loop's thread.  A refused payload
\* stays with the caller, which destroys it.
Call(kind, h, d) ==
  /\ Loop /\ fate[d] = "new"
  /\ IF Accepted(kind, h)
     THEN /\ Enqueue(Task(kind, h, d))
          /\ slot' = AfterCall(kind, h)
          /\ fate' = [fate EXCEPT ![d] = "owned"]
     ELSE /\ fate' = [fate EXCEPT ![d] = "destroyed"]
          /\ UNCHANGED <<slot, queue, queued>>
  /\ UNCHANGED <<free, live, nextGen, issued, held, postVars, ended, phase>>

\* Progress that is already queued is still delivered.
DroppedNoneBug(h) == {}

\* The queued tasks a cancellation unlinks: those of its index.
Dropped(h) == {i \in 1..Len(queue) : queue[i].kind = "progress" /\ queue[i].op[1] = h[1]}

\* mal_host_operation_cancel; a queued terminal task wins.
Cancel(h) ==
  /\ Loop /\ InState(h, {"starting", "active"})
  /\ slot' = [slot EXCEPT ![h[1]].state = "queued"]
  /\ LET gone == {queue[i].data : i \in Dropped(h)}
         n    == Len(queue)
     IN  /\ \E kept \in Ascending((1..n) \ Dropped(h), n) :
              queue' = Append(Pick(queue, kept), Task("terminal", h, NoData))
         /\ queued' = queued - Cardinality(Dropped(h)) + 1
         /\ fate' = [d \in Data |-> IF d \in gone THEN "destroyed" ELSE fate[d]]
  /\ UNCHANGED <<free, live, nextGen, issued, held, postVars, ended, phase>>

\* mal_host_next_task.
NextTask ==
  /\ Loop /\ queue # <<>>
  /\ queue' = Tail(queue) /\ queued' = queued - 1
  /\ held' = Append(held, Head(queue))
  /\ ended' = IF Head(queue).kind = "terminal" THEN ended \cup {Head(queue).op} ELSE ended
  /\ UNCHANGED <<tableVars, postVars, fate, phase>>

\* The payload is taken and destroyed with its task as well.
DisarmedBug(t) == t

\* mal_host_task_take_data clears the node's payload and destructor.
Disarmed(t) == [t EXCEPT !.data = NoData]

TakeData(i) ==
  /\ Loop /\ held[i].data # NoData
  /\ fate' = [fate EXCEPT ![held[i].data] = "taken"]
  /\ held' = [held EXCEPT ![i] = Disarmed(@)]
  /\ UNCHANGED <<tableVars, queue, queued, postVars, ended, phase>>

\* mal_host_task_release: destroy the payload, and retire the operation with its terminal task.
Release(i) ==
  /\ Loop
  /\ held' = RemoveIndex(held, i)
  /\ fate' = [d \in Data |-> IF d = held[i].data THEN "destroyed" ELSE fate[d]]
  /\ IF held[i].kind = "terminal" THEN Retire(held[i].op[1]) ELSE UNCHANGED <<slot, free, live>>
  /\ UNCHANGED <<nextGen, issued, queue, queued, postVars, ended, phase>>

-----------------------------------------------------------------------------
(* Posts of other threads. *)

\* A failed wake rolls the enqueue back.
KeptPost(ok) == ok

\* mal_host_posted_push under the queue's mutex.
Post(kind, h, d, ok) ==
  /\ phase # "freed" /\ fate[d] = "new" /\ Len(posted) < MaxPosts
  /\ posted' = IF accepting /\ KeptPost(ok) THEN Append(posted, Task(kind, h, d)) ELSE posted
  /\ woken' = (woken \/ (accepting /\ ok))
  /\ fate' = [fate EXCEPT ![d] = IF accepting /\ ok THEN "owned" ELSE "destroyed"]
  /\ UNCHANGED <<tableVars, queueVars, accepting, batch, ended, phase>>

\* mal_host_posted_transfer up to the unlock: by the wake callback, or at shutdown.
Drain(shutdown) ==
  /\ Loop
  /\ shutdown => phase = "open"
  /\ shutdown \/ woken
  /\ batch' = posted
  /\ posted' = <<>>
  /\ woken' = FALSE
  /\ accepting' = (accepting /\ ~shutdown)
  /\ phase' = IF shutdown THEN "shut" ELSE phase
  /\ UNCHANGED <<tableVars, queueVars, fate, ended>>

\* One node of the batch; a refused one is destroyed.
Transfer ==
  /\ batch # <<>>
  /\ LET t == Head(batch) IN
       IF Accepted(t.kind, t.op)
       THEN Enqueue(t) /\ slot' = AfterCall(t.kind, t.op) /\ UNCHANGED fate
       ELSE /\ fate' = [fate EXCEPT ![t.data] = "destroyed"]
            /\ UNCHANGED <<slot, queue, queued>>
  /\ batch' = Tail(batch)
  /\ UNCHANGED <<free, live, nextGen, issued, held, posted, accepting, woken, ended, phase>>

\* Dequeued tasks are forgotten.
OwnedQueueBug == {posted[i].data : i \in 1..Len(posted)} \cup {queue[i].data : i \in 1..Len(queue)}

\* The nodes mal_host_free walks: what is posted, then every owned node.
Owned == {posted[i].data : i \in 1..Len(posted)} \cup {queue[i].data : i \in 1..Len(queue)}
         \cup {held[i].data : i \in 1..Len(held)}

\* mal_host_posted_tasks_free and mal_host_tasks_free, after shutdown.
FreeHost ==
  /\ Loop /\ phase = "shut"
  /\ fate' = [d \in Data |-> IF d \in Owned THEN "destroyed" ELSE fate[d]]
  /\ slot' = <<>> /\ free' = <<>> /\ live' = 0
  /\ queue' = <<>> /\ queued' = 0 /\ held' = <<>> /\ posted' = <<>>
  /\ phase' = "freed"
  /\ UNCHANGED <<nextGen, issued, accepting, batch, woken, ended>>

-----------------------------------------------------------------------------
Freed == phase = "freed" /\ UNCHANGED vars

LoopStep(h) == AbortStart(h) \/ Activate(h) \/ Bind(h) \/ Cancel(h)

Next ==
  \/ Start \/ NextTask \/ Transfer \/ FreeHost \/ Freed
  \/ \E h \in issued : LoopStep(h)
  \/ \E h \in issued, d \in Data, kind \in {"progress", "terminal"} :
       Call(kind, h, d) \/ (\E ok \in BOOLEAN : Post(kind, h, d, ok))
  \/ \E i \in 1..Len(held) : TakeData(i) \/ Release(i)
  \/ \E shutdown \in BOOLEAN : Drain(shutdown)

Spec == Init /\ [][Next]_vars

-----------------------------------------------------------------------------
(* Properties. *)

Places == posted \o batch \o queue \o held

\* The types of the variables.
TypeOK ==
  /\ \A i \in 1..Len(slot) :
       slot[i] \in [occupied : BOOLEAN, gen : 0..MaxGeneration,
                    state : {"invalid", "starting", "active", "queued", "released"},
                    owner : 0..MaxGeneration]
  /\ \A i \in 1..Len(free) : free[i] \in 1..Len(slot)
  /\ live \in 0..MaxGeneration /\ nextGen \in 1..(MaxGeneration + 1)
  /\ \A i \in 1..Len(Places) :
       Places[i] \in [kind : {"progress", "terminal"}, op : Handles, data : Data \cup {NoData}]
  /\ queued \in Nat /\ accepting \in BOOLEAN /\ woken \in BOOLEAN
  /\ fate \in [Data -> {"new", "owned", "taken", "destroyed"}]
  /\ issued \subseteq Handles /\ ended \subseteq Handles
  /\ phase \in {"open", "shut", "freed"}

\* A handle reaches its own operation only.  One whose operation has ended stays dead
\* although its slot is reused; an owner seen through a handle was bound for that operation;
\* and every queued task belongs to the operation its slot holds now, which is why cancel may
\* select tasks by index alone and release may retire the slot of a terminal task.  The free
\* list has every vacant slot once: none is lost or handed out twice by start, abort and
\* release.
HandlesExact ==
  /\ live = Cardinality({i \in 1..Len(slot) : slot[i].occupied})
  /\ queued = Len(queue)
  /\ Distinct(free)
  /\ \A i \in 1..Len(slot) : slot[i].occupied = ~Listed(free, i)
  /\ \A h \in issued :
       /\ \A g \in issued : Resolves(h) /\ Resolves(g) /\ h[1] = g[1] => h = g
       /\ h \in ended /\ Resolves(h) => \E i \in 1..Len(held) :
            held[i].kind = "terminal" /\ held[i].op = h
       /\ Resolves(h) => slot[h[1]].owner \in {NoOwner, h[2]}
  /\ \A i \in 1..Len(queue) : Resolves(queue[i].op)
  /\ \A i \in 1..Len(held) : held[i].kind = "terminal" => InState(held[i].op, {"queued"})

\* An operation has one terminal task, queued or dequeued, exactly from the call that ended
\* it to its release.  Nothing of the operation follows it in the queue, and the one of a
\* cancellation leaves no progress before it.
TerminalIsLast ==
  /\ \A h \in issued :
       LET T == {i \in 1..Len(queue \o held) :
                   (queue \o held)[i].kind = "terminal" /\ (queue \o held)[i].op = h}
       IN  Cardinality(T) = IF InState(h, {"queued"}) THEN 1 ELSE 0
  /\ \A i, k \in 1..Len(queue) :
       queue[i].kind = "terminal" /\ queue[k].op = queue[i].op /\ k # i =>
         k < i /\ queue[i].data # NoData

\* A payload the host has accepted is in one place and in no other; every other payload is in
\* none.  So none is destroyed twice, leaked by a refused transfer, or destroyed after it was
\* taken ("Successful posts take ownership of data. Rejected posts leave it with caller").
PayloadOnce ==
  \A d \in Data :
    Cardinality({i \in 1..Len(Places) : Places[i].data = d})
      = IF fate[d] = "owned" THEN 1 ELSE 0

-----------------------------------------------------------------------------
(* Liveness: the loop answers wakes, finishes a transfer, and its consumers take and release *)
(* the tasks they dequeue.                                                                   *)

Fairness ==
  /\ WF_vars(Transfer) /\ WF_vars(Drain(FALSE))
  /\ WF_vars(NextTask) /\ WF_vars(\E i \in 1..Len(held) : Release(i))

LiveSpec == Spec /\ Fairness

\* Every accepted payload is delivered or destroyed.
PayloadsSettle == \A d \in Data : fate[d] = "owned" ~> fate[d] \in {"taken", "destroyed"}
=============================================================================
