----------------------------- MODULE SharedWait -----------------------------
(***************************************************************************)
(* Atomics.wait, waitAsync and notify across isolates: one bucket of the   *)
(* waiter table of runtime/src/shared_memory.c, the interruption of a      *)
(* blocked agent, and the mailbox of runtime/src/runtime/atomics_async.c   *)
(* that brings a notified asynchronous waiter back to its event loop.      *)
(*                                                                         *)
(* A critical section of the bucket lock is one action.  Signalling an     *)
(* interrupt holds that interrupt's lock over two of them, so "ilock" is a *)
(* variable.  An asynchronous waiter (a record) is waited on at most once; *)
(* a synchronous one is named by its agent.                                *)
(***************************************************************************)
EXTENDS Integers, Sequences, FiniteSets, Lists

CONSTANTS
  Agents,        \* isolates, one thread each
  Interruptible, \* the agents that have a MalSharedWaitInterrupt (workers)
  Records,       \* calls of waitAsync
  Owner,         \* the agent that makes each of them
  Offsets,       \* elements of one backing whose waiters share a bucket
  Values,        \* element values
  Free           \* a lock nobody holds

ASSUME AgentsAssumption ==
  /\ Interruptible \subseteq Agents
  /\ Owner \in [Records -> Agents]
  /\ Agents \cap Records = {}
  /\ Free \notin Agents
  /\ Offsets # {} /\ Values # {}

\* Counts of isolates and of calls are numbers.
ASSUME FiniteAssumption == IsFiniteSet(Agents) /\ IsFiniteSet(Records)

Waiters == Agents \cup Records
Results == {"none", "ok", "not-equal", "timed-out", "interrupted"}

\* The initial element value, and what the fields of an unused waiter hold.
NoValue  == CHOOSE v \in Values : TRUE
NoOffset == CHOOSE o \in Offsets : TRUE

VARIABLES
  value,    \* the shared elements
  bucket,   \* the bucket's list, head first
  at,       \* per waiter: the offset it waits at
  want,     \* per waiter: the value it expects
  result,   \* per waiter: waiter->result
  pc,       \* per agent: what its thread does
  deadline, \* per agent: none, set or passed
  outcome,  \* per agent: what its last wait returned
  current,  \* per agent: interrupt->current is its waiter
  signaled, \* per agent: interrupt->signaled
  ilock,    \* per agent: the agent inside interrupt->lock, or Free
  target,   \* per agent: whose interrupt it signals, or Free
  rec,      \* per record: unused, linking (in owner->pending, no waiter
            \* yet), linked or freed
  timer,    \* per record: its host timer is armed
  refs,     \* per record: refcount of its waiter
  settled,  \* per record: what its promise was fulfilled with
  mailRefs, \* per agent: refcount of its mailbox
  reactor,  \* per agent: mailbox->reactor is set
  ready,    \* per agent: the mailbox's ready chain
  wake,     \* per agent: its reactor has a pending wake
  posts,    \* per agent: the chain its notify still has to post
  holds,    \* per agent: it holds a wrapper of the backing
  memRefs   \* refcount of the backing

syncVars  == <<deadline, outcome, current, signaled, ilock, target>>
asyncVars == <<rec, timer, refs, settled, mailRefs, reactor, ready, wake, posts>>
memVars   == <<holds, memRefs>>
listVars  == <<value, bucket, at, want, result>>
vars == <<listVars, pc, syncVars, asyncVars, memVars>>

Init ==
  /\ value = [o \in Offsets |-> NoValue]
  /\ bucket = <<>>
  /\ at = [w \in Waiters |-> NoOffset]
  /\ want = [w \in Waiters |-> NoValue]
  /\ result = [w \in Waiters |-> "none"]
  /\ pc = [a \in Agents |-> "run"]
  /\ deadline = [a \in Agents |-> "none"]
  /\ outcome = [a \in Agents |-> "none"]
  /\ current = [a \in Agents |-> FALSE]
  /\ signaled = [a \in Agents |-> FALSE]
  /\ ilock = [a \in Agents |-> Free]
  /\ target = [a \in Agents |-> Free]
  /\ rec = [r \in Records |-> "unused"]
  /\ timer = [r \in Records |-> FALSE]
  /\ refs = [r \in Records |-> 0]
  /\ settled = [r \in Records |-> "none"]
  /\ mailRefs = [a \in Agents |-> 1]
  /\ reactor = [a \in Agents |-> TRUE]
  /\ ready = [a \in Agents |-> <<>>]
  /\ wake = [a \in Agents |-> FALSE]
  /\ posts = [a \in Agents |-> <<>>]
  /\ holds = [a \in Agents |-> TRUE]
  /\ memRefs = Cardinality(Agents)

\* The waiters in R that lose their last reference, and with it their hold on the backing.
DropMemory(R) == {r \in R : refs[r] = 1}

ReleaseWaiters(R) ==
  /\ refs' = [r \in Records |-> IF r \in R THEN refs[r] - 1 ELSE refs[r]]
  /\ memRefs' = memRefs - Cardinality(DropMemory(R))

\* The fields of waiters that no longer exist.
Forget(W) ==
  /\ at' = [w \in Waiters |-> IF w \in W THEN NoOffset ELSE at[w]]
  /\ want' = [w \in Waiters |-> IF w \in W THEN NoValue ELSE want[w]]

-----------------------------------------------------------------------------
(* Atomics.wait. *)

\* The waiter becomes reachable for signals only once it sleeps.
RegisterLateBug(a) == FALSE

\* interrupt->current is set before the bucket lock is taken.
Register(a) == a \in Interruptible

WaitBegin(a) ==
  /\ pc[a] = "run" /\ holds[a]
  /\ a \in Interruptible => ilock[a] = Free
  /\ current' = [current EXCEPT ![a] = Register(a)]
  /\ \E o \in Offsets, v \in Values, d \in {"none", "set"} :
       /\ at' = [at EXCEPT ![a] = o]
       /\ want' = [want EXCEPT ![a] = v]
       /\ deadline' = [deadline EXCEPT ![a] = d]
  /\ result' = [result EXCEPT ![a] = "timed-out"]
  /\ pc' = [pc EXCEPT ![a] = "wait"]
  /\ UNCHANGED <<value, bucket, outcome, signaled, ilock, target, asyncVars, memVars>>

\* A waiter that was notified and signalled reports the interruption.
VerdictInterruptFirstBug(a, list) ==
  IF signaled[a] THEN "interrupted"
  ELSE IF ~Listed(list, a) THEN result[a]
  ELSE IF deadline[a] = "passed" THEN "timed-out"
  ELSE "none"

\* One round of the wait loop, a's place in the list being that of "list": what the wait
\* returns, or none to sleep.
Verdict(a, list) ==
  IF ~Listed(list, a) THEN result[a]
  ELSE IF signaled[a] THEN "interrupted"
  ELSE IF deadline[a] = "passed" THEN "timed-out"
  ELSE "none"

\* A waiter that gives up unlinks itself.
GiveUp(a, list) == IF Verdict(a, list) = "none" THEN list ELSE Without(list, a)

Round(a, list) ==
  /\ bucket' = GiveUp(a, list)
  /\ outcome' = [outcome EXCEPT ![a] = Verdict(a, list)]
  /\ pc' = [pc EXCEPT ![a] = IF Verdict(a, list) = "none" THEN "blocked" ELSE "leaving"]

\* The comparison does not look at the element again.
MatchesStaleBug(w) == TRUE

Matches(w) == value[at[w]] = want[w]

\* The critical section up to the first sleep.
WaitEnter(a) ==
  /\ pc[a] = "wait"
  /\ \/ /\ Matches(a)
        /\ Round(a, Append(bucket, a))
     \/ /\ ~Matches(a)
        /\ outcome' = [outcome EXCEPT ![a] = "not-equal"]
        /\ pc' = [pc EXCEPT ![a] = "leaving"]
        /\ UNCHANGED bucket
  /\ UNCHANGED <<value, at, want, result, deadline, current, signaled, ilock, target,
                 asyncVars, memVars>>

\* The condition variable returned: signalled, timed out or spuriously.
WaitResume(a) ==
  /\ pc[a] = "woken"
  /\ Round(a, bucket)
  /\ UNCHANGED <<value, at, want, result, deadline, current, signaled, ilock, target,
                 asyncVars, memVars>>

\* The clock passes the deadline, or the condition variable wakes for no reason.
Expire(a) ==
  /\ \/ /\ pc[a] \in {"wait", "blocked", "woken"} /\ deadline[a] = "set"
        /\ deadline' = [deadline EXCEPT ![a] = "passed"]
     \/ /\ pc[a] = "blocked"
        /\ UNCHANGED deadline
  /\ pc' = [pc EXCEPT ![a] = IF @ = "blocked" THEN "woken" ELSE @]
  /\ UNCHANGED <<listVars, outcome, current, signaled, ilock, target, asyncVars, memVars>>

LeaveGuard(a) == a \in Interruptible => ilock[a] = Free

\* interrupt->current is cleared, and the waiter on a's stack is gone.
WaitLeave(a) ==
  /\ pc[a] = "leaving" /\ LeaveGuard(a)
  /\ current' = [current EXCEPT ![a] = FALSE]
  /\ pc' = [pc EXCEPT ![a] = "run"]
  /\ deadline' = [deadline EXCEPT ![a] = "none"]
  /\ Forget({a})
  /\ result' = [result EXCEPT ![a] = "none"]
  /\ outcome' = [outcome EXCEPT ![a] = "none"]
  /\ UNCHANGED <<value, bucket, signaled, ilock, target, asyncVars, memVars>>

-----------------------------------------------------------------------------
(* Interruption: terminate() of a worker, process exit. *)

\* Under interrupt->lock: the flag, then the current waiter.
Signal(a, b) ==
  /\ pc[a] = "run" /\ ilock[b] = Free
  /\ signaled' = [signaled EXCEPT ![b] = TRUE]
  /\ IF current[b]
     THEN /\ ilock' = [ilock EXCEPT ![b] = a]
          /\ target' = [target EXCEPT ![a] = b]
          /\ pc' = [pc EXCEPT ![a] = "broadcast"]
     ELSE UNCHANGED <<ilock, target, pc>>
  /\ UNCHANGED <<listVars, deadline, outcome, current, asyncVars, memVars>>

\* Under the bucket lock of that waiter; both locks are released.
Broadcast(a) ==
  /\ pc[a] = "broadcast"
  /\ pc' = [pc EXCEPT ![a] = "run",
                      ![target[a]] = IF @ = "blocked" THEN "woken" ELSE @]
  /\ ilock' = [ilock EXCEPT ![target[a]] = Free]
  /\ target' = [target EXCEPT ![a] = Free]
  /\ UNCHANGED <<listVars, deadline, outcome, current, signaled, asyncVars, memVars>>

-----------------------------------------------------------------------------
(* Atomics.notify. *)

\* A program that changes an element before it notifies everyone waiting there.
Store(a) ==
  /\ pc[a] = "run" /\ holds[a]
  /\ \E o \in Offsets, v \in Values :
       /\ value[o] # v
       /\ value' = [value EXCEPT ![o] = v]
       /\ at' = [at EXCEPT ![a] = o]
  /\ pc' = [pc EXCEPT ![a] = "notify"]
  /\ UNCHANGED <<bucket, want, result, syncVars, asyncVars, memVars>>

\* Any waiter at the offset may be the one woken, whatever waits before it.
WokenIndicesAnyBug(o, last) == {i \in 1..last : i = last /\ at[bucket[i]] = o}

\* The places of the waiters at offset o that a walk of the first "last" cells meets.
WokenIndices(o, last) == {i \in 1..last : at[bucket[i]] = o}

\* The walk of mal_shared_memory_notify ends at its count-th waiter or with the list.
WalkEnds(o, count, last) ==
  \/ /\ Cardinality(WokenIndices(o, last)) = count
     /\ last \in WokenIndices(o, last)
  \/ /\ Cardinality(WokenIndices(o, last)) < count
     /\ last = Len(bucket)

\* The critical section of mal_shared_memory_notify: waiters are unlinked in list order,
\* sleepers signalled, records chained for their posts.
Wake(a, o, last) ==
  LET woken == WokenIndices(o, last)
      W     == {bucket[i] : i \in woken}
      n     == Len(bucket)
  IN  /\ \E kept \in Ascending((1..n) \ woken, n) : bucket' = Pick(bucket, kept)
      /\ \E chain \in Ascending({i \in woken : bucket[i] \in Records}, n) :
           posts' = [posts EXCEPT ![a] = Pick(bucket, chain)]
      /\ result' = [w \in Waiters |-> IF w \in W THEN "ok" ELSE result[w]]
      /\ pc' = [b \in Agents |->
                  IF b = a THEN IF W \cap Records = {} THEN "run" ELSE "post"
                  ELSE IF b \in W /\ pc[b] = "blocked" THEN "woken" ELSE pc[b]]

\* Either the notify that follows a store, whose count of UINT32_MAX never ends the walk
\* early, or one that wakes a single waiter.
Notify(a) ==
  /\ \/ /\ pc[a] = "notify"
        /\ Wake(a, at[a], Len(bucket))
        /\ Forget({a})
     \/ /\ pc[a] = "run" /\ holds[a]
        /\ \E o \in Offsets, last \in 0..Len(bucket) : WalkEnds(o, 1, last) /\ Wake(a, o, last)
        /\ UNCHANGED <<at, want>>
  /\ UNCHANGED <<value, syncVars, rec, timer, refs, settled, mailRefs, reactor,
                 ready, wake, memVars>>

\* Teardown cleared mailbox->reactor and freed the records.
Accepts(m) == reactor[m]

\* atomics_async_post under the mailbox lock: the record becomes ready and its loop wakes.
Post(a) ==
  /\ pc[a] = "post"
  /\ LET r == Head(posts[a])  m == Owner[r]
     IN  IF Accepts(m)
         THEN /\ ready' = [ready EXCEPT ![m] = Append(@, r)]
              /\ wake' = [wake EXCEPT ![m] = TRUE]
         ELSE UNCHANGED <<ready, wake>>
  /\ pc' = [pc EXCEPT ![a] = "drop-waiter"]
  /\ UNCHANGED <<listVars, syncVars, rec, timer, refs, settled, mailRefs, reactor, posts,
                 memVars>>

\* The references the list held, dropped with no lock.
PostDropWaiter(a) ==
  /\ pc[a] = "drop-waiter"
  /\ ReleaseWaiters({Head(posts[a])})
  /\ pc' = [pc EXCEPT ![a] = "drop-mailbox"]
  /\ UNCHANGED <<listVars, syncVars, rec, timer, settled, mailRefs, reactor, ready, wake,
                 posts, holds>>

PostDropMailbox(a) ==
  /\ pc[a] = "drop-mailbox"
  /\ mailRefs' = [mailRefs EXCEPT ![Owner[Head(posts[a])]] = @ - 1]
  /\ posts' = [posts EXCEPT ![a] = Tail(@)]
  /\ pc' = [pc EXCEPT ![a] = IF Len(posts[a]) = 1 THEN "run" ELSE "post"]
  /\ UNCHANGED <<listVars, syncVars, rec, timer, refs, settled, reactor, ready, wake, memVars>>

-----------------------------------------------------------------------------
(* Atomics.waitAsync and the owner's event loop. *)

\* The mailbox is retained only for waiters that time out.
RetainedBug(r) == 0

\* The reference the enqueued waiter will hold.
Retained(r) == 1

\* The record is linked and the mailbox retained before the waiter is enqueued.
AsyncBegin(r) ==
  /\ pc[Owner[r]] = "run" /\ holds[Owner[r]] /\ rec[r] = "unused"
  /\ \E o \in Offsets, v \in Values :
       /\ at' = [at EXCEPT ![r] = o]
       /\ want' = [want EXCEPT ![r] = v]
  /\ rec' = [rec EXCEPT ![r] = "linking"]
  /\ mailRefs' = [mailRefs EXCEPT ![Owner[r]] = @ + Retained(r)]
  /\ pc' = [pc EXCEPT ![Owner[r]] = "enqueue"]
  /\ UNCHANGED <<value, bucket, result, syncVars, timer, refs, settled, reactor, ready, wake,
                 posts, memVars>>

\* mal_shared_memory_wait_async and what atomics_async_wait does with its answer; the
\* allocation may fail.  A finite timeout arms a timer.
AsyncEnqueue(r) ==
  /\ pc[Owner[r]] = "enqueue" /\ rec[r] = "linking"
  /\ \/ /\ Matches(r)
        /\ bucket' = Append(bucket, r)
        /\ result' = [result EXCEPT ![r] = "timed-out"]
        /\ refs' = [refs EXCEPT ![r] = 2]
        /\ memRefs' = memRefs + 1
        /\ \E t \in BOOLEAN : timer' = [timer EXCEPT ![r] = t]
        /\ rec' = [rec EXCEPT ![r] = "linked"]
        /\ UNCHANGED <<at, want, mailRefs, settled>>
     \/ /\ \E s \in {"not-equal", "interrupted"} :
             /\ s = "not-equal" => ~Matches(r)
             /\ settled' = [settled EXCEPT ![r] = s]
        /\ rec' = [rec EXCEPT ![r] = "freed"]
        /\ mailRefs' = [mailRefs EXCEPT ![Owner[r]] = @ - 1]
        /\ Forget({r})
        /\ UNCHANGED <<bucket, result, refs, memRefs, timer>>
  /\ pc' = [pc EXCEPT ![Owner[r]] = "run"]
  /\ UNCHANGED <<value, syncVars, reactor, ready, wake, posts, holds>>

\* atomics_async_settle: unlink, release the owner's reference, free, fulfil.
Settle(r, s) ==
  /\ rec' = [rec EXCEPT ![r] = "freed"]
  /\ timer' = [timer EXCEPT ![r] = FALSE]
  /\ settled' = [settled EXCEPT ![r] = s]
  /\ Forget({r})

\* atomics_async_drain: one ready record in the macrotask phase.
Drain(a) ==
  /\ pc[a] = "run" /\ ready[a] # <<>>
  /\ LET r == Head(ready[a])
     IN  Settle(r, result[r]) /\ ReleaseWaiters({r})
  /\ ready' = [ready EXCEPT ![a] = Tail(@)]
  /\ UNCHANGED <<value, bucket, result, pc, syncVars, mailRefs, reactor, wake, posts, holds>>

\* The timer settles the record even though a notify won.
TimedOutBug(r) == TRUE

\* mal_shared_async_waiter_cancel found the waiter in the list.
TimedOut(r) == Listed(bucket, r)

\* mal_shared_async_waiter_cancel, and the release of the owner's reference.
Cancel(r, s) ==
  /\ bucket' = Without(bucket, r)
  /\ IF Listed(bucket, r)
     THEN /\ result' = [result EXCEPT ![r] = s]
          /\ refs' = [refs EXCEPT ![r] = @ - 2]
          /\ memRefs' = memRefs - 1
     ELSE ReleaseWaiters({r}) /\ UNCHANGED result

\* atomics_async_timeout, a timer of the owner's reactor.
Timeout(r) ==
  /\ pc[Owner[r]] \in {"run", "poll"} /\ timer[r]
  /\ IF TimedOut(r)
     THEN /\ Cancel(r, "timed-out")
          /\ mailRefs' = [mailRefs EXCEPT ![Owner[r]] = @ - 1]
          /\ Settle(r, "timed-out")
     ELSE /\ timer' = [timer EXCEPT ![r] = FALSE]
          /\ UNCHANGED <<bucket, refs, memRefs, result, mailRefs, rec, settled, at, want>>
  /\ pc' = [pc EXCEPT ![Owner[r]] = "run"]
  /\ UNCHANGED <<value, syncVars, reactor, ready, wake, posts, holds>>

\* The loop sleeps although a record became ready.
SleepsAnywayBug(a) == TRUE

\* The last macrotask drain found the mailbox empty.
Sleeps(a) == ready[a] = <<>>

\* The loop blocks in the reactor, and a wake ends that; it also polls the reactor, and
\* consumes the wake, between macrotasks.
Poll(a) ==
  /\ \/ /\ pc[a] = "run" /\ Sleeps(a)
        /\ pc' = [pc EXCEPT ![a] = "poll"]
        /\ UNCHANGED wake
     \/ /\ pc[a] \in {"run", "poll"} /\ wake[a]
        /\ pc' = [pc EXCEPT ![a] = "run"]
        /\ wake' = [wake EXCEPT ![a] = FALSE]
  /\ UNCHANGED <<listVars, syncVars, rec, timer, refs, settled, mailRefs, reactor, ready,
                 posts, memVars>>

-----------------------------------------------------------------------------
(* Teardown of an isolate, and the end of its wrappers. *)

\* The collector frees the agent's last wrapper of the backing.
DropBuffer(a) ==
  /\ pc[a] \in {"run", "poll"} /\ holds[a]
  /\ holds' = [holds EXCEPT ![a] = FALSE]
  /\ memRefs' = memRefs - 1
  /\ UNCHANGED <<listVars, pc, syncVars, asyncVars>>

\* atomics_async_free: deliveries stop first.
TearBegin(a) ==
  /\ pc[a] \in {"run", "poll"}
  /\ reactor' = [reactor EXCEPT ![a] = FALSE]
  /\ ready' = [ready EXCEPT ![a] = <<>>]
  /\ pc' = [pc EXCEPT ![a] = "teardown"]
  /\ UNCHANGED <<listVars, syncVars, rec, timer, refs, settled, mailRefs, wake, posts, memVars>>

\* One pending record: cancelled, or left to the post that is under way.
TearRecord(r) ==
  /\ pc[Owner[r]] = "teardown" /\ rec[r] = "linked"
  /\ Cancel(r, "interrupted")
  /\ mailRefs' = [mailRefs EXCEPT ![Owner[r]] = IF Listed(bucket, r) THEN @ - 1 ELSE @]
  /\ Settle(r, "none")
  /\ UNCHANGED <<value, pc, syncVars, reactor, ready, wake, posts, holds>>

\* The owner drops its mailbox; its heap goes with the wrappers in it.
TearEnd(a) ==
  /\ pc[a] = "teardown"
  /\ \A r \in Records : Owner[r] = a => rec[r] # "linked"
  /\ mailRefs' = [mailRefs EXCEPT ![a] = @ - 1]
  /\ holds' = [holds EXCEPT ![a] = FALSE]
  /\ memRefs' = IF holds[a] THEN memRefs - 1 ELSE memRefs
  /\ pc' = [pc EXCEPT ![a] = "gone"]
  /\ UNCHANGED <<listVars, syncVars, rec, timer, refs, settled, reactor, ready, wake, posts>>

-----------------------------------------------------------------------------
AgentStep(a) ==
  \/ WaitBegin(a) \/ WaitEnter(a) \/ WaitResume(a) \/ WaitLeave(a) \/ Expire(a)
  \/ Broadcast(a) \/ Store(a) \/ Notify(a)
  \/ Post(a) \/ PostDropWaiter(a) \/ PostDropMailbox(a)
  \/ Drain(a) \/ Poll(a) \/ DropBuffer(a) \/ TearBegin(a) \/ TearEnd(a)

RecordStep(r) == AsyncBegin(r) \/ AsyncEnqueue(r) \/ Timeout(r) \/ TearRecord(r)

Finished == (\A a \in Agents : pc[a] = "gone") /\ UNCHANGED vars

Next ==
  \/ \E a \in Agents : AgentStep(a)
  \/ \E a \in Agents, b \in Interruptible : Signal(a, b)
  \/ \E r \in Records : RecordStep(r)
  \/ Finished

Spec == Init /\ [][Next]_vars

-----------------------------------------------------------------------------
(* Properties. *)

Waiting(a) == pc[a] \in {"wait", "blocked", "woken", "leaving"}

\* The agents that still have to post or release record r.
Posters(r) == {a \in Agents : Listed(posts[a], r)}

\* The types of the variables.
TypeOK ==
  /\ value \in [Offsets -> Values]
  /\ \A i \in 1..Len(bucket) : bucket[i] \in Waiters
  /\ at \in [Waiters -> Offsets] /\ want \in [Waiters -> Values]
  /\ result \in [Waiters -> Results]
  /\ pc \in [Agents -> {"run", "wait", "blocked", "woken", "leaving", "broadcast", "notify",
                        "post", "drop-waiter", "drop-mailbox", "enqueue", "poll", "teardown",
                        "gone"}]
  /\ deadline \in [Agents -> {"none", "set", "passed"}] /\ outcome \in [Agents -> Results]
  /\ current \in [Agents -> BOOLEAN] /\ signaled \in [Agents -> BOOLEAN]
  /\ ilock \in [Agents -> Agents \cup {Free}] /\ target \in [Agents -> Agents \cup {Free}]
  /\ rec \in [Records -> {"unused", "linking", "linked", "freed"}] /\ timer \in [Records -> BOOLEAN]
  /\ refs \in [Records -> 0..2] /\ settled \in [Records -> Results]
  /\ mailRefs \in [Agents -> 0..(Cardinality(Records) + 1)]
  /\ reactor \in [Agents -> BOOLEAN] /\ wake \in [Agents -> BOOLEAN]
  /\ \A a \in Agents : \A i \in 1..Len(ready[a]) : ready[a][i] \in Records
  /\ \A a \in Agents : \A i \in 1..Len(posts[a]) : posts[a][i] \in Records
  /\ holds \in [Agents -> BOOLEAN] /\ memRefs \in 0..Cardinality(Waiters)

\* No wake-up is lost: an agent asleep on the condition variable is in the list, so a notify
\* will find it, and if it was signalled the signaller has yet to broadcast
\* ("broadcasting under that lock cannot lose the wakeup").  A loop asleep in its reactor
\* with a ready record has a wake coming.
NoLostWakeup ==
  \A a \in Agents :
    /\ pc[a] = "blocked" =>
         /\ Listed(bucket, a)
         /\ a \in Interruptible /\ signaled[a] => ilock[a] # Free /\ target[ilock[a]] = a
    /\ pc[a] = "poll" /\ ready[a] # <<>> => wake[a]

\* A program that changes an element and then notifies all leaves nobody behind: a waiter is
\* in the list with a value the element no longer has only while such a notify is to come.
\* The comparison under the bucket lock is what makes this so.
NoMissedStore ==
  \A i \in 1..Len(bucket) :
    value[at[bucket[i]]] # want[bucket[i]] =>
      \E a \in Agents : pc[a] = "notify" /\ at[a] = at[bucket[i]]

\* A notification is never swallowed: a wait that a notify ended returns "ok" even if a signal
\* or the deadline came before the agent ran again, and no other wait returns "ok".  The same
\* for waitAsync: the promise says what the list said, whichever of notify, timer and
\* teardown came first, and it is settled only by a record that is gone.
OutcomesAgree ==
  /\ \A a \in Agents : pc[a] = "leaving" => (outcome[a] = "ok") = (result[a] = "ok")
  /\ \A r \in Records :
       /\ settled[r] \in {"ok", "timed-out"} => settled[r] = result[r] /\ rec[r] = "freed"
       /\ Listed(bucket, r) => rec[r] = "linked" /\ result[r] = "timed-out"

\* What remains counted for the waiter of r, for the mailbox of a, and for the backing.
WaiterHolds(r) ==
  (IF rec[r] = "linked" THEN 1 ELSE 0)
  + (IF \/ Listed(bucket, r)
        \/ \E a \in Posters(r) : Head(posts[a]) # r \/ pc[a] # "drop-mailbox"
     THEN 1 ELSE 0)
MailboxHolds(a) ==
  (IF pc[a] = "gone" THEN 0 ELSE 1)
  + Cardinality({r \in Records : /\ Owner[r] = a
                                 /\ \/ rec[r] = "linking"
                                    \/ Listed(bucket, r)
                                    \/ Posters(r) # {}})
BackingHolds ==
  Cardinality({a \in Agents : holds[a]}) + Cardinality({r \in Records : refs[r] > 0})

\* Reference counts are exact whoever comes last.  A waiter has one reference of its owner
\* while the record is linked and one of the list or of the notifier that removed it; a
\* mailbox those of its owner, the waits it is entering, the waiters in the list and the
\* posts under way; the backing outlives every waiter that names it.  What a mailbox has
\* ready is still linked, so the drain frees nothing twice, and a signaller about to
\* broadcast still has the waiter it read, which lives on the stack of a waiting agent.
RefsExact ==
  /\ \A r \in Records : refs[r] = WaiterHolds(r)
  /\ \A a \in Agents : mailRefs[a] = MailboxHolds(a)
  /\ memRefs = BackingHolds
  /\ bucket # <<>> => memRefs > 0
  /\ \A a \in Agents :
       /\ Distinct(ready[a])
       /\ \A i \in 1..Len(ready[a]) : LET r == ready[a][i] IN
            Owner[r] = a /\ rec[r] = "linked" /\ result[r] = "ok" /\ reactor[a] /\ refs[r] > 0
       /\ pc[a] = "broadcast" => Waiting(target[a])
       /\ Listed(bucket, a) => pc[a] \in {"blocked", "woken"}

\* Waiters of one element are notified in the order they came: a step that leaves a waiter
\* in the list never notifies one behind it at the same offset.
FifoNotify ==
  [][\A i, k \in 1..Len(bucket) :
       /\ i < k /\ at[bucket[i]] = at[bucket[k]]
       /\ result'[bucket[k]] = "ok"
       => ~Listed(bucket', bucket[i])]_vars

-----------------------------------------------------------------------------
(* Liveness.  The threads run; a mutex that is asked for is eventually granted, which makes  *)
(* WaitLeave strong; a loop that keeps running drains its mailbox.                           *)

Fairness ==
  /\ \A a \in Agents :
       /\ WF_vars(WaitEnter(a)) /\ WF_vars(WaitResume(a)) /\ SF_vars(WaitLeave(a))
       /\ WF_vars(Broadcast(a)) /\ WF_vars(Notify(a) /\ pc[a] = "notify")
       /\ WF_vars(Post(a)) /\ WF_vars(PostDropWaiter(a)) /\ WF_vars(PostDropMailbox(a))
       /\ WF_vars(Poll(a) /\ pc[a] = "poll") /\ SF_vars(Drain(a))
       /\ WF_vars(TearEnd(a))
  /\ \A r \in Records : WF_vars(AsyncEnqueue(r)) /\ WF_vars(TearRecord(r))

LiveSpec == Spec /\ Fairness

\* Waits end.  terminate() gets a worker out of a blocking wait, and so does a notify; a
\* notified waitAsync settles its promise or ends with its isolate, unless the isolate
\* blocks in waits for ever.
WaitsEnd ==
  /\ \A a \in Agents :
       Waiting(a) /\ (result[a] = "ok" \/ (a \in Interruptible /\ signaled[a])) ~> ~Waiting(a)
  /\ \A r \in Records :
       []<>(pc[Owner[r]] \in {"run", "poll", "gone"}) =>
         (rec[r] = "linked" /\ result[r] = "ok" ~> rec[r] = "freed")
=============================================================================
