------------------------------- MODULE Ports -------------------------------
(***************************************************************************)
(* Message channels of runtime/src/runtime/workers.c: endpoints, their     *)
(* queues and limits, the ready list of each isolate, posting with user    *)
(* getters, transfer of ports inside messages, close, collection and       *)
(* isolate shutdown.                                                       *)
(*                                                                         *)
(* An isolate is a thread with a stack of native frames: a post whose      *)
(* getters run, and the dispatch of a message, let JavaScript call every   *)
(* operation again.  A step is one critical section of the channel's       *)
(* mutex (the owner's mutex is only taken inside it) or of the owner's     *)
(* mutex alone.  Releases that follow the unlock are kept in "todo", which *)
(* the thread works off before anything else.                              *)
(***************************************************************************)
EXTENDS Integers, Sequences, FiniteSets, Lists

CONSTANTS
  Isolates, Channels, Messages,
  NoOne,
  Node,            \* the channels with POST_NODE rather than POST_TRANSACTIONAL
  Bytes,           \* size of each message's snapshot
  InitialHome,     \* the isolate that holds each endpoint at first
  InitialStart,    \* the endpoints whose ports are started at first
  Mortal,          \* bound: the isolates that shut down
  MaxCount, MaxBytes, MaxMessageBytes, \* limits of an endpoint
  ProcessMessages, ProcessBytes,       \* limits of the process
  MaxDepth,        \* bound: native frames below a post, per isolate
  MaxCalls         \* bound: operations JavaScript calls, and ports it forgets

Ends == Channels \X {0, 1}

ASSUME PortsAssumption ==
  /\ NoOne \notin Isolates \cup Channels \cup Messages
  /\ Node \subseteq Channels
  /\ Bytes \in [Messages -> Nat \ {0}]
  /\ InitialHome \in [Ends -> Isolates]
  /\ InitialStart \subseteq Ends /\ Mortal \subseteq Isolates
  /\ MaxCount \in Nat /\ MaxBytes \in Nat /\ MaxMessageBytes \in Nat
  /\ ProcessMessages \in Nat /\ ProcessBytes \in Nat
  /\ MaxDepth \in [Isolates -> Nat] /\ MaxCalls \in Nat

VARIABLES
  home,     \* who holds the handle: a port record of an isolate, or a message
  started,  \* of the port record
  closing,  \* of the port record
  owner,    \* endpoint->owner
  queue,    \* head .. tail
  reserved, \* reserved_count
  bytes,    \* endpoint->bytes
  closed,   \* channel->closed, and close_pending of both sides
  refs,     \* channel->refcount; 0 once it is freed
  ready,    \* owner->ready_head .. ready_tail
  alive,    \* owner->reactor is not null
  msgs,     \* g_process_messages
  total,    \* g_process_bytes
  frames,   \* native frames of each isolate, innermost last
  todo,     \* releases each isolate still performs
  condemned,\* port records whose wrapper the remark left unmarked, not swept yet
  fresh,    \* bound: messages not posted yet
  calls,    \* bound: operations called so far
  emitted   \* history: endpoints whose 'close' was dispatched

portVars  == <<home, started, closing, owner>>
queueVars == <<queue, reserved, bytes>>
procVars  == <<msgs, total>>
vars == <<portVars, queueVars, closed, refs, ready, alive, procVars, frames, todo, condemned, fresh, emitted, calls>>

Peer(e) == <<e[1], 1 - e[2]>>
Sides(c) == <<<<c, 0>>, <<c, 1>>>>

Init ==
  /\ home = InitialHome
  /\ started = [e \in Ends |-> e \in InitialStart] /\ closing = [e \in Ends |-> FALSE]
  /\ owner = [e \in Ends |-> IF e \in InitialStart THEN home[e] ELSE NoOne]
  /\ queue = [e \in Ends |-> <<>>] /\ reserved = [e \in Ends |-> 0] /\ bytes = [e \in Ends |-> 0]
  /\ closed = [c \in Channels |-> FALSE] /\ refs = [c \in Channels |-> 2]
  /\ ready = [i \in Isolates |-> <<>>] /\ alive = [i \in Isolates |-> TRUE]
  /\ msgs = 0 /\ total = 0
  /\ frames = [i \in Isolates |-> <<>>] /\ todo = [i \in Isolates |-> <<>>]
  /\ condemned = {} /\ fresh = Messages /\ emitted = {} /\ calls = 0

-----------------------------------------------------------------------------
(* Frames and pending releases. *)

Top(i) == frames[i][Len(frames[i])]

Frame(kind, e, m, x, stage) ==
  [kind |-> kind, e |-> e, m |-> m, x |-> x, stage |-> stage,
   encoded |-> FALSE, moved |-> FALSE, stale |-> FALSE]

Push(i, f) == frames' = [frames EXCEPT ![i] = Append(@, f)]
Pop(i)     == frames' = [frames EXCEPT ![i] = SubSeq(@, 1, Len(@) - 1)]
SetTop(i, f) == frames' = [frames EXCEPT ![i][Len(frames[i])] = f]

Free(m)    == <<"free", m>>
CloseOf(c) == <<"close", c>>
Release(c) == <<"release", c>>
BindOf(e)  == <<"bind", e>>      \* endpoint_bind to the isolate
Credit(m)  == <<"credit", m>>    \* process_release_bytes, process_release_message
Slot       == <<"slot", NoOne>>  \* process_release_message

\* The queue of a freed channel is forgotten, not released.
FreedNoneBug(q) == <<>>

\* endpoint_drop_queue.
Freed(q) == [k \in DOMAIN q |-> Free(q[k])]

\* The thread of i is not in the middle of releases.
Ready(i) == todo[i] = <<>>
Then(i, s) == todo' = [todo EXCEPT ![i] = s]

\* JavaScript may run on i: between macrotasks, in a getter or in a listener.
Stage(i) == IF frames[i] = <<>> THEN "idle" ELSE Top(i).stage
Runs(i)  == alive[i] /\ Ready(i) /\ Stage(i) \in {"idle", "js"}

InFrame(i, kind, stage) ==
  Ready(i) /\ frames[i] # <<>> /\ Top(i).kind = kind /\ Top(i).stage = stage

-----------------------------------------------------------------------------
(* The ready lists. *)

Queued(e) == \E i \in Isolates : Listed(ready[i], e)

\* The test of owner->reactor is inverted.
LinkedInvertedBug(c, S) == {e \in S : e[1] = c /\ owner[e] # NoOne /\ ~alive[owner[e]]}

\* endpoint_notify_locked for the endpoints of c in set S: those it links.
Linked(c, S) == {e \in S : e[1] = c /\ owner[e] # NoOne /\ alive[owner[e]] /\ ~Queued(e)}

Notified(c, S) ==
  [i \in Isolates |-> ready[i] \o SelectSeq(Sides(c), LAMBDA e : e \in Linked(c, S) /\ owner[e] = i)]

Notify(c, S) ==
  /\ ready' = Notified(c, S)
  /\ refs' = [refs EXCEPT ![c] = @ + Cardinality(Linked(c, S))]

\* endpoint_bind to an isolate.
Bind(e, i) ==
  LET link == (queue[e] # <<>> \/ closed[e[1]]) /\ ~Queued(e) IN
    /\ owner' = [owner EXCEPT ![e] = i]
    /\ ready' = IF link THEN [ready EXCEPT ![i] = Append(@, e)] ELSE ready
    /\ refs' = IF link THEN [refs EXCEPT ![e[1]] = @ + 1] ELSE refs

\* The endpoint stays on the list of its old owner.
UnlinkedKeepsBug(e) == ready

\* endpoint_bind to nobody takes the endpoint off its owner's list.
Unlinked(e) == [i \in Isolates |-> SelectSeq(ready[i], LAMBDA f : f # e)]

Unbind(e, extra) ==
  /\ owner' = [owner EXCEPT ![e] = NoOne]
  /\ ready' = Unlinked(e)
  /\ refs' = [refs EXCEPT ![e[1]] = @ + extra - (IF Queued(e) THEN 1 ELSE 0)]

-----------------------------------------------------------------------------
(* What a thread works off: the tails of message_free, channel_release,      *)
(* hooks_release and of the posts, each a critical section or an atomic.     *)

Cleanup(i) ==
  LET item == Head(todo[i])
      rest == Tail(todo[i])
      c    == item[2]
  IN
  /\ todo[i] # <<>>
  /\ \/ /\ item[1] = "free"   \* hooks_release of a port nobody adopted closes it
        /\ \E e \in Ends :
             /\ home[e] = c
             /\ home' = [home EXCEPT ![e] = NoOne]
             /\ Then(i, <<CloseOf(e[1]), Release(e[1]), Credit(c)>> \o rest)
        /\ UNCHANGED <<started, closing, owner, queueVars, closed, refs, ready, procVars>>
     \/ /\ item[1] = "close"  \* channel_close
        /\ closed' = [closed EXCEPT ![c] = TRUE]
        /\ Notify(c, IF closed[c] THEN {} ELSE Ends)
        /\ Then(i, rest)
        /\ UNCHANGED <<portVars, queueVars, procVars>>
     \/ /\ item[1] = "release" \* channel_release
        /\ refs' = [refs EXCEPT ![c] = @ - 1]
        /\ IF refs[c] = 1
           THEN /\ queue' = [e \in Ends |-> IF e[1] = c THEN <<>> ELSE queue[e]]
                /\ bytes' = [e \in Ends |-> IF e[1] = c THEN 0 ELSE bytes[e]]
                /\ Then(i, Freed(queue[<<c, 0>>]) \o Freed(queue[<<c, 1>>]) \o rest)
           ELSE Then(i, rest) /\ UNCHANGED <<queue, bytes>>
        /\ UNCHANGED <<portVars, reserved, closed, ready, procVars>>
     \/ /\ item[1] = "bind"
        /\ Bind(c, i)
        /\ Then(i, rest)
        /\ UNCHANGED <<home, started, closing, queueVars, closed, procVars>>
     \/ /\ item[1] = "credit" \/ (item[1] = "free" /\ \A e \in Ends : home[e] # c)
        /\ total' = total - Bytes[c] /\ msgs' = msgs - 1
        /\ Then(i, rest)
        /\ UNCHANGED <<portVars, queueVars, closed, refs, ready>>
     \/ /\ item[1] = "slot"
        /\ msgs' = msgs - 1
        /\ Then(i, rest)
        /\ UNCHANGED <<portVars, queueVars, closed, refs, ready, total>>
  /\ UNCHANGED <<alive, frames, condemned, fresh, emitted>>

-----------------------------------------------------------------------------
(* Posting.  JavaScript reaches a port its isolate holds, unless a remark    *)
(* found it unreachable.                                                     *)

Reach(i, e) == home[e] = i /\ e \notin condemned

loopVars == <<alive, condemned, fresh, emitted>>

\* endpoint_reserve refuses at either limit and the post throws.
HasSlot(r) == Len(queue[r]) + reserved[r] < MaxCount /\ msgs < ProcessMessages

\* endpoint_post up to the getters, on an open channel.  x is the listed port.
PostBegin(i, e, m, x) ==
  /\ Runs(i) /\ Len(frames[i]) < MaxDepth[i]
  /\ Reach(i, e) /\ m \in fresh /\ x \in {NoOne} \cup {y \in Ends : Reach(i, y)}
  /\ ~closed[e[1]] /\ HasSlot(Peer(e))
  /\ reserved' = [reserved EXCEPT ![Peer(e)] = @ + 1]
  /\ msgs' = msgs + 1
  /\ refs' = [refs EXCEPT ![e[1]] = @ + 1]
  /\ fresh' = fresh \ {m}
  /\ Push(i, Frame("post", e, m, x, "js"))
  /\ UNCHANGED <<portVars, queue, bytes, closed, ready, alive, total, todo, condemned, emitted>>

\* post_unentangled: from a record without endpoint, or on a closed channel.
PostDead(i, e, x) ==
  /\ Runs(i) /\ Len(frames[i]) < MaxDepth[i]
  /\ Reach(i, x)
  /\ e \in {NoOne} \cup {y \in Ends : Reach(i, y) /\ closed[y[1]]}
  /\ refs' = IF e = NoOne THEN refs ELSE [refs EXCEPT ![e[1]] = @ + 1]
  /\ Push(i, Frame("post", e, NoOne, x, "js"))
  /\ UNCHANGED <<portVars, queueVars, closed, ready, procVars, todo, loopVars>>

\* hooks_encode: never into its own channel, and only a record with an endpoint.
Encode(i) ==
  LET f == Top(i) IN
  /\ InFrame(i, "post", "js")
  /\ f.x # NoOne /\ ~f.encoded /\ ~f.stale /\ ~closing[f.x]
  /\ f.e # NoOne => f.x[1] # f.e[1]
  /\ SetTop(i, [f EXCEPT !.encoded = TRUE])
  /\ refs' = [refs EXCEPT ![f.x[1]] = @ + 1]
  /\ UNCHANGED <<portVars, queueVars, closed, ready, procVars, todo, loopVars>>

\* The channel is released on the error path and again at the end.
GiveBackTwiceBug(f) ==
  IF f.e = NoOne THEN <<>> ELSE <<Release(f.e[1]), Release(f.e[1])>>

\* The references a post gives back: its descriptor's, then its channel's.
GiveBack(f) ==
  (IF f.encoded THEN <<Release(f.x[1])>> ELSE <<>>) \o
  (IF f.e = NoOne THEN <<>> ELSE <<Release(f.e[1])>>)

Unreserved(f) ==
  IF f.m = NoOne THEN reserved ELSE [reserved EXCEPT ![Peer(f.e)] = @ - 1]

\* mal_serialize fails: a getter throws, a value or a listed port does not clone.
PostFail(i) ==
  LET f == Top(i) IN
  /\ InFrame(i, "post", "js")
  /\ reserved' = Unreserved(f)
  /\ Pop(i) /\ Then(i, (IF f.m = NoOne THEN <<>> ELSE <<Slot>>) \o GiveBack(f))
  /\ UNCHANGED <<portVars, queue, bytes, closed, refs, ready, procVars, loopVars>>

\* A listed port moved or closed by a getter is not noticed.
ValidBug(f) == f.x = NoOne \/ f.encoded

\* hooks_validate, at the end of mal_serialize.
Valid(f) == f.x = NoOne \/ (f.encoded /\ ~f.stale /\ ~closing[f.x])

Serialized(i) == InFrame(i, "post", "js") /\ Valid(Top(i))

\* post_unentangled after the getters: the sender's reference goes, then Drop.
PostDeadEnd(i) ==
  LET f == Top(i) IN
  /\ Serialized(i) /\ f.m = NoOne
  /\ SetTop(i, [f EXCEPT !.stage = "drop", !.e = NoOne])
  /\ Then(i, IF f.e = NoOne THEN <<>> ELSE <<Release(f.e[1])>>)
  /\ UNCHANGED <<portVars, queueVars, closed, refs, ready, procVars, loopVars>>

\* A transactional port gives its transfers up as a Node port does.
CommitsBug(f) == f.x # NoOne

Commits(f) == f.e[1] \in Node /\ f.x # NoOne

\* The sender moved away, or the channel closed during the getters: nothing is
\* sent.  A Node port commits the transfer all the same.
PostUndeliverable(i) ==
  LET f == Top(i) IN
  /\ Serialized(i) /\ f.m # NoOne
  /\ f.moved \/ closed[f.e[1]]
  /\ reserved' = Unreserved(f)
  /\ IF Commits(f)
     THEN SetTop(i, [f EXCEPT !.stage = "drop"]) /\ Then(i, <<Slot>>)
     ELSE Pop(i) /\ Then(i, <<Slot>> \o GiveBack(f))
  /\ UNCHANGED <<portVars, queue, bytes, closed, refs, ready, procVars, loopVars>>

\* The bytes already queued are not counted.
FitsBug(r, m) == Bytes[m] <= MaxMessageBytes /\ total + Bytes[m] <= ProcessBytes

Fits(r, m) ==
  /\ Bytes[m] <= MaxMessageBytes
  /\ bytes[r] + Bytes[m] <= MaxBytes
  /\ total + Bytes[m] <= ProcessBytes

Deliverable(i) ==
  Serialized(i) /\ Top(i).m # NoOne /\ ~Top(i).moved /\ ~closed[Top(i).e[1]]

\* endpoint_admit_bytes refuses: the post throws, nothing is detached.
PostRefused(i) ==
  LET f == Top(i) IN
  /\ Deliverable(i) /\ ~Fits(Peer(f.e), f.m)
  /\ reserved' = Unreserved(f)
  /\ Pop(i) /\ Then(i, <<Slot>> \o GiveBack(f))
  /\ UNCHANGED <<portVars, queue, bytes, closed, refs, ready, procVars, loopVars>>

PostAdmit(i) ==
  LET f == Top(i) IN
  /\ Deliverable(i) /\ Fits(Peer(f.e), f.m)
  /\ bytes' = [bytes EXCEPT ![Peer(f.e)] = @ + Bytes[f.m]]
  /\ total' = total + Bytes[f.m]
  /\ SetTop(i, [f EXCEPT !.stage = IF f.x = NoOne THEN "publish" ELSE "commit"])
  /\ UNCHANGED <<portVars, queue, reserved, closed, refs, ready, msgs, todo, loopVars>>

\* Outer frames see the endpoint gone from the record they hold.
Marked(fs, x) ==
  [k \in DOMAIN fs |-> [fs[k] EXCEPT !.moved = @ \/ fs[k].e = x, !.stale = @ \/ fs[k].x = x]]

\* hooks_commit: the endpoint leaves the record, and the record's reference goes.
Detach(x, to, extra) ==
  /\ Unbind(x, extra)
  /\ home' = [home EXCEPT ![x] = to]
  /\ started' = [started EXCEPT ![x] = FALSE]
  /\ closing' = [closing EXCEPT ![x] = FALSE]

PostCommit(i) ==
  LET f == Top(i)
      n == Len(frames[i])
      g == [f EXCEPT !.stage = "publish", !.encoded = FALSE]
  IN
  /\ InFrame(i, "post", "commit")
  /\ Detach(f.x, f.m, -1)
  /\ frames' = [frames EXCEPT ![i] = Append(Marked(SubSeq(@, 1, n - 1), f.x), g)]
  /\ UNCHANGED <<queueVars, closed, procVars, todo, loopVars>>

\* commit_dropped_snapshot and the release of the snapshot: the port closes.
Drop(i) ==
  LET f == Top(i)
      n == Len(frames[i])
      d == f.x[1]
  IN
  /\ InFrame(i, "post", "drop")
  /\ Detach(f.x, NoOne, 0)
  /\ frames' = [frames EXCEPT ![i] = Marked(SubSeq(@, 1, n - 1), f.x)]
  /\ Then(i, <<Release(d), CloseOf(d)>> \o GiveBack(f))
  /\ UNCHANGED <<queueVars, closed, procVars, loopVars>>

\* A message for a channel closed after admission is queued all the same.
PublishableBug(c) == TRUE

Publishable(c) == ~closed[c]

\* endpoint_publish.
Publish(i) ==
  LET f == Top(i)
      c == f.e[1]
      r == Peer(f.e)
  IN
  /\ InFrame(i, "post", "publish")
  /\ Pop(i)
  /\ reserved' = [reserved EXCEPT ![r] = @ - 1]
  /\ IF Publishable(c)
     THEN /\ queue' = [queue EXCEPT ![r] = Append(@, f.m)]
          /\ Notify(c, {r})
          /\ Then(i, <<Release(c)>>)
          /\ UNCHANGED bytes
     ELSE /\ bytes' = [bytes EXCEPT ![r] = @ - Bytes[f.m]]
          /\ Then(i, <<Free(f.m), Release(c)>>)
          /\ UNCHANGED <<queue, ready, refs>>
  /\ UNCHANGED <<portVars, closed, procVars, loopVars>>

-----------------------------------------------------------------------------
(* The other operations of a port. *)

\* port_start.
Start(i, e) ==
  /\ Runs(i) /\ Reach(i, e) /\ ~started[e]
  /\ started' = [started EXCEPT ![e] = TRUE]
  /\ Bind(e, i)
  /\ UNCHANGED <<home, closing, queueVars, closed, procVars, frames, todo, loopVars>>

\* port_close_record: an unstarted port is bound so that it sees its 'close'.
Close(i, e) ==
  /\ Runs(i) /\ Reach(i, e)
  /\ closing' = [closing EXCEPT ![e] = TRUE]
  /\ started' = [started EXCEPT ![e] = TRUE]
  /\ closed' = [closed EXCEPT ![e[1]] = TRUE]
  /\ Notify(e[1], IF closed[e[1]] THEN {} ELSE Ends)
  /\ Then(i, IF started[e] THEN <<>> ELSE <<BindOf(e)>>)
  /\ UNCHANGED <<home, owner, queueVars, procVars, frames, loopVars>>

\* mal_deserialize_take adopts the port a message carries, or fails and leaves it.
Decoded(i, m) == {home, [x \in Ends |-> IF home[x] = m THEN i ELSE home[x]]}

\* endpoint_pop_locked.
Popped(e) ==
  /\ queue' = [queue EXCEPT ![e] = Tail(@)]
  /\ bytes' = [bytes EXCEPT ![e] = @ - Bytes[Head(queue[e])]]

\* receive_message_on_port.
Receive(i, e) ==
  /\ Runs(i) /\ Reach(i, e) /\ queue[e] # <<>>
  /\ Popped(e)
  /\ home' \in Decoded(i, Head(queue[e]))
  /\ Then(i, <<Free(Head(queue[e]))>>)
  /\ UNCHANGED <<started, closing, owner, reserved, closed, refs, ready, procVars, frames, loopVars>>

\* endpoint_discard by the sender; pool mailboxes only.
Discard(i, e, m) ==
  LET r == Peer(e) IN
  /\ e[1] \notin Node /\ Runs(i) /\ Reach(i, e) /\ Listed(queue[r], m)
  /\ queue' = [queue EXCEPT ![r] = Without(@, m)]
  /\ bytes' = [bytes EXCEPT ![r] = @ - Bytes[m]]
  /\ Then(i, <<Free(m)>>)
  /\ UNCHANGED <<portVars, reserved, closed, refs, ready, procVars, frames, loopVars>>

-----------------------------------------------------------------------------
(* Collection.  workers_scan_roots marks the pinned ports; the remark leaves *)
(* the others unmarked when JavaScript does not reach them, and a later step *)
(* of the incremental sweep finalizes them.                                  *)

\* port_pinned of an unreferenced port.
Pinned(e) == started[e] /\ (closing[e] \/ queue[e] # <<>> \/ closed[e[1]])

\* A record that a native frame of the isolate still uses is reachable.
InUse(i, e) ==
  \E k \in 1..Len(frames[i]) :
    LET f == frames[i][k] IN (f.e = e /\ ~f.moved) \/ (f.x = e /\ ~f.stale)

\* No native builtin is active, so a safepoint advances the collection.
Safepoint(i) == Runs(i) /\ \A k \in 1..Len(frames[i]) : frames[i][k].kind # "post"

Condemn(i, e) ==
  /\ Safepoint(i) /\ Reach(i, e) /\ ~Pinned(e) /\ ~InUse(i, e)
  /\ condemned' = condemned \cup {e}
  /\ UNCHANGED <<portVars, queueVars, closed, refs, ready, alive, procVars, frames, todo, fresh, emitted>>

\* port_finalize.
Sweep(i, e) ==
  /\ Safepoint(i) /\ home[e] = i /\ e \in condemned
  /\ Detach(e, NoOne, 0)
  /\ condemned' = condemned \ {e}
  /\ Then(i, <<CloseOf(e[1]), Release(e[1])>>)
  /\ UNCHANGED <<queueVars, closed, alive, procVars, frames, fresh, emitted>>

-----------------------------------------------------------------------------
(* workers_drain, one macrotask. *)

DrainPop(i) ==
  /\ Runs(i) /\ frames[i] = <<>> /\ ready[i] # <<>>
  /\ ready' = [ready EXCEPT ![i] = Tail(@)]
  /\ Push(i, Frame("drain", Head(ready[i]), NoOne, NoOne, "look"))
  /\ UNCHANGED <<portVars, queueVars, closed, refs, procVars, todo, loopVars>>

\* Something is left to dispatch.
More(e) == Len(queue[e]) > 1 \/ closed[e[1]]

\* The port takes a message, and is listed again if there is more to dispatch.
DrainMessage(i) ==
  LET e == Top(i).e IN
  /\ InFrame(i, "drain", "look") /\ home[e] = i /\ started[e] /\ queue[e] # <<>>
  /\ Popped(e)
  /\ Notify(e[1], IF More(e) THEN {e} ELSE {})
  /\ home' \in Decoded(i, Head(queue[e]))
  /\ SetTop(i, [Top(i) EXCEPT !.m = Head(queue[e]), !.stage = "js"])
  /\ UNCHANGED <<started, closing, owner, reserved, closed, procVars, todo, loopVars>>

\* The last thing a port dispatches: its record loses the endpoint first.
DrainClose(i) ==
  LET e == Top(i).e IN
  /\ InFrame(i, "drain", "look") /\ home[e] = i /\ started[e]
  /\ queue[e] = <<>> /\ closed[e[1]]
  /\ Detach(e, NoOne, 0)
  /\ emitted' = emitted \cup {e}
  /\ condemned' = condemned \ {e}
  /\ SetTop(i, [Top(i) EXCEPT !.kind = "close", !.stage = "js"])
  /\ UNCHANGED <<queueVars, closed, alive, procVars, todo, fresh>>

\* Nothing left (taken meanwhile), or the port is not this isolate's to serve.
DrainNothing(i) ==
  LET e == Top(i).e IN
  /\ InFrame(i, "drain", "look")
  /\ ~(home[e] = i /\ started[e] /\ (queue[e] # <<>> \/ closed[e[1]]))
  /\ Pop(i) /\ Then(i, <<Release(e[1])>>)
  /\ UNCHANGED <<portVars, queueVars, closed, refs, ready, procVars, loopVars>>

\* The listeners return.
DrainEnd(i) ==
  LET f == Top(i) IN
  /\ Ready(i) /\ frames[i] # <<>> /\ f.kind \in {"drain", "close"} /\ f.stage = "js"
  /\ Pop(i)
  /\ Then(i, <<IF f.kind = "drain" THEN Free(f.m) ELSE Release(f.e[1]), Release(f.e[1])>>)
  /\ UNCHANGED <<portVars, queueVars, closed, refs, ready, procVars, loopVars>>

-----------------------------------------------------------------------------
(* mal_workers_shutdown: the mailbox first, then each port of the isolate.   *)

Shutdown(i) ==
  /\ i \in Mortal /\ Runs(i) /\ frames[i] = <<>>
  /\ alive' = [alive EXCEPT ![i] = FALSE]
  /\ ready' = [ready EXCEPT ![i] = <<>>]
  /\ Then(i, [k \in DOMAIN ready[i] |-> Release(ready[i][k][1])])
  /\ UNCHANGED <<portVars, queueVars, closed, refs, procVars, frames, condemned, fresh, emitted>>

\* channel_close; the mailbox is gone, so nobody sees the endpoint between that and its
\* unbinding.
ShutdownPort(i, e) ==
  /\ ~alive[i] /\ Ready(i) /\ home[e] = i
  /\ closed' = [closed EXCEPT ![e[1]] = TRUE]
  /\ Notify(e[1], IF closed[e[1]] THEN {} ELSE Ends)
  /\ home' = [home EXCEPT ![e] = NoOne]
  /\ owner' = [owner EXCEPT ![e] = NoOne]
  /\ started' = [started EXCEPT ![e] = FALSE]
  /\ closing' = [closing EXCEPT ![e] = FALSE]
  /\ condemned' = condemned \ {e}
  /\ Then(i, <<Release(e[1])>>)
  /\ UNCHANGED <<queueVars, alive, procVars, frames, fresh, emitted>>

Step(i) ==
  \/ Cleanup(i) \/ Encode(i) \/ PostFail(i) \/ PostDeadEnd(i) \/ PostUndeliverable(i)
  \/ PostRefused(i) \/ PostAdmit(i) \/ PostCommit(i) \/ Drop(i) \/ Publish(i)
  \/ \E e \in Ends : Sweep(i, e)
  \/ DrainPop(i) \/ DrainMessage(i) \/ DrainClose(i) \/ DrainNothing(i) \/ DrainEnd(i)

Call(i) ==
  \/ \E e \in Ends : Start(i, e) \/ Close(i, e) \/ Receive(i, e) \/ Condemn(i, e)
  \/ \E e \in Ends, m \in Messages : Discard(i, e, m)
  \/ \E e \in Ends, m \in Messages, x \in Ends \cup {NoOne} : PostBegin(i, e, m, x)
  \/ \E e \in Ends \cup {NoOne}, x \in Ends : PostDead(i, e, x)

Stop(i) == Shutdown(i) \/ \E e \in Ends : ShutdownPort(i, e)

Next ==
  \E i \in Isolates :
    \/ (Step(i) \/ Stop(i)) /\ UNCHANGED calls
    \/ calls < MaxCalls /\ Call(i) /\ calls' = calls + 1

Spec == Init /\ [][Next]_vars

-----------------------------------------------------------------------------
(* Properties. *)

Frames(i) == {<<i, k>> : k \in 1..Len(frames[i])}
AllFrames == UNION {Frames(i) : i \in Isolates}
At(p) == frames[p[1]][p[2]]

AllTodo == UNION {{<<i, k>> : k \in 1..Len(todo[i])} : i \in Isolates}
Todo(p) == todo[p[1]][p[2]]

\* The state stays within the types of the structures Endpoint, Channel and Owner.
TypeOK ==
  /\ home \in [Ends -> Isolates \cup Messages \cup {NoOne}]
  /\ started \in [Ends -> BOOLEAN] /\ closing \in [Ends -> BOOLEAN]
  /\ owner \in [Ends -> Isolates \cup {NoOne}]
  /\ \A e \in Ends : queue[e] \in Seq(Messages) /\ reserved[e] \in Nat /\ bytes[e] \in Nat
  /\ closed \in [Channels -> BOOLEAN] /\ refs \in [Channels -> Nat]
  /\ \A i \in Isolates : ready[i] \in Seq(Ends)
  /\ alive \in [Isolates -> BOOLEAN]
  /\ msgs \in Nat /\ total \in Nat
  /\ condemned \subseteq Ends /\ fresh \subseteq Messages /\ emitted \subseteq Ends

\* The references on channel c that somebody holds: port records and snapshots,
\* ready chains, native frames and releases still to be made.
Holders(c) ==
  LET all == AllFrames IN
    Cardinality({e \in Ends : e[1] = c /\ home[e] # NoOne})
    + Cardinality({e \in Ends : e[1] = c /\ Queued(e)})
    + Cardinality({p \in all : At(p).e # NoOne /\ At(p).e[1] = c})
    + Cardinality({p \in all : At(p).kind = "close" /\ At(p).e[1] = c})
    + Cardinality({p \in all : At(p).encoded /\ At(p).x[1] = c})
    + Cardinality({p \in AllTodo : Todo(p) = Release(c)})

\* channel->refcount is at every moment the number of its holders, so the channel is
\* freed when the last one lets go, neither earlier (a use after free in a post whose
\* getter closed or moved the port, in a drain, in a shutdown) nor never.
RefsExact == \A c \in Channels : refs[c] = Holders(c)

\* An isolate is about to look at the queue of e.
Looking(i, e) == frames[i] # <<>> /\ Top(i).e = e /\ Top(i).stage = "look"

\* The owner of an endpoint is the isolate whose started port record holds it, and an
\* endpoint is on the ready chain of nobody else, and there once, so the search in
\* endpoint_bind never aborts.  An endpoint workers_drain takes off the chain is still
\* held and started: its branch for a port "transferred away or not started" is dead.
\* No wake-up is lost: a bound endpoint with a message or a close to dispatch is on its
\* owner's ready chain, or the owner has just taken it off and looks at it next.
ReadyExact ==
  /\ \A e \in Ends : owner[e] # NoOne => home[e] = owner[e] /\ started[e]
  /\ \A i \in Isolates :
       /\ Distinct(ready[i])
       /\ \A e \in Ends : Listed(ready[i], e) => owner[e] = i /\ alive[i]
       /\ \A e \in Ends : Looking(i, e) => owner[e] = i
       /\ \A e \in Ends :
            owner[e] = i /\ alive[i] /\ (queue[e] # <<>> \/ closed[e[1]])
              => Listed(ready[i], e) \/ Looking(i, e)

\* Messages that exist: queued, delivered and not freed yet, or about to be freed.
Queues(m)     == {e \in Ends : Listed(queue[e], m)}
Deliveries(m) == {p \in AllFrames : At(p).kind = "drain" /\ At(p).m = m}
Freeing(m)    == {p \in AllTodo : Todo(p) = Free(m)}
Admitted(m)   == {p \in AllFrames : At(p).kind = "post" /\ At(p).m = m /\ At(p).stage \in {"commit", "publish"}}
Places(m) ==
  Cardinality(Queues(m)) + Cardinality(Deliveries(m)) + Cardinality(Freeing(m)) + Cardinality(Admitted(m))

\* A message is in one place at a time, so it is delivered and freed at most once, and a
\* port in transit is inside a message that still exists: it reaches a receiver or closes.
MessageOnce ==
  /\ \A m \in Messages : Places(m) <= 1
  /\ \A e \in Ends : Distinct(queue[e])
  /\ \A x \in Ends : home[x] \in Messages => Places(home[x]) = 1

\* The bytes of a set of messages, counted one by one.
Weight(S) == Cardinality(UNION {{m} \X (1..Bytes[m]) : m \in S})

\* Posts that hold a reservation.
Reserving == {p \in AllFrames : At(p).kind = "post" /\ At(p).m # NoOne /\ At(p).stage # "drop"}

\* The process and endpoint counters equal what they account for, at every exit of a
\* post, and stay within their limits: reservations and messages, admitted bytes.
QuotaExact ==
  LET posts    == Reserving
      admitted == {p \in posts : At(p).stage \in {"commit", "publish"}}
      exist    == {m \in Messages : Places(m) = 1}
      credits  == {p \in AllTodo : Todo(p)[1] = "credit"}
  IN
  /\ \A e \in Ends :
       /\ reserved[e] = Cardinality({p \in posts : Peer(At(p).e) = e})
       /\ bytes[e] = Weight({queue[e][k] : k \in DOMAIN queue[e]}
                             \cup {At(p).m : p \in {q \in admitted : Peer(At(q).e) = e}})
       /\ Len(queue[e]) + reserved[e] <= MaxCount /\ bytes[e] <= MaxBytes
  /\ msgs = Cardinality(posts) + Cardinality(exist) - Cardinality(admitted)
            + Cardinality(credits) + Cardinality({p \in AllTodo : Todo(p) = Slot})
  /\ total = Weight(exist \cup {Todo(p)[2] : p \in credits})
  /\ msgs <= ProcessMessages /\ total <= ProcessBytes

\* Once a port has dispatched 'close' no message is left for it and none arrives.
CloseIsLast == \A e \in emitted : queue[e] = <<>>

\* Every isolate is down and has nothing left to release.
Quiescent == \A i \in Isolates : ~alive[i] /\ Ready(i) /\ \A e \in Ends : home[e] # i

\* After every isolate has shut down all channels, messages and quotas have been given
\* back, except what hangs on a cycle: a message left over sits in the queue of a
\* channel one end of which travels inside another message left over.
LeftoversAreCycles ==
  Quiescent =>
    /\ \A e \in Ends : queue[e] # <<>> => home[e] \in Messages \/ home[Peer(e)] \in Messages
    /\ (\A e \in Ends : home[e] \notin Messages)
         => msgs = 0 /\ total = 0 /\ \A c \in Channels : refs[c] = 0

\* endpoint_post on a transactional port: whatever a getter does and whichever limit is
\* hit, a listed port leaves its isolate only inside an admitted message.  The other
\* ways out are its own 'close', collection, shutdown, a post without a live peer, and a
\* post on a Node port.
TransferKept ==
  [][\A x \in Ends :
       home'[x] = NoOne /\ home[x] \in Isolates =>
         \/ x \in emitted' \cup condemned \/ ~alive[home[x]]
         \/ Top(home[x]).m = NoOne \/ Top(home[x]).e[1] \in Node]_vars

\* port_pinned's contract: the loop owns a started port that still has a delivery or
\* 'close' to dispatch, so no listener runs on a port the collector has given up.
DispatchesToLive ==
  \A p \in AllFrames :
    At(p).kind = "drain" /\ At(p).stage = "js" /\ ~At(p).moved => At(p).e \notin condemned

-----------------------------------------------------------------------------
(* The event loop of a live isolate keeps draining, getters and listeners     *)
(* return, and a thread that has to release something does so.                *)

Fairness == \A i \in Isolates : WF_vars(Step(i) /\ UNCHANGED calls)

FairSpec == Spec /\ Fairness

\* A message queued for a started port is dispatched, received or discarded, unless the
\* port goes away or its isolate shuts down; and a started port of a closed channel
\* dispatches 'close', after the messages.  Neither stays as it is for ever.
Dispatched ==
  \A e \in Ends, i \in Isolates :
    /\ \A m \in Messages : []<>~(owner[e] = i /\ alive[i] /\ Listed(queue[e], m))
    /\ []<>~(owner[e] = i /\ alive[i] /\ closed[e[1]])
=============================================================================
