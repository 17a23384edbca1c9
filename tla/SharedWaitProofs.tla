-------------------------- MODULE SharedWaitProofs --------------------------
(***************************************************************************)
(* What module SharedWait promises of a wait, for any agents, records and  *)
(* elements: no wake-up is lost, no store is missed, no notification is    *)
(* swallowed, and waiters are notified in order.  The argument follows the *)
(* list: an agent is in it exactly while it sleeps or has been woken by    *)
(* somebody other than a notify, its result says "timed-out" until a       *)
(* notify takes it out, and a signaller keeps the interrupt's lock from    *)
(* reading the current waiter to its broadcast.                            *)
(***************************************************************************)
EXTENDS SharedWaitInv, ListProofs

\* The constants that stand for no element and no value.
LEMMA Defaults == NoOffset \in Offsets /\ NoValue \in Values
  BY AgentsAssumption, Zenon DEF NoOffset, NoValue

-----------------------------------------------------------------------------
(* Two shapes of step. *)

\* Nothing changes for the synchronous waiters.
LEMMA SyncStays ==
  ASSUME Sync, outcome' = outcome,
         \A b \in Agents : result'[b] = result[b] /\ (Listed(bucket', b) <=> Listed(bucket, b)),
         \A b \in Agents : \A s \in {"wait", "blocked", "woken", "leaving"} : pc'[b] = s <=> pc[b] = s
  PROVE  Sync'
  BY Zenon DEF Sync

\* Stores stay announced when no waiter moves and no notify to come is forgotten.
LEMMA StoredStays ==
  ASSUME Stored, value' = value,
         \A w \in Waiters : Listed(bucket', w) =>
           Listed(bucket, w) /\ at'[w] = at[w] /\ want'[w] = want[w],
         \A b \in Agents : pc[b] = "notify" => pc'[b] = "notify" /\ at'[b] = at[b]
  PROVE  Stored'
  BY DEF Stored

\* The interrupts do not see steps of agents that neither wait nor broadcast.
LEMMA InterruptsStay ==
  ASSUME Types, Interrupts, UNCHANGED <<current, signaled, ilock, target>>,
         \A b \in Agents :
           /\ pc'[b] \in {"wait", "blocked", "woken", "leaving"} <=>
                pc[b] \in {"wait", "blocked", "woken", "leaving"}
           /\ pc'[b] = "broadcast" <=> pc[b] = "broadcast"
           /\ pc'[b] = "blocked" => pc[b] = "blocked" \/ ~signaled[b]
  PROVE  Interrupts'
<1> SUFFICES ASSUME NEW a \in Agents
             PROVE  /\ current'[a] <=> a \in Interruptible /\ Waiting(a)'
                    /\ ilock'[a] # Free => pc'[ilock'[a]] = "broadcast" /\ target'[ilock'[a]] = a
                    /\ pc'[a] = "broadcast" =>
                         /\ target'[a] \in Interruptible /\ ilock'[target'[a]] = a
                         /\ Waiting(target[a])'
                    /\ pc'[a] = "blocked" /\ a \in Interruptible /\ signaled'[a] => ilock'[a] # Free
  BY Zenon DEF Interrupts, Waiting
<1>1. current'[a] <=> a \in Interruptible /\ Waiting(a)'
  BY Zenon DEF Interrupts, Waiting
<1>2. ilock'[a] # Free => pc'[ilock'[a]] = "broadcast" /\ target'[ilock'[a]] = a
  BY DEF Interrupts, Types
<1>3. pc'[a] = "broadcast" =>
        target'[a] \in Interruptible /\ ilock'[target'[a]] = a /\ Waiting(target[a])'
  BY AgentsAssumption, Zenon DEF Interrupts, Waiting
<1>4. pc'[a] = "blocked" /\ a \in Interruptible /\ signaled'[a] => ilock'[a] # Free
  BY Zenon DEF Interrupts
<1> QED
  BY <1>1, <1>2, <1>3, <1>4, Zenon

\* A step that leaves the list and the elements alone, in which nobody starts or ends a wait
\* or forgets a notify.
LEMMA ListStays ==
  ASSUME IInv, UNCHANGED <<value, bucket, at, want, result, outcome, rec, settled>>, Types',
         \A b \in Agents : \/ pc'[b] = pc[b]
                           \/ pc[b] = "blocked" /\ pc'[b] = "woken"
                           \/ pc[b] \notin Attentive /\ pc'[b] \notin Attentive,
         \A b \in Agents : pc'[b] \in {"post", "drop-waiter", "drop-mailbox"} => posts'[b] # <<>>,
         \A b \in Agents : \A x \in Waiters :
           Listed(posts'[b], x) \/ Listed(ready'[b], x) => x \in Records /\ result[x] = "ok",
         \A b \in Agents : pc'[b] = "poll" /\ ready'[b] # <<>> => wake'[b],
         Interrupts'
  PROVE  IInv'
<1>1. Sync'
  BY Zenon DEF IInv, Sync, Attentive
<1>2. Async'
  BY Zenon DEF IInv, Async
<1>3. Posted' /\ Loops'
  BY Zenon DEF Posted, Loops
<1>4. Stored'
  BY StoredStays, Zenon DEF IInv, Attentive
<1> QED
  BY <1>1, <1>2, <1>3, <1>4, Zenon DEF IInv

\* The same for a step that leaves the interrupts alone.
LEMMA QuietKeeps ==
  ASSUME IInv,
         UNCHANGED <<value, bucket, at, want, result, outcome, current, signaled, ilock, target,
                     rec, settled>>,
         pc' \in [Agents -> PCs], wake' \in [Agents -> BOOLEAN],
         posts' \in [Agents -> Seq(Waiters)], ready' \in [Agents -> Seq(Waiters)],
         \A b \in Agents : \/ pc'[b] = pc[b]
                           \/ pc[b] = "blocked" /\ pc'[b] = "woken"
                           \/ /\ pc[b] \notin Attentive \cup {"broadcast"}
                              /\ pc'[b] \notin Attentive \cup {"broadcast"},
         \A b \in Agents : pc'[b] \in {"post", "drop-waiter", "drop-mailbox"} => posts'[b] # <<>>,
         \A b \in Agents : \A x \in Waiters :
           Listed(posts'[b], x) \/ Listed(ready'[b], x) => x \in Records /\ result[x] = "ok",
         \A b \in Agents : pc'[b] = "poll" /\ ready'[b] # <<>> => wake'[b]
  PROVE  IInv'
<1>1. Types'
  BY Zenon DEF IInv, Types
<1>2. Interrupts'
  BY InterruptsStay, Zenon DEF IInv, Attentive
<1> QED
  BY <1>1, <1>2, ListStays, Zenon

\* A step of one agent that is in no list.
LEMMA TurnKeeps ==
  ASSUME IInv, NEW a \in Agents, ~Listed(bucket, a),
         UNCHANGED <<value, bucket, signaled, ilock, target, rec, settled, ready, posts, wake>>,
         at' \in [Waiters -> Offsets], want' \in [Waiters -> Values],
         result' \in [Waiters -> Results], outcome' \in [Agents -> Results],
         current' \in [Agents -> BOOLEAN], pc' \in [Agents -> PCs],
         \A w \in Waiters \ {a} : at'[w] = at[w] /\ want'[w] = want[w] /\ result'[w] = result[w],
         \A b \in Agents \ {a} : pc'[b] = pc[b] /\ outcome'[b] = outcome[b],
         \A b \in Agents \ {a} : current'[b] <=> current[b],
         pc[a] \in {"run", "wait", "leaving"}, pc'[a] \in {"run", "wait", "leaving"},
         pc'[a] = "wait" => result'[a] = "timed-out",
         pc'[a] = "leaving" => (outcome'[a] = "ok" <=> result'[a] = "ok"),
         current'[a] <=> a \in Interruptible /\ pc'[a] \in {"wait", "leaving"},
         ilock[a] # Free => pc'[a] # "run"
  PROVE  IInv'
<1>1. /\ \A b \in Agents : b \in Waiters
      /\ \A r \in Records : r \in Waiters /\ r # a
  BY AgentsAssumption, Zenon DEF Waiters
<1>2. Types'
  BY Zenon DEF IInv, Types
<1>3. Sync'
  BY <1>1 DEF IInv, Sync
<1>4. Async'
  BY <1>1 DEF IInv, Async
<1>5. Posted'
  BY <1>1 DEF IInv, Posted
<1>6. Loops'
  BY Zenon DEF IInv, Loops
<1>7. Stored'
  BY <1>1, StoredStays, Zenon DEF IInv
<1>8. Interrupts'
  <2>1. ASSUME NEW b \in Agents PROVE current'[b] <=> b \in Interruptible /\ Waiting(b)'
    BY DEF IInv, Interrupts, Waiting
  <2>2. ASSUME NEW b \in Agents, ilock'[b] # Free
        PROVE  pc'[ilock'[b]] = "broadcast" /\ target'[ilock'[b]] = b
    <3>1. ilock[b] \in Agents /\ pc[ilock[b]] = "broadcast" /\ target[ilock[b]] = b
      BY <2>2 DEF IInv, Types, Interrupts
    <3> QED
      BY <3>1, Zenon
  <2>3. ASSUME NEW b \in Agents, pc'[b] = "broadcast"
        PROVE  target'[b] \in Interruptible /\ ilock'[target'[b]] = b /\ Waiting(target[b])'
    <3>1. b # a /\ target[b] \in Interruptible /\ ilock[target[b]] = b /\ Waiting(target[b])
      BY <2>3 DEF IInv, Interrupts
    <3>2. target[b] \in Agents /\ b # Free
      BY <3>1, AgentsAssumption, Zenon
    <3> QED
      BY <3>1, <3>2, Zenon DEF Waiting
  <2>4. ASSUME NEW b \in Agents, pc'[b] = "blocked", b \in Interruptible, signaled'[b]
        PROVE  ilock'[b] # Free
    BY <2>4 DEF IInv, Interrupts
  <2> QED
    BY <2>1, <2>2, <2>3, <2>4, Zenon DEF Interrupts, Waiting
<1> QED
  BY <1>2, <1>3, <1>4, <1>5, <1>6, <1>7, <1>8, Zenon DEF IInv

-----------------------------------------------------------------------------
(* Waits that begin and end, signals and stores. *)

\* A wait registers its waiter with the interrupt: IInv is kept.
LEMMA WaitBeginKeeps ==
  ASSUME IInv, NEW a \in Agents, WaitBegin(a)
  PROVE  IInv'
<1>1. a \in Waiters /\ pc[a] = "run" /\ ~Listed(bucket, a)
  BY Zenon DEF WaitBegin, Waiters, IInv, Sync
<1>2. UNCHANGED <<value, bucket, outcome, signaled, ilock, target, rec, settled, ready, posts, wake>>
  BY Zenon DEF WaitBegin, asyncVars
<1>3. /\ at' \in [Waiters -> Offsets] /\ want' \in [Waiters -> Values]
      /\ \A w \in Waiters \ {a} : at'[w] = at[w] /\ want'[w] = want[w]
  BY <1>1 DEF WaitBegin, IInv, Types
<1>4. /\ result' \in [Waiters -> Results] /\ result'[a] = "timed-out"
      /\ \A w \in Waiters \ {a} : result'[w] = result[w]
      /\ pc' \in [Agents -> PCs] /\ pc'[a] = "wait"
      /\ \A b \in Agents \ {a} : pc'[b] = pc[b]
  BY <1>1 DEF WaitBegin, IInv, Types, Results, PCs
<1>5. current' = [current EXCEPT ![a] = Register(a)] /\ current \in [Agents -> BOOLEAN]
  BY Zenon DEF WaitBegin, IInv, Types
<1>6. /\ current' \in [Agents -> BOOLEAN] /\ (current'[a] <=> a \in Interruptible)
      /\ \A b \in Agents \ {a} : current'[b] <=> current[b]
  <2>1. Register(a) \in BOOLEAN /\ (Register(a) <=> a \in Interruptible)
    BY DEF Register
  <2> QED
    BY <1>5, <2>1, Zenon
<1>7. outcome \in [Agents -> Results]
  BY Zenon DEF IInv, Types
<1> QED
  BY <1>1, <1>2, <1>3, <1>4, <1>6, <1>7, TurnKeeps

\* A wait unregisters and returns: IInv is kept.
LEMMA WaitLeaveKeeps ==
  ASSUME IInv, NEW a \in Agents, WaitLeave(a)
  PROVE  IInv'
<1>1. a \in Waiters /\ pc[a] = "leaving" /\ ~Listed(bucket, a)
  BY Zenon DEF WaitLeave, Waiters, IInv, Sync
<1>2. UNCHANGED <<value, bucket, signaled, ilock, target, rec, settled, ready, posts, wake>>
  BY Zenon DEF WaitLeave, asyncVars
<1>3. /\ at' \in [Waiters -> Offsets] /\ want' \in [Waiters -> Values]
      /\ \A w \in Waiters \ {a} : at'[w] = at[w] /\ want'[w] = want[w]
  BY <1>1, Defaults DEF WaitLeave, Forget, IInv, Types
<1>4. /\ result' \in [Waiters -> Results]
      /\ \A w \in Waiters \ {a} : result'[w] = result[w]
      /\ pc' \in [Agents -> PCs] /\ pc'[a] = "run"
      /\ outcome' \in [Agents -> Results]
      /\ \A b \in Agents \ {a} : pc'[b] = pc[b] /\ outcome'[b] = outcome[b]
  BY <1>1 DEF WaitLeave, IInv, Types, Results, PCs
<1>5. current' = [current EXCEPT ![a] = FALSE] /\ current \in [Agents -> BOOLEAN]
  BY Zenon DEF WaitLeave, IInv, Types
<1>6. /\ current' \in [Agents -> BOOLEAN] /\ ~current'[a]
      /\ \A b \in Agents \ {a} : current'[b] <=> current[b]
  BY <1>5, Zenon
<1>7. ilock[a] = Free
  <2>1. ASSUME ilock[a] # Free PROVE FALSE
    <3>1. ilock[a] \in Agents /\ pc[ilock[a]] = "broadcast" /\ target[ilock[a]] = a
      BY <2>1 DEF IInv, Types, Interrupts
    <3>2. a \in Interruptible
      BY <3>1 DEF IInv, Interrupts
    <3> QED
      BY <2>1, <3>2, Zenon DEF WaitLeave, LeaveGuard
  <2> QED
    BY <2>1, Zenon
<1> QED
  BY <1>1, <1>2, <1>3, <1>4, <1>6, <1>7, TurnKeeps

\* mal_shared_wait_interrupt_signal reads the current waiter: IInv is kept.
LEMMA SignalKeeps ==
  ASSUME IInv, NEW a \in Agents, NEW b \in Interruptible, Signal(a, b)
  PROVE  IInv'
<1>1. UNCHANGED <<value, bucket, at, want, result, outcome, current, rec, settled, posts, ready, wake>>
  BY Zenon DEF Signal, listVars, asyncVars
<1>2. pc[a] = "run" /\ ilock[b] = Free /\ b \in Agents /\ signaled' = [signaled EXCEPT ![b] = TRUE]
  BY AgentsAssumption, Zenon DEF Signal
<1>3. Types /\ Posted /\ Loops /\ Interrupts
  BY Zenon DEF IInv
<1>4. signaled' \in [Agents -> BOOLEAN] /\ \A c \in Agents \ {b} : signaled'[c] <=> signaled[c]
  BY <1>2, <1>3, Zenon DEF Types
<1>5. CASE current[b]
  <2>1. /\ pc' = [pc EXCEPT ![a] = "broadcast"]
        /\ ilock' = [ilock EXCEPT ![b] = a] /\ target' = [target EXCEPT ![a] = b]
    BY <1>5, Zenon DEF Signal
  <2>2. /\ pc' \in [Agents -> PCs] /\ pc'[a] = "broadcast"
        /\ \A c \in Agents \ {a} : pc'[c] = pc[c]
    BY <1>3, <2>1, Zenon DEF Types, PCs
  <2>3. /\ ilock' \in [Agents -> Agents \cup {Free}] /\ ilock'[b] = a
        /\ \A c \in Agents \ {b} : ilock'[c] = ilock[c]
    BY <1>2, <1>3, <2>1, Zenon DEF Types
  <2>4. /\ target' \in [Agents -> Agents \cup {Free}] /\ target'[a] = b
        /\ \A c \in Agents \ {a} : target'[c] = target[c]
    BY <1>2, <1>3, <2>1, Zenon DEF Types
  <2>5. Types'
    BY <1>1, <1>3, <1>4, <2>2, <2>3, <2>4, Zenon DEF Types
  <2>6. Waiting(b) /\ b # a
    BY <1>2, <1>3, <1>5 DEF Interrupts, Waiting
  <2>7. \A c \in Agents : Waiting(c)' <=> Waiting(c)
    BY <1>2, <2>2 DEF Waiting
  <2>8. Interrupts'
    <3>1. ASSUME NEW c \in Agents PROVE current'[c] <=> c \in Interruptible /\ Waiting(c)'
      BY <1>1, <1>3, <2>7, Zenon DEF Interrupts
    <3>2. ASSUME NEW c \in Agents, ilock'[c] # Free
          PROVE  pc'[ilock'[c]] = "broadcast" /\ target'[ilock'[c]] = c
      <4>1. CASE c = b
        BY <2>2, <2>3, <2>4, <4>1
      <4>2. CASE c # b
        <5>1. ilock'[c] = ilock[c] /\ ilock[c] \in Agents
          BY <1>3, <2>3, <3>2, <4>2 DEF Types
        <5>2. pc[ilock[c]] = "broadcast" /\ target[ilock[c]] = c
          BY <1>3, <3>2, <5>1 DEF Interrupts
        <5>3. ilock[c] # a
          BY <1>2, <5>2
        <5> QED
          BY <2>2, <2>4, <5>1, <5>2, <5>3
      <4> QED
        BY <4>1, <4>2
    <3>3. ASSUME NEW c \in Agents, pc'[c] = "broadcast"
          PROVE  target'[c] \in Interruptible /\ ilock'[target'[c]] = c /\ Waiting(target[c])'
      <4>1. CASE c = a
        <5>1. target'[c] = b /\ ilock'[b] = c /\ Waiting(b)'
          BY <1>2, <2>3, <2>4, <2>6, <2>7, <4>1
        <5> QED
          BY <5>1, Zenon DEF Waiting
      <4>2. CASE c # a
        <5>1. target[c] \in Interruptible /\ ilock[target[c]] = c /\ Waiting(target[c])
          BY <1>3, <2>2, <3>3, <4>2 DEF Interrupts
        <5>2. target[c] \in Agents /\ target[c] # b
          BY <1>2, <5>1, AgentsAssumption, Zenon
        <5>3. target'[c] = target[c] /\ ilock'[target[c]] = c
          BY <2>3, <2>4, <4>2, <5>1, <5>2
        <5>4. Waiting(target[c])'
          <6>1. pc'[target[c]] = pc[target[c]]
            BY <1>2, <2>2, <5>1, <5>2 DEF Waiting
          <6> QED
            BY <5>1, <5>3, <6>1 DEF Waiting
        <5> QED
          BY <5>1, <5>3, <5>4
      <4> QED
        BY <4>1, <4>2
    <3>4. ASSUME NEW c \in Agents, pc'[c] = "blocked", c \in Interruptible, signaled'[c]
          PROVE  ilock'[c] # Free
      <4>1. CASE c = b
        BY <2>3, <4>1, AgentsAssumption, Zenon
      <4>2. CASE c # b
        BY <1>3, <1>4, <2>2, <2>3, <3>4, <4>2 DEF Interrupts
      <4> QED
        BY <4>1, <4>2, Zenon
    <3> QED
      BY <3>1, <3>2, <3>3, <3>4, Zenon DEF Interrupts, Waiting
  <2> QED
    BY <1>1, <1>2, <1>3, <2>2, <2>5, <2>8, ListStays DEF Attentive, Types, Posted, Loops
<1>6. CASE ~current[b]
  <2>1. UNCHANGED <<ilock, target, pc>>
    BY <1>6, Zenon DEF Signal
  <2>2. Types'
    BY <1>1, <1>3, <1>4, <2>1, Zenon DEF Types
  <2>3. pc[b] # "blocked"
    BY <1>2, <1>3, <1>6, Zenon DEF Interrupts, Waiting
  <2>4. Interrupts'
    BY <1>1, <1>2, <1>3, <1>4, <2>1, <2>3 DEF Interrupts, Waiting
  <2> QED
    BY <1>1, <1>3, <2>1, <2>2, <2>4, ListStays, Zenon DEF Attentive, Types, Posted, Loops
<1> QED
  BY <1>5, <1>6, Zenon

\* The broadcast to the waiter that was read: IInv is kept.
LEMMA BroadcastKeeps ==
  ASSUME IInv, NEW a \in Agents, Broadcast(a)
  PROVE  IInv'
<1> DEFINE t == target[a]
<1>0. UNCHANGED <<value, bucket, at, want, result, outcome, current, signaled, rec, settled, posts,
                  ready, wake>>
  BY Zenon DEF Broadcast, listVars, asyncVars
<1>1. /\ pc[a] = "broadcast"
      /\ pc' = [pc EXCEPT ![a] = "run", ![t] = IF @ = "blocked" THEN "woken" ELSE @]
      /\ ilock' = [ilock EXCEPT ![t] = Free] /\ target' = [target EXCEPT ![a] = Free]
  BY Zenon DEF Broadcast
<1>2. t \in Interruptible /\ t \in Agents /\ ilock[t] = a /\ Waiting(t) /\ t # a
  BY <1>1, AgentsAssumption, Zenon DEF IInv, Interrupts, Waiting
<1> HIDE DEF t
<1>3. /\ pc' \in [Agents -> PCs]
      /\ pc'[a] = "run" /\ pc'[t] = IF pc[t] = "blocked" THEN "woken" ELSE pc[t]
      /\ \A b \in Agents \ {a, t} : pc'[b] = pc[b]
  BY <1>1, <1>2, Zenon DEF IInv, Types, PCs
<1>4. /\ ilock' \in [Agents -> Agents \cup {Free}] /\ target' \in [Agents -> Agents \cup {Free}]
      /\ \A b \in Agents : ilock'[b] = IF b = t THEN Free ELSE ilock[b]
      /\ \A b \in Agents : target'[b] = IF b = a THEN Free ELSE target[b]
  BY <1>1, <1>2, Zenon DEF IInv, Types
<1>5. Types /\ Posted /\ Loops /\ Interrupts
  BY Zenon DEF IInv
<1>6. Types'
  <2>1. /\ pc' \in [Agents -> PCs]
        /\ ilock' \in [Agents -> Agents \cup {Free}] /\ target' \in [Agents -> Agents \cup {Free}]
    BY <1>3, <1>4, Zenon
  <2> QED
    BY <1>0, <1>5, <2>1, Zenon DEF Types
<1>7. Interrupts'
  <2>1. ASSUME NEW b \in Agents PROVE current'[b] <=> b \in Interruptible /\ Waiting(b)'
    BY <1>0, <1>1, <1>2, <1>3, <1>5 DEF Interrupts, Waiting
  <2>2. ASSUME NEW b \in Agents, ilock'[b] # Free
        PROVE  pc'[ilock'[b]] = "broadcast" /\ target'[ilock'[b]] = b
    <3>1. b # t /\ ilock'[b] = ilock[b] /\ ilock[b] \in Agents
      BY <1>4, <1>5, <2>2, Zenon DEF Types
    <3>2. pc[ilock[b]] = "broadcast" /\ target[ilock[b]] = b
      BY <1>5, <2>2, <3>1, Zenon DEF Interrupts
    <3>3. ilock[b] # a /\ ilock[b] # t
      BY <1>2, <3>1, <3>2, Zenon DEF t, Waiting
    <3> QED
      BY <1>3, <1>4, <3>1, <3>2, <3>3, Zenon
  <2>3. ASSUME NEW b \in Agents, pc'[b] = "broadcast"
        PROVE  target'[b] \in Interruptible /\ ilock'[target'[b]] = b /\ Waiting(target[b])'
    <3>1. b # a /\ b # t /\ pc[b] = "broadcast"
      BY <1>2, <1>3, <2>3, Zenon DEF Waiting
    <3>2. target[b] \in Interruptible /\ ilock[target[b]] = b /\ Waiting(target[b])
      BY <1>5, <3>1, Zenon DEF Interrupts
    <3>3. target'[b] = target[b] /\ target[b] # t /\ target[b] # a /\ target[b] \in Agents
      BY <1>1, <1>2, <1>4, <3>1, <3>2, AgentsAssumption, Zenon DEF Waiting
    <3> QED
      BY <1>3, <1>4, <3>2, <3>3 DEF Waiting
  <2>4. ASSUME NEW b \in Agents, pc'[b] = "blocked", b \in Interruptible, signaled'[b]
        PROVE  ilock'[b] # Free
    BY <1>0, <1>2, <1>3, <1>4, <1>5, <2>4 DEF Interrupts
  <2> QED
    BY <2>1, <2>2, <2>3, <2>4, Zenon DEF Interrupts, Waiting
<1>8. /\ \A b \in Agents : \/ pc'[b] = pc[b]
                           \/ pc[b] = "blocked" /\ pc'[b] = "woken"
                           \/ pc[b] = "broadcast" /\ pc'[b] = "run"
  BY <1>1, <1>3, Zenon
<1>9. /\ \A b \in Agents : pc'[b] \in {"post", "drop-waiter", "drop-mailbox"} => posts'[b] # <<>>
      /\ \A b \in Agents : \A x \in Waiters :
           Listed(posts'[b], x) \/ Listed(ready'[b], x) => x \in Records /\ result[x] = "ok"
      /\ \A b \in Agents : pc'[b] = "poll" /\ ready'[b] # <<>> => wake'[b]
  BY <1>0, <1>5, <1>8, Zenon DEF Posted, Loops
<1> QED
  BY <1>0, <1>6, <1>7, <1>8, <1>9, ListStays, Zenon DEF Attentive

\* A program stores before it notifies: IInv is kept.
LEMMA StoreKeeps ==
  ASSUME IInv, NEW a \in Agents, Store(a)
  PROVE  IInv'
<1>1. PICK o \in Offsets, v \in Values :
        value' = [value EXCEPT ![o] = v] /\ at' = [at EXCEPT ![a] = o]
  BY Zenon DEF Store
<1>2. /\ a \in Waiters /\ pc[a] = "run" /\ ~Listed(bucket, a) /\ pc' = [pc EXCEPT ![a] = "notify"]
      /\ UNCHANGED <<bucket, want, result, outcome, current, signaled, ilock, target, rec, settled,
                     ready, posts, wake>>
  BY Zenon DEF Store, syncVars, asyncVars, Waiters, IInv, Sync
<1>3. /\ value' \in [Offsets -> Values] /\ \A p \in Offsets \ {o} : value'[p] = value[p]
      /\ at' \in [Waiters -> Offsets] /\ at'[a] = o /\ \A w \in Waiters \ {a} : at'[w] = at[w]
      /\ pc' \in [Agents -> PCs] /\ pc'[a] = "notify" /\ \A b \in Agents \ {a} : pc'[b] = pc[b]
  BY <1>1, <1>2, Zenon DEF IInv, Types, PCs
<1>4. Types'
  BY <1>2, <1>3, Zenon DEF IInv, Types
<1>5. Sync'
  BY <1>2, <1>3 DEF IInv, Sync
<1>6. Async'
  BY <1>2, Zenon DEF IInv, Async
<1>7. Posted' /\ Loops'
  BY <1>2, <1>3 DEF IInv, Posted, Loops
<1>8. Stored'
  <2>1. ASSUME NEW w \in Waiters, Listed(bucket', w), value'[at'[w]] # want'[w]
        PROVE  \E b \in Agents : pc'[b] = "notify" /\ at'[b] = at'[w]
    <3>1. Listed(bucket, w) /\ w # a /\ at'[w] = at[w] /\ at[w] \in Offsets
      BY <1>2, <1>3, <2>1, Zenon
    <3>2. CASE at[w] = o
      BY <1>3, <3>1, <3>2, Zenon
    <3>3. CASE at[w] # o
      <4>1. PICK b \in Agents : pc[b] = "notify" /\ at[b] = at[w]
        BY <1>2, <1>3, <2>1, <3>1, <3>3 DEF IInv, Stored
      <4> QED
        BY <1>2, <1>3, <3>1, <4>1, Zenon DEF Waiters
    <3> QED
      BY <3>2, <3>3, Zenon
  <2> QED
    BY <2>1, Zenon DEF Stored
<1>9. Interrupts'
  BY <1>2, <1>3, InterruptsStay, Zenon DEF IInv
<1> QED
  BY <1>4, <1>5, <1>6, <1>7, <1>8, <1>9, Zenon DEF IInv

\* atomics_async_wait links its record and retains the mailbox: IInv is kept.
LEMMA AsyncBeginKeeps ==
  ASSUME IInv, NEW r \in Records, AsyncBegin(r)
  PROVE  IInv'
<1>1. /\ Owner[r] \in Agents /\ r \in Waiters /\ r \notin Agents /\ \A b \in Agents : b \in Waiters
      /\ pc[Owner[r]] = "run" /\ rec[r] = "unused" /\ ~Listed(bucket, r)
      /\ UNCHANGED <<value, bucket, result, outcome, current, signaled, ilock, target, settled, ready,
                     wake, posts>>
  BY AgentsAssumption, Zenon DEF AsyncBegin, syncVars, Waiters, IInv, Async
<1>2. /\ at' \in [Waiters -> Offsets] /\ want' \in [Waiters -> Values]
      /\ \A w \in Waiters \ {r} : at'[w] = at[w] /\ want'[w] = want[w]
  <2>1. PICK o \in Offsets, v \in Values : at' = [at EXCEPT ![r] = o] /\ want' = [want EXCEPT ![r] = v]
    BY Zenon DEF AsyncBegin
  <2> QED
    BY <1>1, <2>1, Zenon DEF IInv, Types
<1>3. /\ pc' \in [Agents -> PCs] /\ \A b \in Agents : pc'[b] = IF b = Owner[r] THEN "enqueue" ELSE pc[b]
      /\ rec' \in [Records -> {"unused", "linking", "linked", "freed"}] /\ rec'[r] = "linking"
      /\ \A q \in Records \ {r} : rec'[q] = rec[q]
  BY <1>1 DEF AsyncBegin, IInv, Types, PCs
<1>4. Types'
  BY <1>1, <1>2, <1>3, Zenon DEF IInv, Types
<1>5. Sync'
  BY <1>1, <1>3 DEF IInv, Sync
<1>6. Async'
  BY <1>1, <1>3 DEF IInv, Async
<1>7. Posted' /\ Loops'
  BY <1>1, <1>3 DEF IInv, Posted, Loops
<1>8. Stored'
  BY <1>1, <1>2, <1>3, StoredStays, Zenon DEF IInv
<1>9. Interrupts'
  BY <1>1, <1>3, InterruptsStay DEF IInv
<1> QED
  BY <1>4, <1>5, <1>6, <1>7, <1>8, <1>9, Zenon DEF IInv

-----------------------------------------------------------------------------
(* Steps that take a record out, and quiet steps. *)

\* A step that takes a record out of the list, if it is there, and frees it.
LEMMA FreeKeeps ==
  ASSUME IInv, NEW r \in Records,
         bucket' \in Seq(Waiters), Distinct(bucket'),
         \A y : Listed(bucket', y) <=> Listed(bucket, y) /\ y # r,
         result' \in [Waiters -> Results], \A w \in Waiters \ {r} : result'[w] = result[w],
         result[r] = "ok" => result'[r] = "ok",
         Forget({r}), rec' = [rec EXCEPT ![r] = "freed"],
         settled' \in [Records -> Results], \A q \in Records \ {r} : settled'[q] = settled[q],
         settled'[r] \in {"ok", "timed-out"} => settled'[r] = result'[r],
         pc' \in [Agents -> PCs],
         \A b \in Agents : pc'[b] = pc[b] \/ (pc[b] \in {"run", "poll", "enqueue"} /\ pc'[b] = "run"),
         ready' \in [Agents -> Seq(Waiters)],
         \A b \in Agents : \A x \in Waiters : Listed(ready'[b], x) => Listed(ready[b], x),
         \A b \in Agents : ready[b] = <<>> => ready'[b] = <<>>,
         UNCHANGED <<value, outcome, current, signaled, ilock, target, wake, posts>>
  PROVE  IInv'
<1>1. /\ r \in Waiters /\ r \notin Agents
      /\ \A b \in Agents : b # r /\ b \in Waiters
      /\ \A q \in Records : q \in Waiters
  BY AgentsAssumption DEF Waiters
<1>2. /\ at' \in [Waiters -> Offsets] /\ want' \in [Waiters -> Values]
      /\ \A w \in Waiters \ {r} : at'[w] = at[w] /\ want'[w] = want[w]
  BY Defaults DEF Forget, IInv, Types
<1>3. /\ rec' \in [Records -> {"unused", "linking", "linked", "freed"}] /\ rec'[r] = "freed"
      /\ \A q \in Records \ {r} : rec'[q] = rec[q]
  BY DEF IInv, Types
<1>4. Types'
  BY <1>2, <1>3, Zenon DEF IInv, Types
<1>5. Sync'
  <2>1. \A b \in Agents : result'[b] = result[b] /\ (Listed(bucket', b) <=> Listed(bucket, b))
    BY <1>1, Zenon
  <2>2. \A b \in Agents : \A s \in {"wait", "blocked", "woken", "leaving"} : pc'[b] = s <=> pc[b] = s
    BY Zenon
  <2> QED
    BY <2>1, <2>2, SyncStays, Zenon DEF IInv
<1>6. Async'
  BY <1>1, <1>3 DEF IInv, Async
<1>7. Posted'
  <2>1. ASSUME NEW b \in Agents, NEW x \in Waiters, Listed(posts'[b], x) \/ Listed(ready'[b], x)
        PROVE  x \in Records /\ result'[x] = "ok"
    <3>1. x \in Records /\ result[x] = "ok"
      BY <2>1, Zenon DEF IInv, Posted
    <3> QED
      BY <3>1, Zenon
  <2>2. ASSUME NEW b \in Agents, pc'[b] \in {"post", "drop-waiter", "drop-mailbox"}
        PROVE  posts'[b] # <<>>
    BY <2>2, Zenon DEF IInv, Posted
  <2> QED
    BY <2>1, <2>2, Zenon DEF Posted
<1>8. Stored'
  BY <1>1, <1>2, StoredStays, Zenon DEF IInv
<1>9. Interrupts'
  BY InterruptsStay, Zenon DEF IInv
<1>10. Loops'
  BY Zenon DEF IInv, Loops
<1> QED
  BY <1>4, <1>5, <1>6, <1>7, <1>8, <1>9, <1>10 DEF IInv

-----------------------------------------------------------------------------
(* Quiet steps. *)

\* A deadline passes, or a spurious wake-up: IInv is kept.
LEMMA ExpireKeeps ==
  ASSUME IInv, NEW a \in Agents, Expire(a)
  PROVE  IInv'
<1>1. pc' \in [Agents -> PCs] /\ \A b \in Agents : pc'[b] = pc[b] \/ (pc[b] = "blocked" /\ pc'[b] = "woken")
  BY Zenon DEF Expire, IInv, Types, PCs
<1>2. UNCHANGED <<value, bucket, at, want, result, outcome, current, signaled, ilock, target,
                  rec, settled, posts, ready, wake>>
  BY Zenon DEF Expire, listVars, asyncVars
<1>3. Types /\ Posted /\ Loops
  BY Zenon DEF IInv
<1> QED
  BY <1>1, <1>2, <1>3, QuietKeeps DEF Types, Posted, Loops

\* atomics_async_post: IInv is kept.
LEMMA PostKeeps ==
  ASSUME IInv, NEW a \in Agents, Post(a)
  PROVE  IInv'
<1> DEFINE r == Head(posts[a])
           m == Owner[r]
<1>1. r \in Records /\ r \in Waiters /\ result[r] = "ok" /\ m \in Agents
  <2>1. posts[a] \in Seq(Waiters) /\ posts[a] # <<>>
    BY Zenon DEF Post, IInv, Types, Posted
  <2>2. r \in Waiters /\ Listed(posts[a], r)
    BY <2>1, TailListed, Zenon
  <2> QED
    BY <2>2, AgentsAssumption, Zenon DEF IInv, Posted
<1>2. /\ Append(ready[m], r) \in Seq(Waiters)
      /\ \A y : Listed(Append(ready[m], r), y) => Listed(ready[m], y) \/ y = r
  <2>1. ready[m] \in Seq(Waiters)
    BY <1>1, Zenon DEF IInv, Types
  <2> QED
    BY <1>1, <2>1, AppendListed
<1>3. /\ ready' \in [Agents -> Seq(Waiters)] /\ wake' \in [Agents -> BOOLEAN]
      /\ \A b \in Agents : ready'[b] = ready[b] \/ (b = m /\ ready'[b] = Append(ready[m], r) /\ wake'[b])
      /\ \A b \in Agents : wake[b] => wake'[b]
  <2>1. CASE reactor[m]
    BY <1>1, <1>2, <2>1, Zenon DEF Post, Accepts, IInv, Types
  <2>2. CASE ~reactor[m]
    BY <2>2, Zenon DEF Post, Accepts, IInv, Types
  <2> QED
    BY <2>1, <2>2, Zenon
<1>4. /\ pc' \in [Agents -> PCs] /\ posts' = posts
      /\ \A b \in Agents : pc'[b] = pc[b] \/ (pc[b] = "post" /\ pc'[b] = "drop-waiter")
  BY DEF Post, IInv, Types, PCs
<1>5. UNCHANGED <<value, bucket, at, want, result, outcome, current, signaled, ilock, target,
                  rec, settled>>
  BY Zenon DEF Post, listVars, syncVars
<1> HIDE DEF r, m
<1>6. ASSUME NEW b \in Agents, NEW x \in Waiters, Listed(posts'[b], x) \/ Listed(ready'[b], x)
      PROVE  x \in Records /\ result[x] = "ok"
  BY <1>1, <1>2, <1>3, <1>4, <1>6, Zenon DEF IInv, Posted
<1>7. \A b \in Agents : pc'[b] = "poll" /\ ready'[b] # <<>> => wake'[b]
  BY <1>3, <1>4 DEF IInv, Loops
<1>8. /\ posts' \in [Agents -> Seq(Waiters)]
      /\ \A b \in Agents : pc'[b] \in {"post", "drop-waiter", "drop-mailbox"} => posts'[b] # <<>>
  BY <1>4 DEF IInv, Types, Posted
<1> QED
  BY <1>3, <1>4, <1>5, <1>6, <1>7, <1>8, QuietKeeps DEF Attentive

\* The notifier drops the waiter it posted: IInv is kept.
LEMMA PostDropWaiterKeeps ==
  ASSUME IInv, NEW a \in Agents, PostDropWaiter(a)
  PROVE  IInv'
<1>1. /\ pc' \in [Agents -> PCs]
      /\ \A b \in Agents : pc'[b] = pc[b] \/ (pc[b] = "drop-waiter" /\ pc'[b] = "drop-mailbox")
  BY Zenon DEF PostDropWaiter, IInv, Types, PCs
<1>2. UNCHANGED <<value, bucket, at, want, result, outcome, current, signaled, ilock, target,
                  rec, settled, posts, ready, wake>>
  BY Zenon DEF PostDropWaiter, listVars, syncVars
<1>3. Types /\ Posted /\ Loops
  BY Zenon DEF IInv
<1> QED
  BY <1>1, <1>2, <1>3, QuietKeeps DEF Types, Posted, Loops, Attentive

\* The notifier drops the mailbox it posted to: IInv is kept.
LEMMA PostDropMailboxKeeps ==
  ASSUME IInv, NEW a \in Agents, PostDropMailbox(a)
  PROVE  IInv'
<1>1. /\ Tail(posts[a]) \in Seq(Waiters)
      /\ \A y : Listed(Tail(posts[a]), y) => Listed(posts[a], y)
      /\ Tail(posts[a]) = <<>> <=> Len(posts[a]) = 1
  <2>1. posts[a] \in Seq(Waiters) /\ posts[a] # <<>>
    BY Zenon DEF PostDropMailbox, IInv, Types, Posted
  <2> QED
    BY <2>1, TailListed, Zenon
<1>2. /\ posts' \in [Agents -> Seq(Waiters)]
      /\ \A b \in Agents : posts'[b] = IF b = a THEN Tail(posts[a]) ELSE posts[b]
  BY <1>1, Zenon DEF PostDropMailbox, IInv, Types
<1>3. /\ pc' \in [Agents -> PCs] /\ pc[a] = "drop-mailbox"
      /\ \A b \in Agents : pc'[b] = IF b # a THEN pc[b] ELSE IF Len(posts[a]) = 1 THEN "run" ELSE "post"
  BY Zenon DEF PostDropMailbox, IInv, Types, PCs
<1>4. UNCHANGED <<value, bucket, at, want, result, outcome, current, signaled, ilock, target,
                  rec, settled, ready, wake>>
  BY Zenon DEF PostDropMailbox, listVars, syncVars
<1>5. \A b \in Agents : pc'[b] \in {"post", "drop-waiter", "drop-mailbox"} => posts'[b] # <<>>
  BY <1>1, <1>2, <1>3, Zenon DEF IInv, Posted
<1>6. ASSUME NEW b \in Agents, NEW x \in Waiters, Listed(posts'[b], x) \/ Listed(ready'[b], x)
      PROVE  x \in Records /\ result[x] = "ok"
  BY <1>1, <1>2, <1>4, <1>6, Zenon DEF IInv, Posted
<1>7. \A b \in Agents : pc'[b] = "poll" /\ ready'[b] # <<>> => wake'[b]
  BY <1>3, <1>4, Zenon DEF IInv, Loops
<1>8. ready' \in [Agents -> Seq(Waiters)] /\ wake' \in [Agents -> BOOLEAN]
  BY <1>4, Zenon DEF IInv, Types
<1> QED
  BY <1>2, <1>3, <1>4, <1>5, <1>6, <1>7, <1>8, QuietKeeps DEF Attentive

\* The loop polls its reactor: IInv is kept.
LEMMA PollKeeps ==
  ASSUME IInv, NEW a \in Agents, Poll(a)
  PROVE  IInv'
<1>1. UNCHANGED <<value, bucket, at, want, result, outcome, current, signaled, ilock, target,
                  rec, settled, posts, ready>>
  BY Zenon DEF Poll, listVars, syncVars
<1>2. pc' \in [Agents -> PCs]
  BY Zenon DEF Poll, IInv, Types, PCs
<1>3. wake' = wake \/ wake' = [wake EXCEPT ![a] = FALSE]
  BY Zenon DEF Poll
<1>4. wake' \in [Agents -> BOOLEAN]
  BY <1>3, Zenon DEF IInv, Types
<1>5. \A b \in Agents : pc'[b] = pc[b] \/ (pc[b] \in {"run", "poll"} /\ pc'[b] \in {"run", "poll"})
  BY Zenon DEF Poll, IInv, Types
<1>6. \A b \in Agents : pc'[b] = "poll" /\ ready'[b] # <<>> => wake'[b]
  BY Zenon DEF Poll, Sleeps, IInv, Types, Loops
<1>7. Types /\ Posted
  BY Zenon DEF IInv
<1>8. \A b \in Agents : pc'[b] \in {"post", "drop-waiter", "drop-mailbox"} => posts'[b] # <<>>
  BY <1>1, <1>5, <1>7, Zenon DEF Posted
<1> QED
  BY <1>1, <1>2, <1>4, <1>5, <1>6, <1>7, <1>8, QuietKeeps, Zenon DEF Types, Posted, Attentive

\* The collector frees the last wrapper: IInv is kept.
LEMMA DropBufferKeeps ==
  ASSUME IInv, NEW a \in Agents, DropBuffer(a)
  PROVE  IInv'
<1>1. UNCHANGED <<value, bucket, at, want, result, pc, outcome, current, signaled, ilock, target,
                  rec, settled, posts, ready, wake>>
  BY Zenon DEF DropBuffer, listVars, syncVars, asyncVars
<1>2. Types /\ Posted /\ Loops
  BY Zenon DEF IInv
<1> QED
  BY <1>1, <1>2, QuietKeeps, Zenon DEF Types, Posted, Loops

\* atomics_async_free stops deliveries: IInv is kept.
LEMMA TearBeginKeeps ==
  ASSUME IInv, NEW a \in Agents, TearBegin(a)
  PROVE  IInv'
<1>1. UNCHANGED <<value, bucket, at, want, result, outcome, current, signaled, ilock, target,
                  rec, settled, posts, wake>>
  BY Zenon DEF TearBegin, listVars, syncVars
<1>2. /\ pc' \in [Agents -> PCs]
      /\ \A b \in Agents : pc'[b] = pc[b] \/ (pc[b] \in {"run", "poll"} /\ pc'[b] = "teardown")
  BY Zenon DEF TearBegin, IInv, Types, PCs
<1>3. /\ ready' \in [Agents -> Seq(Waiters)]
      /\ \A b \in Agents : ready'[b] = <<>> \/ ready'[b] = ready[b]
  BY DEF TearBegin, IInv, Types
<1>4. \A y : ~Listed(<<>>, y)
  BY DEF Listed
<1>5. Types /\ Posted /\ Loops
  BY Zenon DEF IInv
<1> QED
  BY <1>1, <1>2, <1>3, <1>4, <1>5, QuietKeeps, Zenon DEF Types, Posted, Loops, Attentive

\* The owner drops its mailbox: IInv is kept.
LEMMA TearEndKeeps ==
  ASSUME IInv, NEW a \in Agents, TearEnd(a)
  PROVE  IInv'
<1>1. UNCHANGED <<value, bucket, at, want, result, outcome, current, signaled, ilock, target,
                  rec, settled, posts, ready, wake>>
  BY Zenon DEF TearEnd, listVars, syncVars
<1>2. /\ pc' \in [Agents -> PCs]
      /\ \A b \in Agents : pc'[b] = pc[b] \/ (pc[b] = "teardown" /\ pc'[b] = "gone")
  BY Zenon DEF TearEnd, IInv, Types, PCs
<1>3. Types /\ Posted /\ Loops
  BY Zenon DEF IInv
<1> QED
  BY <1>1, <1>2, <1>3, QuietKeeps, Zenon DEF Types, Posted, Loops, Attentive

-----------------------------------------------------------------------------
(* Steps that free a record. *)

\* atomics_async_drain settles one record: IInv is kept.
LEMMA DrainKeeps ==
  ASSUME IInv, NEW a \in Agents, Drain(a)
  PROVE  IInv'
<1> DEFINE r == Head(ready[a])
<1>1. /\ r \in Records /\ result[r] = "ok"
      /\ Tail(ready[a]) \in Seq(Waiters)
      /\ \A y : Listed(Tail(ready[a]), y) => Listed(ready[a], y)
  <2>1. ready[a] \in Seq(Waiters) /\ ready[a] # <<>>
    BY Zenon DEF Drain, IInv, Types
  <2>2. /\ r \in Waiters /\ Listed(ready[a], r) /\ Tail(ready[a]) \in Seq(Waiters)
        /\ \A y : Listed(Tail(ready[a]), y) => Listed(ready[a], y)
    BY <2>1, TailListed, Zenon
  <2> QED
    BY <2>2, Zenon DEF IInv, Posted
<1>2. /\ rec' = [rec EXCEPT ![r] = "freed"] /\ settled' = [settled EXCEPT ![r] = result[r]]
      /\ Forget({r}) /\ ready[a] # <<>> /\ ready' = [ready EXCEPT ![a] = Tail(ready[a])]
      /\ UNCHANGED <<value, bucket, result, pc, outcome, current, signaled, ilock, target, wake, posts>>
  BY Zenon DEF Drain, Settle, syncVars
<1> HIDE DEF r
<1>3. ~Listed(bucket, r)
  BY <1>1, Zenon DEF IInv, Async
<1>4. /\ ready' \in [Agents -> Seq(Waiters)]
      /\ \A b \in Agents : ready'[b] = IF b = a THEN Tail(ready[a]) ELSE ready[b]
  BY <1>1, <1>2, Zenon DEF IInv, Types
<1>5. /\ settled' \in [Records -> Results] /\ settled'[r] = result[r]
      /\ \A q \in Records \ {r} : settled'[q] = settled[q]
  BY <1>1, <1>2, Zenon DEF IInv, Types, Results
<1>6. bucket' \in Seq(Waiters) /\ Distinct(bucket') /\ result' \in [Waiters -> Results] /\ pc' \in [Agents -> PCs]
  BY <1>2, Zenon DEF IInv, Types
<1> QED
  BY <1>1, <1>2, <1>3, <1>4, <1>5, <1>6, FreeKeeps, Zenon

\* atomics_async_settle after mal_shared_async_waiter_cancel.
LEMMA CancelKeeps ==
  ASSUME IInv, NEW r \in Records, NEW c \in Results, NEW d \in Results,
         Cancel(r, c), Settle(r, d),
         d = "timed-out" => Listed(bucket, r) /\ c = "timed-out", d # "ok",
         pc' \in [Agents -> PCs],
         \A b \in Agents : pc'[b] = pc[b] \/ (pc[b] \in {"run", "poll"} /\ pc'[b] = "run"),
         UNCHANGED <<value, outcome, current, signaled, ilock, target, ready, wake, posts>>
  PROVE  IInv'
<1>1. r \in Waiters /\ bucket \in Seq(Waiters) /\ Distinct(bucket) /\ ready \in [Agents -> Seq(Waiters)]
  BY Zenon DEF Waiters, IInv, Types
<1>2. /\ bucket' \in Seq(Waiters) /\ Distinct(bucket')
      /\ \A y : Listed(bucket', y) <=> Listed(bucket, y) /\ y # r
  <2> DEFINE t == Without(bucket, r)
  <2>1. /\ t \in Seq(Waiters) /\ Distinct(t)
        /\ \A y : Listed(t, y) <=> Listed(bucket, y) /\ y # r
    BY <1>1, WithoutCells, Zenon
  <2>2. bucket' = t
    BY Zenon DEF Cancel
  <2> HIDE DEF t
  <2> QED
    BY <2>1, <2>2, Zenon
<1>3. /\ result' \in [Waiters -> Results]
      /\ \A w \in Waiters \ {r} : result'[w] = result[w]
      /\ result'[r] = IF Listed(bucket, r) THEN c ELSE result[r]
  BY <1>1, Zenon DEF Cancel, IInv, Types
<1>4. Listed(bucket, r) => result[r] = "timed-out"
  BY Zenon DEF IInv, Async
<1>5. /\ Forget({r}) /\ rec' = [rec EXCEPT ![r] = "freed"]
      /\ settled' \in [Records -> Results] /\ settled'[r] = d
      /\ \A q \in Records \ {r} : settled'[q] = settled[q]
  BY Zenon DEF Settle, IInv, Types
<1> QED
  BY <1>1, <1>2, <1>3, <1>4, <1>5, FreeKeeps, Zenon

\* atomics_async_timeout: IInv is kept.
LEMMA TimeoutKeeps ==
  ASSUME IInv, NEW r \in Records, Timeout(r)
  PROVE  IInv'
<1>1. /\ Owner[r] \in Agents /\ pc[Owner[r]] \in {"run", "poll"}
      /\ pc' = [pc EXCEPT ![Owner[r]] = "run"]
      /\ UNCHANGED <<value, outcome, current, signaled, ilock, target, ready, wake, posts>>
  BY AgentsAssumption, Zenon DEF Timeout, syncVars
<1>2. /\ pc' \in [Agents -> PCs]
      /\ \A b \in Agents : pc'[b] = pc[b] \/ (pc[b] \in {"run", "poll"} /\ pc'[b] = "run")
  BY <1>1, Zenon DEF IInv, Types, PCs
<1>3. CASE Listed(bucket, r)
  <2>1. Cancel(r, "timed-out") /\ Settle(r, "timed-out") /\ "timed-out" \in Results
    BY <1>3, Zenon DEF Timeout, TimedOut, Results
  <2> QED
    BY <1>1, <1>2, <1>3, <2>1, CancelKeeps, Zenon
<1>4. CASE ~Listed(bucket, r)
  <2>1. UNCHANGED <<bucket, result, rec, settled, at, want>>
    BY <1>4, Zenon DEF Timeout, TimedOut
  <2>2. Types /\ Posted /\ Loops
    BY Zenon DEF IInv
  <2> QED
    BY <1>1, <1>2, <2>1, <2>2, QuietKeeps DEF Types, Posted, Loops, Attentive
<1> QED
  BY <1>3, <1>4, Zenon

\* atomics_async_free handles one pending record: IInv is kept.
LEMMA TearRecordKeeps ==
  ASSUME IInv, NEW r \in Records, TearRecord(r)
  PROVE  IInv'
<1>1. /\ Cancel(r, "interrupted") /\ Settle(r, "none")
      /\ "interrupted" \in Results /\ "none" \in Results
      /\ UNCHANGED <<value, pc, outcome, current, signaled, ilock, target, ready, wake, posts>>
  BY Zenon DEF TearRecord, syncVars, Results
<1>2. pc' \in [Agents -> PCs] /\ \A b \in Agents : pc'[b] = pc[b]
  BY <1>1, Zenon DEF IInv, Types
<1> QED
  BY <1>1, <1>2, CancelKeeps, Zenon

\* One round of the wait loop, on the list with its waiter.
LEMMA RoundKeeps ==
  ASSUME IInv, NEW a \in Agents, NEW list \in Seq(Waiters), Distinct(list),
         \A y : y # a => (Listed(list, y) <=> Listed(bucket, y)),
         Listed(list, a) => result[a] = "timed-out",
         ~Listed(list, a) => result[a] = "ok",
         value[at[a]] # want[a] => Listed(bucket, a) \/ ~Listed(list, a),
         pc[a] \in {"wait", "woken"}, Round(a, list),
         UNCHANGED <<value, at, want, result, current, signaled, ilock, target, rec, settled,
                     ready, posts, wake>>
  PROVE  IInv'
<1> DEFINE v == Verdict(a, list)
<1>1. /\ v \in Results
      /\ v = "none" => Listed(list, a) /\ ~signaled[a]
      /\ v = "ok" <=> result[a] = "ok"
  BY Zenon DEF Verdict, Results
<1>2. /\ pc' = [pc EXCEPT ![a] = IF v = "none" THEN "blocked" ELSE "leaving"]
      /\ outcome' = [outcome EXCEPT ![a] = v]
      /\ bucket' = IF v = "none" THEN list ELSE Without(list, a)
  BY Zenon DEF Round, GiveUp
<1> HIDE DEF v
<1>3. /\ bucket' \in Seq(Waiters) /\ Distinct(bucket')
      /\ \A y : Listed(bucket', y) <=> Listed(list, y) /\ (y # a \/ v = "none")
  <2>1. CASE v = "none"
    BY <1>2, <2>1, Zenon
  <2>2. CASE v # "none"
    <3>1. /\ Without(list, a) \in Seq(Waiters) /\ Distinct(Without(list, a))
          /\ \A y : Listed(Without(list, a), y) <=> Listed(list, y) /\ y # a
      BY WithoutCells, Zenon
    <3> QED
      BY <1>2, <2>2, <3>1, Zenon
  <2> QED
    BY <2>1, <2>2, Zenon
<1>4. /\ pc'[a] = IF v = "none" THEN "blocked" ELSE "leaving"
      /\ outcome'[a] = v
      /\ \A b \in Agents \ {a} : pc'[b] = pc[b] /\ outcome'[b] = outcome[b]
  BY <1>2, Zenon DEF IInv, Types
<1>5. Types'
  BY <1>1, <1>2, <1>3, Zenon DEF IInv, Types, PCs
<1>6. Sync'
  BY <1>1, <1>3, <1>4 DEF IInv, Sync
<1>7. Async'
  BY <1>3, AgentsAssumption, Zenon DEF IInv, Async
<1>8. Posted'
  BY <1>4, Zenon DEF IInv, Posted
<1>9. Stored'
  <2>1. ASSUME NEW w \in Waiters, Listed(bucket', w), value[at[w]] # want[w]
        PROVE  \E b \in Agents : pc'[b] = "notify" /\ at[b] = at[w]
    <3>1. Listed(bucket, w)
      BY <1>3, <2>1
    <3>2. PICK b \in Agents : pc[b] = "notify" /\ at[b] = at[w]
      BY <2>1, <3>1, Zenon DEF IInv, Stored
    <3> QED
      BY <1>4, <3>2, Zenon
  <2> QED
    BY <2>1, Zenon DEF Stored
<1>10. Interrupts'
  <2>1. ASSUME NEW b \in Agents
        PROVE  /\ pc'[b] \in {"wait", "blocked", "woken", "leaving"} <=>
                    pc[b] \in {"wait", "blocked", "woken", "leaving"}
               /\ pc'[b] = "broadcast" <=> pc[b] = "broadcast"
               /\ pc'[b] = "blocked" => pc[b] = "blocked" \/ ~signaled[b]
    BY <1>1, <1>4, Zenon
  <2> QED
    BY <2>1, InterruptsStay, Zenon DEF IInv
<1>11. Loops'
  BY <1>4, Zenon DEF IInv, Loops
<1> QED
  BY <1>5, <1>6, <1>7, <1>8, <1>9, <1>10, <1>11 DEF IInv

\* The critical section up to the first sleep: IInv is kept.
LEMMA WaitEnterKeeps ==
  ASSUME IInv, NEW a \in Agents, WaitEnter(a)
  PROVE  IInv'
<1>1. /\ pc[a] = "wait" /\ a \in Waiters /\ result[a] = "timed-out" /\ ~Listed(bucket, a)
      /\ UNCHANGED <<value, at, want, result, current, signaled, ilock, target, rec, settled,
                     ready, posts, wake>>
  BY Zenon DEF WaitEnter, asyncVars, IInv, Sync, Waiters
<1>2. CASE Matches(a) /\ Round(a, Append(bucket, a))
  <2> DEFINE list == Append(bucket, a)
  <2>1. /\ list \in Seq(Waiters) /\ Distinct(list)
        /\ \A y : Listed(list, y) <=> Listed(bucket, y) \/ y = a
    BY <1>1, AppendCells, Zenon DEF IInv, Types
  <2>2. Round(a, list) /\ value[at[a]] = want[a]
    BY <1>2, Zenon DEF Matches
  <2> HIDE DEF list
  <2> QED
    BY <1>1, <2>1, <2>2, RoundKeeps, Zenon
<1>3. CASE /\ outcome' = [outcome EXCEPT ![a] = "not-equal"]
           /\ pc' = [pc EXCEPT ![a] = "leaving"]
           /\ bucket' = bucket
  <2>1. /\ outcome' \in [Agents -> Results] /\ outcome'[a] = "not-equal"
        /\ pc' \in [Agents -> PCs] /\ pc'[a] = "leaving"
        /\ \A b \in Agents \ {a} : pc'[b] = pc[b] /\ outcome'[b] = outcome[b]
    BY <1>3 DEF IInv, Types, PCs, Results
  <2>2. Types /\ (current[a] <=> a \in Interruptible)
    BY <1>1, Zenon DEF IInv, Interrupts, Waiting
  <2> QED
    BY <1>1, <1>3, <2>1, <2>2, TurnKeeps, Zenon DEF Types
<1> QED
  BY <1>2, <1>3, Zenon DEF WaitEnter

\* The condition variable returns: IInv is kept.
LEMMA WaitResumeKeeps ==
  ASSUME IInv, NEW a \in Agents, WaitResume(a)
  PROVE  IInv'
<1>1. /\ pc[a] = "woken" /\ Round(a, bucket)
      /\ UNCHANGED <<value, at, want, result, current, signaled, ilock, target, rec, settled,
                     ready, posts, wake>>
  BY Zenon DEF WaitResume, asyncVars
<1>2. /\ Listed(bucket, a) => result[a] = "timed-out"
      /\ ~Listed(bucket, a) => result[a] = "ok"
  BY <1>1, Zenon DEF IInv, Sync
<1>3. bucket \in Seq(Waiters) /\ Distinct(bucket)
  BY Zenon DEF IInv, Types
<1> QED
  BY <1>1, <1>2, <1>3, RoundKeeps, Zenon

\* mal_shared_memory_wait_async: IInv is kept.
LEMMA AsyncEnqueueKeeps ==
  ASSUME IInv, NEW r \in Records, AsyncEnqueue(r)
  PROVE  IInv'
<1>h. /\ Owner[r] \in Agents /\ r \in Waiters /\ r \notin Agents
      /\ pc[Owner[r]] = "enqueue" /\ rec[r] = "linking" /\ result[r] = "none" /\ ~Listed(bucket, r)
      /\ pc' = [pc EXCEPT ![Owner[r]] = "run"]
      /\ UNCHANGED <<value, outcome, current, signaled, ilock, target, ready, wake, posts>>
  BY AgentsAssumption, Zenon DEF AsyncEnqueue, Waiters, IInv, Async, syncVars
<1>p. /\ pc' \in [Agents -> PCs]
      /\ \A b \in Agents : pc'[b] = IF b = Owner[r] THEN "run" ELSE pc[b]
  BY <1>h, Zenon DEF IInv, Types, PCs
<1>q. \A b \in Agents : ~Listed(posts[b], r) /\ ~Listed(ready[b], r)
  BY <1>h, Zenon DEF IInv, Posted
<1>6. Interrupts'
  <2>1. ASSUME NEW b \in Agents
        PROVE  /\ pc'[b] \in {"wait", "blocked", "woken", "leaving"} <=>
                    pc[b] \in {"wait", "blocked", "woken", "leaving"}
               /\ pc'[b] = "broadcast" <=> pc[b] = "broadcast"
               /\ pc'[b] = "blocked" => pc[b] = "blocked"
    BY <1>h, <1>p, Zenon
  <2> QED
    BY <1>h, <2>1, InterruptsStay, Zenon DEF IInv
<1>7. Loops'
  BY <1>h, <1>p, Zenon DEF IInv, Loops
<1>8. CASE /\ Matches(r) /\ bucket' = Append(bucket, r)
           /\ result' = [result EXCEPT ![r] = "timed-out"]
           /\ rec' = [rec EXCEPT ![r] = "linked"]
           /\ UNCHANGED <<at, want, settled>>
  <2>1. /\ bucket' \in Seq(Waiters) /\ Distinct(bucket')
        /\ \A y : Listed(bucket', y) <=> Listed(bucket, y) \/ y = r
    <3> DEFINE t == Append(bucket, r)
    <3>1. bucket \in Seq(Waiters) /\ Distinct(bucket)
      BY Zenon DEF IInv, Types
    <3>2. /\ t \in Seq(Waiters) /\ Distinct(t)
          /\ \A y : Listed(t, y) <=> Listed(bucket, y) \/ y = r
      BY <1>h, <3>1, AppendCells, Zenon
    <3>3. bucket' = t
      BY <1>8, Zenon
    <3> HIDE DEF t
    <3> QED
      BY <3>2, <3>3, Zenon
  <2>2. /\ result' \in [Waiters -> Results] /\ result'[r] = "timed-out"
        /\ \A w \in Waiters \ {r} : result'[w] = result[w]
        /\ rec' \in [Records -> {"unused", "linking", "linked", "freed"}] /\ rec'[r] = "linked"
        /\ \A q \in Records \ {r} : rec'[q] = rec[q]
    BY <1>h, <1>8 DEF IInv, Types, Results
  <2>3. Types'
    BY <1>h, <1>p, <1>8, <2>1, <2>2, Zenon DEF IInv, Types
  <2>4. Sync'
    <3>1. \A b \in Agents : b # r /\ b \in Waiters
      BY <1>h, Zenon DEF Waiters
    <3> QED
      BY <1>h, <1>p, <2>1, <2>2, <3>1 DEF IInv, Sync
  <2>5. Async'
    <3>1. \A q \in Records : q \in Waiters
      BY Zenon DEF Waiters
    <3> QED
      BY <1>h, <1>8, <2>1, <2>2, <3>1 DEF IInv, Async
  <2>6. Posted'
    <3>1. ASSUME NEW b \in Agents, NEW x \in Waiters, Listed(posts'[b], x) \/ Listed(ready'[b], x)
          PROVE  x \in Records /\ result'[x] = "ok"
      <4>1. Listed(posts[b], x) \/ Listed(ready[b], x)
        BY <1>h, <3>1, Zenon
      <4>2. x # r
        BY <1>q, <4>1, Zenon
      <4> QED
        BY <2>2, <4>1, <4>2, Zenon DEF IInv, Posted
    <3>2. ASSUME NEW b \in Agents, pc'[b] \in {"post", "drop-waiter", "drop-mailbox"}
          PROVE  posts'[b] # <<>>
      BY <1>h, <1>p, <3>2, Zenon DEF IInv, Posted
    <3> QED
      BY <3>1, <3>2, Zenon DEF Posted
  <2>7. Stored'
    <3>1. ASSUME NEW w \in Waiters, Listed(bucket', w), value'[at'[w]] # want'[w]
          PROVE  \E b \in Agents : pc'[b] = "notify" /\ at'[b] = at'[w]
      <4>1. value[at[w]] # want[w] /\ at' = at
        BY <1>h, <1>8, <3>1, Zenon
      <4>2. Listed(bucket, w)
        BY <1>8, <2>1, <3>1, <4>1, Zenon DEF Matches
      <4>3. PICK b \in Agents : pc[b] = "notify" /\ at[b] = at[w]
        BY <4>1, <4>2, Zenon DEF IInv, Stored
      <4> QED
        BY <1>h, <1>p, <4>1, <4>3, Zenon
    <3> QED
      BY <3>1, Zenon DEF Stored
  <2> QED
    BY <1>6, <1>7, <2>3, <2>4, <2>5, <2>6, <2>7, Zenon DEF IInv
<1>9. CASE /\ settled'[r] \in {"not-equal", "interrupted"}
           /\ settled' \in [Records -> Results]
           /\ \A q \in Records \ {r} : settled'[q] = settled[q]
           /\ rec' = [rec EXCEPT ![r] = "freed"]
           /\ Forget({r}) /\ UNCHANGED <<bucket, result>>
  <2>1. /\ bucket \in Seq(Waiters) /\ Distinct(bucket) /\ result \in [Waiters -> Results]
        /\ ready \in [Agents -> Seq(Waiters)]
    BY Zenon DEF IInv, Types
  <2>2. \A b \in Agents : pc'[b] = pc[b] \/ (pc[b] \in {"run", "poll", "enqueue"} /\ pc'[b] = "run")
    BY <1>h, <1>p, Zenon
  <2> QED
    BY <1>h, <1>p, <1>9, <2>1, <2>2, FreeKeeps, Zenon
<1>10. \/ /\ Matches(r) /\ bucket' = Append(bucket, r)
          /\ result' = [result EXCEPT ![r] = "timed-out"]
          /\ rec' = [rec EXCEPT ![r] = "linked"]
          /\ UNCHANGED <<at, want, settled>>
       \/ /\ settled'[r] \in {"not-equal", "interrupted"}
          /\ settled' \in [Records -> Results]
          /\ \A q \in Records \ {r} : settled'[q] = settled[q]
          /\ rec' = [rec EXCEPT ![r] = "freed"]
          /\ Forget({r}) /\ UNCHANGED <<bucket, result>>
  <2>1. CASE /\ Matches(r) /\ bucket' = Append(bucket, r)
             /\ result' = [result EXCEPT ![r] = "timed-out"]
             /\ rec' = [rec EXCEPT ![r] = "linked"]
             /\ UNCHANGED <<at, want, settled>>
    BY <2>1, Zenon
  <2>2. ASSUME NEW d \in {"not-equal", "interrupted"}, settled' = [settled EXCEPT ![r] = d]
        PROVE  /\ settled'[r] \in {"not-equal", "interrupted"}
               /\ settled' \in [Records -> Results]
               /\ \A q \in Records \ {r} : settled'[q] = settled[q]
    BY <2>2, Zenon DEF IInv, Types, Results
  <2>3. CASE /\ \E d \in {"not-equal", "interrupted"} : settled' = [settled EXCEPT ![r] = d]
             /\ rec' = [rec EXCEPT ![r] = "freed"]
             /\ Forget({r}) /\ UNCHANGED <<bucket, result>>
    BY <2>2, <2>3, Zenon
  <2> QED
    BY <2>1, <2>3, Zenon DEF AsyncEnqueue
<1> QED
  BY <1>8, <1>9, <1>10, Zenon

-----------------------------------------------------------------------------
(* Notification. *)

\* The waiters a notify takes out of the list.
WokenSet(o, last) == {bucket[i] : i \in WokenIndices(o, last)}

\* The list after a notify has the waiters that were not woken; the woken records are to be posted.
LEMMA WakeCells ==
  ASSUME Types, NEW a \in Agents, NEW o, NEW last \in 0..Len(bucket), Wake(a, o, last)
  PROVE  LET W == WokenSet(o, last) IN
         /\ \A y : y \in W => y \in Waiters /\ Listed(bucket, y) /\ at[y] = o
         /\ bucket' \in Seq(Waiters) /\ Distinct(bucket')
         /\ \A y : Listed(bucket', y) <=> Listed(bucket, y) /\ y \notin W
         /\ posts' \in [Agents -> Seq(Waiters)]
         /\ \A b \in Agents \ {a} : posts'[b] = posts[b]
         /\ Distinct(posts'[a])
         /\ \A y : Listed(posts'[a], y) <=> y \in W /\ y \in Records
         /\ W \cap Records # {} => posts'[a] # <<>>
         /\ result' = [w \in Waiters |-> IF w \in W THEN "ok" ELSE result[w]]
         /\ pc' = [b \in Agents |->
                     IF b = a THEN IF W \cap Records = {} THEN "run" ELSE "post"
                     ELSE IF b \in W /\ pc[b] = "blocked" THEN "woken" ELSE pc[b]]
<1> DEFINE J == WokenIndices(o, last)
           W == WokenSet(o, last)
           I == (1..Len(bucket)) \ J
           K == {i \in J : bucket[i] \in Records}
<1>1. /\ J \in SUBSET (1..Len(bucket)) /\ W = {bucket[i] : i \in J}
      /\ \A i \in J : at[bucket[i]] = o
  <2>1. Len(bucket) \in Nat
    BY DEF Types
  <2> QED
    BY <2>1 DEF WokenIndices, WokenSet
<1>2. PICK kept \in Ascending(I, Len(bucket)) : bucket' = Pick(bucket, kept)
  BY Zenon DEF Wake
<1>3. PICK chain \in Ascending(K, Len(bucket)) : posts' = [posts EXCEPT ![a] = Pick(bucket, chain)]
  BY Zenon DEF Wake
<1>4. /\ result' = [w \in Waiters |-> IF w \in W THEN "ok" ELSE result[w]]
      /\ pc' = [b \in Agents |->
                  IF b = a THEN IF W \cap Records = {} THEN "run" ELSE "post"
                  ELSE IF b \in W /\ pc[b] = "blocked" THEN "woken" ELSE pc[b]]
  BY Zenon DEF Wake, WokenSet
<1> HIDE DEF J, W
<1>5. bucket \in Seq(Waiters) /\ Distinct(bucket) /\ posts \in [Agents -> Seq(Waiters)]
  BY Zenon DEF Types
<1>6. I \in SUBSET (1..Len(bucket)) /\ K \in SUBSET (1..Len(bucket))
  BY <1>1, Zenon
<1>7. /\ bucket' \in Seq(Waiters) /\ Distinct(bucket')
      /\ \A y : Listed(bucket', y) <=> \E i \in I : bucket[i] = y
  <2> HIDE DEF I
  <2> DEFINE t == Pick(bucket, kept)
  <2>1. /\ t \in Seq(Waiters) /\ Distinct(t)
        /\ \A y : Listed(t, y) <=> \E i \in I : bucket[i] = y
    BY <1>2, <1>5, <1>6, PickCells
  <2>2. bucket' = t
    BY <1>2, Zenon
  <2> HIDE DEF t
  <2> QED
    BY <2>1, <2>2, Zenon
<1>8. /\ Pick(bucket, chain) \in Seq(Waiters) /\ Distinct(Pick(bucket, chain))
      /\ \A y : Listed(Pick(bucket, chain), y) <=> \E i \in K : bucket[i] = y
  <2>1. chain \in Ascending(K, Len(bucket))
    BY <1>3, Zenon
  <2> HIDE DEF K
  <2> QED
    BY <1>5, <1>6, <2>1, PickCells
<1>9. posts' \in [Agents -> Seq(Waiters)] /\ posts'[a] = Pick(bucket, chain)
      /\ \A b \in Agents \ {a} : posts'[b] = posts[b]
  BY <1>3, <1>5, <1>8, Zenon
<1>10. ASSUME NEW y PROVE Listed(bucket', y) <=> Listed(bucket, y) /\ y \notin W
  <2>1. Listed(bucket', y) <=> \E i \in I : bucket[i] = y
    BY <1>7, Zenon
  <2>2. ASSUME NEW i \in I, bucket[i] = y PROVE Listed(bucket, y) /\ y \notin W
    BY <1>1, <2>2 DEF Listed, Distinct, Types
  <2>3. ASSUME Listed(bucket, y), y \notin W PROVE \E i \in I : bucket[i] = y
    BY <1>1, <2>3, Zenon DEF Listed
  <2> QED
    BY <2>1, <2>2, <2>3, Zenon
<1>11. ASSUME NEW y PROVE Listed(posts'[a], y) <=> y \in W /\ y \in Records
  BY <1>1, <1>8, <1>9, Zenon
<1>12. ASSUME NEW y, y \in W PROVE y \in Waiters /\ Listed(bucket, y) /\ at[y] = o
  BY <1>1, <1>5, <1>12 DEF Listed
<1>13. W \cap Records # {} => posts'[a] # <<>>
  <2>1. ASSUME NEW y, y \in W \cap Records PROVE posts'[a] # <<>>
    BY <1>8, <1>9, <1>11, <2>1, EmptyCells, Zenon
  <2> QED
    BY <2>1, Zenon
<1>14. Distinct(posts'[a])
  BY <1>8, <1>9, Zenon
<1> QED
  BY <1>4, <1>7, <1>9, <1>10, <1>11, <1>12, <1>13, <1>14, Zenon DEF W

\* A notify that may wake the whole list wakes everyone at its offset.
LEMMA WakesAll ==
  ASSUME NEW o, NEW w, Listed(bucket, w), at[w] = o
  PROVE  w \in WokenSet(o, Len(bucket))
  BY Zenon DEF Listed, WokenSet, WokenIndices

\* mal_shared_memory_notify: IInv is kept.
LEMMA NotifyKeeps ==
  ASSUME IInv, NEW a \in Agents, Notify(a)
  PROVE  IInv'
<1>1. PICK o \in Offsets, last \in 0..Len(bucket) :
        /\ Wake(a, o, last)
        /\ \/ pc[a] = "notify" /\ o = at[a] /\ last = Len(bucket) /\ Forget({a})
           \/ pc[a] = "run" /\ UNCHANGED <<at, want>>
  <2>1. Len(bucket) \in 0..Len(bucket) /\ at[a] \in Offsets
    BY DEF IInv, Types, Waiters
  <2> QED
    BY <2>1, Zenon DEF Notify
<1>2. /\ UNCHANGED <<value, outcome, current, signaled, ilock, target, rec, settled, ready, wake>>
      /\ pc[a] \in {"notify", "run"}
  BY <1>1, Zenon DEF Notify, syncVars
<1> DEFINE W == WokenSet(o, last)
<1>3. /\ \A y : y \in W => y \in Waiters /\ Listed(bucket, y) /\ at[y] = o
      /\ bucket' \in Seq(Waiters) /\ Distinct(bucket')
      /\ \A y : Listed(bucket', y) <=> Listed(bucket, y) /\ y \notin W
      /\ posts' \in [Agents -> Seq(Waiters)]
      /\ \A b \in Agents \ {a} : posts'[b] = posts[b]
      /\ \A y : Listed(posts'[a], y) <=> y \in W /\ y \in Records
      /\ W \cap Records # {} => posts'[a] # <<>>
  BY <1>1, WakeCells, Zenon DEF IInv
<1>4. /\ result' = [w \in Waiters |-> IF w \in W THEN "ok" ELSE result[w]]
      /\ pc' = [b \in Agents |->
                  IF b = a THEN IF W \cap Records = {} THEN "run" ELSE "post"
                  ELSE IF b \in W /\ pc[b] = "blocked" THEN "woken" ELSE pc[b]]
  BY <1>1, WakeCells DEF IInv
<1> HIDE DEF W
<1>5. /\ at' \in [Waiters -> Offsets] /\ want' \in [Waiters -> Values]
      /\ \A w \in Waiters \ {a} : at'[w] = at[w] /\ want'[w] = want[w]
  BY <1>1, Defaults, Zenon DEF Forget, IInv, Types
<1>6. ~Listed(bucket, a)
  BY <1>2 DEF IInv, Sync
<1>7. Types'
  BY <1>2, <1>3, <1>4, <1>5 DEF IInv, Types, PCs, Results
<1>8. Sync'
  <2>1. ASSUME NEW b \in Agents
        PROVE  /\ Listed(bucket', b) => pc'[b] \in {"blocked", "woken"} /\ result'[b] = "timed-out"
               /\ pc'[b] = "blocked" => Listed(bucket', b)
               /\ pc'[b] = "woken" /\ ~Listed(bucket', b) => result'[b] = "ok"
               /\ pc'[b] = "wait" => result'[b] = "timed-out"
               /\ pc'[b] = "leaving" => (outcome'[b] = "ok" <=> result'[b] = "ok")
    <3>1. b \in Waiters
      BY Zenon DEF Waiters
    <3> QED
      BY <1>2, <1>3, <1>4, <1>6, <3>1 DEF IInv, Sync
  <2> QED
    BY <2>1 DEF Sync
<1>9. Async'
  <2>1. \A r \in Records : r \in Waiters
    BY DEF Waiters
  <2> QED
    BY <1>2, <1>3, <1>4, <2>1 DEF IInv, Async
<1>10. Posted'
  <2>1. ASSUME NEW b \in Agents, pc'[b] \in {"post", "drop-waiter", "drop-mailbox"}
        PROVE  posts'[b] # <<>>
    BY <1>3, <1>4, <2>1, Zenon DEF IInv, Posted
  <2>2. ASSUME NEW b \in Agents, NEW x \in Waiters, Listed(posts'[b], x) \/ Listed(ready'[b], x)
        PROVE  x \in Records /\ result'[x] = "ok"
    BY <1>2, <1>3, <1>4, <2>2 DEF IInv, Posted
  <2> QED
    BY <2>1, <2>2, Zenon DEF Posted
<1>11. Stored'
  <2>1. ASSUME NEW w \in Waiters, Listed(bucket', w), value'[at'[w]] # want'[w]
        PROVE  \E b \in Agents : pc'[b] = "notify" /\ at'[b] = at'[w]
    <3>1. Listed(bucket, w) /\ w \notin W /\ w # a
      BY <1>3, <1>6, <2>1
    <3>2. value[at[w]] # want[w] /\ at'[w] = at[w]
      BY <1>2, <1>5, <2>1, <3>1
    <3>3. PICK b \in Agents : pc[b] = "notify" /\ at[b] = at[w]
      BY <3>1, <3>2 DEF IInv, Stored
    <3>4. b # a
      <4>1. CASE pc[a] = "run"
        BY <3>3, <4>1
      <4>2. CASE o = at[a] /\ last = Len(bucket)
        <5>1. at[w] # o
          BY <3>1, <4>2, WakesAll, Zenon DEF W
        <5> QED
          BY <3>3, <4>2, <5>1
      <4> QED
        BY <1>1, <4>1, <4>2
    <3>5. pc'[b] = "notify" /\ at'[b] = at[b]
      BY <1>4, <1>5, <3>3, <3>4 DEF Waiters
    <3> QED
      BY <3>2, <3>3, <3>5
  <2> QED
    BY <2>1 DEF Stored
<1>12. Interrupts'
  <2>1. ASSUME NEW b \in Agents
        PROVE  /\ pc'[b] \in {"wait", "blocked", "woken", "leaving"} <=>
                    pc[b] \in {"wait", "blocked", "woken", "leaving"}
               /\ pc'[b] = "broadcast" <=> pc[b] = "broadcast"
               /\ pc'[b] = "blocked" => pc[b] = "blocked"
    BY <1>2, <1>4
  <2> QED
    BY <1>2, <2>1, InterruptsStay DEF IInv
<1>13. Loops'
  BY <1>2, <1>4 DEF IInv, Loops
<1> QED
  BY <1>7, <1>8, <1>9, <1>10, <1>11, <1>12, <1>13 DEF IInv

-----------------------------------------------------------------------------
(* The invariant, and what it says. *)

\* The initial state satisfies the invariant.
LEMMA InitEstablishes == Init => IInv
<1> SUFFICES ASSUME Init PROVE IInv
  BY Zenon
<1> USE DEF Init
<1>1. \A y : ~Listed(<<>>, y)
  BY DEF Listed
<1>2. Types
  <2>1. bucket \in Seq(Waiters) /\ Distinct(bucket)
    BY DEF Distinct
  <2>2. value \in [Offsets -> Values] /\ at \in [Waiters -> Offsets] /\ want \in [Waiters -> Values]
    BY Defaults, Zenon
  <2>3. /\ result \in [Waiters -> Results] /\ outcome \in [Agents -> Results]
        /\ settled \in [Records -> Results] /\ pc \in [Agents -> PCs]
        /\ rec \in [Records -> {"unused", "linking", "linked", "freed"}]
    BY Zenon DEF Results, PCs
  <2>4. /\ current \in [Agents -> BOOLEAN] /\ signaled \in [Agents -> BOOLEAN]
        /\ wake \in [Agents -> BOOLEAN]
        /\ ilock \in [Agents -> Agents \cup {Free}] /\ target \in [Agents -> Agents \cup {Free}]
    BY Zenon
  <2>5. ready \in [Agents -> Seq(Waiters)] /\ posts \in [Agents -> Seq(Waiters)]
    OBVIOUS
  <2> QED
    BY <2>1, <2>2, <2>3, <2>4, <2>5 DEF Types
<1>3. Sync /\ Async /\ Posted /\ Stored
  BY <1>1, Zenon DEF Sync, Async, Posted, Stored, Waiters
<1>4. Interrupts /\ Loops
  BY Zenon DEF Interrupts, Loops, Waiting
<1> QED
  BY <1>2, <1>3, <1>4 DEF IInv

\* Every step keeps the invariant.
LEMMA NextKeeps == IInv /\ [Next]_vars => IInv'
<1> SUFFICES ASSUME IInv, [Next]_vars PROVE IInv'
  BY Zenon
<1>1. ASSUME NEW a \in Agents, AgentStep(a) PROVE IInv'
  BY <1>1, WaitBeginKeeps, WaitEnterKeeps, WaitResumeKeeps, WaitLeaveKeeps, ExpireKeeps,
     BroadcastKeeps, StoreKeeps, NotifyKeeps, PostKeeps, PostDropWaiterKeeps,
     PostDropMailboxKeeps, DrainKeeps, PollKeeps, DropBufferKeeps, TearBeginKeeps, TearEndKeeps
     DEF AgentStep
<1>2. ASSUME NEW a \in Agents, NEW b \in Interruptible, Signal(a, b) PROVE IInv'
  BY <1>2, SignalKeeps
<1>3. ASSUME NEW r \in Records, RecordStep(r) PROVE IInv'
  BY <1>3, AsyncBeginKeeps, AsyncEnqueueKeeps, TimeoutKeeps, TearRecordKeeps DEF RecordStep
<1>4. CASE UNCHANGED vars
  <2>1. UNCHANGED <<value, bucket, at, want, result, pc, outcome, current, signaled, ilock,
                    target, rec, settled, ready, posts, wake>>
    BY <1>4 DEF vars, listVars, syncVars, asyncVars
  <2>2. Types' /\ Sync' /\ Async'
    BY <2>1 DEF IInv, Types, Sync, Async
  <2>3. Posted' /\ Stored' /\ Loops'
    BY <2>1 DEF IInv, Posted, Stored, Loops
  <2>4. Interrupts'
    BY <2>1 DEF IInv, Interrupts, Waiting
  <2> QED
    BY <2>2, <2>3, <2>4 DEF IInv
<1> QED
  BY <1>1, <1>2, <1>3, <1>4 DEF Next, Finished

\* Only a notify says "ok".
LEMMA OnlyNotify ==
  ASSUME IInv, [Next]_vars, NEW w \in Waiters, result[w] # "ok", result'[w] = "ok"
  PROVE  \E a \in Agents : Notify(a)
<1>1. result \in [Waiters -> Results]
  BY Zenon DEF IInv, Types
<1>2. ASSUME NEW x \in Waiters, NEW v \in Results \ {"ok"}, result' = [result EXCEPT ![x] = v]
      PROVE  FALSE
  BY <1>1, <1>2, Zenon
<1>3. ASSUME result' = result PROVE FALSE
  BY <1>3, Zenon
<1>4. ASSUME NEW a \in Agents, AgentStep(a) PROVE Notify(a)
  <2>1. CASE WaitBegin(a) \/ WaitLeave(a)
    BY <1>2, <2>1 DEF WaitBegin, WaitLeave, Waiters, Results
  <2>2. CASE WaitEnter(a) \/ WaitResume(a)
    BY <1>3, <2>2, Zenon DEF WaitEnter, WaitResume
  <2>5. CASE Expire(a) \/ Broadcast(a) \/ Store(a)
    BY <1>3, <2>5, Zenon DEF Expire, Broadcast, Store, listVars
  <2>3. CASE Post(a) \/ PostDropWaiter(a) \/ PostDropMailbox(a) \/ Drain(a) \/ Poll(a)
    BY <1>3, <2>3, Zenon DEF Post, PostDropWaiter, PostDropMailbox, Drain, Poll, listVars
  <2>4. CASE DropBuffer(a) \/ TearBegin(a) \/ TearEnd(a)
    BY <1>3, <2>4 DEF DropBuffer, TearBegin, TearEnd, listVars
  <2> QED
    BY <1>4, <2>1, <2>2, <2>3, <2>4, <2>5, Zenon DEF AgentStep
<1>5. ASSUME NEW a \in Agents, NEW b \in Interruptible, Signal(a, b) PROVE FALSE
  BY <1>3, <1>5, Zenon DEF Signal, listVars
<1>6. ASSUME NEW r \in Records, RecordStep(r) PROVE FALSE
  <2>1. r \in Waiters /\ "timed-out" \in Results \ {"ok"} /\ "interrupted" \in Results \ {"ok"}
    BY Zenon DEF Waiters, Results
  <2>2. CASE AsyncBegin(r)
    BY <1>3, <2>2, Zenon DEF AsyncBegin
  <2>3. CASE AsyncEnqueue(r)
    BY <1>2, <1>3, <2>1, <2>3, Zenon DEF AsyncEnqueue
  <2>4. CASE Timeout(r)
    BY <1>2, <1>3, <2>1, <2>4, Zenon DEF Timeout, Cancel
  <2>5. CASE TearRecord(r)
    BY <1>2, <1>3, <2>1, <2>5, Zenon DEF TearRecord, Cancel
  <2> QED
    BY <1>6, <2>2, <2>3, <2>4, <2>5, Zenon DEF RecordStep
<1>7. CASE UNCHANGED vars
  BY <1>3, <1>7, Zenon DEF vars, listVars
<1> QED
  BY <1>4, <1>5, <1>6, <1>7 DEF Next, Finished

\* The invariant holds in every reachable state, for any agents, records, offsets and values.
THEOREM Invariance == Spec => []IInv
<1> QED
  BY InitEstablishes, NextKeeps, PTL DEF Spec

\* mal_shared_memory_wait and the mailbox's loop never sleep through their wake-up: a
\* sleeper is in the list, and a signal that came before it slept has its broadcast to come.
THEOREM SleepersFound == Spec => []NoLostWakeup
<1>1. IInv => NoLostWakeup
  BY Zenon DEF IInv, Sync, Interrupts, Loops, NoLostWakeup
<1> QED
  BY <1>1, Invariance, PTL

\* The comparison under the bucket lock: no waiter is in the list with a value that a
\* store-and-notify has already replaced, unless that notify is still to come.
THEOREM StoresSeen == Spec => []NoMissedStore
<1>1. IInv => NoMissedStore
  <2> SUFFICES ASSUME IInv, NEW i \in 1..Len(bucket), value[at[bucket[i]]] # want[bucket[i]]
               PROVE  \E a \in Agents : pc[a] = "notify" /\ at[a] = at[bucket[i]]
    BY Zenon DEF NoMissedStore
  <2>1. bucket[i] \in Waiters /\ Listed(bucket, bucket[i])
    BY DEF IInv, Types, Listed
  <2> QED
    BY <2>1, Zenon DEF IInv, Stored
<1> QED
  BY <1>1, Invariance, PTL, Zenon

\* What Atomics.wait returns and what a waitAsync promise is settled with is what the list
\* said, whichever of notify, signal, deadline, timer and teardown came first.
THEOREM OutcomesTrue == Spec => []OutcomesAgree
<1>1. IInv => OutcomesAgree
  <2> SUFFICES ASSUME IInv PROVE OutcomesAgree
    BY Zenon
  <2>1. \A a \in Agents : pc[a] = "leaving" => (outcome[a] = "ok") = (result[a] = "ok")
    BY DEF IInv, Sync
  <2>2. \A r \in Records :
          /\ settled[r] \in {"ok", "timed-out"} => settled[r] = result[r] /\ rec[r] = "freed"
          /\ Listed(bucket, r) => rec[r] = "linked" /\ result[r] = "timed-out"
    BY DEF IInv, Async
  <2> QED
    BY <2>1, <2>2, Zenon DEF OutcomesAgree
<1> QED
  BY <1>1, Invariance, PTL

\* mal_shared_memory_notify serves the waiters of one element in the order they came.
THEOREM NotifiedInOrder == Spec => FifoNotify
<1> DEFINE InOrder ==
      \A i, k \in 1..Len(bucket) :
        /\ i < k /\ at[bucket[i]] = at[bucket[k]]
        /\ result'[bucket[k]] = "ok"
        => ~Listed(bucket', bucket[i])
<1>1. IInv /\ [Next]_vars => InOrder
  <2> SUFFICES ASSUME IInv, [Next]_vars, NEW i \in 1..Len(bucket), NEW k \in 1..Len(bucket),
                      i < k, at[bucket[i]] = at[bucket[k]], result'[bucket[k]] = "ok"
               PROVE  ~Listed(bucket', bucket[i])
    OBVIOUS
  <2>1. /\ bucket[k] \in Waiters /\ Listed(bucket, bucket[k])
        /\ bucket \in Seq(Waiters) /\ Distinct(bucket) /\ Len(bucket) \in Nat
    BY DEF IInv, Types, Listed
  <2>2. result[bucket[k]] = "timed-out"
    BY <2>1, Zenon DEF IInv, Sync, Async, Waiters
  <2>3. PICK a \in Agents : Notify(a)
    BY <2>1, <2>2, OnlyNotify, Zenon
  <2>4. PICK o \in Offsets, last \in 0..Len(bucket) : Wake(a, o, last)
    <3>1. at[a] \in Offsets /\ Len(bucket) \in 0..Len(bucket)
      BY <2>1 DEF IInv, Types, Waiters
    <3> QED
      BY <2>3, <3>1, Zenon DEF Notify
  <2>5. /\ \A y : Listed(bucket', y) <=> Listed(bucket, y) /\ y \notin WokenSet(o, last)
        /\ result' = [w \in Waiters |-> IF w \in WokenSet(o, last) THEN "ok" ELSE result[w]]
    BY <2>4, WakeCells, Zenon DEF IInv
  <2>6. bucket[k] \in WokenSet(o, last)
    BY <2>1, <2>2, <2>5, Zenon
  <2>7. k \in WokenIndices(o, last)
    <3>1. PICK j \in WokenIndices(o, last) : bucket[j] = bucket[k]
      BY <2>6 DEF WokenSet
    <3>2. j \in 1..Len(bucket)
      BY <2>1, <2>4, <3>1 DEF WokenIndices
    <3>3. j = k
      BY <2>1, <3>1, <3>2, Zenon DEF Distinct
    <3> QED
      BY <3>1, <3>3
  <2>8. i \in WokenIndices(o, last)
    BY <2>1, <2>4, <2>7 DEF WokenIndices
  <2> QED
    BY <2>5, <2>8 DEF WokenSet
<1>2. IInv /\ [Next]_vars => [InOrder]_vars
  BY <1>1
<1>3. [][InOrder]_vars => FifoNotify
  BY DEF FifoNotify
<1> HIDE DEF InOrder
<1> QED
  BY <1>2, <1>3, Invariance, PTL DEF Spec

\* At the start nothing is waited for: a mailbox is held by its owner alone, the backing by
\* every isolate.
=============================================================================
