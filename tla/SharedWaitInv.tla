--------------------------- MODULE SharedWaitInv ----------------------------
(***************************************************************************)
(* The inductive invariants of module SharedWait: IInv for what its waits  *)
(* promise, RInv for its reference counts.                                 *)
(***************************************************************************)
EXTENDS SharedWait

PCs == {"run", "wait", "blocked", "woken", "leaving", "broadcast", "notify", "post",
        "drop-waiter", "drop-mailbox", "enqueue", "poll", "teardown", "gone"}

\* The types of the variables a wait uses.
Types ==
  /\ value \in [Offsets -> Values]
  /\ bucket \in Seq(Waiters) /\ Distinct(bucket)
  /\ at \in [Waiters -> Offsets] /\ want \in [Waiters -> Values]
  /\ result \in [Waiters -> Results] /\ outcome \in [Agents -> Results]
  /\ pc \in [Agents -> PCs]
  /\ current \in [Agents -> BOOLEAN] /\ signaled \in [Agents -> BOOLEAN]
  /\ ilock \in [Agents -> Agents \cup {Free}] /\ target \in [Agents -> Agents \cup {Free}]
  /\ rec \in [Records -> {"unused", "linking", "linked", "freed"}]
  /\ settled \in [Records -> Results]
  /\ ready \in [Agents -> Seq(Waiters)] /\ posts \in [Agents -> Seq(Waiters)]
  /\ wake \in [Agents -> BOOLEAN]

\* Where a synchronous waiter is, and what its result says.
Sync ==
  \A a \in Agents :
    /\ Listed(bucket, a) => pc[a] \in {"blocked", "woken"} /\ result[a] = "timed-out"
    /\ pc[a] = "blocked" => Listed(bucket, a)
    /\ pc[a] = "woken" /\ ~Listed(bucket, a) => result[a] = "ok"
    /\ pc[a] = "wait" => result[a] = "timed-out"
    /\ pc[a] = "leaving" => (outcome[a] = "ok" <=> result[a] = "ok")

\* The same for a record.
Async ==
  \A r \in Records :
    /\ Listed(bucket, r) => rec[r] = "linked" /\ result[r] = "timed-out"
    /\ rec[r] \in {"unused", "linking"} => result[r] = "none"
    /\ settled[r] \in {"ok", "timed-out"} => settled[r] = result[r] /\ rec[r] = "freed"

\* What is posted or ready was notified.
Posted ==
  \A a \in Agents :
    /\ pc[a] \in {"post", "drop-waiter", "drop-mailbox"} => posts[a] # <<>>
    /\ \A r \in Waiters : Listed(posts[a], r) \/ Listed(ready[a], r) => r \in Records /\ result[r] = "ok"

\* NoMissedStore, by waiter.
Stored ==
  \A w \in Waiters :
    Listed(bucket, w) /\ value[at[w]] # want[w] =>
      \E a \in Agents : pc[a] = "notify" /\ at[a] = at[w]

\* The interrupt's lock and its two fields.
Interrupts ==
  \A a \in Agents :
    /\ current[a] <=> a \in Interruptible /\ Waiting(a)
    /\ ilock[a] # Free => pc[ilock[a]] = "broadcast" /\ target[ilock[a]] = a
    /\ pc[a] = "broadcast" =>
         target[a] \in Interruptible /\ ilock[target[a]] = a /\ Waiting(target[a])
    /\ pc[a] = "blocked" /\ a \in Interruptible /\ signaled[a] => ilock[a] # Free

\* A sleeping loop with a ready record has a wake.
Loops == \A a \in Agents : pc[a] = "poll" /\ ready[a] # <<>> => wake[a]

\* The inductive invariant.
IInv == Types /\ Sync /\ Async /\ Posted /\ Stored /\ Interrupts /\ Loops

\* Where an agent waits or has a notify to come.
Attentive == {"wait", "blocked", "woken", "leaving", "notify"}

\* Where a notifier has waiters to post.
PostPCs == {"post", "drop-waiter", "drop-mailbox"}

\* A notifier still has the list's reference on r, or has still to post r.
Undropped(r) == \E a \in Posters(r) : Head(posts[a]) # r \/ pc[a] # "drop-mailbox"
Unposted(r) == \E a \in Posters(r) : Head(posts[a]) # r \/ pc[a] = "post"

\* Record r has a reference on its owner's mailbox.
Named(r) == rec[r] = "linking" \/ Listed(bucket, r) \/ Posters(r) # {}

\* The types of the counts and of what they are about.
Sizes ==
  /\ refs \in [Records -> Int] /\ mailRefs \in [Agents -> Int] /\ memRefs \in Int
  /\ reactor \in [Agents -> BOOLEAN] /\ holds \in [Agents -> BOOLEAN]
  /\ timer \in [Records -> BOOLEAN] /\ deadline \in [Agents -> {"none", "set", "passed"}]

\* A notified record is in one chain, and its owner leaves it alone until it was posted.
Chains ==
  /\ \A a \in Agents : Distinct(posts[a]) /\ (posts[a] # <<>> => pc[a] \in PostPCs)
  /\ \A r \in Records :
       /\ \A a, b \in Posters(r) : a = b
       /\ Posters(r) # {} => rec[r] \in {"linked", "freed"}
       /\ Unposted(r) /\ reactor[Owner[r]] => rec[r] = "linked"

\* What is ready was posted once and is linked; a waiting agent keeps the backing.
Readies ==
  \A a \in Agents :
    /\ reactor[a] <=> pc[a] \notin {"teardown", "gone"}
    /\ Distinct(ready[a])
    /\ \A r \in Records : Listed(ready[a], r) =>
         Owner[r] = a /\ rec[r] = "linked" /\ reactor[a] /\ ~Unposted(r)
    /\ pc[a] \in {"wait", "blocked", "woken"} => holds[a]

\* Every count is the number of its holders.
Counts ==
  /\ \A r \in Records : refs[r] = WaiterHolds(r)
  /\ \A a \in Agents : mailRefs[a] = MailboxHolds(a)
  /\ memRefs = BackingHolds

\* The inductive invariant of the reference counts, beside IInv.
RInv == Sizes /\ Chains /\ Readies /\ Counts
=============================================================================
