-------------------------- MODULE ExecutorContract --------------------------
(***************************************************************************)
(* What runtime/src/executor.h promises a client, without threads, locks   *)
(* or ready lists: an accepted payload is run, discarded or returned by    *)
(* cancel, exactly once; ordinary jobs are discarded only by their         *)
(* client's teardown, must_run jobs never; and when teardown returns the   *)
(* client has no job left.                                                 *)
(***************************************************************************)
CONSTANTS Clients, Jobs, MustRun

VARIABLES
  client,  \* per client: "absent", "open" or "closing"
  pending, \* per client: accepted jobs that have not started
  active,  \* per client: jobs that run
  done     \* per job: "no", "ran", "discarded" or "cancelled"

vars == <<client, pending, active, done>>

Init ==
  /\ client = [c \in Clients |-> "absent"]
  /\ pending = [c \in Clients |-> {}]
  /\ active = [c \in Clients |-> {}]
  /\ done = [j \in Jobs |-> "no"]

Open(c) ==
  /\ client[c] = "absent"
  /\ client' = [client EXCEPT ![c] = "open"]
  /\ UNCHANGED <<pending, active, done>>

Unclaimed(j) == \A c \in Clients : j \notin pending[c] \cup active[c]

Accept(c, j) ==
  /\ client[c] = "open"
  /\ done[j] = "no"
  /\ Unclaimed(j)
  /\ pending' = [pending EXCEPT ![c] = @ \cup {j}]
  /\ UNCHANGED <<client, active, done>>

Start(c, j) ==
  /\ j \in pending[c]
  /\ client[c] = "closing" => j \in MustRun
  /\ pending' = [pending EXCEPT ![c] = @ \ {j}]
  /\ active' = [active EXCEPT ![c] = @ \cup {j}]
  /\ UNCHANGED <<client, done>>

Finish(c, j) ==
  /\ j \in active[c]
  /\ active' = [active EXCEPT ![c] = @ \ {j}]
  /\ done' = [done EXCEPT ![j] = "ran"]
  /\ UNCHANGED <<client, pending>>

Return(c, j) ==
  /\ client[c] = "open"
  /\ j \in pending[c]
  /\ pending' = [pending EXCEPT ![c] = @ \ {j}]
  /\ done' = [done EXCEPT ![j] = "cancelled"]
  /\ UNCHANGED <<client, active>>

Close(c) ==
  /\ client[c] = "open"
  /\ client' = [client EXCEPT ![c] = "closing"]
  /\ UNCHANGED <<pending, active, done>>

Drop(c, j) ==
  /\ client[c] = "closing"
  /\ j \in pending[c] \ MustRun
  /\ pending' = [pending EXCEPT ![c] = @ \ {j}]
  /\ done' = [done EXCEPT ![j] = "discarded"]
  /\ UNCHANGED <<client, active>>

Closed(c) ==
  /\ client[c] = "closing"
  /\ pending[c] = {}
  /\ active[c] = {}
  /\ client' = [client EXCEPT ![c] = "absent"]
  /\ UNCHANGED <<pending, active, done>>

Next ==
  \E c \in Clients :
    \/ Open(c) \/ Close(c) \/ Closed(c)
    \/ \E j \in Jobs : Accept(c, j) \/ Start(c, j) \/ Finish(c, j) \/ Return(c, j) \/ Drop(c, j)

Spec == Init /\ [][Next]_vars
=============================================================================
