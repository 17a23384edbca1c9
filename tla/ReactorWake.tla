---------------------------- MODULE ReactorWake ----------------------------
(***************************************************************************)
(* How other threads wake the event loop: the coalesced wake and the       *)
(* retained-work count of runtime/src/host/reactor.c, the posted queue of  *)
(* host_task.c as its producer, and the idle check of                      *)
(* runtime/src/runtime/web_host_timer.c that ends the loop.                *)
(*                                                                         *)
(* A producer is the helper thread of one retained operation: it posts one *)
(* item under the queue's lock, wakes the reactor inside it, releases the  *)
(* work and wakes again.  Every atomic access and system call of a wake is *)
(* a step of its own.                                                      *)
(***************************************************************************)
EXTENDS Integers, FiniteSets

CONSTANTS
  Producers,
  Free        \* the queue's lock is free

ASSUME WakeAssumption == Free \notin Producers /\ IsFiniteSet(Producers)

VARIABLES
  retained, \* retained_work
  pending,  \* wake_pending
  pipe,     \* bytes in the wake pipe
  items,    \* producers whose item is in the posted queue
  lock,     \* holder of the posted queue's mutex
  accepted, \* history: producers whose post returned true
  pc,       \* per producer
  failed,   \* history: a system call that wakes the backend has failed
  loop      \* the loop: run, check, wait, recheck, block, drain, clear, callback, exited

vars == <<retained, pending, pipe, items, lock, accepted, pc, failed, loop>>

Init ==
  /\ retained = 0 /\ pending = FALSE /\ pipe = 0
  /\ items = {} /\ lock = Free /\ accepted = {}
  /\ pc = [p \in Producers |-> "idle"]
  /\ failed = FALSE /\ loop = "run"

Goto(p, l) == pc' = [pc EXCEPT ![p] = l]

-----------------------------------------------------------------------------
(* Producers. *)

\* The loop starts an operation: mal_reactor_retain_work, then the worker exists.
Retain(p) ==
  /\ loop = "run" /\ pc[p] = "idle"
  /\ retained' = retained + 1
  /\ Goto(p, "work")
  /\ UNCHANGED <<pending, pipe, items, lock, accepted, failed, loop>>

\* mal_host_posted_push up to the wake.
Push(p) ==
  /\ pc[p] = "work" /\ lock = Free
  /\ lock' = p
  /\ items' = items \cup {p}
  /\ Goto(p, "post")
  /\ UNCHANGED <<retained, pending, pipe, accepted, failed, loop>>

\* What a wake from p answers: the post is accepted or rolled back and the lock released,
\* or the release of the work is over.
WakeReturns(p, ok) ==
  IF pc[p] \in {"post", "post-write"}
  THEN /\ items' = IF ok THEN items ELSE items \ {p}
       /\ accepted' = IF ok THEN accepted \cup {p} ELSE accepted
       /\ lock' = Free
       /\ Goto(p, "release")
  ELSE /\ Goto(p, "done")
       /\ UNCHANGED <<items, accepted, lock>>

\* wake_pending was already set.
Coalesces == pending

\* mal_reactor_wake: the exchange.
Exchange(p) ==
  /\ pc[p] \in {"post", "wake"}
  /\ pending' = TRUE
  /\ IF Coalesces
     THEN WakeReturns(p, TRUE)
     ELSE /\ Goto(p, IF pc[p] = "post" THEN "post-write" ELSE "wake-write")
          /\ UNCHANGED <<items, accepted, lock>>
  /\ UNCHANGED <<retained, pipe, failed, loop>>

\* mal_backend_trigger_wake; a hard failure takes the flag back.
Write(p) ==
  /\ pc[p] \in {"post-write", "wake-write"}
  /\ \/ /\ pipe' = pipe + 1
        /\ WakeReturns(p, TRUE)
        /\ UNCHANGED <<pending, failed>>
     \/ /\ pending' = FALSE /\ failed' = TRUE
        /\ WakeReturns(p, FALSE)
        /\ UNCHANGED pipe
  /\ UNCHANGED <<retained, loop>>

\* mal_reactor_release_work.
ReleaseWork(p) ==
  /\ pc[p] = "release"
  /\ retained' = retained - 1
  /\ Goto(p, "wake")
  /\ UNCHANGED <<pending, pipe, items, lock, accepted, failed, loop>>

-----------------------------------------------------------------------------
(* The loop. *)

\* The loop ends although a wake is pending.
IdleBug == TRUE

\* The last operand of mal_host_has_referenced_work.
Idle == ~pending

\* No callback is ready: mal_host_has_referenced_work reads the count, then the flag.
Check ==
  /\ \/ /\ loop = "run"
        /\ loop' = IF retained > 0 THEN "wait" ELSE "check"
     \/ /\ loop = "check"
        /\ loop' = IF Idle THEN "exited" ELSE "wait"
  /\ UNCHANGED <<retained, pending, pipe, items, lock, accepted, pc, failed>>

\* mal_reactor_pump looks at both again before it blocks in the backend; file descriptors and
\* timers may end the block while the pipe is empty.
Pump ==
  /\ \/ /\ loop = "wait"
        /\ loop' = IF retained > 0 THEN "block" ELSE "recheck"
     \/ /\ loop = "recheck"
        /\ loop' = IF pending THEN "block" ELSE "run"
     \/ /\ loop = "block" /\ pipe = 0
        /\ loop' = "run"
  /\ UNCHANGED <<retained, pending, pipe, items, lock, accepted, pc, failed>>

\* The flag is cleared after the consumer ran.
NextStageLateBug(l) ==
  CASE l = "drain" -> "callback" [] l = "callback" -> "clear" [] OTHER -> "run"

\* The order of mal_reactor_dispatch_wake.
NextStage(l) ==
  CASE l = "drain" -> "clear" [] l = "clear" -> "callback" [] OTHER -> "run"

\* The backend reports the pipe, to a blocked loop or to one that polls.
Report ==
  /\ loop \in {"run", "block"} /\ pipe > 0
  /\ loop' = "drain"
  /\ UNCHANGED <<retained, pending, pipe, items, lock, accepted, pc, failed>>

\* Empty the pipe, clear the flag, run the consumer, which takes the whole queue.
Dispatch ==
  /\ \/ /\ loop = "drain"
        /\ pipe' = 0
        /\ UNCHANGED <<pending, items>>
     \/ /\ loop = "clear"
        /\ pending' = FALSE
        /\ UNCHANGED <<pipe, items>>
     \/ /\ loop = "callback" /\ lock = Free
        /\ items' = {}
        /\ UNCHANGED <<pending, pipe>>
  /\ loop' = NextStage(loop)
  /\ UNCHANGED <<retained, lock, accepted, pc, failed>>

-----------------------------------------------------------------------------
Exited == loop = "exited" /\ UNCHANGED vars

ProducerStep(p) == Push(p) \/ Exchange(p) \/ Write(p) \/ ReleaseWork(p)

Next ==
  \/ \E p \in Producers : Retain(p) \/ ProducerStep(p)
  \/ Check \/ Pump \/ Report \/ Dispatch \/ Exited

Spec == Init /\ [][Next]_vars

-----------------------------------------------------------------------------
(* Properties. *)

\* The types of the variables.
TypeOK ==
  /\ retained \in Nat /\ pipe \in Nat
  /\ pending \in BOOLEAN /\ failed \in BOOLEAN
  /\ items \subseteq Producers /\ accepted \subseteq Producers
  /\ lock \in Producers \cup {Free}
  /\ pc \in [Producers -> {"idle", "work", "post", "post-write", "release", "wake",
                           "wake-write", "done"}]
  /\ loop \in {"run", "check", "wait", "recheck", "block", "drain", "clear", "callback",
              "exited"}

\* "Signals coalesce; a successful call guarantees a pollable wake remains": an accepted item
\* the loop has not taken has a byte in the pipe or one about to be written, unless the loop
\* is on its way to take it.  The pipe itself never holds more than that byte.  A wake whose
\* system call fails takes back the flag others have coalesced with, and voids the promise.
PollableWakeRemains ==
  ~failed =>
    /\ pipe <= 1
    /\ items \cap accepted # {} =>
         \/ pipe > 0
         \/ \E p \in Producers : pc[p] \in {"post-write", "wake-write"}
         \/ loop \in {"clear", "callback"}

\* The loop ends only when no producer will post and, unless a wake failed, every accepted
\* item was taken: the count and the flag are read one after the other.
ExitsIdle ==
  loop = "exited" =>
    /\ \A p \in Producers : pc[p] \notin {"work", "post", "post-write"}
    /\ ~failed => items \cap accepted = {}

Fairness ==
  /\ \A p \in Producers : WF_vars(ProducerStep(p))
  /\ WF_vars(Check) /\ WF_vars(Pump /\ loop # "block") /\ WF_vars(Report)
  /\ WF_vars(Dispatch)

LiveSpec == Spec /\ Fairness

\* An accepted item is taken although nothing else ever wakes the loop, if no wake fails.
\* (Only the step that leaves the block without a wake has no fairness.)
ItemsTaken ==
  []~failed => \A p \in Producers : p \in accepted ~> p \notin items
=============================================================================
