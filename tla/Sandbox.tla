------------------------------- MODULE Sandbox -------------------------------
(***************************************************************************)
(* sandbox/process.rs and cancel.rs: the subprocesses of a Sandbox that    *)
(* carries a Cancel handle. A call of run_in_with_limits spawns a child    *)
(* that leads a process group of its own; the child may fork helpers that  *)
(* stay in the group and hold its output pipes. A detached watchdog task   *)
(* outlives the call, and a Hard cancel signals every registered group.    *)
(*                                                                         *)
(* A call is made once: groups are named by their call, and the reuse of a *)
(* process group id by the operating system is left out.                   *)
(***************************************************************************)
EXTENDS Integers

CONSTANTS
  Call,
  Fed,      \* the calls whose Command carries stdin
  Timeout,  \* effective timeout of a call
  Grace     \* HARD_KILL_GRACE

ASSUME FedAssumption == Fed \subseteq Call
ASSUME TimeAssumption == Timeout \in Nat \ {0} /\ Grace \in Nat

VARIABLES
  pc,        \* the future of each call
  leader,    \* the spawned child
  helper,    \* the rest of its process group
  age,       \* time since the call began, capped
  watchdog,  \* the task of spawn_watchdog
  left,      \* what is left of its grace
  registry,  \* Cancel::child_pgids
  token,     \* the cooperative token is cancelled
  killer,    \* the task a Hard cancel spawns, and the groups it copied
  hardLeft   \* what is left of its grace

group == <<leader, helper>>
guard == <<watchdog, left>>
hard == <<killer, hardLeft>>
vars == <<pc, leader, helper, age, watchdog, left, registry, token, killer, hardLeft>>

Oldest == Timeout + Grace + 1

TypeOK ==
  /\ pc \in [Call -> {"idle", "spawned", "feeding", "running",
                      "draining", "returned", "dropped"}]
  /\ leader \in [Call -> {"none", "alive", "zombie", "reaped"}]
  /\ helper \in [Call -> BOOLEAN]
  /\ age \in [Call -> 0 .. Oldest]
  /\ watchdog \in [Call -> {"off", "asleep", "woken", "grace", "done"}]
  /\ left \in [Call -> 0 .. Grace]
  /\ registry \subseteq Call
  /\ token \in BOOLEAN
  /\ killer \in [armed : BOOLEAN, victims : SUBSET Call]
  /\ hardLeft \in 0 .. Grace

Init ==
  /\ pc = [c \in Call |-> "idle"]
  /\ leader = [c \in Call |-> "none"]
  /\ helper = [c \in Call |-> FALSE]
  /\ age = [c \in Call |-> 0]
  /\ watchdog = [c \in Call |-> "off"]
  /\ left = [c \in Call |-> 0]
  /\ registry = {}
  /\ token = FALSE
  /\ killer = [armed |-> FALSE, victims |-> {}] /\ hardLeft = 0

Alive(c) == leader[c] = "alive" \/ helper[c]

-----------------------------------------------------------------------------
(* The processes of a group.                                               *)

Fork(c) ==
  /\ leader[c] = "alive"
  /\ helper' = [helper EXCEPT ![c] = TRUE]
  /\ UNCHANGED <<pc, leader, age, guard, registry, token, hard>>

\* A process ends by itself, or because of a SIGTERM.
LeaderExits(c) ==
  /\ leader[c] = "alive"
  /\ leader' = [leader EXCEPT ![c] = "zombie"]
  /\ UNCHANGED <<pc, helper, age, guard, registry, token, hard>>

HelperExits(c) ==
  /\ helper[c]
  /\ helper' = [helper EXCEPT ![c] = FALSE]
  /\ UNCHANGED <<pc, leader, age, guard, registry, token, hard>>

\* Mutant: the signal goes to the child alone.
KillGroups_LeaderOnly(C) ==
  /\ leader' = [c \in Call |-> IF c \in C /\ leader[c] = "alive" THEN "zombie" ELSE leader[c]]
  /\ UNCHANGED helper

\* killpg(SIGKILL); a group that has gone is ignored.
KillGroups(C) ==
  /\ leader' = [c \in Call |-> IF c \in C /\ leader[c] = "alive" THEN "zombie" ELSE leader[c]]
  /\ helper' = [c \in Call |-> helper[c] /\ c \notin C]

-----------------------------------------------------------------------------
(* run_in_with_limits.                                                     *)

Spawn(c) ==
  /\ pc[c] = "idle"
  /\ pc' = [pc EXCEPT ![c] = "spawned"]
  /\ leader' = [leader EXCEPT ![c] = "alive"]
  /\ UNCHANGED <<helper, age, guard, registry, token, hard>>

\* The watchdog starts, and the wait loop.
StartWaiting(c) ==
  /\ pc' = [pc EXCEPT ![c] = "running"]
  /\ watchdog' = [watchdog EXCEPT ![c] = "asleep"]

\* register_child, and on to the loop unless there are bytes to write first.
Register(c) ==
  /\ pc[c] = "spawned"
  /\ registry' = registry \cup {c}
  /\ IF c \in Fed THEN pc' = [pc EXCEPT ![c] = "feeding"] /\ UNCHANGED watchdog
     ELSE StartWaiting(c)
  /\ UNCHANGED <<group, age, left, token, hard>>

\* write_all has no timeout of its own: it ends when the group has read the
\* bytes, or is gone.
FeedEnds(c) ==
  /\ pc[c] = "feeding"
  /\ StartWaiting(c)
  /\ UNCHANGED <<group, age, left, registry, token, hard>>

\* Mutant: the loop is left without a word to the watchdog.
Collected_Silent(c) ==
  /\ pc' = [pc EXCEPT ![c] = "draining"]
  /\ leader' = [leader EXCEPT ![c] = "reaped"]
  /\ registry' = registry \ {c}
  /\ UNCHANGED watchdog

\* The loop ends with the child waited for: wake the watchdog, unregister.
Collected(c) ==
  /\ pc' = [pc EXCEPT ![c] = "draining"]
  /\ leader' = [leader EXCEPT ![c] = "reaped"]
  /\ registry' = registry \ {c}
  /\ watchdog' = [watchdog EXCEPT ![c] = IF @ = "asleep" THEN "woken" ELSE @]

Reap(c) ==
  /\ pc[c] = "running" /\ leader[c] = "zombie"
  /\ Collected(c)
  /\ UNCHANGED <<helper, age, left, token, hard>>

\* start_kill and wait, for a reader that reports too much output, ...
EarlyError(c) ==
  /\ pc[c] = "running"
  /\ Collected(c)
  /\ UNCHANGED <<helper, age, left, token, hard>>

\* ... and for a call that has used up its time.
Deadline(c) ==
  /\ pc[c] = "running" /\ age[c] >= Timeout
  /\ Collected(c)
  /\ UNCHANGED <<helper, age, left, token, hard>>

\* The readers see the end of the pipes once no helper holds them.
Return(c) ==
  /\ pc[c] = "draining" /\ ~helper[c]
  /\ pc' = [pc EXCEPT ![c] = "returned"]
  /\ UNCHANGED <<group, age, guard, registry, token, hard>>

\* Mutant: the dropped future leaves its registration behind.
Drop_Registered(c) ==
  /\ pc[c] \in {"feeding", "running", "draining"}
  /\ pc' = [pc EXCEPT ![c] = "dropped"]
  /\ leader' = [leader EXCEPT ![c] = "reaped"]
  /\ UNCHANGED <<helper, age, guard, registry, token, hard>>

\* The phase, or the whole pipeline, runs out of time and drops the future at
\* an await: kill_on_drop, and Drop for RegisteredChild. The watchdog, which is
\* detached, sleeps on.
Drop(c) ==
  /\ pc[c] \in {"feeding", "running", "draining"}
  /\ pc' = [pc EXCEPT ![c] = "dropped"]
  /\ leader' = [leader EXCEPT ![c] = "reaped"]
  /\ registry' = registry \ {c}
  /\ UNCHANGED <<helper, age, guard, token, hard>>

-----------------------------------------------------------------------------
(* spawn_watchdog.                                                         *)

\* Mutant: only the end of the call wakes it.
TermDue_WokenOnly(c) == watchdog[c] = "woken"

TermDue(c) ==
  \/ watchdog[c] = "woken"
  \/ watchdog[c] = "asleep" /\ age[c] >= Timeout
KillDue(c) == watchdog[c] = "grace" /\ left[c] = 0

\* killpg(SIGTERM): a process may end at any time, and need not obey.
WatchTerm(c) ==
  /\ TermDue(c)
  /\ watchdog' = [watchdog EXCEPT ![c] = "grace"]
  /\ left' = [left EXCEPT ![c] = Grace]
  /\ UNCHANGED <<pc, group, age, registry, token, hard>>

WatchKill(c) ==
  /\ KillDue(c)
  /\ KillGroups({c})
  /\ watchdog' = [watchdog EXCEPT ![c] = "done"]
  /\ UNCHANGED <<pc, age, left, registry, token, hard>>

-----------------------------------------------------------------------------
(* Cancel.                                                                 *)

\* cancel, and the Soft and Normal tiers.
Cancel ==
  /\ token' = TRUE
  /\ UNCHANGED <<pc, group, age, guard, registry, hard>>

\* cancel_with_tier(Hard): the token first, then SIGTERM to the groups
\* registered now, and the task that kills them.
HardCancel ==
  /\ ~killer.armed
  /\ token' = TRUE
  /\ IF registry = {} THEN UNCHANGED hard
     ELSE killer' = [armed |-> TRUE, victims |-> registry] /\ hardLeft' = Grace
  /\ UNCHANGED <<pc, group, age, guard, registry>>

\* select! of the sleep and of the token.
HardKill ==
  /\ killer.armed
  /\ hardLeft = 0 \/ token
  /\ KillGroups(killer.victims)
  /\ killer' = [armed |-> FALSE, victims |-> {}]
  /\ hardLeft' = 0
  /\ UNCHANGED <<pc, age, guard, registry, token>>

-----------------------------------------------------------------------------
(* Time.                                                                   *)

\* The runtime polls a task that is ready before the clock advances.
Ready ==
  \/ killer.armed /\ (hardLeft = 0 \/ token)
  \/ \E c \in Call : pc[c] = "spawned" \/ TermDue(c) \/ KillDue(c)

\* Mutant: the time left goes below zero.
Elapsed_Wrapping(t) == t - 1

Elapsed(t) == IF t > 0 THEN t - 1 ELSE 0

Tick ==
  /\ ~Ready
  /\ age' = [c \in Call |-> IF pc[c] = "idle" \/ age[c] = Oldest THEN age[c] ELSE age[c] + 1]
  /\ left' = [c \in Call |-> Elapsed(left[c])]
  /\ hardLeft' = Elapsed(hardLeft)
  /\ UNCHANGED <<pc, group, watchdog, registry, token, killer>>

Process(c) == Fork(c) \/ LeaderExits(c) \/ HelperExits(c)
Waiting(c) == Register(c) \/ Reap(c) \/ Deadline(c) \/ Return(c)
Watchdog(c) == WatchTerm(c) \/ WatchKill(c)

Next ==
  \/ \E c \in Call :
       \/ Process(c) \/ Waiting(c) \/ Watchdog(c)
       \/ Spawn(c) \/ FeedEnds(c) \/ EarlyError(c) \/ Drop(c)
  \/ Cancel \/ HardCancel \/ HardKill
  \/ Tick

Spec == Init /\ [][Next]_vars

\* Tokio polls its tasks, and time passes however often the user cancels;
\* nothing is assumed of the processes.
FairSpec ==
  /\ Spec
  /\ WF_vars(HardKill) /\ SF_vars(Tick)
  /\ \A c \in Call : WF_vars(Waiting(c)) /\ WF_vars(Watchdog(c))

-----------------------------------------------------------------------------
(* Properties.                                                             *)

\* process.rs:781-786 "the cancel registry cannot leak pgids even when the
\* caller drops the future mid-flight": exactly the calls that wait for their
\* child are registered, whatever ended the others.
NoLeak == registry = {c \in Call : pc[c] \in {"feeding", "running"}}

\* process.rs:813-821: no process of a command, grandchildren that ignore
\* SIGTERM included, is alive once the timeout and the grace have passed,
\* however the call ended, while moagan runs. A call with stdin to feed has no
\* watchdog until the feed ends, and is no part of this.
Bounded == \A c \in Call \ Fed : Alive(c) => age[c] <= Timeout + Grace

\* A call that waits for the end of pipes its helpers hold has a watchdog that
\* is going to kill them (await_reader has no timeout of its own).
Watched ==
  \A c \in Call : pc[c] = "draining" /\ helper[c] => watchdog[c] \in {"woken", "grace"}

\* Every call that waits for its child returns or is dropped, whatever its
\* processes do.
Returns ==
  \A c \in Call : pc[c] = "running" ~> pc[c] \in {"returned", "dropped"}

\* cancel.rs:95-98 "Grace window between `SIGTERM` and `SIGKILL` for
\* `CancelTier::Hard`": the kill waits for it. It does not (README, section 5).
GraceRespected == [][HardKill => hardLeft = 0]_vars
=============================================================================
