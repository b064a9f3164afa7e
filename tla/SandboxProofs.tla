---------------------------- MODULE SandboxProofs ----------------------------
(***************************************************************************)
(* Proofs about Sandbox, for any calls, timeout and grace: type            *)
(* correctness, that the registry of the Cancel handle never leaks, that   *)
(* no process outlives timeout and grace, and that a call which waits for  *)
(* the pipes of its helpers has a watchdog to close them.                  *)
(***************************************************************************)
EXTENDS Sandbox, TLAPS

\* What the state of a call says of its watchdog and of its group.
Stage(c) ==
  /\ pc[c] = "idle" => leader[c] = "none" /\ ~helper[c] /\ watchdog[c] = "off" /\ age[c] = 0
  /\ pc[c] = "spawned" => watchdog[c] = "off" /\ age[c] = 0
  /\ pc[c] = "feeding" => c \in Fed /\ watchdog[c] = "off"
  /\ pc[c] = "running" => watchdog[c] # "off"
  /\ pc[c] = "draining" => watchdog[c] \notin {"off", "asleep"}
  /\ watchdog[c] = "done" => ~Alive(c)

\* The watchdog of a call without stdin is never behind the clock.
Timely(c) ==
  /\ pc[c] \notin {"idle", "spawned"} => watchdog[c] # "off"
  /\ watchdog[c] \in {"asleep", "woken"} => age[c] <= Timeout
  /\ watchdog[c] = "grace" => age[c] + left[c] <= Timeout + Grace

Sound ==
  /\ \A c \in Call : Stage(c)
  /\ \A c \in Call \ Fed : Timely(c)

\* What the type invariant says of one call.
LEMMA CallType ==
  ASSUME TypeOK, NEW c \in Call
  PROVE  /\ pc[c] \in {"idle", "spawned", "feeding", "running",
                      "draining", "returned", "dropped"}
         /\ leader[c] \in {"none", "alive", "zombie", "reaped"}
         /\ helper[c] \in BOOLEAN
         /\ watchdog[c] \in {"off", "asleep", "woken", "grace", "done"}
         /\ age[c] \in Nat /\ left[c] \in Nat
BY TimeAssumption DEF TypeOK, Oldest

\* Killing groups changes nothing but who is alive, and leaves its victims dead.
LEMMA KillGroupsLemma ==
  ASSUME TypeOK, NEW C \in SUBSET Call, KillGroups(C)
  PROVE  /\ leader' \in [Call -> {"none", "alive", "zombie", "reaped"}]
         /\ helper' \in [Call -> BOOLEAN]
         /\ \A c \in Call : leader'[c] = "alive" => leader[c] = "alive" /\ c \notin C
         /\ \A c \in Call : leader'[c] = "none" <=> leader[c] = "none"
         /\ \A c \in Call : helper'[c] => helper[c] /\ c \notin C
BY DEF TypeOK, KillGroups

-----------------------------------------------------------------------------
(* Type correctness.                                                       *)

LEMMA TypeStep == TypeOK /\ [Next]_vars => TypeOK'
<1> SUFFICES ASSUME TypeOK, [Next]_vars PROVE TypeOK'
  OBVIOUS
<1>1. ASSUME NEW c \in Call, Fork(c) PROVE TypeOK'
  BY <1>1, TimeAssumption DEF Fork, TypeOK, group, guard, hard
<1>2. ASSUME NEW c \in Call, LeaderExits(c) PROVE TypeOK'
  BY <1>2, TimeAssumption DEF LeaderExits, TypeOK, group, guard, hard
<1>3. ASSUME NEW c \in Call, HelperExits(c) PROVE TypeOK'
  BY <1>3, TimeAssumption DEF HelperExits, TypeOK, group, guard, hard
<1>4. ASSUME NEW c \in Call, Spawn(c) PROVE TypeOK'
  BY <1>4, TimeAssumption DEF Spawn, TypeOK, group, guard, hard
<1>5. ASSUME NEW c \in Call, Register(c) PROVE TypeOK'
  BY <1>5, TimeAssumption DEF Register, StartWaiting, TypeOK, group, guard, hard
<1>6. ASSUME NEW c \in Call, FeedEnds(c) PROVE TypeOK'
  BY <1>6, TimeAssumption DEF FeedEnds, StartWaiting, TypeOK, group, guard, hard
<1>7. ASSUME NEW c \in Call, Reap(c) PROVE TypeOK'
  BY <1>7, TimeAssumption DEF Reap, Collected, TypeOK, group, guard, hard
<1>8. ASSUME NEW c \in Call, EarlyError(c) PROVE TypeOK'
  BY <1>8, TimeAssumption DEF EarlyError, Collected, TypeOK, group, guard, hard
<1>9. ASSUME NEW c \in Call, Deadline(c) PROVE TypeOK'
  BY <1>9, TimeAssumption DEF Deadline, Collected, TypeOK, group, guard, hard
<1>10. ASSUME NEW c \in Call, Return(c) PROVE TypeOK'
  BY <1>10, TimeAssumption DEF Return, TypeOK, group, guard, hard
<1>11. ASSUME NEW c \in Call, Drop(c) PROVE TypeOK'
  BY <1>11, TimeAssumption DEF Drop, TypeOK, group, guard, hard
<1>12. ASSUME NEW c \in Call, WatchTerm(c) PROVE TypeOK'
  BY <1>12, TimeAssumption DEF WatchTerm, TermDue, TypeOK, group, guard, hard
<1>13. ASSUME NEW c \in Call, WatchKill(c) PROVE TypeOK'
  BY <1>13, TimeAssumption, KillGroupsLemma DEF WatchKill, KillDue, TypeOK, group, guard, hard
<1>14. ASSUME Cancel PROVE TypeOK'
  BY <1>14, TimeAssumption DEF Cancel, TypeOK, group, guard, hard
<1>15. ASSUME HardCancel PROVE TypeOK'
  <2>1. killer' \in [armed : BOOLEAN, victims : SUBSET Call] /\ hardLeft' \in 0 .. Grace
    <3>1. CASE registry = {}
      BY <1>15, <3>1 DEF HardCancel, TypeOK, hard
    <3>2. CASE registry # {}
      <4>1. killer' = [armed |-> TRUE, victims |-> registry] /\ hardLeft' = Grace
        BY <1>15, <3>2 DEF HardCancel
      <4>2. registry \in SUBSET Call /\ Grace \in 0 .. Grace
        BY TimeAssumption DEF TypeOK
      <4> QED
        BY <4>1, <4>2
    <3> QED
      BY <3>1, <3>2
  <2> QED
    BY <1>15, <2>1 DEF HardCancel, TypeOK, group, guard, hard
<1>16. ASSUME HardKill PROVE TypeOK'
  BY <1>16, TimeAssumption, KillGroupsLemma DEF HardKill, TypeOK, group, guard, hard
<1>17. ASSUME Tick PROVE TypeOK'
  BY <1>17, TimeAssumption DEF Tick, Elapsed, Oldest, TypeOK, group, guard, hard
<1>18. CASE UNCHANGED vars
  BY <1>18 DEF TypeOK, vars, group, guard, hard
<1> QED
  BY <1>1, <1>2, <1>3, <1>4, <1>5, <1>6, <1>7, <1>8, <1>9, <1>10, <1>11, <1>12, <1>13, <1>14, <1>15, <1>16, <1>17, <1>18
     DEF Next, Process, Waiting, Watchdog

\* Type correctness: every variable of Sandbox keeps its type.
THEOREM TypeCorrect == Spec => []TypeOK
<1>1. Init => TypeOK
  <2> SUFFICES ASSUME Init PROVE TypeOK
    OBVIOUS
  <2>1. killer \in [armed : BOOLEAN, victims : SUBSET Call]
    <3>1. {} \in SUBSET Call
      OBVIOUS
    <3> QED
      BY <3>1 DEF Init
  <2>2. 0 \in 0 .. Oldest /\ 0 \in 0 .. Grace
    BY TimeAssumption DEF Oldest
  <2> QED
    BY <2>1, <2>2 DEF Init, TypeOK
<1> QED
  BY <1>1, TypeStep, PTL DEF Spec

-----------------------------------------------------------------------------
(* The registry.                                                           *)

LEMMA LeakStep == TypeOK /\ NoLeak /\ [Next]_vars => NoLeak'
<1> SUFFICES ASSUME TypeOK, NoLeak, [Next]_vars PROVE NoLeak'
  OBVIOUS
<1>1. ASSUME NEW c \in Call, Fork(c) PROVE NoLeak'
  BY <1>1 DEF Fork, TypeOK, NoLeak, group, guard, hard
<1>2. ASSUME NEW c \in Call, LeaderExits(c) PROVE NoLeak'
  BY <1>2 DEF LeaderExits, TypeOK, NoLeak, group, guard, hard
<1>3. ASSUME NEW c \in Call, HelperExits(c) PROVE NoLeak'
  BY <1>3 DEF HelperExits, TypeOK, NoLeak, group, guard, hard
<1>4. ASSUME NEW c \in Call, Spawn(c) PROVE NoLeak'
  BY <1>4 DEF Spawn, TypeOK, NoLeak, group, guard, hard
<1>5. ASSUME NEW c \in Call, Register(c) PROVE NoLeak'
  BY <1>5 DEF Register, StartWaiting, TypeOK, NoLeak, group, guard, hard
<1>6. ASSUME NEW c \in Call, FeedEnds(c) PROVE NoLeak'
  BY <1>6 DEF FeedEnds, StartWaiting, TypeOK, NoLeak, group, guard, hard
<1>7. ASSUME NEW c \in Call, Reap(c) PROVE NoLeak'
  BY <1>7 DEF Reap, Collected, TypeOK, NoLeak, group, guard, hard
<1>8. ASSUME NEW c \in Call, EarlyError(c) PROVE NoLeak'
  BY <1>8 DEF EarlyError, Collected, TypeOK, NoLeak, group, guard, hard
<1>9. ASSUME NEW c \in Call, Deadline(c) PROVE NoLeak'
  BY <1>9 DEF Deadline, Collected, TypeOK, NoLeak, group, guard, hard
<1>10. ASSUME NEW c \in Call, Return(c) PROVE NoLeak'
  BY <1>10 DEF Return, TypeOK, NoLeak, group, guard, hard
<1>11. ASSUME NEW c \in Call, Drop(c) PROVE NoLeak'
  BY <1>11 DEF Drop, TypeOK, NoLeak, group, guard, hard
<1>12. ASSUME NEW c \in Call, WatchTerm(c) PROVE NoLeak'
  BY <1>12 DEF WatchTerm, TermDue, TypeOK, NoLeak, group, guard, hard
<1>13. ASSUME NEW c \in Call, WatchKill(c) PROVE NoLeak'
  BY <1>13 DEF WatchKill, KillDue, TypeOK, NoLeak, group, guard, hard
<1>14. ASSUME Cancel PROVE NoLeak'
  BY <1>14 DEF Cancel, TypeOK, NoLeak, group, guard, hard
<1>15. ASSUME HardCancel PROVE NoLeak'
  BY <1>15 DEF HardCancel, TypeOK, NoLeak, group, guard, hard
<1>16. ASSUME HardKill PROVE NoLeak'
  BY <1>16 DEF HardKill, TypeOK, NoLeak, group, guard, hard
<1>17. ASSUME Tick PROVE NoLeak'
  BY <1>17 DEF Tick, Elapsed, Oldest, TypeOK, NoLeak, group, guard, hard
<1>18. CASE UNCHANGED vars
  BY <1>18 DEF NoLeak, vars, group, guard, hard
<1> QED
  BY <1>1, <1>2, <1>3, <1>4, <1>5, <1>6, <1>7, <1>8, <1>9, <1>10, <1>11, <1>12, <1>13, <1>14, <1>15, <1>16, <1>17, <1>18
     DEF Next, Process, Waiting, Watchdog

\* The registry of the Cancel handle holds the groups of the calls that wait for
\* their child and no other (Drop for RegisteredChild, process.rs:791).
THEOREM NoLeakCorrect == Spec => []NoLeak
<1>1. Init => NoLeak
  BY DEF Init, NoLeak
<1> QED
  BY <1>1, TypeCorrect, LeakStep, PTL DEF Spec

-----------------------------------------------------------------------------
(* The watchdogs.                                                          *)

LEMMA SoundStep == TypeOK /\ Sound /\ [Next]_vars => Sound'
<1> SUFFICES ASSUME TypeOK, Sound, [Next]_vars PROVE Sound'
  OBVIOUS
<1>1. ASSUME NEW c \in Call, Fork(c) PROVE Sound'
  BY <1>1, CallType, TimeAssumption DEF Fork, TypeOK, Sound, Stage, Timely, Alive, group, guard, hard
<1>2. ASSUME NEW c \in Call, LeaderExits(c) PROVE Sound'
  BY <1>2, CallType, TimeAssumption DEF LeaderExits, TypeOK, Sound, Stage, Timely, Alive, group, guard, hard
<1>3. ASSUME NEW c \in Call, HelperExits(c) PROVE Sound'
  BY <1>3, CallType, TimeAssumption DEF HelperExits, TypeOK, Sound, Stage, Timely, Alive, group, guard, hard
<1>4. ASSUME NEW c \in Call, Spawn(c) PROVE Sound'
  BY <1>4, CallType, TimeAssumption DEF Spawn, TypeOK, Sound, Stage, Timely, Alive, group, guard, hard
<1>5. ASSUME NEW c \in Call, Register(c) PROVE Sound'
  BY <1>5, CallType, TimeAssumption DEF Register, StartWaiting, TypeOK, Sound, Stage, Timely, Alive, group, guard, hard
<1>6. ASSUME NEW c \in Call, FeedEnds(c) PROVE Sound'
  BY <1>6, CallType, TimeAssumption DEF FeedEnds, StartWaiting, TypeOK, Sound, Stage, Timely, Alive, group, guard, hard
<1>7. ASSUME NEW c \in Call, Reap(c) PROVE Sound'
  BY <1>7, CallType, TimeAssumption DEF Reap, Collected, TypeOK, Sound, Stage, Timely, Alive, group, guard, hard
<1>8. ASSUME NEW c \in Call, EarlyError(c) PROVE Sound'
  BY <1>8, CallType, TimeAssumption DEF EarlyError, Collected, TypeOK, Sound, Stage, Timely, Alive, group, guard, hard
<1>9. ASSUME NEW c \in Call, Deadline(c) PROVE Sound'
  BY <1>9, CallType, TimeAssumption DEF Deadline, Collected, TypeOK, Sound, Stage, Timely, Alive, group, guard, hard
<1>10. ASSUME NEW c \in Call, Return(c) PROVE Sound'
  BY <1>10, CallType, TimeAssumption DEF Return, TypeOK, Sound, Stage, Timely, Alive, group, guard, hard
<1>11. ASSUME NEW c \in Call, Drop(c) PROVE Sound'
  BY <1>11, CallType, TimeAssumption DEF Drop, TypeOK, Sound, Stage, Timely, Alive, group, guard, hard
<1>12. ASSUME NEW c \in Call, WatchTerm(c) PROVE Sound'
  BY <1>12, CallType, TimeAssumption DEF WatchTerm, TermDue, TypeOK, Sound, Stage, Timely, Alive, group, guard, hard
<1>13. ASSUME NEW c \in Call, WatchKill(c) PROVE Sound'
  BY <1>13, CallType, TimeAssumption, KillGroupsLemma DEF WatchKill, KillDue, TypeOK, Sound, Stage, Timely, Alive, group, guard, hard
<1>14. ASSUME Cancel PROVE Sound'
  BY <1>14, CallType, TimeAssumption DEF Cancel, TypeOK, Sound, Stage, Timely, Alive, group, guard, hard
<1>15. ASSUME HardCancel PROVE Sound'
  BY <1>15, CallType, TimeAssumption DEF HardCancel, TypeOK, Sound, Stage, Timely, Alive, group, guard, hard
<1>16. ASSUME HardKill PROVE Sound'
  BY <1>16, CallType, TimeAssumption, KillGroupsLemma DEF HardKill, TypeOK, Sound, Stage, Timely, Alive, group, guard, hard
<1>17. ASSUME Tick PROVE Sound'
  BY <1>17, CallType, TimeAssumption DEF Tick, Elapsed, Oldest, TypeOK, Sound, Stage, Timely, Alive, group, guard, hard, Ready, TermDue, KillDue
<1>18. CASE UNCHANGED vars
  BY <1>18 DEF Sound, Stage, Timely, Alive, vars, group, guard, hard
<1> QED
  BY <1>1, <1>2, <1>3, <1>4, <1>5, <1>6, <1>7, <1>8, <1>9, <1>10, <1>11, <1>12, <1>13, <1>14, <1>15, <1>16, <1>17, <1>18
     DEF Next, Process, Waiting, Watchdog

LEMMA SoundCorrect == Spec => [](TypeOK /\ Sound)
<1>1. Init => Sound
  BY TimeAssumption DEF Init, Sound, Stage, Timely, Alive
<1> QED
  BY <1>1, TypeCorrect, SoundStep, PTL DEF Spec

\* No process of a call without stdin is alive once timeout and grace are over,
\* whatever it ignores and however the call ended (spawn_watchdog,
\* process.rs:835).
THEOREM BoundedCorrect == Spec => []Bounded
<1>1. TypeOK /\ Sound => Bounded
  BY CallType, TimeAssumption DEF Sound, Stage, Timely, Alive, Bounded
<1> QED
  BY <1>1, SoundCorrect, PTL

\* A call that waits for its helpers to close the pipes has a watchdog on its
\* way to kill them (run_in_with_limits, process.rs:1715-1720).
THEOREM WatchedCorrect == Spec => []Watched
<1>1. TypeOK /\ Sound => Watched
  BY CallType DEF Sound, Stage, Alive, Watched
<1> QED
  BY <1>1, SoundCorrect, PTL
=============================================================================
