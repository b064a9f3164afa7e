------------------------------ MODULE RunLease ------------------------------
(***************************************************************************)
(* The lease of one run: the rows of `process_locks` that belong to it,    *)
(* the LeaseGuard of every process that executes the run, the heartbeat    *)
(* task that renews it and the RunContext clones whose Drop aborts that    *)
(* task.                                                                   *)
(*                                                                         *)
(* Every SQL statement of `Db::renew_lease` is a step of its own: the code *)
(* opens no transaction around its SELECT and its INSERT or UPDATE, and    *)
(* the one-connection pool serialises the statements of one process only.  *)
(***************************************************************************)
EXTENDS Integers, FiniteSets

CONSTANTS
  Proc,       \* processes that execute the run: the original, a resume, ...
  Holder,     \* lease holder labels, the second half of a row's key
  HolderOf,   \* the label each process passes to LeaseGuard::acquire
  Ttl,        \* lease time-to-live
  MaxTime,    \* bound on the clock
  MaxFence,   \* bound on the fence a renewal may reach
  MaxClones,  \* bound on the live RunContext clones of a process
  NoRow, NoProc

ASSUME HolderAssumption == HolderOf \in [Proc -> Holder]
ASSUME BoundAssumption ==
  /\ Ttl \in Nat \ {0}
  /\ MaxTime \in Nat
  /\ MaxFence \in Nat \ {0}
  /\ MaxClones \in Nat
ASSUME NullAssumption == NoRow \notin Holder /\ NoProc \notin Proc

VARIABLES
  now,     \* wall clock, seconds
  rows,    \* process_locks rows of the run, by holder label
  writer,  \* history: the process that last wrote each row
  run,     \* pipeline state of each process
  task,    \* heartbeat task of each process
  guard,   \* the LeaseGuard it owns
  snap,    \* what the SELECT of a renewal in flight returned
  clones,  \* live RunContext clones besides the main one
  handle   \* the heartbeat_handle slot is filled

vars == <<now, rows, writer, run, task, guard, snap, clones, handle>>

Time == 0 .. MaxTime + Ttl
Row == [acq : Time, exp : Time, fence : 1 .. MaxFence]
Guard == [fence : 0 .. MaxFence, at : 0 .. MaxTime]
Snap == [key : Holder \cup {NoRow}, fence : 0 .. MaxFence, at : 0 .. MaxTime]

NoGuard == [fence |-> 0, at |-> 0]
NoSnap == [key |-> NoRow, fence |-> 0, at |-> 0]

\* "begun": ensure_heartbeat is between the SELECT and the write of acquire.
RunState == {"idle", "begun", "running", "done", "failed", "crashed"}
\* "aborted": handle.abort() was called, the runtime has not dropped it yet.
TaskState == {"none", "live", "renewing", "aborted", "exited"}

TypeOK ==
  /\ now \in 0 .. MaxTime
  /\ rows \in [Holder -> Row \cup {NoRow}]
  /\ writer \in [Holder -> Proc \cup {NoProc}]
  /\ run \in [Proc -> RunState]
  /\ task \in [Proc -> TaskState]
  /\ guard \in [Proc -> Guard]
  /\ snap \in [Proc -> Snap]
  /\ clones \in [Proc -> 0 .. MaxClones]
  /\ handle \in [Proc -> BOOLEAN]

Init ==
  /\ now = 0
  /\ rows = [h \in Holder |-> NoRow]
  /\ writer = [h \in Holder |-> NoProc]
  /\ run = [p \in Proc |-> "idle"]
  /\ task = [p \in Proc |-> "none"]
  /\ guard = [p \in Proc |-> NoGuard]
  /\ snap = [p \in Proc |-> NoSnap]
  /\ clones = [p \in Proc |-> 0]
  /\ handle = [p \in Proc |-> FALSE]

-----------------------------------------------------------------------------
(* The statements of Db::renew_lease and Db::release_run_lease.            *)

Stored == {h \in Holder : rows[h] # NoRow}

\* SELECT ... WHERE holder LIKE '<run>|%' ORDER BY acquired_at DESC LIMIT 1.
Newest == {h \in Stored : \A g \in Stored : rows[g].acq <= rows[h].acq}

SnapOf(h) == [key |-> h, fence |-> rows[h].fence, at |-> now]

Active(h) == rows[h].exp > now

\* Mutant: the fence is not advanced.
WriteRow_SameFence(p) ==
  LET h == HolderOf[p]
      s == snap[p]
      new == [acq |-> s.at, exp |-> s.at + Ttl, fence |-> s.fence]
  IN /\ rows' = [rows EXCEPT ![h] = new]
     /\ writer' = [writer EXCEPT ![h] = p]

\* INSERT with fence 1, or UPDATE of the selected row to the caller's key.
\* The UPDATE changes nothing, and still succeeds, when the row has gone.
WriteRow(p) ==
  LET h == HolderOf[p]
      s == snap[p]
      new == [acq |-> s.at, exp |-> s.at + Ttl, fence |-> s.fence + 1]
  IN IF s.key # NoRow /\ rows[s.key] = NoRow
     THEN UNCHANGED <<rows, writer>>
     ELSE /\ rows' = [g \in Holder |-> IF g = h THEN new
                                       ELSE IF g = s.key THEN NoRow
                                       ELSE rows[g]]
          /\ writer' = [writer EXCEPT ![h] = p]

\* The statement would give two rows the primary key of p.
KeyTaken(p) ==
  LET h == HolderOf[p] IN
    /\ rows[h] # NoRow
    /\ snap[p].key # h
    /\ snap[p].key # NoRow => rows[snap[p].key] # NoRow

\* Mutant: a dropped guard keeps its row.
ReleaseRow_Kept(p) == UNCHANGED <<rows, writer>>

\* Drop for LeaseGuard: DELETE by key, whatever the fence.
ReleaseRow(p) ==
  /\ rows' = [rows EXCEPT ![HolderOf[p]] = NoRow]
  /\ UNCHANGED writer

-----------------------------------------------------------------------------
(* ensure_heartbeat and LeaseGuard::acquire.                               *)

AcquireSelect(p) ==
  /\ run[p] = "idle"
  /\ \/ /\ Stored = {}
        /\ snap' = [snap EXCEPT ![p] = [NoSnap EXCEPT !.at = now]]
        /\ run' = [run EXCEPT ![p] = "begun"]
     \/ \E h \in Newest :
          \/ /\ Active(h) /\ h # HolderOf[p]          \* LockHeld
             /\ run' = [run EXCEPT ![p] = "failed"]
             /\ UNCHANGED snap
          \/ /\ ~(Active(h) /\ h # HolderOf[p])
             /\ rows[h].fence < MaxFence
             /\ snap' = [snap EXCEPT ![p] = SnapOf(h)]
             /\ run' = [run EXCEPT ![p] = "begun"]
  /\ UNCHANGED <<now, rows, writer, task, guard, clones, handle>>

AcquireWrite(p) ==
  /\ run[p] = "begun"
  /\ \/ /\ KeyTaken(p)
        /\ run' = [run EXCEPT ![p] = "failed"]
        /\ UNCHANGED <<rows, writer, task, guard, handle>>
     \/ /\ ~KeyTaken(p)
        /\ WriteRow(p)
        /\ guard' = [guard EXCEPT ![p] = [fence |-> snap[p].fence + 1, at |-> now]]
        /\ task' = [task EXCEPT ![p] = "live"]
        /\ handle' = [handle EXCEPT ![p] = TRUE]
        /\ run' = [run EXCEPT ![p] = "running"]
  /\ snap' = [snap EXCEPT ![p] = NoSnap]
  /\ UNCHANGED <<now, clones>>

-----------------------------------------------------------------------------
(* The heartbeat task: one tick is is_expired, then LeaseGuard::renew.     *)

\* The task returns or is dropped, and its LeaseGuard with it.
TaskExit(p) ==
  /\ task' = [task EXCEPT ![p] = "exited"]
  /\ guard' = [guard EXCEPT ![p] = NoGuard]
  /\ ReleaseRow(p)

\* The expected fence is still the stored one and the row has not expired.
RenewAllowed(p, h) ==
  /\ h = HolderOf[p]
  /\ rows[h].fence = guard[p].fence
  /\ Active(h)

TickSelect(p) ==
  /\ task[p] = "live"
  /\ now - guard[p].at <= Ttl
  /\ \E h \in Newest :
       /\ RenewAllowed(p, h)
       /\ rows[h].fence < MaxFence
       /\ snap' = [snap EXCEPT ![p] = SnapOf(h)]
  /\ task' = [task EXCEPT ![p] = "renewing"]
  /\ UNCHANGED <<now, rows, writer, run, guard, clones, handle>>

\* The local TTL has elapsed, or the renewal answers LockHeld.
TickStop(p) ==
  /\ task[p] = "live"
  /\ \/ now - guard[p].at > Ttl
     \/ Stored = {}
     \/ \E h \in Newest : ~RenewAllowed(p, h)
  /\ TaskExit(p)
  /\ UNCHANGED <<now, run, snap, clones, handle>>

\* The write of a renewal; an abort that came in meanwhile takes effect at
\* the task's next await, so a task without its handle goes on to "aborted".
TickWrite(p) ==
  /\ task[p] = "renewing"
  /\ WriteRow(p)
  /\ guard' = [guard EXCEPT ![p] = [fence |-> snap[p].fence + 1, at |-> now]]
  /\ task' = [task EXCEPT ![p] = IF handle[p] THEN "live" ELSE "aborted"]
  /\ snap' = [snap EXCEPT ![p] = NoSnap]
  /\ UNCHANGED <<now, run, clones, handle>>

TaskDropped(p) ==
  /\ task[p] = "aborted"
  /\ TaskExit(p)
  /\ UNCHANGED <<now, run, snap, clones, handle>>

-----------------------------------------------------------------------------
(* RunContext: clones given to sub-agents, Drop, the end of the run.       *)

\* Mutant: the slot is cleared, the task is detached instead of aborted.
AbortHeartbeat_Detached(p) ==
  /\ handle' = [handle EXCEPT ![p] = FALSE]
  /\ UNCHANGED task

\* abort_heartbeat: take the handle out of the shared slot and abort it.
AbortHeartbeat(p) ==
  /\ handle' = [handle EXCEPT ![p] = FALSE]
  /\ task' = [task EXCEPT ![p] = IF handle[p] /\ @ = "live" THEN "aborted" ELSE @]

CloneContext(p) ==
  /\ run[p] = "running"
  /\ clones[p] < MaxClones
  /\ clones' = [clones EXCEPT ![p] = @ + 1]
  /\ UNCHANGED <<now, rows, writer, run, task, guard, snap, handle>>

DropClone(p) ==
  /\ clones[p] > 0
  /\ clones' = [clones EXCEPT ![p] = @ - 1]
  /\ AbortHeartbeat(p)
  /\ UNCHANGED <<now, rows, writer, run, guard, snap>>

\* The pipeline returned: the main context goes out of scope, the fan-out
\* that owned the clones has been joined.
FinishRun(p) ==
  /\ run[p] = "running"
  /\ clones[p] = 0
  /\ run' = [run EXCEPT ![p] = "done"]
  /\ AbortHeartbeat(p)
  /\ UNCHANGED <<now, rows, writer, guard, snap, clones>>

\* A phase or total timeout, or a signal, cancels the token the task selects on.
CancelRun(p) ==
  /\ run[p] = "running"
  /\ run' = [run EXCEPT ![p] = "failed"]
  /\ UNCHANGED <<now, rows, writer, task, guard, snap, clones, handle>>

TaskCancelled(p) ==
  /\ run[p] = "failed"
  /\ task[p] = "live"
  /\ TaskExit(p)
  /\ UNCHANGED <<now, run, snap, clones, handle>>

\* The process dies, or main reaches process::exit before the runtime dropped
\* the aborted task: the guard is not dropped, the row stays until taken over.
Crash(p) ==
  /\ run[p] \notin {"idle", "crashed"}
  /\ task[p] # "exited"
  /\ run' = [run EXCEPT ![p] = "crashed"]
  /\ task' = [task EXCEPT ![p] = "none"]
  /\ guard' = [guard EXCEPT ![p] = NoGuard]
  /\ snap' = [snap EXCEPT ![p] = NoSnap]
  /\ clones' = [clones EXCEPT ![p] = 0]
  /\ handle' = [handle EXCEPT ![p] = FALSE]
  /\ UNCHANGED <<now, rows, writer>>

Tick ==
  /\ now < MaxTime
  /\ now' = now + 1
  /\ UNCHANGED <<rows, writer, run, task, guard, snap, clones, handle>>

\* The steps the runtime takes by itself once they are enabled.
Heartbeat(p) ==
  \/ TickSelect(p) \/ TickStop(p) \/ TickWrite(p)
  \/ TaskDropped(p) \/ TaskCancelled(p)

Next ==
  \/ Tick
  \/ \E p \in Proc :
       \/ AcquireSelect(p) \/ AcquireWrite(p)
       \/ Heartbeat(p)
       \/ CloneContext(p) \/ DropClone(p)
       \/ FinishRun(p) \/ CancelRun(p) \/ Crash(p)

Spec == Init /\ [][Next]_vars

\* Tokio polls a task that has been aborted or whose token has fired, and a
\* SQL statement in flight returns.
FairSpec ==
  /\ Spec
  /\ \A p \in Proc : /\ WF_vars(TickWrite(p))
                     /\ WF_vars(TaskDropped(p))
                     /\ WF_vars(TaskCancelled(p))

-----------------------------------------------------------------------------
(* Properties.                                                             *)

\* p may still write or release the row of holder h, or died owning it.
Answerable(p, h) ==
  /\ HolderOf[p] = h
  /\ \/ task[p] \in {"live", "renewing", "aborted"}
     \/ run[p] = "crashed"

\* No lease row outlives the processes that could release it: the row of a
\* holder is there only while a process of that holder has a heartbeat task
\* with its guard, or has crashed (Drop for LeaseGuard, lease.rs).
NoOrphanRow ==
  \A h \in Holder : rows[h] # NoRow => \E p \in Proc : Answerable(p, h)

\* A renewal whose check passes renews the row its own process wrote: the
\* fence tells a stale process that its lease has been stolen (v008_add_ons.sql).
\* It does not hold: a release deletes the row and its fence (README, section 5).
TheftDetected ==
  [][\A p \in Proc : TickSelect(p) => writer[snap'[p].key] = p]_vars

\* Once the run has ended in a process, its heartbeat task ends and its guard
\* is dropped, whatever the task was doing (abort_heartbeat, heartbeat::spawn).
HeartbeatEnds ==
  \A p \in Proc :
    (run[p] \in {"done", "failed"}) ~> (task[p] \in {"none", "exited"})
=============================================================================
