--------------------------- MODULE RunLeaseProofs ---------------------------
(* Type correctness of RunLease and the safety of its rows, for every set  *)
(* of processes, every assignment of holder labels and every bound.        *)
EXTENDS RunLease, TLAPS

\* A renewal in flight read a fence that can still be advanced.
SnapRoom ==
  \A p \in Proc :
    (run[p] = "begun" \/ task[p] = "renewing") => snap[p].fence < MaxFence

IInv == TypeOK /\ SnapRoom

\* The write of an acquisition or of a renewal keeps the table well typed.
LEMMA WriteRowType ==
  ASSUME TypeOK, NEW p \in Proc, snap[p].fence < MaxFence, WriteRow(p)
  PROVE  /\ rows' \in [Holder -> Row \cup {NoRow}]
         /\ writer' \in [Holder -> Proc \cup {NoProc}]
<1> DEFINE new == [acq |-> snap[p].at, exp |-> snap[p].at + Ttl,
                   fence |-> snap[p].fence + 1]
<1>1. HolderOf[p] \in Holder
  BY HolderAssumption
<1>2. snap[p] \in Snap
  BY DEF TypeOK
<1>3. new \in Row
  BY <1>2, BoundAssumption DEF Snap, Row, Time
<1>4. CASE UNCHANGED <<rows, writer>>
  BY <1>4 DEF TypeOK
<1>5. CASE /\ rows' = [g \in Holder |-> IF g = HolderOf[p] THEN new
                                         ELSE IF g = snap[p].key THEN NoRow
                                         ELSE rows[g]]
           /\ writer' = [writer EXCEPT ![HolderOf[p]] = p]
  <2>1. writer' \in [Holder -> Proc \cup {NoProc}]
    BY <1>1, <1>5 DEF TypeOK
  <2>2. rows' \in [Holder -> Row \cup {NoRow}]
    BY <1>3, <1>5 DEF TypeOK
  <2>3. QED BY <2>1, <2>2
<1>6. QED BY <1>4, <1>5 DEF WriteRow

LEMMA TypeInductive == Init => IInv
BY BoundAssumption DEF Init, IInv, TypeOK, SnapRoom, RunState, TaskState,
   Guard, Snap, NoGuard, NoSnap

LEMMA TypeStep == IInv /\ [Next]_vars => IInv'
<1> SUFFICES ASSUME IInv, [Next]_vars PROVE IInv'
  OBVIOUS
<1> USE BoundAssumption DEF IInv, TypeOK, SnapRoom, RunState, TaskState
<1>1. CASE Tick
  BY <1>1 DEF Tick
<1>2. ASSUME NEW p \in Proc, AcquireSelect(p) PROVE IInv'
  <2>1. CASE Stored = {} /\ run' = [run EXCEPT ![p] = "begun"]
                         /\ snap' = [snap EXCEPT ![p] = [NoSnap EXCEPT !.at = now]]
    BY <1>2, <2>1 DEF AcquireSelect, Snap, NoSnap
  <2>2. CASE run' = [run EXCEPT ![p] = "failed"] /\ UNCHANGED snap
    BY <1>2, <2>2 DEF AcquireSelect
  <2>3. ASSUME NEW h \in Newest, rows[h].fence < MaxFence,
               snap' = [snap EXCEPT ![p] = SnapOf(h)],
               run' = [run EXCEPT ![p] = "begun"]
        PROVE  IInv'
    <3>1. SnapOf(h) \in Snap /\ SnapOf(h).fence < MaxFence
      BY <2>3 DEF Newest, Stored, SnapOf, Snap, Row
    <3>2. QED BY <1>2, <2>3, <3>1 DEF AcquireSelect
  <2>4. QED BY <1>2, <2>1, <2>2, <2>3 DEF AcquireSelect
<1>3. ASSUME NEW p \in Proc, AcquireWrite(p) PROVE IInv'
  <2>1. CASE run' = [run EXCEPT ![p] = "failed"]
             /\ UNCHANGED <<rows, writer, task, guard, handle>>
    BY <1>3, <2>1 DEF AcquireWrite, Snap, NoSnap
  <2>2. CASE /\ WriteRow(p)
             /\ guard' = [guard EXCEPT ![p] = [fence |-> snap[p].fence + 1, at |-> now]]
             /\ task' = [task EXCEPT ![p] = "live"]
             /\ handle' = [handle EXCEPT ![p] = TRUE]
             /\ run' = [run EXCEPT ![p] = "running"]
    <3>1. snap[p].fence < MaxFence /\ snap[p] \in Snap
      BY <1>3 DEF AcquireWrite
    <3>2. rows' \in [Holder -> Row \cup {NoRow}] /\ writer' \in [Holder -> Proc \cup {NoProc}]
      BY <2>2, <3>1, WriteRowType
    <3>3. guard' \in [Proc -> Guard]
      BY <2>2, <3>1 DEF Guard, Snap
    <3>4. snap' \in [Proc -> Snap] /\ snap' = [snap EXCEPT ![p] = NoSnap]
      BY <1>3 DEF AcquireWrite, Snap, NoSnap
    <3>5. SnapRoom'
      BY <2>2, <3>4 DEF NoSnap
    <3>6. QED BY <1>3, <2>2, <3>2, <3>3, <3>4, <3>5 DEF AcquireWrite
  <2>3. QED BY <1>3, <2>1, <2>2 DEF AcquireWrite
<1>4. ASSUME NEW p \in Proc, TickSelect(p) PROVE IInv'
  <2>1. PICK h \in Newest : /\ rows[h].fence < MaxFence
                            /\ snap' = [snap EXCEPT ![p] = SnapOf(h)]
    BY <1>4 DEF TickSelect
  <2>2. SnapOf(h) \in Snap /\ SnapOf(h).fence < MaxFence
    BY <2>1 DEF Newest, Stored, SnapOf, Snap, Row
  <2>3. QED BY <1>4, <2>1, <2>2 DEF TickSelect
<1>5. ASSUME NEW p \in Proc, TaskExit(p), UNCHANGED <<now, run, snap, clones, handle>>
      PROVE  IInv'
  <2>1. guard' \in [Proc -> Guard]
    BY <1>5 DEF TaskExit, Guard, NoGuard
  <2>2. rows' \in [Holder -> Row \cup {NoRow}]
    BY <1>5 DEF TaskExit, ReleaseRow
  <2>3. QED BY <1>5, <2>1, <2>2 DEF TaskExit, ReleaseRow
<1>6. ASSUME NEW p \in Proc, TickWrite(p) PROVE IInv'
  <2>1. snap[p].fence < MaxFence /\ snap[p] \in Snap
    BY <1>6 DEF TickWrite
  <2>2. rows' \in [Holder -> Row \cup {NoRow}] /\ writer' \in [Holder -> Proc \cup {NoProc}]
    BY <1>6, <2>1, WriteRowType DEF TickWrite
  <2>3. guard' \in [Proc -> Guard]
    BY <1>6, <2>1 DEF TickWrite, Guard, Snap
  <2>4. snap' \in [Proc -> Snap] /\ SnapRoom'
    BY <1>6 DEF TickWrite, Snap, NoSnap
  <2>5. QED BY <1>6, <2>2, <2>3, <2>4 DEF TickWrite
<1>7. ASSUME NEW p \in Proc, CloneContext(p) \/ DropClone(p) \/ FinishRun(p) \/ CancelRun(p)
      PROVE  IInv'
  <2>1. CASE CloneContext(p)
    BY <2>1 DEF CloneContext
  <2>2. CASE DropClone(p)
    <3>1. task' \in [Proc -> TaskState] /\ handle' \in [Proc -> BOOLEAN]
      BY <2>2 DEF DropClone, AbortHeartbeat
    <3>2. clones' \in [Proc -> 0 .. MaxClones]
      BY <2>2 DEF DropClone
    <3>3. SnapRoom'
      BY <2>2 DEF DropClone, AbortHeartbeat
    <3>4. QED BY <2>2, <3>1, <3>2, <3>3 DEF DropClone
  <2>3. CASE FinishRun(p)
    <3>1. task' \in [Proc -> TaskState] /\ handle' \in [Proc -> BOOLEAN]
      BY <2>3 DEF FinishRun, AbortHeartbeat
    <3>2. SnapRoom'
      BY <2>3 DEF FinishRun, AbortHeartbeat
    <3>3. QED BY <2>3, <3>1, <3>2 DEF FinishRun
  <2>4. CASE CancelRun(p)
    BY <2>4 DEF CancelRun
  <2>5. QED BY <1>7, <2>1, <2>2, <2>3, <2>4
<1>8. ASSUME NEW p \in Proc, Crash(p) PROVE IInv'
  BY <1>8 DEF Crash, Guard, NoGuard, Snap, NoSnap
<1>9. CASE UNCHANGED vars
  BY <1>9 DEF vars
<1>10. QED
  BY <1>1, <1>2, <1>3, <1>4, <1>5, <1>6, <1>7, <1>8, <1>9
     DEF Next, Heartbeat, TickStop, TaskDropped, TaskCancelled

\* The state of the lease protocol keeps its types: no renewal, abort or
\* crash leaves a row, guard or task the code could not represent.
THEOREM TypeCorrect == Spec => []TypeOK
<1>1. IInv => TypeOK
  BY DEF IInv
<1>2. QED BY <1>1, TypeInductive, TypeStep, PTL DEF Spec

-----------------------------------------------------------------------------

LEMMA OrphanStep == NoOrphanRow /\ TypeOK /\ [Next]_vars => NoOrphanRow'
<1> SUFFICES ASSUME NoOrphanRow, TypeOK, [Next]_vars,
                    NEW h \in Holder, rows'[h] # NoRow
             PROVE  \E p \in Proc : Answerable(p, h)'
  BY DEF NoOrphanRow
<1> USE DEF Answerable
<1>1. ASSUME NEW p \in Proc, WriteRow(p),
             task' \in [Proc -> TaskState], task'[p] \in {"live", "aborted"},
             \A q \in Proc \ {p} : task'[q] = task[q] /\ run'[q] = run[q],
             run[p] # "crashed" \/ run'[p] = run[p]
      PROVE  \E q \in Proc : Answerable(q, h)'
  <2>1. CASE HolderOf[p] = h
    BY <1>1, <2>1
  <2>2. CASE HolderOf[p] # h
    <3>1. rows[h] # NoRow
      BY <1>1, <2>2 DEF WriteRow, TypeOK
    <3>2. PICK q \in Proc : Answerable(q, h)
      BY <3>1 DEF NoOrphanRow
    <3>3. q # p
      BY <2>2, <3>2
    <3>4. QED BY <1>1, <3>2, <3>3
  <2>3. QED BY <2>1, <2>2
<1>2. ASSUME NEW p \in Proc, TaskExit(p), UNCHANGED run
      PROVE  \E q \in Proc : Answerable(q, h)'
  <2>1. h # HolderOf[p] /\ rows[h] # NoRow
    BY <1>2 DEF TaskExit, ReleaseRow, TypeOK
  <2>2. PICK q \in Proc : Answerable(q, h)
    BY <2>1 DEF NoOrphanRow
  <2>3. q # p
    BY <2>1, <2>2
  <2>4. QED BY <1>2, <2>2, <2>3 DEF TaskExit, TypeOK
<1>3. ASSUME UNCHANGED rows,
             \A q \in Proc :
               \/ task'[q] = task[q] \/ run'[q] = "crashed"
               \/ task'[q] \in {"live", "renewing", "aborted"},
             \A q \in Proc : run[q] = "crashed" => run'[q] = "crashed"
      PROVE  \E q \in Proc : Answerable(q, h)'
  <2>1. PICK q \in Proc : Answerable(q, h)
    BY <1>3 DEF NoOrphanRow
  <2>2. QED BY <1>3, <2>1
<1>4. CASE Tick \/ UNCHANGED vars
  BY <1>3, <1>4 DEF Tick, vars
<1>5. ASSUME NEW p \in Proc, AcquireSelect(p) PROVE \E q \in Proc : Answerable(q, h)'
  BY <1>3, <1>5 DEF AcquireSelect, TypeOK
<1>6. ASSUME NEW p \in Proc, AcquireWrite(p) PROVE \E q \in Proc : Answerable(q, h)'
  <2>1. CASE UNCHANGED <<rows, writer, task, guard, handle>>
    BY <1>3, <1>6, <2>1 DEF AcquireWrite, TypeOK
  <2>2. CASE WriteRow(p) /\ task' = [task EXCEPT ![p] = "live"]
    BY <1>1, <1>6, <2>2 DEF AcquireWrite, TypeOK, TaskState
  <2>3. QED BY <1>6, <2>1, <2>2 DEF AcquireWrite
<1>7. ASSUME NEW p \in Proc, TickSelect(p) PROVE \E q \in Proc : Answerable(q, h)'
  BY <1>3, <1>7 DEF TickSelect, TypeOK
<1>8. ASSUME NEW p \in Proc, TickWrite(p) PROVE \E q \in Proc : Answerable(q, h)'
  <2>1. task' = [task EXCEPT ![p] = "live"] \/ task' = [task EXCEPT ![p] = "aborted"]
    BY <1>8 DEF TickWrite
  <2>2. QED BY <1>1, <1>8, <2>1 DEF TickWrite, TypeOK, TaskState
<1>9. ASSUME NEW p \in Proc, CloneContext(p) \/ DropClone(p) \/ FinishRun(p) \/ CancelRun(p)
      PROVE  \E q \in Proc : Answerable(q, h)'
  BY <1>3, <1>9 DEF CloneContext, DropClone, FinishRun, CancelRun, AbortHeartbeat, TypeOK
<1>10. ASSUME NEW p \in Proc, Crash(p) PROVE \E q \in Proc : Answerable(q, h)'
  BY <1>3, <1>10 DEF Crash, TypeOK
<1>11. QED
  BY <1>2, <1>4, <1>5, <1>6, <1>7, <1>8, <1>9, <1>10
     DEF Next, Heartbeat, TickStop, TaskDropped, TaskCancelled

\* Whatever the number of processes and however their labels collide, a
\* lease row always has a live heartbeat or a crashed process behind it.
THEOREM NoOrphanRowCorrect == Spec => []NoOrphanRow
<1>1. Init => NoOrphanRow
  BY DEF Init, NoOrphanRow
<1>2. QED BY <1>1, OrphanStep, TypeCorrect, PTL DEF Spec
=============================================================================
