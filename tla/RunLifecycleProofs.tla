------------------------- MODULE RunLifecycleProofs -------------------------
(* What any number of processes may do to one run, for every pipeline,     *)
(* clock and staleness threshold.                                          *)
EXTENDS RunLifecycle, TLAPS

\* A process resumes before the phase it is at; only one that is past the last
\* phase has a pipeline that returned Ok.
Sized(r) == r \in Process /\ r.from < r.next /\ (r.ok => r.next = N + 1)
            /\ (r.pc \in AtPhase => r.next \in Phase)

Shaped ==
  /\ TypeOK
  /\ \A p \in Proc : Sized(proc[p])

\* The types that one process's step can disturb.
LEMMA ProcStep ==
  ASSUME Shaped, NEW p \in Proc, NEW r, Sized(r),
         proc' = [proc EXCEPT ![p] = r]
  PROVE  /\ proc' \in [Proc -> Process]
         /\ \A q \in Proc : Sized(proc[q])'
         /\ \A q \in Proc :
              /\ proc'[q].pc \in AtPhase \cup {"ready"} => proc'[q].from < proc'[q].next
              /\ proc'[q].pc \in AtPhase => proc'[q].next \in Phase
  <1>1. r \in Process
    BY DEF Sized
  <1>2. proc' \in [Proc -> Process]
    BY <1>1 DEF Shaped, TypeOK
  <1>3. \A q \in Proc : proc'[q] = IF q = p THEN r ELSE proc[q]
    BY DEF Shaped, TypeOK
  <1>4. \A q \in Proc : Sized(proc'[q])
    BY <1>3 DEF Shaped
  <1> QED BY <1>2, <1>4 DEF Sized

\* The row a process writes is a row of the table.
LEMMA RecordShape ==
  ASSUME Shaped, NEW p \in Proc, proc[p].next \in Phase,
         NEW end \in Time \cup {None}, Record(p, end)
  PROVE  ends' \in [Phase \X Seq -> Time \cup {None}]
  <1>1. Sized(proc[p]) /\ ends \in [Phase \X Seq -> Time \cup {None}]
    BY DEF Shaped, TypeOK
  <1>2. proc[p].from \in 0 .. N /\ proc[p].next \in 1 .. N + 1 /\ proc[p].from < proc[p].next
    BY <1>1 DEF Sized, Process
  <1>3. Row(p) \in Phase \X Seq
    BY <1>2, PhaseAssumption DEF Row, Seq, Phase
  <1> QED BY <1>1, <1>3 DEF Record

\* The types that a step of no process leaves alone.
LEMMA StillShaped ==
  ASSUME Shaped, UNCHANGED proc
  PROVE  /\ proc' \in [Proc -> Process]
         /\ \A q \in Proc : Sized(proc[q])'
         /\ \A q \in Proc :
              /\ proc'[q].pc \in AtPhase \cup {"ready"} => proc'[q].from < proc'[q].next
              /\ proc'[q].pc \in AtPhase => proc'[q].next \in Phase
  BY DEF Shaped, TypeOK

LEMMA CommandSized ==
  ASSUME NEW step \in {"idle", "register", "stamp", "ready", "unpause"},
         NEW command \in Fresh \cup Resumed \cup {"none"},
         NEW cutoff \in 0 .. N, NEW loaded \in ManifestStatus
  PROVE  Sized(Command(step, command, cutoff, loaded))
  <1> DEFINE r == Command(step, command, cutoff, loaded)
  <1>1. r \in Process
    BY PhaseAssumption DEF Process, Command
  <1>2. r.from < r.next /\ r.pc \notin AtPhase /\ r.ok = FALSE
    BY PhaseAssumption DEF AtPhase, Command
  <1> HIDE DEF r
  <1>3. Sized(r)
    BY <1>1, <1>2 DEF Sized
  <1> QED BY <1>3 DEF r

LEMMA GotoShaped ==
  ASSUME Shaped, NEW p \in Proc,
         NEW step \in {"flip", "ready", "executing", "executed", "manifest", "status", "unpause"},
         step \in AtPhase => proc[p].next \in Phase
  PROVE  Sized([proc[p] EXCEPT !.pc = step])
  <1> DEFINE r == [proc[p] EXCEPT !.pc = step]
  <1>1. Sized(proc[p])
    BY DEF Shaped
  <1>2. r \in Process
    BY <1>1 DEF Sized, Process
  <1>3. r.pc = step /\ r.from = proc[p].from /\ r.next = proc[p].next /\ r.ok = proc[p].ok
    BY <1>1 DEF Sized, Process
  <1> HIDE DEF r
  <1>4. Sized(r)
    BY <1>1, <1>2, <1>3 DEF Sized
  <1> QED BY <1>4 DEF r

LEMMA ShapedInit == Init => Shaped
  <1> SUFFICES ASSUME Init PROVE Shaped
    OBVIOUS
  <1>1. Sized(Idle)
    BY CommandSized, PhaseAssumption DEF Idle, ManifestStatus
  <1>2. proc = [p \in Proc |-> Idle] /\ Idle \in Process
    BY <1>1 DEF Init, Sized
  <1>3. /\ proc \in [Proc -> Process]
        /\ \A p \in Proc : Sized(proc[p])
    BY <1>1, <1>2
  <1>4. ends \in [Phase \X Seq -> Time \cup {None}]
    BY DEF Init
  <1>5. now \in Time /\ updated \in Time
    BY TimeAssumption DEF Init, Time
  <1> QED BY <1>3, <1>4, <1>5 DEF Init, Shaped, TypeOK, ManifestStatus, Sized

\* What a step of process p has to keep, apart from its own record.
LEMMA StartShaped ==
  ASSUME Shaped, NEW p \in Proc, Start(p)
  PROVE  Shaped'
  <1> USE DEF ManifestStatus, SetStatus, Exists, run
  <1>1. CASE Run(p)
    <2>1. Sized(Command("ready", "run", 0, "none"))
      BY CommandSized, PhaseAssumption DEF Fresh
    <2>2. proc' = [proc EXCEPT ![p] = Command("ready", "run", 0, "none")]
      BY <1>1 DEF Run, Begin
    <2> QED BY <1>1, <2>1, <2>2, ProcStep DEF Run, Shaped, TypeOK
  <1>2. CASE RerunManifest(p)
    <2>1. Sized(Command("register", "rerun", 0, "none"))
      BY CommandSized, PhaseAssumption DEF Fresh
    <2>2. proc' = [proc EXCEPT ![p] = Command("register", "rerun", 0, "none")]
      BY <1>2 DEF RerunManifest, Begin
    <2> QED BY <1>2, <2>1, <2>2, ProcStep DEF RerunManifest, Shaped, TypeOK
  <1>3. CASE RerunRegister(p)
    <2>1. Sized([proc[p] EXCEPT !.pc = "flip"])
      BY GotoShaped DEF AtPhase
    <2>2. proc' = [proc EXCEPT ![p] = [proc[p] EXCEPT !.pc = "flip"]]
      BY <1>3 DEF RerunRegister, Goto
    <2> QED BY <1>3, <2>1, <2>2, ProcStep DEF RerunRegister, Shaped, TypeOK
  <1>4. CASE RerunFlip(p)
    <2>1. Sized([proc[p] EXCEPT !.pc = "ready"])
      BY GotoShaped DEF AtPhase
    <2>2. proc' = [proc EXCEPT ![p] = [proc[p] EXCEPT !.pc = "ready"]]
      BY <1>4 DEF RerunFlip, Goto
    <2> QED BY <1>4, <2>1, <2>2, ProcStep DEF RerunFlip, Shaped, TypeOK
  <1>5. CASE ContinueLoad(p)
    <2>1. Sized(Command("stamp", "none", 0, manifest))
      BY CommandSized, PhaseAssumption DEF Shaped, TypeOK
    <2>2. proc' = [proc EXCEPT ![p] = Command("stamp", "none", 0, manifest)]
      BY <1>5 DEF ContinueLoad
    <2> QED BY <1>5, <2>1, <2>2, ProcStep DEF ContinueLoad, Shaped, TypeOK
  <1>6. CASE ContinueStamp(p)
    <2>1. manifest' \in ManifestStatus
      <3>1. proc[p] \in Process
        BY DEF Shaped, TypeOK
      <3> QED BY <1>6, <3>1 DEF ContinueStamp, Process
    <2>2. PICK r : Sized(r) /\ proc' = [proc EXCEPT ![p] = r]
      <3>1. CASE \E c \in Phase : c < N /\ Begin(p, "continue", c, "ready")
        <4>1. PICK c \in Phase : Begin(p, "continue", c, "ready")
          BY <3>1
        <4>2. Sized(Command("ready", "continue", c, "none"))
          BY CommandSized, PhaseAssumption DEF Phase, Resumed
        <4> QED BY <4>1, <4>2 DEF Begin
      <3>2. CASE Leave(p)
        <4>1. Sized(Idle)
          BY CommandSized, PhaseAssumption DEF Idle
        <4> QED BY <3>2, <4>1 DEF Leave
      <3> QED BY <1>6, <3>1, <3>2 DEF ContinueStamp
    <2> QED BY <1>6, <2>1, <2>2, ProcStep DEF ContinueStamp, Shaped, TypeOK
  <1> QED BY <1>1, <1>2, <1>3, <1>4, <1>5, <1>6 DEF Start

LEMMA LeaveShaped ==
  ASSUME NEW p \in Proc, Leave(p)
  PROVE  \E r : Sized(r) /\ proc' = [proc EXCEPT ![p] = r]
  <1>1. Sized(Idle)
    BY CommandSized, PhaseAssumption DEF Idle, ManifestStatus
  <1> QED BY <1>1 DEF Leave

LEMMA PipelineShaped ==
  ASSUME Shaped, NEW p \in Proc, Pipeline(p)
  PROVE  Shaped'
  <1> USE DEF run
  <1>0. Sized(proc[p]) /\ proc[p] \in Process /\ now \in Time
    BY DEF Shaped, TypeOK
  <1>1. CASE PhaseStart(p)
    <2>1. proc[p].next \in Phase
      BY <1>0, <1>1 DEF PhaseStart, Process, Phase
    <2>2. Sized([proc[p] EXCEPT !.pc = "executing"])
      BY <2>1, GotoShaped
    <2>3. proc' = [proc EXCEPT ![p] = [proc[p] EXCEPT !.pc = "executing"]]
      BY <1>1 DEF PhaseStart, Goto
    <2>4. ends' \in [Phase \X Seq -> Time \cup {None}]
      BY <1>1, <2>1, RecordShape DEF PhaseStart
    <2> QED BY <1>1, <2>2, <2>3, <2>4, ProcStep DEF PhaseStart, Shaped, TypeOK
  <1>2. CASE PhaseWork(p)
    <2>1. proc[p].next \in Phase
      BY <1>0, <1>2 DEF PhaseWork, At, Sized, AtPhase
    <2>2. Sized([proc[p] EXCEPT !.pc = "executed"])
      BY <2>1, GotoShaped
    <2>3. proc' = [proc EXCEPT ![p] = [proc[p] EXCEPT !.pc = "executed"]]
      BY <1>2 DEF PhaseWork, Goto
    <2> QED BY <1>2, <2>1, <2>2, <2>3, ProcStep DEF PhaseWork, Shaped, TypeOK
  <1>3. CASE PhaseEnd(p)
    <2>1. proc[p].next \in Phase
      BY <1>0, <1>3 DEF PhaseEnd, At, Sized, AtPhase
    <2> DEFINE r == [proc[p] EXCEPT !.pc = "ready", !.next = @ + 1]
    <2>2. r \in Process
      <3>1. proc[p].next + 1 \in 1 .. N + 1
        BY <2>1, PhaseAssumption DEF Phase
      <3> QED BY <1>0, <3>1 DEF Process
    <2>3. r.pc = "ready" /\ r.next = proc[p].next + 1 /\ r.from = proc[p].from
          /\ r.ok = proc[p].ok
      BY <1>0 DEF Process
    <2>4. proc[p].next <= N /\ proc[p].from < proc[p].next + 1 /\ ~proc[p].ok
      BY <1>0, <2>1, PhaseAssumption DEF Sized, Phase, Process
    <2>5. proc' = [proc EXCEPT ![p] = r]
      BY <1>3 DEF PhaseEnd, Shaped, TypeOK
    <2> HIDE DEF r
    <2>6. Sized(r)
      BY <2>2, <2>3, <2>4 DEF Sized, AtPhase
    <2>7. ends' \in [Phase \X Seq -> Time \cup {None}]
      BY <1>0, <1>3, <2>1, RecordShape DEF PhaseEnd
    <2> QED BY <1>3, <2>5, <2>6, <2>7, ProcStep DEF PhaseEnd, Shaped, TypeOK
  <1>4. CASE PipelineEnds(p)
    <2> DEFINE r == [proc[p] EXCEPT !.pc = "manifest", !.ok = TRUE]
    <2>1. r \in Process
      BY <1>0 DEF Process
    <2>2. r.pc = "manifest" /\ r.next = proc[p].next /\ r.from = proc[p].from
      BY <1>0 DEF Process
    <2>3. proc[p].next = N + 1
      BY <1>4 DEF PipelineEnds
    <2>4. proc' = [proc EXCEPT ![p] = r]
      BY <1>4 DEF PipelineEnds, Shaped, TypeOK
    <2> HIDE DEF r
    <2>5. Sized(r)
      BY <1>0, <2>1, <2>2, <2>3 DEF Sized, AtPhase
    <2> QED BY <1>4, <2>4, <2>5, ProcStep DEF PipelineEnds, Shaped, TypeOK
  <1>5. CASE WriteManifest(p)
    <2>1. manifest' \in ManifestStatus
      BY <1>5 DEF WriteManifest, Outcome, ManifestStatus, Shaped, TypeOK
    <2>2. PICK r : Sized(r) /\ proc' = [proc EXCEPT ![p] = r]
      <3>1. Sized([proc[p] EXCEPT !.pc = "status"])
        BY GotoShaped DEF AtPhase
      <3> QED BY <1>5, <3>1, LeaveShaped DEF WriteManifest, Goto
    <2> QED BY <1>5, <2>1, <2>2, ProcStep DEF WriteManifest, Shaped, TypeOK
  <1>6. CASE WriteStatus(p)
    <2>1. PICK r : Sized(r) /\ proc' = [proc EXCEPT ![p] = r]
      <3>1. Sized([proc[p] EXCEPT !.pc = "unpause"])
        BY GotoShaped DEF AtPhase
      <3> QED BY <1>6, <3>1, LeaveShaped DEF WriteStatus, Goto
    <2>2. /\ status' \in {"none", "created", "running", "completed", "failed", "interrupted"}
          /\ updated' \in Time
      BY <1>6 DEF WriteStatus, SetStatus, Outcome, Shaped, TypeOK
    <2> QED BY <1>6, <2>1, <2>2, ProcStep DEF WriteStatus, Shaped, TypeOK
  <1> QED BY <1>1, <1>2, <1>3, <1>4, <1>5, <1>6 DEF Pipeline

LEMMA TroubleShaped ==
  ASSUME Shaped, NEW p \in Proc, Trouble(p)
  PROVE  Shaped'
  <1> USE DEF run
  <1>1. Sized([proc[p] EXCEPT !.pc = "manifest"])
    BY GotoShaped DEF AtPhase
  <1>2. GiveUp(p) => \E r : Sized(r) /\ proc' = [proc EXCEPT ![p] = r]
    BY <1>1, LeaveShaped DEF GiveUp, Goto
  <1>3. CASE PhaseError(p)
    <2>1. proc[p].next \in Phase
      BY <1>3 DEF PhaseError, Shaped, Sized
    <2>2. ends' \in [Phase \X Seq -> Time \cup {None}]
      BY <1>3, <2>1, RecordShape DEF PhaseError
    <2>3. PICK r : Sized(r) /\ proc' = [proc EXCEPT ![p] = r]
      BY <1>2, <1>3 DEF PhaseError
    <2> QED BY <1>3, <2>2, <2>3, ProcStep DEF PhaseError, Shaped, TypeOK
  <1>4. CASE StartError(p)
    <2>1. PICK r : Sized(r) /\ proc' = [proc EXCEPT ![p] = r]
      BY <1>2, <1>4 DEF StartError
    <2> QED BY <1>4, <2>1, ProcStep DEF StartError, Shaped, TypeOK
  <1>5. CASE Crash(p)
    <2>1. PICK r : Sized(r) /\ proc' = [proc EXCEPT ![p] = r]
      BY <1>5, LeaveShaped DEF Crash
    <2> QED BY <1>5, <2>1, ProcStep DEF Crash, Shaped, TypeOK
  <1> QED BY <1>3, <1>4, <1>5 DEF Trouble

LEMMA OthersShaped ==
  ASSUME Shaped,
         \/ Tick \/ Pause \/ Sweep \/ UNCHANGED vars
         \/ \E p \in Proc : Unpause(p) \/ ClearPause(p)
         \/ \E c \in Phase : PauseAt(c)
  PROVE  Shaped'
  <1> USE DEF run
  <1>1. CASE Tick
    <2>1. now' \in Time
      BY <1>1, TimeAssumption DEF Tick, Time, Shaped, TypeOK
    <2> QED BY <1>1, <2>1, StillShaped DEF Tick, Shaped, TypeOK
  <1>2. CASE Pause
    <2>1. paused' \in Phase
      BY <1>2, PhaseAssumption DEF Pause, Phase
    <2> QED BY <1>2, <2>1, StillShaped DEF Pause, Shaped, TypeOK
  <1>3. CASE \E c \in Phase : PauseAt(c)
    BY <1>3, StillShaped DEF PauseAt, Shaped, TypeOK
  <1>4. CASE ListZombies
    BY <1>4, StillShaped DEF ListZombies, Shaped, TypeOK
  <1>5. CASE FlipZombie
    BY <1>5, StillShaped DEF FlipZombie, SetStatus, Shaped, TypeOK
  <1>6. CASE EmitZombie
    BY <1>6, StillShaped DEF EmitZombie, Shaped, TypeOK
  <1>7. CASE SweepDies
    BY <1>7, StillShaped DEF SweepDies, Shaped, TypeOK
  <1>8. CASE UNCHANGED vars
    BY <1>8, StillShaped DEF vars, Shaped, TypeOK
  <1>9. ASSUME NEW p \in Proc, Unpause(p) PROVE Shaped'
    <2>1. paused \in 0 .. N
      BY <1>9, PhaseAssumption DEF Unpause, Shaped, TypeOK, Phase
    <2>2. PICK step \in {"ready", "unpause"} : Begin(p, "from_pause", paused, step)
      BY <1>9 DEF Unpause
    <2>3. Sized(Command(step, "from_pause", paused, "none"))
      BY <2>1, CommandSized DEF Resumed, ManifestStatus
    <2> QED BY <1>9, <2>2, <2>3, ProcStep DEF Unpause, Begin, Shaped, TypeOK
  <1>10. ASSUME NEW p \in Proc, ClearPause(p) PROVE Shaped'
    <2>1. PICK r : Sized(r) /\ proc' = [proc EXCEPT ![p] = r]
      BY <1>10, LeaveShaped DEF ClearPause
    <2> QED BY <1>10, <2>1, ProcStep DEF ClearPause, Shaped, TypeOK
  <1> QED BY <1>1, <1>2, <1>3, <1>4, <1>5, <1>6, <1>7, <1>8, <1>9, <1>10 DEF Sweep

LEMMA ShapedStep == Shaped /\ [Next]_vars => Shaped'
  BY StartShaped, PipelineShaped, TroubleShaped, OthersShaped DEF Next, Session, Pausing

\* Everything the run's files, rows and processes hold stays within its types,
\* whatever an operator pauses or continues: a process writes only rows of the
\* phases table, and stops after the last phase.
THEOREM TypeCorrect == Spec => []TypeOK
  <1>1. Shaped => TypeOK
    BY DEF Shaped
  <1> QED BY <1>1, ShapedInit, ShapedStep, PTL DEF Spec

-----------------------------------------------------------------------------
(* A run paused with care (PatientSpec): every position that a process can  *)
(* resume from has the artefacts of every phase up to it.                   *)

Backed(r) ==
  /\ Sound(r.next - 1)
  /\ r.pc = "executed" => Sound(r.next)

Grounded ==
  /\ \A x \in Ended : Sound(x[1])
  /\ paused # None => Sound(paused)
  /\ \A p \in Proc : Backed(proc[p])

Inductive == Shaped /\ Grounded

\* The artefacts only grow, so what they ground stays grounded.
LEMMA DoneGrows ==
  ASSUME done \subseteq done', NEW c, Sound(c)
  PROVE  Sound(c)'
  BY DEF Sound

LEMMA CommandBacked ==
  ASSUME NEW step, step # "executed", NEW command, NEW loaded,
         NEW cutoff \in 0 .. N, cutoff > 0 => Sound(cutoff)
  PROVE  Backed(Command(step, command, cutoff, loaded))
  <1>1. cutoff + 1 - 1 = cutoff
    BY PhaseAssumption
  <1>2. Sound(cutoff)
    BY PhaseAssumption DEF Sound
  <1> QED BY <1>1, <1>2 DEF Backed, Command

LEMMA IdleBacked == Backed(Idle)
  BY CommandBacked, PhaseAssumption DEF Idle

LEMMA GroundedInit == Init => Grounded
  <1> SUFFICES ASSUME Init PROVE Grounded
    OBVIOUS
  <1>1. Ended = {}
    BY DEF Init, Ended
  <1>2. Backed(Idle)
    BY IdleBacked
  <1>3. \A p \in Proc : proc[p] = Idle
    BY DEF Init
  <1> QED BY <1>1, <1>2, <1>3 DEF Init, Grounded

\* The rows: a phase is recorded as ended only after its artefacts.
LEMMA RecordGrounded ==
  ASSUME Inductive, NEW p \in Proc, proc[p].next \in Phase, done \subseteq done',
         NEW end \in Time \cup {None}, Record(p, end),
         end # None => Sound(proc[p].next)
  PROVE  \A x \in Ended' : Sound(x[1])'
  <1> SUFFICES ASSUME NEW x \in Ended' PROVE Sound(x[1])'
    OBVIOUS
  <1>1. ends \in [Phase \X Seq -> Time \cup {None}]
    BY DEF Inductive, Shaped, TypeOK
  <1>2. x \in Phase \X Seq /\ ends'[x] # None
    BY DEF Ended
  <1>3. CASE ends' = ends \/ x # Row(p)
    <2>1. x \in Ended
      BY <1>1, <1>2, <1>3 DEF Ended, Record
    <2> QED BY <2>1, DoneGrows DEF Inductive, Grounded
  <1>4. CASE ends' # ends /\ x = Row(p)
    <2>1. end # None
      BY <1>1, <1>2, <1>4 DEF Record
    <2>2. x[1] = proc[p].next
      BY <1>4 DEF Row
    <2> QED BY <2>1, <2>2, DoneGrows
  <1> QED BY <1>3, <1>4

\* One process's step.
LEMMA ProcGrounded ==
  ASSUME Inductive, NEW p \in Proc, NEW r, Backed(r), done \subseteq done',
         proc' = [proc EXCEPT ![p] = r]
  PROVE  \A q \in Proc : Backed(proc[q])'
  <1> SUFFICES ASSUME NEW q \in Proc PROVE Backed(proc[q])'
    OBVIOUS
  <1>1. proc'[q] = IF q = p THEN r ELSE proc[q]
    BY DEF Inductive, Shaped, TypeOK
  <1>2. Backed(proc'[q])
    BY <1>1 DEF Inductive, Grounded
  <1> QED BY <1>2, DoneGrows DEF Backed

LEMMA LeaveGrounded ==
  ASSUME NEW p \in Proc, Leave(p)
  PROVE  \E r : Backed(r) /\ proc' = [proc EXCEPT ![p] = r]
  BY IdleBacked DEF Leave

LEMMA GotoGrounded ==
  ASSUME Inductive, NEW p \in Proc, NEW step, Goto(p, step), step # "executed"
  PROVE  \E r : Backed(r) /\ proc' = [proc EXCEPT ![p] = r]
  <1> DEFINE r == [proc[p] EXCEPT !.pc = step]
  <1>1. proc[p] \in Process /\ Backed(proc[p])
    BY DEF Inductive, Shaped, TypeOK, Grounded
  <1>2. r.pc = step /\ r.next = proc[p].next
    BY <1>1 DEF Process
  <1>3. Backed(r)
    BY <1>1, <1>2 DEF Backed
  <1> QED BY <1>3 DEF Goto

LEMMA StartGrounded ==
  ASSUME Inductive, NEW p \in Proc, Start(p)
  PROVE  Grounded'
  <1>1. UNCHANGED <<ends, done, paused>>
    BY DEF Start, Run, RerunManifest, RerunRegister, RerunFlip, ContinueLoad, ContinueStamp
  <1>2. PICK r : Backed(r) /\ proc' = [proc EXCEPT ![p] = r]
    <2>1. CASE Run(p) \/ RerunManifest(p)
      <3>1. PICK step \in {"ready", "register"}, command \in Fresh : Begin(p, command, 0, step)
        BY <2>1 DEF Run, RerunManifest, Fresh
      <3>2. Backed(Command(step, command, 0, "none"))
        BY CommandBacked, PhaseAssumption
      <3> QED BY <3>1, <3>2 DEF Begin
    <2>2. CASE RerunRegister(p) \/ RerunFlip(p)
      BY <2>2, GotoGrounded DEF RerunRegister, RerunFlip
    <2>3. CASE ContinueLoad(p)
      <3>1. Backed(Command("stamp", "none", 0, manifest))
        BY CommandBacked, PhaseAssumption
      <3> QED BY <2>3, <3>1 DEF ContinueLoad
    <2>4. CASE ContinueStamp(p)
      <3>1. CASE \E c \in Phase : LastCompleted(c) /\ Begin(p, "continue", c, "ready")
        <4>1. PICK c \in Phase : LastCompleted(c) /\ Begin(p, "continue", c, "ready")
          BY <3>1
        <4>2. Sound(c)
          BY <4>1 DEF LastCompleted, Latest, Inductive, Grounded
        <4>3. Backed(Command("ready", "continue", c, "none"))
          BY <4>2, CommandBacked, PhaseAssumption DEF Phase
        <4> QED BY <4>1, <4>3 DEF Begin
      <3>2. CASE Leave(p)
        BY <3>2, LeaveGrounded
      <3> QED BY <2>4, <3>1, <3>2 DEF ContinueStamp
    <2> QED BY <2>1, <2>2, <2>3, <2>4 DEF Start
  <1>3. \A q \in Proc : Backed(proc[q])'
    BY <1>1, <1>2, ProcGrounded
  <1> QED BY <1>1, <1>3 DEF Inductive, Grounded, Ended, Sound

LEMMA PipelineGrounded ==
  ASSUME Inductive, NEW p \in Proc, Pipeline(p)
  PROVE  Grounded'
  <1>0. /\ Sized(proc[p]) /\ proc[p] \in Process /\ Backed(proc[p])
        /\ now \in Time /\ paused \in Phase \cup {None}
    BY DEF Inductive, Shaped, TypeOK, Grounded
  <1>1. CASE PhaseStart(p)
    <2>1. proc[p].next \in Phase
      BY <1>0, <1>1 DEF PhaseStart, Process, Phase
    <2>2. \A x \in Ended' : Sound(x[1])'
      BY <1>1, <2>1, RecordGrounded DEF PhaseStart
    <2>3. PICK r : Backed(r) /\ proc' = [proc EXCEPT ![p] = r]
      BY <1>1, GotoGrounded DEF PhaseStart
    <2>4. \A q \in Proc : Backed(proc[q])'
      BY <1>1, <2>3, ProcGrounded DEF PhaseStart
    <2> QED BY <1>1, <2>2, <2>4 DEF PhaseStart, Inductive, Grounded, Sound
  <1>2. CASE PhaseWork(p)
    <2>1. done \subseteq done' /\ proc[p].next \in Phase
      BY <1>0, <1>2 DEF PhaseWork, At, Sized, AtPhase
    <2>2. 1 .. proc[p].next \subseteq done'
      BY <1>0, <1>2, <2>1, PhaseAssumption DEF PhaseWork, Backed, Sound, Phase
    <2>3. \A q \in Proc : Backed(proc[q])'
      <3> DEFINE r == [proc[p] EXCEPT !.pc = "executed"]
      <3> SUFFICES ASSUME NEW q \in Proc PROVE Backed(proc[q])'
        OBVIOUS
      <3>1. CASE q = p
        <4>1. proc'[p] = r
          BY <1>0, <1>2 DEF PhaseWork, Goto, Inductive, Shaped, TypeOK
        <4>2. proc'[p].next = proc[p].next
          BY <1>0, <4>1 DEF Process
        <4>3. 1 .. proc[p].next - 1 \subseteq done'
          BY <1>0, <2>1 DEF Backed, Sound
        <4> QED BY <3>1, <4>2, <4>3, <2>2 DEF Backed, Sound
      <3>2. CASE q # p
        <4>1. proc'[q] = proc[q] /\ Backed(proc[q])
          BY <1>2, <3>2 DEF PhaseWork, Goto, Inductive, Shaped, TypeOK, Grounded
        <4> QED BY <2>1, <4>1, DoneGrows DEF Backed
      <3> QED BY <3>1, <3>2
    <2>4. Ended' = Ended
      BY <1>2 DEF PhaseWork, Ended
    <2> QED BY <1>2, <2>1, <2>3, <2>4, DoneGrows DEF PhaseWork, Inductive, Grounded
  <1>3. CASE PhaseEnd(p)
    <2>1. proc[p].next \in Phase /\ Sound(proc[p].next)
      BY <1>0, <1>3 DEF PhaseEnd, At, Sized, AtPhase, Backed
    <2>2. \A x \in Ended' : Sound(x[1])'
      BY <1>0, <1>3, <2>1, RecordGrounded DEF PhaseEnd
    <2> DEFINE r == [proc[p] EXCEPT !.pc = "ready", !.next = @ + 1]
    <2>3. r.pc = "ready" /\ r.next - 1 = proc[p].next
      BY <1>0, <2>1, PhaseAssumption DEF Process, Phase
    <2>4. proc' = [proc EXCEPT ![p] = r]
      BY <1>3 DEF PhaseEnd, Inductive, Shaped, TypeOK
    <2> HIDE DEF r
    <2>5. Backed(r)
      BY <2>1, <2>3 DEF Backed
    <2>6. \A q \in Proc : Backed(proc[q])'
      BY <1>3, <2>4, <2>5, ProcGrounded DEF PhaseEnd
    <2> QED BY <1>3, <2>2, <2>6 DEF PhaseEnd, Inductive, Grounded, Sound
  <1>4. CASE PipelineEnds(p)
    <2> DEFINE r == [proc[p] EXCEPT !.pc = "manifest", !.ok = TRUE]
    <2>1. r.pc = "manifest" /\ r.next = proc[p].next
      BY <1>0 DEF Process
    <2>2. proc' = [proc EXCEPT ![p] = r]
      BY <1>4 DEF PipelineEnds, Inductive, Shaped, TypeOK
    <2> HIDE DEF r
    <2>3. Backed(r)
      BY <1>0, <2>1 DEF Backed
    <2>4. \A q \in Proc : Backed(proc[q])'
      BY <1>4, <2>2, <2>3, ProcGrounded DEF PipelineEnds
    <2> QED BY <1>4, <2>4 DEF PipelineEnds, Inductive, Grounded, Ended, Sound
  <1>5. CASE WriteManifest(p) \/ WriteStatus(p)
    <2>1. PICK r : Backed(r) /\ proc' = [proc EXCEPT ![p] = r]
      BY <1>5, LeaveGrounded, GotoGrounded DEF WriteManifest, WriteStatus
    <2>2. UNCHANGED <<ends, done, paused>>
      BY <1>5 DEF WriteManifest, WriteStatus
    <2>3. \A q \in Proc : Backed(proc[q])'
      BY <2>1, <2>2, ProcGrounded
    <2> QED BY <2>2, <2>3 DEF Inductive, Grounded, Ended, Sound
  <1> QED BY <1>1, <1>2, <1>3, <1>4, <1>5 DEF Pipeline

LEMMA TroubleGrounded ==
  ASSUME Inductive, NEW p \in Proc, Trouble(p)
  PROVE  Grounded'
  <1>1. PICK r : Backed(r) /\ proc' = [proc EXCEPT ![p] = r]
    BY LeaveGrounded, GotoGrounded DEF Trouble, PhaseError, StartError, Crash, GiveUp
  <1>2. UNCHANGED <<done, paused>>
    BY DEF Trouble, PhaseError, StartError, Crash
  <1>3. \A q \in Proc : Backed(proc[q])'
    BY <1>1, <1>2, ProcGrounded
  <1>4. \A x \in Ended' : Sound(x[1])'
    <2>1. CASE PhaseError(p)
      <3>1. proc[p].next \in Phase
        BY <2>1 DEF PhaseError, Inductive, Shaped, Sized
      <3> QED BY <1>2, <2>1, <3>1, RecordGrounded DEF PhaseError
    <2>2. CASE UNCHANGED ends
      BY <1>2, <2>2 DEF Inductive, Grounded, Ended, Sound
    <2> QED BY <2>1, <2>2 DEF Trouble, StartError, Crash
  <1> QED BY <1>2, <1>3, <1>4 DEF Inductive, Grounded, Sound

\* The operator's care is what grounds the pause file.
LEMMA OthersGrounded ==
  ASSUME Inductive,
         \/ Tick \/ Sweep \/ UNCHANGED vars \/ (Ended # {} /\ Pause)
         \/ \E p \in Proc : Unpause(p) \/ ClearPause(p)
         \/ \E c \in Phase : Sound(c) /\ PauseAt(c)
  PROVE  Grounded'
  <1> USE DEF Inductive, Grounded, Ended, Sound, Backed
  <1>1. CASE Tick \/ Sweep \/ UNCHANGED vars
    BY <1>1 DEF Tick, Sweep, ListZombies, FlipZombie, EmitZombie, SweepDies, vars
  <1>2. CASE Ended # {} /\ Pause
    <2>1. PICK c \in Phase : LastCompleted(c) /\ paused' = c
      BY <1>2 DEF Pause
    <2>2. Sound(c)
      BY <2>1 DEF LastCompleted, Latest
    <2> QED BY <1>2, <2>1, <2>2 DEF Pause
  <1>3. ASSUME NEW c \in Phase, Sound(c), PauseAt(c) PROVE Grounded'
    BY <1>3 DEF PauseAt
  <1>4. ASSUME NEW p \in Proc, Unpause(p) PROVE Grounded'
    <2>1. PICK step \in {"ready", "unpause"} : Begin(p, "from_pause", paused, step)
      BY <1>4 DEF Unpause
    <2>2. paused \in 0 .. N /\ Sound(paused)
      BY <1>4, PhaseAssumption DEF Unpause, Shaped, TypeOK, Phase
    <2>3. Backed(Command(step, "from_pause", paused, "none"))
      BY <2>2, CommandBacked
    <2>4. proc' = [proc EXCEPT ![p] = Command(step, "from_pause", paused, "none")]
      BY <2>1 DEF Begin
    <2>5. \A q \in Proc : Backed(proc[q])'
      BY <1>4, <2>3, <2>4, ProcGrounded DEF Unpause
    <2> QED BY <1>4, <2>5 DEF Unpause
  <1>5. ASSUME NEW p \in Proc, ClearPause(p) PROVE Grounded'
    <2>1. PICK r : Backed(r) /\ proc' = [proc EXCEPT ![p] = r]
      BY <1>5, LeaveGrounded DEF ClearPause
    <2>2. \A q \in Proc : Backed(proc[q])'
      BY <1>5, <2>1, ProcGrounded DEF ClearPause
    <2> QED BY <1>5, <2>2 DEF ClearPause
  <1> QED BY <1>1, <1>2, <1>3, <1>4, <1>5

LEMMA InductiveStep == Inductive /\ [PatientNext]_vars => Inductive'
  <1> SUFFICES ASSUME Inductive, [PatientNext]_vars PROVE Inductive'
    OBVIOUS
  <1>1. [Next]_vars
    BY DEF PatientNext, Next, Pausing
  <1>2. Shaped'
    BY <1>1, ShapedStep DEF Inductive
  <1>3. Grounded'
    <2>1. CASE Session
      BY <2>1, StartGrounded, PipelineGrounded, TroubleGrounded DEF Session
    <2>2. CASE ~Session
      <3>1. \/ Tick \/ Sweep \/ UNCHANGED vars \/ (Ended # {} /\ Pause)
            \/ \E p \in Proc : Unpause(p) \/ ClearPause(p)
            \/ \E c \in Phase : Sound(c) /\ PauseAt(c)
        BY <2>2 DEF PatientNext
      <3> QED BY <3>1, OthersGrounded
    <2> QED BY <2>1, <2>2
  <1> QED BY <1>2, <1>3 DEF Inductive

LEMMA InductiveInit == Init => Inductive
  BY ShapedInit, GroundedInit DEF Inductive

\* A run that is paused with care never executes a phase before every phase it
\* builds on has left its artefacts, for any pipeline length, any number of
\* processes on it at once and any pattern of crashes and lost index rows.
THEOREM InOrderCorrect == PatientSpec => []InOrder
  <1>1. Inductive => InOrder
    BY DEF Inductive, Grounded, Backed, InOrder, Sound
  <1> QED BY <1>1, InductiveInit, InductiveStep, PTL DEF PatientSpec

\* One step of the run is a step of what it promises, or none.
LEMMA StepKeepsPromise ==
  ASSUME Inductive, [PatientNext]_vars
  PROVE  [Progress!Next]_<<done, status>>
  <1> USE DEF Progress!Next, Progress!Phase, Phase
  <1>1. ASSUME NEW p \in Proc, Start(p) PROVE [Progress!Next]_<<done, status>>
    BY <1>1 DEF Start, Run, RerunManifest, RerunRegister, RerunFlip, ContinueLoad,
                ContinueStamp, SetStatus, run, Progress!Conclude
  <1>2. ASSUME NEW p \in Proc, PhaseWork(p) PROVE [Progress!Next]_<<done, status>>
    <2>1. proc[p].next \in Phase /\ Sound(proc[p].next - 1)
      BY <1>2 DEF PhaseWork, At, AtPhase, Inductive, Shaped, Sized, Grounded, Backed
    <2> QED BY <1>2, <2>1 DEF PhaseWork, run, Sound, Progress!Finish
  <1>3. ASSUME NEW p \in Proc, WriteStatus(p) PROVE [Progress!Next]_<<done, status>>
    <2>1. CASE proc[p].ok
      <3>1. proc[p].next = N + 1 /\ Sound(proc[p].next - 1)
        BY <2>1 DEF Inductive, Shaped, Sized, Grounded, Backed
      <3>2. done = Phase
        <4>1. proc[p].next - 1 = N
          BY <3>1, PhaseAssumption
        <4> QED BY <3>1, <4>1 DEF Sound, Inductive, Shaped, TypeOK
      <3> QED BY <1>3, <3>2 DEF WriteStatus, Progress!Conclude
    <2>2. CASE ~proc[p].ok
      BY <1>3, <2>2 DEF WriteStatus, SetStatus, Outcome, run, Progress!Conclude
    <2> QED BY <2>1, <2>2
  <1>4. ASSUME NEW p \in Proc,
               \/ PhaseStart(p) \/ PhaseEnd(p) \/ PipelineEnds(p) \/ WriteManifest(p)
               \/ Trouble(p) \/ Unpause(p) \/ ClearPause(p)
        PROVE  UNCHANGED <<done, status>>
    BY <1>4 DEF PhaseStart, PhaseEnd, PipelineEnds, WriteManifest, Trouble, PhaseError,
                StartError, Crash, Unpause, ClearPause, run
  <1>5. ASSUME \/ Tick \/ Pause \/ ListZombies \/ EmitZombie \/ SweepDies
               \/ UNCHANGED vars \/ \E c \in Phase : PauseAt(c)
        PROVE  UNCHANGED <<done, status>>
    BY <1>5 DEF Tick, Pause, ListZombies, EmitZombie, SweepDies, vars, PauseAt, run
  <1>6. CASE FlipZombie
    BY <1>6 DEF FlipZombie, SetStatus, Progress!Conclude
  <1> QED BY <1>1, <1>2, <1>3, <1>4, <1>5, <1>6 DEF PatientNext, Session, Sweep, Pipeline

\* The run, as its processes execute it, implements what RunProgress promises:
\* phases finish in order, finished work is kept, and only a run that lacks
\* nothing is called completed.
THEOREM KeepsPromiseCorrect == PatientSpec => KeepsPromise
  <1>1. Init => Progress!Init
    BY DEF Init, Progress!Init
  <1>2. Inductive /\ [PatientNext]_vars => [Progress!Next]_<<done, status>>
    BY StepKeepsPromise
  <1> QED
    BY <1>1, <1>2, InductiveInit, InductiveStep, PTL
    DEF PatientSpec, KeepsPromise, Progress!Spec

-----------------------------------------------------------------------------
(* Why a resume repeats nothing, for one process at a time and a tie-break *)
(* that names every phase: later phases have later rows, so the last row   *)
(* is that of the last phase, though rows of a resumed process reuse the   *)
(* sequence numbers of the first and may share its instants.               *)

OneAtATime == \A p, q \in Proc : p = q

\* A process that is at a phase is past every phase the index knows of; one that
\* registers the run finds no rows; and what `continue` writes back it has read.
Ahead(r) ==
  /\ r.pc \in AtPhase \cup {"ready"} => \A x \in Ended : x[1] < r.next
  /\ r.pc \in {"register", "flip"} => Ended = {}
  /\ r.pc = "stamp" => r.saved # "none"
  /\ r.pc # "idle" => Exists

Chronicle ==
  /\ \A x \in Ended : ends[x] <= now
  /\ \A x, y \in Ended : x[1] < y[1] => ends[x] <= ends[y]
  /\ ~Exists => Ended = {}
  /\ \A p \in Proc : Ahead(proc[p])

\* The last completed phase is the highest one with a row.
LEMMA LastIsHighest ==
  ASSUME Shaped, Chronicle, Unlisted = {}, NEW c \in Phase, LastCompleted(c), NEW z \in Ended
  PROVE  z[1] <= c
  <1>1. PICK x \in Latest : x[1] = c /\ \A y \in Latest : Rank(y[1]) <= Rank(c)
    BY DEF LastCompleted
  <1>2. x \in Ended /\ ends[z] <= ends[x]
    BY <1>1 DEF Latest
  <1>3. \A y \in Ended : ends[y] \in Int /\ y[1] \in Int
    BY PhaseAssumption, TimeAssumption DEF Ended, Shaped, TypeOK, Time, Phase
  <1>4. c \in Int
    BY PhaseAssumption DEF Phase
  <1> SUFFICES ASSUME z[1] > c PROVE FALSE
    BY <1>3, <1>4
  <1>5. ends[x] <= ends[z]
    BY <1>1, <1>2, <1>3, <1>4 DEF Chronicle
  <1>6. \A y \in Ended : ends[y] <= ends[z]
    <2> SUFFICES ASSUME NEW y \in Ended PROVE ends[y] <= ends[z]
      OBVIOUS
    <2>1. ends[y] <= ends[x]
      BY <1>1 DEF Latest
    <2> QED BY <1>2, <1>3, <1>5, <2>1
  <1>7. z \in Latest
    BY <1>6 DEF Latest
  <1> QED BY <1>1, <1>3, <1>4, <1>7 DEF Rank

\* Rows that disappear disturb nothing.
LEMMA FewerRows ==
  ASSUME Shaped, NEW p \in Proc, Record(p, None)
  PROVE  Ended' \subseteq Ended /\ \A x \in Ended' : ends'[x] = ends[x]
  <1>1. ends \in [Phase \X Seq -> Time \cup {None}]
    BY DEF Shaped, TypeOK
  <1> QED BY <1>1 DEF Record, Ended

\* A step that leaves clock, verdicts and process records in order.
LEMMA ChronicleKept ==
  ASSUME Shaped, Chronicle, OneAtATime, now' \in Int, now <= now',
         Ended' \subseteq Ended, \A x \in Ended' : ends'[x] = ends[x],
         Exists => Exists', ~Exists' => Ended' = {},
         \A p \in Proc : Ahead(proc[p])'
  PROVE  Chronicle'
  <1>1. \A x \in Ended : ends[x] \in Int
    BY TimeAssumption DEF Ended, Shaped, TypeOK, Time
  <1>2. now \in Int
    BY TimeAssumption DEF Shaped, TypeOK, Time
  <1>3. \A x \in Ended' : ends'[x] <= now'
    BY <1>1, <1>2 DEF Chronicle
  <1>4. \A x, y \in Ended' : x[1] < y[1] => ends'[x] <= ends'[y]
    BY DEF Chronicle
  <1> QED BY <1>3, <1>4 DEF Chronicle

\* The record of the one process is all there is to look at.
LEMMA OnlyOne ==
  ASSUME Shaped, OneAtATime, NEW p \in Proc, NEW r, proc' = [proc EXCEPT ![p] = r]
  PROVE  \A q \in Proc : proc'[q] = r
  BY DEF OneAtATime, Shaped, TypeOK

LEMMA StartChronicle ==
  ASSUME Shaped, Chronicle, OneAtATime, Unlisted = {}, NEW p \in Proc, Start(p)
  PROVE  Chronicle'
  <1> USE DEF run
  <1>0. /\ UNCHANGED <<now, ends>> /\ now \in Int
        /\ Ended' = Ended /\ proc[p] \in Process /\ Ahead(proc[p])
    BY TimeAssumption
    DEF Start, Run, RerunManifest, RerunRegister, RerunFlip, ContinueLoad, ContinueStamp, Ended,
        Shaped, TypeOK, Time, Chronicle
  <1>1. (Exists => Exists') /\ (~Exists' => Ended = {})
    <2>1. CASE Run(p) \/ RerunManifest(p) \/ RerunRegister(p) \/ RerunFlip(p) \/ ContinueLoad(p)
      BY <2>1 DEF Run, RerunManifest, RerunRegister, RerunFlip, ContinueLoad, SetStatus, Exists,
                  Chronicle
    <2>2. CASE ContinueStamp(p)
      BY <1>0, <2>2 DEF ContinueStamp, At, Ahead, Exists
    <2> QED BY <2>1, <2>2 DEF Start
  <1>2. PICK r : proc' = [proc EXCEPT ![p] = r] /\ Ahead(r)'
    <2>1. CASE Run(p)
      <3> DEFINE r == Command("ready", "run", 0, "none")
      <3>1. Ended = {} /\ Exists'
        BY <2>1 DEF Run, Chronicle, Exists, SetStatus
      <3>2. r.pc = "ready"
        BY DEF Command
      <3>3. Ahead(r)'
        BY <1>0, <3>1, <3>2 DEF Ahead, AtPhase
      <3> QED BY <2>1, <3>3 DEF Run, Begin
    <2>2. CASE RerunManifest(p)
      <3> DEFINE r == Command("register", "rerun", 0, "none")
      <3>1. Ended = {} /\ Exists'
        BY <2>2 DEF RerunManifest, Chronicle, Exists
      <3>2. r.pc = "register"
        BY DEF Command
      <3>3. Ahead(r)'
        BY <1>0, <3>1, <3>2 DEF Ahead, AtPhase
      <3> QED BY <2>2, <3>3 DEF RerunManifest, Begin
    <2>3. ASSUME NEW step \in {"flip", "ready"}, Goto(p, step),
                 proc[p].pc \in {"register", "flip"}
          PROVE  \E r : proc' = [proc EXCEPT ![p] = r] /\ Ahead(r)'
      <3> DEFINE r == [proc[p] EXCEPT !.pc = step]
      <3>1. Ended = {} /\ Exists'
        BY <1>0, <1>1, <2>3 DEF Ahead
      <3>2. r.pc = step
        BY <1>0 DEF Process
      <3>3. Ahead(r)'
        BY <1>0, <3>1, <3>2 DEF Ahead, AtPhase
      <3> QED BY <2>3, <3>3 DEF Goto
    <2>4. CASE ContinueLoad(p)
      <3> DEFINE r == Command("stamp", "none", 0, manifest)
      <3>1. r.pc = "stamp" /\ r.saved # "none" /\ Exists'
        BY <2>4 DEF ContinueLoad, Command, Exists
      <3>2. Ahead(r)'
        BY <2>4, <3>1 DEF Ahead, AtPhase, ContinueLoad
      <3> QED BY <2>4, <3>2 DEF ContinueLoad
    <2>5. ASSUME NEW c \in Phase, LastCompleted(c), Begin(p, "continue", c, "ready"), Exists
          PROVE  \E r : proc' = [proc EXCEPT ![p] = r] /\ Ahead(r)'
      <3> DEFINE r == Command("ready", "continue", c, "none")
      <3>1. r.pc = "ready" /\ r.next = c + 1
        BY DEF Command
      <3>2. \A z \in Ended : z[1] < c + 1
        <4> SUFFICES ASSUME NEW z \in Ended PROVE z[1] < c + 1
          OBVIOUS
        <4>1. z[1] <= c
          BY <2>5, LastIsHighest
        <4>2. z[1] \in Int /\ c \in Int
          BY PhaseAssumption DEF Ended, Phase
        <4> QED BY <4>1, <4>2
      <3> HIDE DEF r
      <3>3. Ahead(r)'
        BY <1>0, <1>1, <2>5, <3>1, <3>2 DEF Ahead, AtPhase
      <3> QED BY <2>5, <3>3 DEF Begin, r
    <2>6. ASSUME Leave(p) PROVE \E r : proc' = [proc EXCEPT ![p] = r] /\ Ahead(r)'
      <3>1. Ahead(Idle)'
        BY DEF Ahead, Idle, Command, AtPhase
      <3> QED BY <2>6, <3>1 DEF Leave
    <2>7. CASE ContinueStamp(p)
      <3>1. Exists
        BY <1>0, <2>7 DEF ContinueStamp, At, Ahead
      <3> QED BY <2>5, <2>6, <2>7, <3>1 DEF ContinueStamp
    <2>8. CASE RerunRegister(p)
      BY <2>3, <2>8 DEF RerunRegister, At
    <2>9. CASE RerunFlip(p)
      BY <2>3, <2>9 DEF RerunFlip, At
    <2> QED BY <2>1, <2>2, <2>4, <2>7, <2>8, <2>9 DEF Start
  <1>3. \A q \in Proc : Ahead(proc[q])'
    BY <1>2, OnlyOne DEF Ahead
  <1> QED BY <1>0, <1>1, <1>3, ChronicleKept

LEMMA PipelineChronicle ==
  ASSUME Shaped, Chronicle, OneAtATime, NEW p \in Proc, Pipeline(p) \/ Trouble(p)
  PROVE  Chronicle'
  <1> USE DEF run
  <1>0. /\ now \in Int /\ proc[p] \in Process /\ Ahead(proc[p])
        /\ ends \in [Phase \X Seq -> Time \cup {None}]
    BY TimeAssumption DEF Shaped, TypeOK, Time, Chronicle
  <1>1. Exists /\ UNCHANGED now /\ Exists'
    <2>1. Exists
      BY <1>0
      DEF Pipeline, PhaseStart, PhaseWork, PhaseEnd, PipelineEnds, WriteManifest, WriteStatus,
          Trouble, PhaseError, StartError, Crash, At, AtPhase, Ahead
    <2>2. UNCHANGED now
      BY DEF Pipeline, PhaseStart, PhaseWork, PhaseEnd, PipelineEnds, WriteManifest, WriteStatus,
             Trouble, PhaseError, StartError, Crash
    <2>3. CASE WriteManifest(p) \/ WriteStatus(p)
      BY <2>1, <2>3 DEF WriteManifest, WriteStatus, SetStatus, Outcome, Exists
    <2>4. CASE ~(WriteManifest(p) \/ WriteStatus(p))
      <3>1. UNCHANGED <<status, manifest>>
        BY <2>4 DEF Pipeline, PhaseStart, PhaseWork, PhaseEnd, PipelineEnds,
                    Trouble, PhaseError, StartError, Crash
      <3> QED BY <2>1, <2>2, <3>1 DEF Exists
    <2> QED BY <2>1, <2>2, <2>3, <2>4
  <1>2. ASSUME Leave(p) \/ Goto(p, "manifest") \/ Goto(p, "status") \/ Goto(p, "unpause")
        PROVE  \A q \in Proc : Ahead(proc[q])'
    <2>1. PICK r : proc' = [proc EXCEPT ![p] = r] /\ r.pc \in {"idle", "manifest", "status", "unpause"}
      BY <1>0, <1>2 DEF Leave, Goto, Idle, Command, Process
    <2> QED BY <1>1, <2>1, OnlyOne DEF Ahead, AtPhase
  <1>3. CASE PhaseStart(p)
    <2>1. Ended' \subseteq Ended /\ \A x \in Ended' : ends'[x] = ends[x]
      BY <1>3, FewerRows DEF PhaseStart
    <2>2. PICK r : proc' = [proc EXCEPT ![p] = r] /\ r.pc = "executing" /\ r.next = proc[p].next
      <3> DEFINE r == [proc[p] EXCEPT !.pc = "executing"]
      <3>1. proc' = [proc EXCEPT ![p] = r]
        BY <1>3 DEF PhaseStart, Goto
      <3>2. r.pc = "executing" /\ r.next = proc[p].next
        BY <1>0 DEF Process
      <3> QED BY <3>1, <3>2
    <2>3. \A x \in Ended : x[1] < proc[p].next
      BY <1>0, <1>3 DEF PhaseStart, At, Ahead
    <2>4. \A q \in Proc : Ahead(proc[q])'
      BY <1>1, <2>1, <2>2, <2>3, OnlyOne DEF Ahead, AtPhase
    <2> QED BY <1>0, <1>1, <2>1, <2>4, ChronicleKept
  <1>4. CASE PhaseWork(p)
    <2>1. Ended' = Ended /\ UNCHANGED ends
      BY <1>4 DEF PhaseWork, Ended
    <2>2. PICK r : proc' = [proc EXCEPT ![p] = r] /\ r.pc = "executed" /\ r.next = proc[p].next
      <3> DEFINE r == [proc[p] EXCEPT !.pc = "executed"]
      <3>1. proc' = [proc EXCEPT ![p] = r]
        BY <1>4 DEF PhaseWork, Goto
      <3>2. r.pc = "executed" /\ r.next = proc[p].next
        BY <1>0 DEF Process
      <3> QED BY <3>1, <3>2
    <2>3. \A x \in Ended : x[1] < proc[p].next
      BY <1>0, <1>4 DEF PhaseWork, At, AtPhase, Ahead
    <2>4. \A q \in Proc : Ahead(proc[q])'
      BY <1>1, <2>1, <2>2, <2>3, OnlyOne DEF Ahead, AtPhase
    <2> QED BY <1>0, <1>1, <2>1, <2>4, ChronicleKept
  <1>5. CASE PhaseEnd(p)
    <2>1. /\ proc[p].next \in Int
          /\ \A x \in Ended : x[1] < proc[p].next /\ x[1] \in Int /\ ends[x] \in Int
      BY <1>0, <1>5, PhaseAssumption, TimeAssumption
      DEF PhaseEnd, At, AtPhase, Ahead, Process, Ended, Phase, Time
    <2>2. \A x \in Ended' : \/ x \in Ended /\ ends'[x] = ends[x]
                            \/ x[1] = proc[p].next /\ ends'[x] = now
      BY <1>0, <1>5 DEF PhaseEnd, Record, Ended, Row
    <2>3. \A x \in Ended' : ends'[x] <= now'
      BY <1>0, <1>1, <2>2 DEF Chronicle
    <2>4. \A x, y \in Ended' : x[1] < y[1] => ends'[x] <= ends'[y]
      <3> SUFFICES ASSUME NEW x \in Ended', NEW y \in Ended', x[1] < y[1]
                   PROVE  ends'[x] <= ends'[y]
        OBVIOUS
      <3>1. x \in Ended /\ ends'[x] = ends[x]
        BY <2>1, <2>2
      <3>2. CASE y \in Ended /\ ends'[y] = ends[y]
        BY <3>1, <3>2 DEF Chronicle
      <3>3. CASE ends'[y] = now
        BY <3>1, <3>3 DEF Chronicle
      <3> QED BY <2>2, <3>2, <3>3
    <2>5. PICK r : /\ proc' = [proc EXCEPT ![p] = r]
                   /\ r.pc = "ready" /\ r.next = proc[p].next + 1
      <3> DEFINE r == [proc[p] EXCEPT !.pc = "ready", !.next = @ + 1]
      <3>1. proc' = [proc EXCEPT ![p] = r]
        BY <1>5 DEF PhaseEnd, Shaped, TypeOK
      <3>2. r.pc = "ready" /\ r.next = proc[p].next + 1
        BY <1>0 DEF Process
      <3> QED BY <3>1, <3>2
    <2>6. \A x \in Ended' : x[1] < proc[p].next + 1
      BY <2>1, <2>2
    <2>7. \A q \in Proc : Ahead(proc[q])'
      <3> SUFFICES ASSUME NEW q \in Proc PROVE Ahead(proc[q])'
        OBVIOUS
      <3>1. proc'[q].pc = "ready" /\ proc'[q].next = proc[p].next + 1
        BY <2>5, OnlyOne
      <3> QED BY <1>1, <2>6, <3>1 DEF Ahead, AtPhase
    <2> QED BY <1>1, <2>3, <2>4, <2>7 DEF Chronicle
  <1>6. CASE PipelineEnds(p)
    <2>1. Ended' = Ended /\ UNCHANGED ends
      BY <1>6 DEF PipelineEnds, Ended
    <2>2. PICK r : proc' = [proc EXCEPT ![p] = r] /\ r.pc = "manifest"
      <3> DEFINE r == [proc[p] EXCEPT !.pc = "manifest", !.ok = TRUE]
      <3>1. proc' = [proc EXCEPT ![p] = r]
        BY <1>6 DEF PipelineEnds, Shaped, TypeOK
      <3>2. r.pc = "manifest"
        BY <1>0 DEF Process
      <3> QED BY <3>1, <3>2
    <2>3. \A q \in Proc : Ahead(proc[q])'
      BY <1>1, <2>2, OnlyOne DEF Ahead, AtPhase
    <2> QED BY <1>0, <1>1, <2>1, <2>3, ChronicleKept
  <1>7. CASE WriteManifest(p) \/ WriteStatus(p) \/ StartError(p) \/ Crash(p)
    <2>1. Ended' = Ended /\ UNCHANGED ends
      BY <1>7 DEF WriteManifest, WriteStatus, StartError, Crash, Ended
    <2>2. \A q \in Proc : Ahead(proc[q])'
      BY <1>2, <1>7 DEF WriteManifest, WriteStatus, StartError, Crash, GiveUp
    <2> QED BY <1>0, <1>1, <2>1, <2>2, ChronicleKept
  <1>8. CASE PhaseError(p)
    <2>1. Ended' \subseteq Ended /\ \A x \in Ended' : ends'[x] = ends[x]
      BY <1>8, FewerRows DEF PhaseError
    <2>2. \A q \in Proc : Ahead(proc[q])'
      BY <1>2, <1>8 DEF PhaseError, GiveUp
    <2> QED BY <1>0, <1>1, <2>1, <2>2, ChronicleKept
  <1> QED BY <1>3, <1>4, <1>5, <1>6, <1>7, <1>8 DEF Pipeline, Trouble

LEMMA ChronicleStep ==
  ASSUME Shaped, Chronicle, OneAtATime, Unlisted = {}, [Tick \/ Session \/ Sweep]_vars
  PROVE  Chronicle'
  <1>1. CASE Session
    BY <1>1, StartChronicle, PipelineChronicle DEF Session
  <1>2. CASE Tick \/ Sweep \/ UNCHANGED vars
    <2>1. /\ UNCHANGED <<manifest, ends, proc>> /\ (status' # "none" \/ UNCHANGED status)
          /\ now' \in Int /\ now <= now'
      BY <1>2, TimeAssumption
      DEF Tick, Sweep, ListZombies, FlipZombie, EmitZombie, SweepDies, SetStatus, run, vars,
          Shaped, TypeOK, Time
    <2>2. Ended' = Ended /\ (Exists => Exists')
      BY <2>1 DEF Ended, Exists
    <2>3. \A q \in Proc : Ahead(proc[q])'
      BY <2>1, <2>2 DEF Chronicle, Ahead
    <2> QED BY <2>1, <2>2, <2>3, ChronicleKept DEF Chronicle
  <1> QED BY <1>1, <1>2

LEMMA ChronicleInit == Init => Chronicle
  BY DEF Init, Chronicle, Ended, Exists, Ahead, Idle, Command, AtPhase

\* One process at a time, never paused: no resume executes again a phase the
\* index knows to have ended, for any pipeline, any pattern of crashes, errors
\* and lost rows, and however many rows share a second.
THEOREM NoRepeatCorrect ==
  ASSUME OneAtATime, Unlisted = {}
  PROVE  UnpausedSpec => NoRepeat
  <1> DEFINE A == \A p \in Proc : PhaseStart(p) => \A s \in Seq : ends[<<proc[p].next, s>>] = None
  <1>1. Init => Shaped /\ Chronicle
    BY ShapedInit, ChronicleInit
  <1>2. Shaped /\ Chronicle /\ [Tick \/ Session \/ Sweep]_vars => (Shaped /\ Chronicle)'
    <2>1. [Tick \/ Session \/ Sweep]_vars => [Next]_vars
      BY DEF Next
    <2> QED BY <2>1, ShapedStep, ChronicleStep
  <1>3. Shaped /\ Chronicle => [A]_vars
    <2> SUFFICES ASSUME Shaped, Chronicle, NEW p \in Proc, PhaseStart(p), NEW s \in Seq
                 PROVE  ends[<<proc[p].next, s>>] = None
      OBVIOUS
    <2>1. proc[p].next \in Phase
      BY DEF PhaseStart, Shaped, TypeOK, Process, Phase
    <2>2. \A x \in Ended : x[1] < proc[p].next
      BY DEF PhaseStart, At, Chronicle, Ahead
    <2>3. <<proc[p].next, s>> \notin Ended
      BY <2>1, <2>2, PhaseAssumption DEF Phase
    <2> QED BY <2>1, <2>3 DEF Ended
  <1> QED BY <1>1, <1>2, <1>3, PTL DEF UnpausedSpec, NoRepeat
=============================================================================
