---------------------------- MODULE RunLifecycle ----------------------------
(***************************************************************************)
(* One linear run: the processes that execute it (`moagan run`, `rerun`,   *)
(* `continue`, `continue --from-pause`), `moagan pause`, the zombie sweep  *)
(* of the startup reconcile, and the state they share: the `runs` row, the *)
(* `phases` rows, manifest.json, paused.json and the phases' artefacts.    *)
(*                                                                         *)
(* Processes are slots: one that ends is free for the next command. Any    *)
(* number of them may execute the run at once: ensure_heartbeat renews the *)
(* lease of a live process instead of refusing it (see RunLease).          *)
(***************************************************************************)
EXTENDS Integers

CONSTANTS
  Proc,
  N,             \* phases of the mode's pipeline, in canonical order 1 .. N
  DefaultPause,  \* position of DEFAULT_PAUSED_AT_PHASE ("synthesize")
  Unlisted,      \* phases the ORDER BY of last_completed_phase does not name
  Stale,         \* ZOMBIE_HEARTBEAT_SECS
  MaxTime,       \* bound on the clock
  None

ASSUME PhaseAssumption ==
  /\ N \in Nat \ {0}
  /\ DefaultPause \in 1 .. N
  /\ Unlisted \subseteq 1 .. N
ASSUME TimeAssumption == Stale \in Nat /\ MaxTime \in Nat
ASSUME NoneAssumption == None \notin Int

VARIABLES
  now,
  status,    \* runs.status, "none" before the row exists
  updated,   \* runs.updated_unix
  manifest,  \* status in manifest.json, "none" before the file exists
  ends,      \* phases rows with status 'end': their started_unix
  done,      \* phases whose artefacts are complete on disk
  paused,    \* paused_at_phase of paused.json, or None
  proc,      \* the commands being executed
  reaper     \* recover_zombies

run == <<status, updated>>
vars == <<now, status, updated, manifest, ends, done, paused, proc, reaper>>

Phase == 1 .. N
Seq == 0 .. N - 1
Time == 0 .. MaxTime
Fresh == {"run", "rerun"}
Resumed == {"continue", "from_pause"}
ManifestStatus == {"none", "created", "completed", "failed"}

\* pc: the next step; kind: the command; from: the phase it resumes after;
\* next: the phase it is at; ok: the pipeline returned Ok; saved: the manifest
\* it loaded.
Process ==
  [pc : {"idle", "register", "flip", "stamp", "ready", "executing", "executed",
         "manifest", "status", "unpause"},
   kind : Fresh \cup Resumed \cup {"none"},
   from : 0 .. N, next : 1 .. N + 1, ok : BOOLEAN, saved : ManifestStatus]

Command(step, command, cutoff, loaded) ==
  [pc |-> step, kind |-> command, from |-> cutoff, next |-> cutoff + 1,
   ok |-> FALSE, saved |-> loaded]

Idle == Command("idle", "none", 0, "none")

AtPhase == {"executing", "executed"}

TypeOK ==
  /\ now \in Time /\ updated \in Time
  /\ status \in {"none", "created", "running", "completed", "failed", "interrupted"}
  /\ manifest \in ManifestStatus
  /\ ends \in [Phase \X Seq -> Time \cup {None}]
  /\ done \subseteq Phase
  /\ paused \in Phase \cup {None}
  /\ proc \in [Proc -> Process]
  /\ \A p \in Proc :
       /\ proc[p].pc \in AtPhase \cup {"ready"} => proc[p].from < proc[p].next
       /\ proc[p].pc \in AtPhase => proc[p].next \in Phase
  /\ reaper \in {"off", "listed", "flipped"}

Init ==
  /\ now = 0
  /\ status = "none" /\ updated = 0
  /\ manifest = "none"
  /\ ends = [x \in Phase \X Seq |-> None]
  /\ done = {}
  /\ paused = None
  /\ proc = [p \in Proc |-> Idle]
  /\ reaper = "off"

-----------------------------------------------------------------------------
(* The phases table.                                                       *)

Ended == {x \in Phase \X Seq : ends[x] # None}
Latest == {x \in Ended : \A y \in Ended : ends[y] <= ends[x]}

\* The CASE of the ORDER BY; a phase it does not name ranks -1.
Rank(p) == IF p \in Unlisted THEN -1 ELSE p

\* Mutant: the tie-break is ascending.
LastCompleted_Ascending(p) ==
  \E x \in Latest : /\ x[1] = p
                    /\ \A y \in Latest : Rank(p) <= Rank(y[1])

\* last_completed_phase returns p; phases that rank alike tie.
LastCompleted(p) ==
  \E x \in Latest : /\ x[1] = p
                    /\ \A y \in Latest : Rank(y[1]) <= Rank(p)

\* INSERT OR REPLACE on (phase, seq); seq is the index in the process's own,
\* possibly resumed, pipeline.
Row(p) == <<proc[p].next, proc[p].next - proc[p].from - 1>>

\* The row is mirrored, or the mirror fails and is only logged.
Record(p, end) == ends' \in {ends, [ends EXCEPT ![Row(p)] = end]}

-----------------------------------------------------------------------------
(* How a process starts.                                                   *)

Exists == status # "none" \/ manifest # "none"

SetStatus(s) == status' = s /\ updated' = now

At(p, step) == proc[p].pc = step
Goto(p, step) == proc' = [proc EXCEPT ![p].pc = step]
Leave(p) == proc' = [proc EXCEPT ![p] = Idle]

Begin(p, command, cutoff, step) ==
  proc' = [proc EXCEPT ![p] = Command(step, command, cutoff, "none")]

\* moagan run: register_run, no manifest.
Run(p) ==
  /\ At(p, "idle") /\ ~Exists
  /\ SetStatus("running")
  /\ Begin(p, "run", 0, "ready")
  /\ UNCHANGED <<now, manifest, ends, done, paused, reaper>>

\* moagan rerun: the manifest, the row, the flip to running.
RerunManifest(p) ==
  /\ At(p, "idle") /\ ~Exists
  /\ manifest' = "created"
  /\ Begin(p, "rerun", 0, "register")
  /\ UNCHANGED <<now, run, ends, done, paused, reaper>>

RerunRegister(p) ==
  /\ At(p, "register")
  /\ SetStatus("created")
  /\ Goto(p, "flip")
  /\ UNCHANGED <<now, manifest, ends, done, paused, reaper>>

\* A failed flip is only logged.
RerunFlip(p) ==
  /\ At(p, "flip")
  /\ SetStatus("running") \/ UNCHANGED run
  /\ Goto(p, "ready")
  /\ UNCHANGED <<now, manifest, ends, done, paused, reaper>>

\* moagan continue: load_manifest, which fails when there is none.
ContinueLoad(p) ==
  /\ At(p, "idle") /\ manifest # "none"
  /\ proc' = [proc EXCEPT ![p] = Command("stamp", "none", 0, manifest)]
  /\ UNCHANGED <<now, run, manifest, ends, done, paused, reaper>>

\* Mutant: the cutoff is one phase too late.
ContinueStamp_Late(p) ==
  /\ At(p, "stamp")
  /\ manifest' = proc[p].saved
  /\ \/ \E c \in Phase : LastCompleted(c) /\ c + 1 < N /\ Begin(p, "continue", c + 1, "ready")
     \/ (Ended = {} \/ \E c \in {N - 1, N} : LastCompleted(c)) /\ Leave(p)
  /\ UNCHANGED <<now, run, ends, done, paused, reaper>>

\* apply_continue_options writes back what was loaded; then resume after the
\* last completed phase, or stop when there is none or nothing is left.
ContinueStamp(p) ==
  /\ At(p, "stamp")
  /\ manifest' = proc[p].saved
  /\ \/ \E c \in Phase : LastCompleted(c) /\ c < N /\ Begin(p, "continue", c, "ready")
     \/ (Ended = {} \/ LastCompleted(N)) /\ Leave(p)
  /\ UNCHANGED <<now, run, ends, done, paused, reaper>>

\* moagan continue --from-pause: resume after the phase paused.json names.
Unpause(p) ==
  /\ At(p, "idle") /\ paused # None /\ manifest # "none"
  /\ Begin(p, "from_pause", paused, IF paused = N THEN "unpause" ELSE "ready")
  /\ UNCHANGED <<now, run, manifest, ends, done, paused, reaper>>

-----------------------------------------------------------------------------
(* Pipeline::run_phases.                                                   *)

\* Mutants: a phase is recorded as ended when it starts; the pipeline does
\* not stop at its last phase.
PhaseStart_End(p) ==
  /\ At(p, "ready") /\ proc[p].next <= N
  /\ Record(p, now)
  /\ Goto(p, "executing")
  /\ UNCHANGED <<now, run, manifest, done, paused, reaper>>

PhaseStart_Unbounded(p) ==
  /\ At(p, "ready")
  /\ Record(p, None)
  /\ Goto(p, "executing")
  /\ UNCHANGED <<now, run, manifest, done, paused, reaper>>

PhaseStart(p) ==
  /\ At(p, "ready") /\ proc[p].next <= N
  /\ Record(p, None)
  /\ Goto(p, "executing")
  /\ UNCHANGED <<now, run, manifest, done, paused, reaper>>

\* The phase's last artefact is in place.
PhaseWork(p) ==
  /\ At(p, "executing")
  /\ done' = done \cup {proc[p].next}
  /\ Goto(p, "executed")
  /\ UNCHANGED <<now, run, manifest, ends, paused, reaper>>

PhaseEnd(p) ==
  /\ At(p, "executed")
  /\ Record(p, now)
  /\ proc' = [proc EXCEPT ![p].pc = "ready", ![p].next = @ + 1]
  /\ UNCHANGED <<now, run, manifest, done, paused, reaper>>

\* `run` and `rerun` return an error at once, a resumed run records it.
GiveUp(p) == IF proc[p].kind \in Fresh THEN Leave(p) ELSE Goto(p, "manifest")

\* The phase fails or times out, before or after its artefacts are there; a
\* total timeout or a signal leaves its row as it is.
PhaseError(p) ==
  /\ proc[p].pc \in AtPhase
  /\ Record(p, None)
  /\ GiveUp(p)
  /\ UNCHANGED <<now, run, manifest, done, paused, reaper>>

\* ensure_heartbeat, or the phase event, fails.
StartError(p) ==
  /\ At(p, "ready")
  /\ GiveUp(p)
  /\ UNCHANGED <<now, run, manifest, ends, done, paused, reaper>>

\* Mutant: the pipeline is taken for finished one phase early.
PipelineEnds_Early(p) ==
  /\ At(p, "ready") /\ proc[p].next >= N
  /\ proc' = [proc EXCEPT ![p].pc = "manifest", ![p].ok = TRUE]
  /\ UNCHANGED <<now, run, manifest, ends, done, paused, reaper>>

PipelineEnds(p) ==
  /\ At(p, "ready") /\ proc[p].next = N + 1
  /\ proc' = [proc EXCEPT ![p].pc = "manifest", ![p].ok = TRUE]
  /\ UNCHANGED <<now, run, manifest, ends, done, paused, reaper>>

Outcome(p) == IF proc[p].ok THEN "completed" ELSE "failed"

\* Flush the telemetry, rebuild the manifest and write it; any of it may fail.
WriteManifest(p) ==
  /\ At(p, "manifest")
  /\ \/ manifest' = Outcome(p) /\ Goto(p, "status")
     \/ UNCHANGED manifest /\ Leave(p)
  /\ UNCHANGED <<now, run, ends, done, paused, reaper>>

\* update_run_status; a failure is only logged.
WriteStatus(p) ==
  /\ At(p, "status")
  /\ SetStatus(Outcome(p)) \/ UNCHANGED run
  /\ IF proc[p].kind = "from_pause" /\ proc[p].ok THEN Goto(p, "unpause") ELSE Leave(p)
  /\ UNCHANGED <<now, manifest, ends, done, paused, reaper>>

\* finalize_resume after a success.
ClearPause(p) ==
  /\ At(p, "unpause")
  /\ paused' = None
  /\ Leave(p)
  /\ UNCHANGED <<now, run, manifest, ends, done, reaper>>

Crash(p) ==
  /\ ~At(p, "idle")
  /\ Leave(p)
  /\ UNCHANGED <<now, run, manifest, ends, done, paused, reaper>>

-----------------------------------------------------------------------------
(* moagan pause and the zombie sweep, run by other processes.              *)

\* The live index decides; DEFAULT_PAUSED_AT_PHASE when no phase has ended.
Pause ==
  /\ Exists
  /\ \/ Ended = {} /\ paused' = DefaultPause
     \/ \E c \in Phase : LastCompleted(c) /\ paused' = c
  /\ UNCHANGED <<now, run, manifest, ends, done, proc, reaper>>

\* --phase names the phase instead.
PauseAt(c) ==
  /\ Exists
  /\ paused' = c
  /\ UNCHANGED <<now, run, manifest, ends, done, proc, reaper>>

\* list_zombie_run_ids.
ListZombies ==
  /\ reaper = "off"
  /\ status = "running" /\ updated < now - Stale
  /\ reaper' = "listed"
  /\ UNCHANGED <<now, run, manifest, ends, done, paused, proc>>

\* record_with: update_run_status without another look at the row, ...
FlipZombie ==
  /\ reaper = "listed"
  /\ SetStatus("interrupted")
  /\ reaper' = "flipped"
  /\ UNCHANGED <<now, manifest, ends, done, paused, proc>>

\* ... then the transaction with the outbox event.
EmitZombie ==
  /\ reaper = "flipped"
  /\ reaper' = "off"
  /\ UNCHANGED <<now, run, manifest, ends, done, paused, proc>>

SweepDies ==
  /\ reaper # "off"
  /\ reaper' = "off"
  /\ UNCHANGED <<now, run, manifest, ends, done, paused, proc>>

Tick ==
  /\ now < MaxTime
  /\ now' = now + 1
  /\ UNCHANGED <<run, manifest, ends, done, paused, proc, reaper>>

-----------------------------------------------------------------------------
Start(p) ==
  \/ Run(p) \/ RerunManifest(p) \/ RerunRegister(p) \/ RerunFlip(p)
  \/ ContinueLoad(p) \/ ContinueStamp(p)

Pipeline(p) ==
  \/ PhaseStart(p) \/ PhaseWork(p) \/ PhaseEnd(p) \/ PipelineEnds(p)
  \/ WriteManifest(p) \/ WriteStatus(p)

Trouble(p) == PhaseError(p) \/ StartError(p) \/ Crash(p)

Session == \E p \in Proc : Start(p) \/ Pipeline(p) \/ Trouble(p)
Pausing == Pause \/ \E p \in Proc : Unpause(p) \/ ClearPause(p)
Sweep == ListZombies \/ FlipZombie \/ EmitZombie \/ SweepDies

Next == Tick \/ Session \/ Pausing \/ Sweep \/ \E c \in Phase : PauseAt(c)

Spec == Init /\ [][Next]_vars

\* The operator pauses a run that has finished a phase, and names a phase of
\* his own only when it and all before it have finished.
Sound(c) == 1 .. c \subseteq done

PatientNext ==
  \/ Tick \/ Session \/ Sweep
  \/ Ended # {} /\ Pause
  \/ \E p \in Proc : Unpause(p) \/ ClearPause(p)
  \/ \E c \in Phase : Sound(c) /\ PauseAt(c)

PatientSpec == Init /\ [][PatientNext]_vars

\* Never paused; with a single slot, one process at a time.
UnpausedSpec == Init /\ [][Tick \/ Session \/ Sweep]_vars

\* The operator keeps continuing the run; a process that is left alone goes on.
FairSpec ==
  /\ UnpausedSpec
  /\ \A p \in Proc : WF_vars(Start(p)) /\ WF_vars(Pipeline(p))

-----------------------------------------------------------------------------
(* Properties.                                                             *)

\* Whatever mix of processes, crashes and lost index rows a run goes through,
\* no phase executes before every phase it builds on has finished, finished
\* work is kept, and the run is called completed only when nothing is missing
\* (pipe.rs, resume_with_kind: "this phase is done; pick up from the next one").
Progress == INSTANCE RunProgress WITH verdict <- status
KeepsPromise == Progress!Spec

\* The phase that executes finds the artefacts of every phase before it.
InOrder ==
  \A p \in Proc : proc[p].pc \in AtPhase => 1 .. proc[p].next - 1 \subseteq done

\* A resume does not repeat a phase that the index knows to have ended, though
\* resumed rows use other sequence numbers and clocks tie.
NoRepeat ==
  [][\A p \in Proc : PhaseStart(p) => \A s \in Seq : ends[<<proc[p].next, s>>] = None]_vars

\* A continue that finds nothing left to do has not failed.
Failing ==
  \E p \in Proc :
    \/ Trouble(p) /\ ~ContinueStamp(p)
    \/ PhaseEnd(p) /\ ends' = ends
    \/ WriteManifest(p) /\ At(p, "idle")'
    \/ WriteStatus(p) /\ status' # Outcome(p)

\* A run that has a manifest and a finished phase is finished by continuing
\* it, once processes and writes stop failing.
Finishes ==
  \/ []<><<Failing>>_vars
  \/ (manifest # "none" /\ Ended # {}) ~> (done = Phase)

\* cli/mod.rs:452 "Continue a paused or failed run": a run whose process has
\* gone with phases finished can be continued.
Continuable ==
  (status # "none" /\ Ended # {} /\ \A p \in Proc : At(p, "idle")) => manifest # "none"
=============================================================================
