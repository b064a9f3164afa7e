----------------------------- MODULE ProbeTables -----------------------------
(***************************************************************************)
(* The auto-probed sidecars of one provider (llm/probe_table.rs,           *)
(* temperature_probe.rs, top_p_probe.rs, top_k_probe.rs): rows that say    *)
(* what each model accepts, and the operator's pin. Runs load the file,    *)
(* verify or sweep every model in the background and fold their rows into  *)
(* the file; `moagan probe` sweeps on demand and pins the outcome.         *)
(*                                                                         *)
(* kind is the parameter the file is about. A row's value is a set: every  *)
(* accepted value for temperature, the least and the largest for top_p and *)
(* top_k, one for max_tokens (TokenSearch says which; its floor, which may *)
(* be more than the upstream takes, is left out here).                     *)
(***************************************************************************)
EXTENDS Integers, FiniteSetsExt

CONSTANTS
  Run, Cli,   \* processes: runs, and `moagan probe` commands
  Model,      \* models of the provider, each a (section, model) pair
  Value,      \* candidate values, positive
  Ttl,        \* MOAGAN_PROBE_TTL_SECS
  MaxTime,    \* bound: the clock
  None

Kinds == {"max_tokens", "temperature", "top_p", "top_k"}

ASSUME ProbeAssumption ==
  /\ Run \cap Cli = {}
  /\ Value \subseteq Nat \ {0} /\ IsFiniteSet(Value)
  /\ Ttl \in Nat /\ MaxTime \in Nat

VARIABLES
  kind,
  accepts,   \* what the upstream takes now, by model
  now,
  disk,      \* the file: [rows, pin]
  readable,  \* load understands the file
  mem,       \* each process's table
  pc,        \* off | run | cli | pin | pinned
  task,      \* each process's probe of each model
  probed,    \* the row a verify captured before it asked
  answer,    \* its outcome
  gave,      \* ProbePacer::gave_up of the task's transport
  sweep,     \* how far each sweep is: [left, heard, lossy]
  swept,     \* moagan probe: what each model's sweep returned
  ruled      \* the task has had a clear answer

Proc == Run \cup Cli
world == <<kind, accepts>>
file == <<disk, readable>>
vars == <<kind, accepts, now, disk, readable, mem, pc, task, probed, answer,
          gave, sweep, swept, ruled>>

NoTable == [rows |-> [m \in Model |-> None], pin |-> None]
All(v) == [m \in Model |-> v]

Row == [value : SUBSET (Value \cup {0}), detected : 0 .. MaxTime,
        verified : 0 .. MaxTime]
Table == [rows : [Model -> Row \cup {None}],
          pin : (SUBSET Value) \cup {None}]
Progress == [left : SUBSET Value, heard : SUBSET Value, lossy : BOOLEAN]
Unswept == [left |-> Value, heard |-> {}, lossy |-> FALSE]

ASSUME NoneAssumption ==
  None \notin Row /\ \A A \in SUBSET (Value \cup {0}) : A # None

TypeOK ==
  /\ kind \in Kinds
  /\ accepts \in [Model -> SUBSET Value]
  /\ now \in 0 .. MaxTime
  /\ disk \in Table
  /\ readable \in BOOLEAN
  /\ mem \in [Proc -> Table]
  /\ pc \in [Proc -> {"off", "run", "cli", "pin", "pinned"}]
  /\ task \in [Proc -> [Model -> {"idle", "start", "verdict", "kept", "dropped",
                                  "sweep", "stored", "done"}]]
  /\ probed \in [Proc -> [Model -> Row \cup {None}]]
  /\ answer \in [Proc -> [Model -> {"accepted", "rejected", "unclear"}]]
  /\ gave \in [Proc -> [Model -> BOOLEAN]]
  /\ sweep \in [Proc -> [Model -> Progress]]
  /\ swept \in [Proc -> [Model -> (SUBSET Value) \cup {None}]]
  /\ ruled \in [Proc -> [Model -> BOOLEAN]]

(* What a sweep that accepted A leaves in the row: each kind's own rule.   *)
(* max_tokens fails when nothing is accepted.                              *)
Kept_max_tokens(A) == IF A = {} THEN None ELSE {Max(A)}
Kept_temperature(A) == A
Kept_top_p(A) == IF A = {} THEN {0} ELSE {Min(A), Max(A)}
Kept_top_k(A) == IF A = {} THEN {0} ELSE {Min(A), Max(A)}

Kept(A) ==
  CASE kind = "max_tokens"  -> Kept_max_tokens(A)
    [] kind = "temperature" -> Kept_temperature(A)
    [] kind = "top_p"       -> Kept_top_p(A)
    [] kind = "top_k"       -> Kept_top_k(A)

(* What verify asks about: of top_p and top_k the least value only. *)
Asked(value) == IF kind \in {"top_p", "top_k"} THEN {Min(value)} ELSE value

(* The file is what earlier processes left of an upstream that may have    *)
(* accepted something else.                                                *)
Init ==
  /\ kind \in Kinds
  /\ accepts \in [Model -> SUBSET Value]
  /\ now = 0
  /\ \E old \in [Model -> {None} \cup {Kept(A) : A \in SUBSET Value}] :
       disk = [rows |-> [m \in Model |-> IF old[m] = None THEN None ELSE
                          [value |-> old[m], detected |-> 0, verified |-> 0]],
               pin |-> None]
  /\ readable = TRUE
  /\ mem = [p \in Proc |-> NoTable]
  /\ pc = [p \in Proc |-> "off"]
  /\ task = [p \in Proc |-> All("idle")]
  /\ probed = [p \in Proc |-> All(None)]
  /\ answer = [p \in Proc |-> All("unclear")]
  /\ gave = [p \in Proc |-> All(FALSE)]
  /\ sweep = [p \in Proc |-> All(Unswept)]
  /\ swept = [p \in Proc |-> All(None)]
  /\ ruled = [p \in Proc |-> All(FALSE)]

-----------------------------------------------------------------------------
(* Nothing of the disk survives but what this process holds. *)
MutantMerge(theirs, mine) == mine

(* merge_entries and persist_to: a row of this process replaces the one on *)
(* disk unless that one was verified later; rows it never held, or dropped,*)
(* stay. Its pin, if it has one, replaces the pin on disk.                 *)
Merge(theirs, mine) ==
  [rows |-> [m \in Model |->
     IF \/ mine.rows[m] = None
        \/ theirs.rows[m] # None /\ theirs.rows[m].verified > mine.rows[m].verified
       THEN theirs.rows[m] ELSE mine.rows[m]],
   pin |-> IF mine.pin = None THEN theirs.pin ELSE mine.pin]

(* persist_to, under the file lock: the file is read again, merged and     *)
(* renamed into place. A file that cannot be read counts as empty: it is   *)
(* rewritten from what this process holds, whatever it had. A save that    *)
(* fails is logged and forgotten.                                          *)
Persist(p) ==
  \/ /\ disk' = Merge(IF readable THEN disk ELSE NoTable, mem[p])
     /\ readable' = TRUE
  \/ UNCHANGED file

Fresh(row) == row # None /\ now - row.verified < Ttl

(* What `moagan probe` pins, from the sweeps that succeeded. *)
Outcomes(p) == {swept[p][m] : m \in Model} \ {None}
Pin_temperature(p) == IF Outcomes(p) = {} THEN None ELSE UNION Outcomes(p)
Pin_least(p) == IF UNION Outcomes(p) = {} THEN None ELSE {Min(UNION Outcomes(p))}
Pin(p) == IF kind = "temperature" THEN Pin_temperature(p) ELSE Pin_least(p)

-----------------------------------------------------------------------------
(* arm_probe_subsystem: the table is loaded and a task is spawned for      *)
(* every model whose row is not fresh. No run starts on a file that it     *)
(* cannot read.                                                            *)
StartRun(p) ==
  /\ pc[p] = "off" /\ p \in Run /\ readable
  /\ pc' = [pc EXCEPT ![p] = "run"]
  /\ mem' = [mem EXCEPT ![p] = disk]
  /\ task' = [task EXCEPT ![p] = [m \in Model |->
                IF Fresh(disk.rows[m]) THEN "done" ELSE "start"]]
  /\ UNCHANGED <<world, now, file, probed, answer, gave, sweep, swept, ruled>>

(* The answer a verify may get. A clear one is true; an unclear one says   *)
(* nothing. temperature asks for every stored value, each with a retry, so *)
(* an answer may be clear although one request was given up.               *)
Verdicts(m, row) ==
  {v \in {"accepted", "rejected", "unclear"} :
     /\ v = "accepted" => Asked(row.value) \subseteq accepts[m]
     /\ v = "rejected" => ~(Asked(row.value) \subseteq accepts[m])
     /\ v = "unclear" => row.value # {}}
GiveUps(v) == IF v = "unclear" \/ kind = "temperature" THEN BOOLEAN ELSE {FALSE}

(* verify, up to its last await. *)
Ask(p, m) ==
  /\ pc[p] = "run" /\ task[p][m] = "start" /\ mem[p].rows[m] # None
  /\ probed' = [probed EXCEPT ![p][m] = mem[p].rows[m]]
  /\ \E v \in Verdicts(m, mem[p].rows[m]) :
       /\ answer' = [answer EXCEPT ![p][m] = v]
       /\ ruled' = [ruled EXCEPT ![p][m] = v # "unclear"]
       /\ \E g \in GiveUps(v) : gave' = [gave EXCEPT ![p][m] = @ \/ g]
  /\ task' = [task EXCEPT ![p][m] = "verdict"]
  /\ UNCHANGED <<world, now, file, mem, pc, sweep, swept>>

(* A rejected row is kept, as if the answer had been unclear. *)
MutantVerified(row, same, v) ==
  IF ~same \/ v # "accepted" THEN row ELSE [row EXCEPT !.verified = now]

(* The row after a verify: left alone if it was replaced meanwhile. *)
Verified(row, same, v) ==
  CASE ~same \/ v = "unclear" -> row
    [] same /\ v = "accepted" -> [row EXCEPT !.verified = now]
    [] same /\ v = "rejected" -> None

(* The rest of verify: the table is updated under its lock. *)
Apply(p, m) ==
  /\ task[p][m] = "verdict"
  /\ LET row == mem[p].rows[m]
         same == /\ row # None
                 /\ Asked(row.value) = Asked(probed[p][m].value)
                 /\ row.detected = probed[p][m].detected
     IN  /\ mem' = [mem EXCEPT ![p].rows[m] = Verified(row, same, answer[p][m])]
         /\ task' = [task EXCEPT ![p][m] =
              IF same /\ answer[p][m] # "rejected" THEN "kept" ELSE "dropped"]
  /\ probed' = [probed EXCEPT ![p][m] = None]
  /\ answer' = [answer EXCEPT ![p][m] = "unclear"]
  /\ UNCHANGED <<world, now, file, pc, gave, sweep, swept, ruled>>

(* verify's save. A verify that returned false is followed by a sweep over *)
(* the same transport; otherwise the task ends and its transport with it.  *)
SaveVerified(p, m) ==
  /\ task[p][m] \in {"kept", "dropped"}
  /\ Persist(p)
  /\ task' = [task EXCEPT ![p][m] = IF @ = "kept" THEN "done" ELSE "sweep"]
  /\ gave' = [gave EXCEPT ![p][m] = @ /\ task[p][m] = "dropped"]
  /\ UNCHANGED <<world, now, mem, pc, probed, answer, sweep, swept, ruled>>

(* No row: straight to the sweep. *)
NothingToVerify(p, m) ==
  /\ pc[p] = "run" /\ task[p][m] = "start" /\ mem[p].rows[m] = None
  /\ task' = [task EXCEPT ![p][m] = "sweep"]
  /\ UNCHANGED <<world, now, file, mem, pc, probed, answer, gave, sweep, swept,
                 ruled>>

(* One candidate of a sweep: parallel_probe, retry_once_on_indeterminate   *)
(* and its place among the outcomes, which are gone through in the order   *)
(* of the candidates. An answer is true; a request may be lost; one still  *)
(* throttled after every retry of the pacer sets its flag.                 *)
Request(p, m) ==
  /\ task[p][m] = "sweep" /\ sweep[p][m].left # {}
  /\ \E outcome \in {"answered", "lost", "throttled"} :
       LET v == Min(sweep[p][m].left)
       IN  /\ sweep' = [sweep EXCEPT ![p][m] =
                [left |-> @.left \ {v},
                 heard |-> IF outcome = "answered" THEN @.heard \cup ({v} \cap accepts[m])
                                                   ELSE @.heard,
                 lossy |-> @.lossy \/ outcome = "lost"]]
           /\ gave' = [gave EXCEPT ![p][m] = @ \/ outcome = "throttled"]
  /\ UNCHANGED <<world, now, file, mem, pc, task, probed, answer, swept, ruled>>

(* The give-up flag is not consulted. *)
MutantStores(value, gaveUp) == value # None

(* probe_and_store stores nothing once the transport has given up. *)
Stores(value, gaveUp) == value # None /\ ~gaveUp

(* A sweep that stored nothing is repeated. *)
MutantAfterSweep(stored) == IF stored THEN "stored" ELSE "sweep"

AfterSweep(stored) == IF stored THEN "stored" ELSE "done"

(* The rest of probe_and_store, after the last answer: the flag is looked  *)
(* at and the new row put into the table.                                  *)
StoreRow(p, m) ==
  /\ task[p][m] = "sweep" /\ sweep[p][m].left = {}
  /\ LET heard == sweep[p][m].heard
         value == Kept(heard)
         stored == Stores(value, gave[p][m])
     IN  /\ IF stored
              THEN /\ mem' = [mem EXCEPT ![p].rows[m] =
                        [value |-> value, detected |-> now, verified |-> now]]
                   /\ swept' = [swept EXCEPT ![p][m] =
                        IF p \notin Cli THEN @
                        ELSE IF kind = "max_tokens" THEN value ELSE heard]
                   /\ ruled' = [ruled EXCEPT ![p][m] = TRUE]
              ELSE UNCHANGED <<mem, swept, ruled>>
         /\ task' = [task EXCEPT ![p][m] = AfterSweep(stored)]
  /\ sweep' = [sweep EXCEPT ![p][m] = Unswept]
  /\ gave' = [gave EXCEPT ![p][m] = FALSE]
  /\ UNCHANGED <<world, now, file, pc, probed, answer>>

SaveStored(p, m) ==
  /\ task[p][m] = "stored"
  /\ Persist(p)
  /\ task' = [task EXCEPT ![p][m] = "done"]
  /\ UNCHANGED <<world, now, mem, pc, probed, answer, gave, sweep, swept, ruled>>

-----------------------------------------------------------------------------
(* moagan probe: the models one after the other, each with a table loaded  *)
(* anew and a transport of its own.                                        *)
StartCli(p) ==
  /\ pc[p] = "off" /\ p \in Cli
  /\ pc' = [pc EXCEPT ![p] = "cli"]
  /\ task' = [task EXCEPT ![p] = All("start")]
  /\ swept' = [swept EXCEPT ![p] = All(None)]
  /\ UNCHANGED <<world, now, file, mem, probed, answer, gave, sweep, ruled>>

NextModel(p, m) ==
  /\ pc[p] = "cli" /\ readable /\ task[p][m] = "start"
  /\ \A o \in Model : task[p][o] \in {"start", "done"}
  /\ mem' = [mem EXCEPT ![p] = disk]
  /\ task' = [task EXCEPT ![p][m] = "sweep"]
  /\ UNCHANGED <<world, now, file, pc, probed, answer, gave, sweep, swept, ruled>>

(* --persist-min or --persist-union: the table is loaded once more ... *)
LoadToPin(p) ==
  /\ pc[p] = "cli" /\ readable /\ task[p] = All("done") /\ Pin(p) # None
  /\ mem' = [mem EXCEPT ![p] = disk]
  /\ pc' = [pc EXCEPT ![p] = "pin"]
  /\ UNCHANGED <<world, now, file, task, probed, answer, gave, sweep, swept, ruled>>

(* ... and set_operator_cap changes it: temperature adds to the pin, the   *)
(* others replace it.                                                      *)
SetOperatorCap(p) ==
  /\ pc[p] = "pin"
  /\ LET old == mem[p].pin
     IN  mem' = [mem EXCEPT ![p].pin =
           IF kind = "temperature" /\ old # None THEN old \cup Pin(p) ELSE Pin(p)]
  /\ pc' = [pc EXCEPT ![p] = "pinned"]
  /\ UNCHANGED <<world, now, file, task, probed, answer, gave, sweep, swept, ruled>>

(* A process ends, or is killed, anywhere. *)
Gone(p) ==
  /\ pc' = [pc EXCEPT ![p] = "off"]
  /\ mem' = [mem EXCEPT ![p] = NoTable]
  /\ task' = [task EXCEPT ![p] = All("idle")]
  /\ probed' = [probed EXCEPT ![p] = All(None)]
  /\ answer' = [answer EXCEPT ![p] = All("unclear")]
  /\ gave' = [gave EXCEPT ![p] = All(FALSE)]
  /\ sweep' = [sweep EXCEPT ![p] = All(Unswept)]
  /\ swept' = [swept EXCEPT ![p] = All(None)]
  /\ ruled' = [ruled EXCEPT ![p] = All(FALSE)]
  /\ UNCHANGED <<world, now>>

(* The save of the pin is the command's last act, and may fail. *)
SavePin(p) == pc[p] = "pinned" /\ Persist(p) /\ Gone(p)

End(p) ==
  /\ pc[p] \in {"run", "cli"} /\ task[p] = All("done")
  /\ Gone(p) /\ UNCHANGED file

Kill(p) == pc[p] # "off" /\ Gone(p) /\ UNCHANGED file

(* A command that comes to load a file it cannot read fails. *)
LoadFails(p) ==
  /\ pc[p] = "cli" /\ ~readable
  /\ \A m \in Model : task[p][m] \in {"start", "done"}
  /\ task[p] # All("done") \/ Pin(p) # None
  /\ Gone(p) /\ UNCHANGED file

(* The file becomes one that load refuses (edited by hand, written by a    *)
(* newer version, an I/O error), or is put right.                          *)
Spoil ==
  /\ readable' = ~readable
  /\ UNCHANGED <<world, now, disk, mem, pc, task, probed, answer, gave, sweep, swept,
                 ruled>>

Tick ==
  /\ now < MaxTime /\ now' = now + 1
  /\ UNCHANGED <<world, file, mem, pc, task, probed, answer, gave, sweep, swept,
                 ruled>>

ProbeStep(p, m) ==
  \/ Ask(p, m) \/ Apply(p, m) \/ SaveVerified(p, m)
  \/ NothingToVerify(p, m) \/ Request(p, m) \/ StoreRow(p, m) \/ SaveStored(p, m)
  \/ NextModel(p, m)

Next ==
  \/ \E p \in Proc :
       \/ StartRun(p) \/ StartCli(p) \/ LoadToPin(p) \/ SetOperatorCap(p)
       \/ SavePin(p) \/ End(p) \/ Kill(p) \/ LoadFails(p)
       \/ \E m \in Model : ProbeStep(p, m)
  \/ Tick \/ Spoil

Spec == Init /\ [][Next]_vars
FairSpec == Spec /\ \A p \in Run, m \in Model : WF_vars(ProbeStep(p, m))

-----------------------------------------------------------------------------
(* merge_entries: whatever processes save, in whatever order, no row       *)
(* leaves the file or gives way to one verified earlier, and a provider    *)
(* that has a pin keeps one, if not always the same. Only the save that    *)
(* meets a file it cannot read starts it anew.                             *)
NothingLost ==
  [][readable =>
       /\ \A m \in Model : disk.rows[m] # None =>
            /\ disk'.rows[m] # None
            /\ disk'.rows[m].verified >= disk.rows[m].verified
       /\ disk.pin # None => disk'.pin # None]_vars

(* temperature_probe.rs:1391-1397: the pin is "the union of the supplied   *)
(* set with whatever the in-memory map already carries", because "a        *)
(* separate process (or a previous invocation) may have written its own    *)
(* cap", and is "not 'the last write wins'": what was pinned stays pinned. *)
PinsAddUp ==
  [][kind = "temperature" /\ readable /\ disk.pin # None =>
       disk.pin \subseteq disk'.pin]_vars

(* probe_gate.rs:14-16 "the caller stores nothing measured under           *)
(* throttling": whatever the provider throttles, in verify or in sweep, a  *)
(* row that is stored says exactly what the upstream takes, unless its     *)
(* sweep lost an answer otherwise (max_tokens is searched, not swept).     *)
ThrottlingNeverNarrows ==
  [][\A p \in Proc, m \in Model :
       /\ kind # "max_tokens"
       /\ task[p][m] = "sweep" /\ task'[p][m] = "stored"
       /\ ~sweep[p][m].lossy
       => mem'[p].rows[m].value = Kept(accepts[m])]_vars

(* A task that ended on a clear answer leaves its process no value that    *)
(* verify asks about and the upstream refuses, whatever the file held: a   *)
(* stale row is gone, and the sweep that follows puts back only what was   *)
(* accepted (or the placeholder 0 of top_p and top_k).                     *)
Repaired ==
  \A p \in Run, m \in Model :
    task[p][m] = "done" /\ ruled[p][m] /\ mem[p].rows[m] # None =>
      Asked(mem[p].rows[m].value) \subseteq accepts[m] \cup {0}

(* await_ready returns: every probe a run has armed ends, whatever the     *)
(* provider answers, unless the run does.                                  *)
Settles ==
  \A p \in Run : pc[p] = "run" ~> (pc[p] = "off" \/ task[p] = All("done"))
=============================================================================
