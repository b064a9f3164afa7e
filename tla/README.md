# TLA+ models of moagan

moagan drives language models through a pipeline of phases, keeps every
intermediate result on disk and in SQLite, and lets an operator pause, continue
and repeat a run. The repository is a single Rust crate; almost all of it runs
inside one tokio runtime, but several moagan processes may work on the same run,
and any of them may die at any point.

This directory models the parts where order, failure and time decide whether the
program is right. Each component has a module, an `MC*` module with a `.cfg` per
question, and a module with the theorems TLAPS checks. `PROJECT.json`
lists the runs, the mutants that show each property can fail, the source lines
behind every definition, the hazards and the findings. Paths below are relative
to the crate's `src/`.

To repeat: `tlc -config X.cfg MCModule` for a run, `tlapm ModuleProofs.tla` for
the proofs.

## 1. Inventory

### 1.1 Components that keep state

| component | source | state | operations | hard behaviour |
|---|---|---|---|---|
| run lease and heartbeat | `storage/lease.rs`, `storage/sqlite.rs` (`renew_lease`, `release_run_lease`), `telemetry/heartbeat.rs`, `phases/phase.rs` (`ensure_heartbeat`, `abort_heartbeat`, `Drop for RunContext`) | rows of `process_locks`; a guard with a fence per process; one task | acquire, renew, release, abort, clone and drop of the context | several processes, a SELECT and a write without a transaction, abort of a task, crash without drop |
| circuit breaker | `llm/circuit_breaker.rs` | state, failure counter, instants | `run`, `pre_check`, `record_success`, `record_failure`, `trip` | callers sleep outside the mutex and act on what they read inside it |
| adaptive throttle | `llm/governor.rs`, `RunContext::dispatch_with_governors` | cooldown per provider, backoff and concurrency estimate per role | `on_429`, `on_success`, two sleeps before each call | answers arrive in any order, integer decay, retry hints |
| model call with retries | `RunContext::call_with_retry_parse`, `llm/retry_budget.rs`, `llm/json_strategy.rs` | attempt counter, frozen budget, stored answer | dispatch, cache hit, parse, continue, prefill, repair | an endless loop with four ways to recover and a cache that outlives a crash |
| atomic writer | `atomic/writer.rs`, `reconcile/mod.rs` (`plan_cleanup`, `cleanup_orphans`) | a file, its sidecar, their temporaries, what the disk would show after a power loss | the seven steps of `write`; cleanup | overlapping writers, errors and power loss between steps |
| run lifecycle | `phases/pipe.rs`, `cli/run.rs`, `cli/continue_cmd.rs`, `cli/pause_cmd.rs`, `discovery/pause.rs`, `discovery/resume.rs`, `storage/sqlite.rs` | `runs` row, `phases` rows, `manifest.json`, `paused.json`, artefacts | run, rerun, continue, continue --from-pause, pause; start and end of phases | several processes, crash between any two writes, lost index rows, one-second clock |
| zombie recovery and outbox | `reconcile/mod.rs`, `storage/outbox_tx.rs` | ids listed, events | list, flip, emit | acts on an old listing while the run goes on |
| subprocess sandbox, `Cancel` | `sandbox/process.rs`, `cancel.rs` | process groups, registry of groups, watchdog tasks, token | spawn, register, feed, wait, drain, drop; cancel tiers | processes that ignore signals, dropped futures, two kinds of killer |
| response and prompt cache | `llm/cache/mod.rs`, `llm/prompt_cache.rs` | one file per key, an in-memory index | lookup (rewrites the entry), store, evict | processes share the directory |
| rate limiter, permits | `llm/rate_limiter.rs`, `execution/` | token bucket, semaphores | acquire, acquire with maximum, refund | concurrent refills in floating point |
| max_tokens search | `llm/probe.rs` | bounds of the search, rounds | cap from an error body, doubling, parallel batches, commit | lost answers, wrong caps, off-by-one at both ends, saturation |
| probe tables and sidecars | `llm/probe_table.rs`, `llm/temperature_probe.rs`, `llm/top_p_probe.rs`, `llm/top_k_probe.rs`, `llm/probe_gate.rs`, `llm/probe_ttl.rs`, `llm/sidecar_merge.rs`, `cli/probe.rs` | a table per process, one file per kind, the operator's pin | load, verify, sweep, merge, save, pin | processes with tables of different ages, throttling, rows replaced during a request |
| parameter rejections | `llm/param_rejections.rs` | a sidecar file | learn, merge | processes merge verdicts |
| discovery pipeline | `cli/discover.rs`, `discovery/`, `phases/discover_*` | brief, dimensions, matrix, one file per thesis and per curated cell, catalogue, status | run, merge, continue; fan-out, retry, curate, render | partial fan-outs, stale curations, a registry that changed, two processes |
| human checkpoints | `checkpoint/` | answer files | ask, replay | a resumed run must not ask twice |
| telemetry, audit, exports | `telemetry/`, `audit/` | tables and logs | append, sweep, retain, verify | deletion next to running processes |

The phases themselves, validators, ranking, prompts, JSON extraction, clients,
model catalogue, redaction, research, preferences, configuration and the
reporting commands hold no state that several actors share; `PROJECT.json` lists
each with the reason it is not modelled.

### 1.2 How they interact

A command opens the SQLite index, runs the startup reconcile (leftover
temporaries, then zombies) and starts a pipeline. The pipeline takes the run's
lease on its first phase, spawns the heartbeat that renews it, and executes the
phases in order, recording a start and an end row for each. A phase writes its
artefacts with `AtomicWriter` and calls models through
`call_with_retry_parse`, which looks in the caches, sleeps in the provider's gate
and in the role's governor, and dispatches. `validate` runs generated code through
the sandbox, whose registry hangs on the run's `Cancel` handle. Before the first
phase a command arms the probes: background tasks that verify or search what each
model accepts and fold it into the sidecars; `discover` waits for them first, `run`
for two of the four kinds, and only when its pipeline is over. Ctrl-C cancels the
token and drops the pipeline's future, and with it every guard and clone.

### 1.3 What makes each part correct

* Lease: a row never outlives the processes that could release it; the
  heartbeat of a finished run ends; a process notices that its lease is gone.
* Breaker: state and counter agree; only an unbroken streak opens it; it closes
  once the provider has recovered.
* Throttle: caps hold; the 429 of one call does not shorten the cooldown that
  another installed; the estimate recovers.
* Retry loop: a bound on requests whatever happens; a bad stored answer is never
  the reason of a failure (one that cannot be read is, against the cache's own
  comment); repair is the last resort; every call returns.
* Writer: no torn content, no acknowledged write lost, sidecar never ahead.
* Lifecycle: phases in order, finished work kept, `completed` only when nothing
  is missing, resume without repetition, and continuing finishes a run.
* Sandbox: nothing registered for ever, no process past timeout and grace, no
  call that waits for ever.
* Search: what is stored is accepted, or the floor, and close to the best; the
  rounds suffice.
* Probe tables: no row of a file that can be read is lost to an older table or gives
  way to one verified earlier, throttling never narrows a row, refused values go, and
  every probe ends.
* Discovery: `completed` means every cell is curated as it stands, the catalogue
  lists every thesis once, and continuing a finished run asks nothing.

## 2. Modules

| module | extends / instantiates | models |
|---|---|---|
| `RunLease`, `RunLeaseProofs`, `MCRunLease` | | the lease of one run |
| `CircuitBreaker`, `MCCircuitBreaker` | | one breaker and its callers |
| `Throttle`, `MCThrottle` | | one provider's gate, the governors of its roles, their callers |
| `ProviderProofs` | extends `Throttle`, `CircuitBreaker` | the theorems about both |
| `RetryLoop`, `RetryLoopProofs`, `MCRetryLoop` | | one call, in one session after another |
| `AtomicWriter`, `AtomicWriterProofs`, `MCAtomicWriter` | | one destination, its writers, the disk and the cleanup |
| `RunProgress` | | abstract: what a run promises |
| `RunLifecycle`, `RunLifecycleProofs`, `MCRunLifecycle` | instantiates `RunProgress` | one linear run, all the commands and the zombie sweep |
| `Sandbox`, `SandboxProofs`, `MCSandbox` | | the subprocesses of one `Cancel` handle |
| `TokenSearch`, `MCTokenSearch` | | one search for `max_tokens` against one upstream |
| `ProbeTables`, `MCProbeTables` | | one sidecar of each kind, the runs and `moagan probe` commands that use it |
| `ProbeProofs` | extends `TokenSearch`, `ProbeTables` | the theorems about both |
| `DiscoverFanout`, `DiscoverFanoutProofs`, `MCDiscoverFanout` | | one discovery run, all commands on it |

`RunLifecycle` composes the pipeline, the commands, pausing and the recovery
sweep over the tables and files they share. It and `DiscoverFanout` take from
`RunLease` one fact (section 5): the lease does not keep a second process out, so
any number of processes may execute the run. `ProbeTables` takes from `TokenSearch`
that a sweep stores what was accepted. Where two components share a module of
proofs nothing of one is used for the other: their definitions have different
names, which is why those of the breaker and of the search carry a prefix
(`BreakerNext`, `SearchNext`).

### RunLease

`rows` is `process_locks` by holder, `guard` the `LeaseGuard` of each process,
`snap` what a `SELECT` returned and the statement after it will use, `task` and
`handle` the heartbeat task and the slot that owns its handle, `clones` the live
`RunContext` clones. `AcquireSelect`/`AcquireWrite` and `TickSelect`/`TickWrite`
are the two statements of `renew_lease`; no transaction surrounds them.
`DropClone` aborts the heartbeat whichever clone goes, as the code does. A crash
leaves the row. `MaxTime`, `MaxFence` and `MaxClones` bound the clock, the fence
and the clones.

### CircuitBreaker

The mutex makes each method one step; the sleep of `run` and the wrapped call are
not under it, so a caller is `idle`, `sleeping` with a wait it computed earlier,
or `calling`. Instants are ages, capped just above the longest duration they are
compared with, so that the clock needs no bound. `recent` is a history of the
failures since the last success, for `OpensOnStreak`; the code does not have it.
The counter saturates at `MaxFailures` as the `u32` does.

### Throttle

`level`/`cooling` are the gate of the provider, `conc`/`backoff`/`quiet` the
governor of each role, `pc`/`sleep` the callers. The gate is read once, before
its sleep; the governor after it. Backoff doubles with a cap and decays by integer
3/4 as in `governor.rs`; a `Retry-After` above the cap is in the inputs. An
exhausted plan feeds the gate only.

### RetryLoop

An answer is its parse class and whether it was cut short. The loop's branches are
actions: `CacheHit`, `CacheErr`, `DispatchOk`, `DispatchErr`, `Continue`, `Stitched`, `Parse`,
`Prefill`, `Decide`, `Repair`. `Lookup` is what the cache may return in the first
attempt: an answer; a miss (none stored, or past its time to live); or an error, when
the entry cannot be decoded (`cached = Undecodable`), read, or rewritten with the time
of the hit. The error ends the call at once (`CacheErr`). `Evict` is the eviction that
the store of another call triggers. `Decide` freezes the budget at the first failure.
`Resume` starts the next session of the same call, after a failure or the death of
the process at any step, with the answer the cache holds. `sends` counts the requests
the session hands to the dispatch; below it, `LlmClient::send` repeats a request
without the parameters a provider rejected (`llm/client/mod.rs:502-560`), which may add
to what goes over the wire.

### AtomicWriter

Contents are named by their writers. `dest`/`meta` are what a reader finds,
`maybe` what the disk may show after power is lost (a rename reaches it with the
directory's fsync), `synced` the contents whose fsync returned, `torn` the contents
damaged by a power loss. `rank` orders contents by when they were put in place.
`Fail` and `Die` stop a writer anywhere; `PowerLoss` stops all and picks a disk.
`PlanCleanup`/`RemoveOrphan` are the reconcile of another process, which lists
first and removes later.

### RunLifecycle and RunProgress

`ends` holds the `phases` rows by phase and sequence number (a resumed process
numbers from zero again, as the code does), `done` the artefacts. A command is a
record: its next step, where it resumes and where it is. `Run`, `RerunManifest`,
`ContinueLoad`, ... are the commands in the order of their writes; `PhaseStart`,
`PhaseWork`, `PhaseEnd` the pipeline; `PhaseEnd` may lose its row, because the
mirror only logs its failure; `Crash` may happen anywhere. `LastCompleted` is the
`ORDER BY` of `last_completed_phase`, ties and the phases its `CASE` does not list
(`Unlisted`) included. `Pause`/`PauseAt` write `paused.json`;
`ListZombies`/`FlipZombie`/`EmitZombie`/`SweepDies` are the sweep.

`RunProgress` has two variables, the finished phases and the verdict of the
index: a phase finishes only after all before it, nothing finished is lost, and
the verdict becomes `completed` only with every phase done. `KeepsPromise` is the
refinement `verdict <- status`, `done <- done`.

### Sandbox

A call leads a process group: `leader` is the child, `helper` the rest, which may
outlive it, ignores SIGTERM if it likes, and holds the pipes. `watchdog` is the
detached task of `spawn_watchdog`, `registry` the pgids on the `Cancel` handle,
`killer` the task of a Hard cancel with the groups it copied. `Drop` is the future
dropped at an await. `Fed` are the calls with stdin to write: the code writes it
before it creates deadline, watchdog and readers.

### TokenSearch

The upstream accepts `least .. cap`. `Phase0` reads any cap at all from the error
body, `Validate` asks for it, `Walk`/`WalkEnds` double, `Narrow` is one batch of
phase 2 (its points are read upwards, so a batch is the number of points accepted
before the first that is not), `Commit` applies floor and ceiling. The variables
have the code's names. `lost` counts the accepted values whose request and retry
both came back without a clear answer; the code cannot tell them from refusals.

### ProbeTables

`kind` says which of the four tables the file belongs to. `disk` is the sidecar
(rows and the operator's pin), `readable` whether `load` understands it, `mem` the
table of each process, `task` the state of its probe of each model: `start`, the
answer of a verify (`Ask`), its effect under the lock (`Apply`) and its save are
separate steps. A sweep is one `Request` per candidate, each answered, lost or throttled, in
the order in which the code goes through the outcomes, and `sweep` says how far it is; `StoreRow` is what follows its last
answer: the look at `gave`, the pacer's give-up flag that verify and sweep of one task
share, and the new row. Its save comes after that (`SaveStored`).
`Persist` reads, merges and renames under the file lock, or fails and is forgotten; if
it cannot read the file it starts it anew from its own rows. `Spoil` makes the file
unreadable or puts it right, `LoadFails` is a command that has to load it then; a run
does not start on it. `accepts` is the upstream. The file starts with rows left by
earlier processes, of an upstream that may have changed. `top_p` and `top_k` rows hold
both ends of the accepted set, and verify asks about the lower one only (`Asked`).
`StartCli`, `NextModel`, `LoadToPin`, `SetOperatorCap` and `SavePin` are `moagan probe`
with `--persist-min` or `--persist-union`. Ghosts: `lossy` in `sweep` (it lost an
answer, but not to throttling), `ruled` (the task has had a clear answer). The identity check of verify (`same` in `Apply`) is in the model but always
finds the row it asked about: the program spawns one task per row in a process
(`cli/run.rs:473` has one pair, `cli/discover.rs:516` drops duplicates), and other
processes have tables of their own.

### DiscoverFanout

The variables up to `status` are the files of the run directory and its row;
`proc` is each process with its step, the registry it was started with and what it
has read. A thesis is its number and its cell: `Fanout` numbers the points after the
pairs the registry does not host are filtered out, as the code does. `Generate` is
the gate on short claims under the retry loop. `Attempt`, `ChunkOutcomes`,
`MergeChunks`, `CellOutcomes` give what a curator may leave in the file of a cell;
`Covers`, `PendingCells`, `Entry`, `Valid` are the tests of the same names in
`curation.rs`, `discover_curate.rs` and `catalog.rs`. `Merge`/`MergeThesis`/
`MergeSpec` are `discover merge` file by file; `Resume` rebuilds a missing spec from
the matrix. `Stop` ends a process at any step. Ghosts: `solo` (no two processes at
once so far), `lost` (cells whose last curation could not be written), `settled`
(a process that was started on a finished run).

## 3. Runs

| run | bounds | shows |
|---|---|---|
| `lease` | 2 processes, one holder name, TTL 2, clock 3, fence 3, one clone | no orphan row; heartbeats end |
| `breaker` | 3 callers, threshold 3, window = cooldown = 2, saturation 4 | state and counter agree; only a streak opens; recovery |
| `throttle` | 4 callers in 2 roles, backoff 3, cap 3, hint 4, concurrency 1 to 2, no jitter | no cooldown without a level; no 429 shortens a cooldown; recovery |
| `retry` | 3 modes, 4 strategies, ceilings 1, 2 and 5 | bounded requests; not poisoned; repair last; returns |
| `atomic` | 3 writers, 2 power losses, fsync on | never torn; durable; sidecar not ahead |
| `lifecycle` | 2 slots, 2 phases, the second unlisted, clock 0..1 | phases in order; refinement of `RunProgress` |
| `lifecycle_solo` | 1 slot, 3 phases, clock 0..2 | no repetition; continuing finishes |
| `lifecycle_continuable` (violation) | 1 slot, 2 phases | a failed run has no manifest |
| `sandbox` | 2 calls, one fed, timeout 2, grace 2 | no leak; bounded; watched; returns |
| `search` | batches of 20, floor 1024 and 32 rounds as in the program; upstreams and ceilings around powers of two, one lost answer | the stored value is accepted or the clamped floor; within two of the best; converges |
| `probes` | 1 run, 1 probe command, 1 model, 1 value, TTL 1, clock 0..2, all four kinds | while the file can be read no row, later verification or last pin is lost; throttling never narrows; refused values go; probes end |
| `discover` | 2 processes, 3 starts, 2 pairs, 2 cells, 2 registries, a merge of 3 theses, 2 theses per curator call | completed is curated; catalogue whole; finished run quiet |

Why the bounds are enough for the interesting cases. `lease`: two processes are
needed for a theft, a clock above the TTL for an expiry, fence 3 for an acquire
and two renewals. `breaker`: threshold 3 lets a streak be broken in the middle;
three callers let one sleep, one call and one probe. `throttle`: it takes four
calls in flight (a 429, two successes and another 429) before `max` in `on_429`
matters; with three callers a new cooldown is never shorter than the one in place.
Jitter only lengthens a sleep; the same run with jitter 1 passes too, in 2.3
million states. `retry`: the ceilings lie below, between and at the budgets.
`atomic`: three writers let two overlap and a third follow a power loss.
`lifecycle`: one phase before the other is enough for order; the second slot for
overlap; two instants for ties and for a listing that is old. `lifecycle_solo`:
three phases so that a resume can start at, before or after the middle one.
`search`: batch, floor and
rounds are the program's; the sentinel is 2^31 - 1 and the powers stop at 2^29, as
TLC's integers do, which is above every ceiling of the run. `probes`: two processes are
enough for one to save a table older than the file, and the clock lets a row be
verified twice; rows of different models never meet in a merge, and one value is enough
for a row that is there, absent, narrowed or refused. With two values, so that a sweep
may hear one candidate and lose or be denied the other, and the clock 0..1, the three
safety properties pass too, in 3.8 million states; three candidates and more, where
`top_p` and `top_k` leave the middle ones out, are left to the proofs. `discover`: three
starts let two processes overlap and a third continue what they left; three theses
with two per call make a cell that takes two curator calls; with the second pair
alone hosted the numbering moves.

`lifecycle` runs under `PatientSpec`: pauses are taken only once a phase has ended
and name a phase that is done. `Unlisted` is `{2}` there and `{}` in
`lifecycle_solo`: with an unlisted phase a clock tie makes a resume repeat it,
which is harmless for order but not for `NoRepeat`. `CHECK_DEADLOCK FALSE` is set
where the clock or the fence has a bound, or every process may have ended.

### Fairness

* `lease`: an SQL statement in flight returns and tokio polls a task that was
  aborted or whose token fired. Nothing is assumed of timers.
* `breaker`, `throttle`: time passes, a sleep that is over returns, a call
  returns (clients have timeouts) and callers come again (the retry loops do).
  That calls succeed is a hypothesis of `Recloses` and `Recovers`, not fairness.
* `retry`: the session's task is polled; restarts are not fair.
* `lifecycle_solo`: the operator goes on continuing the run, and a process that
  neither dies nor fails goes on. `Finishes` excuses behaviours that fail for ever.
* `probes`: the tasks of a living run go on, since tokio polls them and every
  request has a timeout; starts, deaths and the clock are not fair.
* `search` and `discover` check safety only.
* `sandbox`: ready tasks are polled before the clock advances, and time passes
  however often somebody cancels (strong fairness of the clock). Nothing is
  assumed of the processes.

## 4. Proofs

Every invariant and every action property of the passing runs is also a theorem,
for every value of the constants allowed by the named assumptions, and so is the
refinement of `RunProgress`. The type invariant of each module is proved too.

| module | theorems | argument |
|---|---|---|
| `RunLeaseProofs` | `TypeCorrect`, `NoOrphanRowCorrect` | types need `SnapRoom` (a snapshot about to be written has a fence below the bound); `NoOrphanRow` is inductive with the types, because whoever writes a row owns a guard in the same step and whoever loses its guard deletes the row of its holder |
| `ProviderProofs`, gate and governors | `TypeCorrect`, `CooldownHasLevelCorrect`, `NeverShortenedCorrect` | ranges of `Doubled` and `Decayed` as lemmas; the cooldown lives only on a positive level because clearing the level clears it |
| `ProviderProofs`, breaker | `BreakerTypeCorrect`, `StateMatchesCountCorrect`, `OpensOnStreakCorrect` | `StateMatchesCount` is inductive; the case that needs care is a failure after the window, where `record_failure` must reset state and counter together. `Streak`: while the breaker is closed, the last `failures` entries of the history lie within the window of each other and the last failure is no older than the instant the code keeps, or that instant is out of the window already |
| `RetryLoopProofs` | `TypeCorrect`, `NotPoisonedCorrect`, `WireBoundedCorrect`, `RepairIsLastResortCorrect` | `Silent`: a session that has sent nothing is in its first attempt or about to make a second one, which the Parse budget always grants, or was ended by the lookup; `Accounted`: the requests so far are paid for by finished attempts, the current one and the extras; `Justified`: the reason Parse is on record only for the answer at hand |
| `AtomicWriterProofs` | `TypeCorrect`, `NeverTornCorrect`, `DurableCorrect`, `SidecarNotAheadCorrect` | `Whole`/`Fresh`: only synced contents are ever named on disk, and a synced content is not damaged; `Kept`: whatever the disk may show is at least as new as every acknowledged write; `Follows`: until the power fails the file shows the last commit, and a writer that renames its sidecar has committed |
| `RunLifecycleProofs` | `TypeCorrect`, `InOrderCorrect`, `KeepsPromiseCorrect`, `NoRepeatCorrect` | `Shaped` (a process resumes before the phase it is at, and only one past the last phase has succeeded) and `Grounded` (ended rows, the pause and the position of every process stand on finished artefacts); then each step is a `Finish`, a `Conclude` or a stutter of `RunProgress`. `Chronicle`: the rows of later phases are not older than those of earlier ones, and a process at a phase is past every phase with a row; so the last row by time and tie-break is that of the highest phase (`LastIsHighest`) |
| `SandboxProofs` | `TypeCorrect`, `NoLeakCorrect`, `BoundedCorrect`, `WatchedCorrect` | `Stage` ties a call's state to its watchdog, and a watchdog that is done to a dead group; `Timely`: age and remaining grace together never exceed timeout plus grace |
| `ProbeProofs`, tables | `TypeCorrect`, `NothingLostCorrect`, `ThrottlingNeverNarrowsCorrect`, `RepairedCorrect` | types need `PinKnown` (a command that pins has finished its sweeps and has something to pin). `FileChanges`: the file changes only by a save, over what it held or, unreadable, over nothing; `MergeKeeps`: a merge keeps the rows a process does not have and the later of two verifications. `SweepOK`: at every request a sweep has heard all that the upstream takes of what it has asked, unless an answer was lost or the transport gave up; and the step that stores a row (`StoredBy`) is the one that finds nothing left to ask and the flag down. `ProbeOK`: what each step of one run's probe of one model says of its row; it is inductive for each run and model because only that task writes the row |
| `ProbeProofs`, search | `SearchInvariant`, `SearchIsSound`, `SearchIsTight`, `ConvergesCorrect` | `Grounded`: what was committed as accepted is accepted; `Walked`: every power of two below the next one was asked for, so a range that holds a power is found; in phase 2, while no answer is lost, the largest allowed value is at most one above `hi_strict`; `BatchMoves`: no batch leaves both ends where they were. `BatchHalves`: a batch of two points or more leaves less than half of the gap, so `Fits` bounds the gap of round r by 2^(32 - r) - 1 |
| `DiscoverFanoutProofs` | `BaseCorrect`, `TypeCorrect`, `CataloguedCorrect`, `CompleteCorrect`, `QuietCorrect` | in layers. `Base` holds with any number of processes: types, what each process holds (`Shape`), and that every curation file covers the theses it names (`Files`), since the chunks of a cell cover its theses without overlap (`ChunksCover`, `ChunksDisjoint`) and an answer is normalised to a partition; the catalogue is whole from `Base` alone. `Alone`: as long as no two processes overlap, at most one is at work and none on a completed run. `Tracked`: that process works on the files as they are, and every cell that needs a curation is still to do, has one, or could not be written. `AllUndisturbed`: a process started on a finished run has nothing to derive, generate or curate |

Hypotheses and assumptions that are more than ranges of numbers:

* `NoRepeatCorrect` is for one process at a time (`OneAtATime`), no pauses and a
  tie-break that names every phase (`Unlisted = {}`), as its run is: two processes
  do repeat phases, and a tie with an unlisted phase makes a resume repeat it.
  `InOrderCorrect` and `KeepsPromiseCorrect` are for careful pauses (`PatientSpec`)
  and any number of processes.
* `ConvergesCorrect` is for the program's 32 rounds, ceilings that are `u32`, and
  batches of at least two points (the program has twenty). Batches of one point
  would walk the gap one value at a time.
* `ProbeTables`: the candidate values are finitely many (the code sweeps a list).
  `NoneAssumption` there, `CurationAssumption` and the last conjunct of
  `DiscoverAssumption` say that the marker for a missing file or field is none of
  the values a file can hold.
* `MergeAssumption`: the matrices of the runs to be merged hold cells, as every
  matrix file does.

Induction. What a recursive definition computes for every input is out of the
prover's reach, since the induction theorems take an operator. Where a proof needs
induction over numbers it takes the least element of a set of counterexamples
instead (`LeastNatural`, from the well-foundedness of `<`): the chunk a thesis lies
in and the greatest element of a finite set are found that way. This is why `Chunks`
is defined by rank and not by cutting a sequence, and why the widths of `Fits` are
a table.

Model-checked only: everything under fairness (`HeartbeatEnds`, `Recloses`,
`Recovers`, both `Returns`, `Finishes`, `Settles`), which is outside the prover's
reach, and the violation, which is a counterexample.

## 5. Findings

`lifecycle_continuable` shows it, and `PROJECT.json` quotes the sentence it
contradicts: `moagan run` writes `manifest.json` only after the whole pipeline has
succeeded, and `continue` starts by loading it, so a failed or interrupted run
cannot be continued.

### Other divergences met while modelling

The rest follow from the same modules, most by stating the quoted sentence as a
property, and are not kept as runs. The first five are stated in their modules
(`TheftDetected`, `Matched`, `GraceRespected`, `UndecodableIsMiss`, `PinsAddUp`), and
TLC refutes each: in at most a few steps, but for `PinsAddUp`, which takes a whole run
of the command beside an older process.

* `storage/sqlite.rs:3206`: releasing a lease deletes its row and the next acquire
  starts again at fence 1, so a stale process whose fence is 1 renews a lease that is
  no longer its own; `storage/migrations/v008_add_ons.sql:35-37` says "`fence` is a
  monotonic counter so a stale process detects its lease has been stolen".
* `atomic/writer.rs:248`: data and sidecar are two renames; a crash between them
  leaves new content with the old sidecar, which `read_with_meta` rejects. Lines 3-6
  say "either fully present (correct contents and matching `.meta.json` sidecar) or
  fully absent".
* `cancel.rs:216`: `cancel_with_tier(Hard)` cancels the token first (line 172), and
  the task that sends SIGKILL waits for the grace or for that same token, so SIGKILL
  follows SIGTERM at once; lines 95-98 speak of a "Grace window between `SIGTERM` and
  `SIGKILL` for `CancelTier::Hard`".
* `llm/cache/mod.rs:221`: `Cache::lookup` returns an error for an entry that cannot be
  decoded; lines 187-190 say "A miss is returned when: ... the entry cannot be
  decoded". The call passes the error on (`phases/phase.rs:1288`), nothing retries it,
  and every session fails before its first request until the entry is evicted.
  `NotPoisoned` therefore excepts a call that never got past the lookup in its first
  attempt; that is the only way a stored entry fails one.
* `llm/temperature_probe.rs:1346`: a process that loaded the sidecar before the operator
  pinned writes its old pin over the new one; lines 1391-1397 say that the pin is a
  union with what separate processes wrote and "not 'the last write wins'".
  `NothingLost` therefore promises only that a provider with a pin keeps some pin.
* `storage/sqlite.rs:3129`: without an expected fence `renew_lease` refuses only a
  different holder name, and all processes use one; `phases/phase.rs:173-176` calls
  the holder "Distinct per run so a paused/resumed run does not collide".
* `phases/phase.rs:3538`: the first clone of a `RunContext` that is dropped aborts
  the heartbeat; lines 3530-3531 say "when the last `RunContext` clone goes out of
  scope".
* `llm/circuit_breaker.rs:248`: every caller is let through a half-open breaker;
  lines 8-10 say "half-opens for one probe call". Line 193: a failed probe closes
  the breaker when the cooldown is longer than the window ("failure reopens").
  Line 184: the window bounds the gap between two failures, not the streak. Line 88:
  a caller that slept calls without looking again, also into a reopened breaker.
* `phases/phase.rs:550`: callers between the gate's sleep and the wire start calls
  during a cooldown that began meanwhile; `llm/governor.rs:411-414` says "no
  replacements are admitted".
* `phases/phase.rs:3466`: after a transport error the frozen budget has no repair
  pass for a later parse failure (3262-3263 promise one); line 3459: a truncated
  answer that does not parse is re-issued (3267-3268 say it is not); Lenient models
  are retried on parse failures (`llm/json_strategy.rs:98-99` says "does NOT
  retry").
* `atomic/writer.rs:253`: overlapping writers leave the file of one with the
  sidecar of the other. `reconcile/mod.rs:212`: the cleanup also removes
  temporaries that a live writer is about to rename, whose write then fails.
* `discovery/resume.rs:64`: with no ended phase the pause point defaults to
  `synthesize`, and `continue --from-pause` then starts after it although nothing
  before it ran. This is why `lifecycle` assumes careful pauses.
* `reconcile/mod.rs:389`: the sweep compares `runs.updated_unix`, which phases do
  not advance, so a long healthy run is listed. Line 347: it flips an id listed
  earlier without looking again, also a run that has completed since.
* `storage/outbox_tx.rs:53`: the sidecar write and the events are two commits;
  lines 3-5 say "either both succeed or neither succeeds".
* `storage/sqlite.rs:1459`: the `CASE` of the tie-break does not list `adversary`.
* `sandbox/process.rs:1600`: stdin is written before deadline, watchdog and
  readers exist. A child that does not read it, or first fills its stdout, blocks
  the call past any timeout. No caller passes stdin today; `Bounded` and `Returns`
  are stated for the calls this cannot happen to.
* `cli/run.rs:763`: a crash after the last end row leaves the status at running, and
  `continue` then finds nothing to do; the sweep turns such a run into interrupted.
  `cli/continue_cmd.rs:782`: `continue` writes back the manifest it loaded, possibly
  over that of a process that completed the run in between.
* `llm/probe.rs:745-750`: the linear sweep is to land "exactly on the boundary", but
  a gap of one value is not probed, nor is the ceiling, so the result can be two below
  it. A lost answer makes the result smaller and it is stored all the same. The floor
  may raise it above what the upstream takes (`Sound` says so).
* `llm/probe_table.rs:475`: a row that verify drops stays in the file, because the
  merge keeps rows a process does not have; only a sweep that succeeds replaces it,
  and the next run loads and refuses it again. `llm/top_p_probe.rs:962`: verify asks
  about the smallest value, so a row whose largest value is refused by now is
  confirmed; the same for `top_k`. An empty temperature set is confirmed for ever
  without a request. A give-up during verify keeps the sweep of the same task from
  being stored.
* `llm/probe_table.rs:513`, and the same in the three other tables: a save that cannot
  read the sidecar drops the rows of other processes and the pin with it; the comment
  above says that it folds its entries in "so a concurrent run's entries survive".
  `NothingLost` speaks of saves that can read the file.
* `llm/temperature_probe.rs:1346`: a `--persist-union` whose sweeps all came back empty
  pins the empty set.
* `cli/run.rs:685-701`: `run` waits for the max_tokens and temperature probes only, so
  those of top_p and top_k may be cut off by the end of the process.
* `phases/discover_theses.rs:271-287`: points are numbered after pairs that are not
  hosted are dropped, so a run continued with another registry takes the file of one
  point for another's; `docs/discover-guide.md:76-77` says "finished theses and
  curations are skipped, failed or missing ones are redone".
* `cli/discover.rs:635-637`: a `discover merge` killed between the matrix and its spec
  is rebuilt by `DiscoverRunSpec::load` as a run of its own, and continuing it fans
  out; `docs/discover-guide.md:220` says a merge "makes curator calls only".
* `phases/discover_curate.rs:145`: a curation that cannot be written is only logged, so
  the run ends completed with a flat cell; the comment in `cli/discover.rs` before line
  967 says such a run "must not exit 0". Failed or rejected theses do not keep a run
  from being completed either.
* `phases/discover_theses.rs:308`, `phases/discover_curate.rs:112`: the checks of the
  token cannot fire, since Ctrl-C and the timeout drop the phase that would make them.
* `llm/rate_limiter.rs:116-137`: `acquire_with_max` debits the wait it found and
  returns without sleeping it.

## 6. Not modelled

* Within modelled components: the typed `ProcessLease` API; snapshots and
  environment parsing of the governor; request parameters, cost and telemetry of a
  call; stale `*.lock` files; imports, batches, the pause lock and
  manifest events of a run; policy, confinement and output caps of the sandbox, the
  reuse of a process group id, helpers that leave their group, and what the
  watchdog can no longer do once moagan itself has exited.
* Of the probes: how a dispatch clamps to a row, the floor of `max_tokens` in the table.
* Of discovery: matrices given on the command line, excluded cells and legacy keys;
  prompts, duplicates, tensions and the markdown; provenance and constraint checks of a
  merge; the order in which the files of the catalogue are written.
* Clocks only move forward.
* Everything `PROJECT.json` lists as `not_modelled`, with the reason there.

## 7. Plan

Done in this order, the most important behaviour first: `RunLease`,
`CircuitBreaker`, `Throttle`, `RetryLoop`, `AtomicWriter`, `RunProgress` and
`RunLifecycle`, `Sandbox`, `TokenSearch`, `ProbeTables`, `DiscoverFanout`.

Next:

1. Further proofs: `Tight` without its condition on the rounds, from
   `ConvergesCorrect`; an abstract specification of the probe sidecar (rows only
   appear or get younger) and the refinement from `NothingLost`; what becomes of
   `Complete` when processes overlap.
2. `LlmCache`: the shared directory, lookups that write, expiry and eviction by
   several processes; an abstract cache (an answer is found or missed, never
   another key's) as its refinement target.
3. `RateLimiter` with the permits in front of it, composed with the gate and the
   governor of `Throttle` into one dispatch path; theorem: no more admissions than
   the bucket's capacity plus its refill.
4. Parameter rejections, with the sidecar lock `ProbeTables` models; human
   checkpoints; retention and the cross-run sweep next to running processes.
5. Phase graph layers and Pareto layers as operators against reference definitions.
