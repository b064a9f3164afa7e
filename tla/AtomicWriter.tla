---------------------------- MODULE AtomicWriter ----------------------------
(***************************************************************************)
(* atomic/writer.rs: AtomicWriter::write as its seven steps, run by any    *)
(* number of writers of one destination, with I/O errors, processes that   *)
(* die and power that fails between any two steps, and the startup cleanup *)
(* of reconcile/mod.rs that removes temporary files next to it.            *)
(*                                                                         *)
(* A file's content is the writer that wrote it. A rename is atomic in the *)
(* running system but reaches the disk only with the next fsync of the     *)
(* directory, and what was written reaches it only with an fsync of the    *)
(* file: power loss picks any state the disk may be in.                    *)
(***************************************************************************)
EXTENDS Naturals

CONSTANTS
  Writer,  \* calls of write on the destination
  Old,     \* the content before any of them
  Fsync,   \* fsync_on_commit
  Outages, \* how many times the power may fail
  None

ASSUME NamesAssumption == Old \notin Writer /\ None \notin Writer \cup {Old}
ASSUME FsyncAssumption == Fsync \in BOOLEAN
ASSUME OutagesAssumption == Outages \in Nat

Content == Writer \cup {Old}
Part == {"data", "meta"}

VARIABLES
  pc,        \* the step of write each writer is at
  tmp,       \* which of a writer's two temporary files exist
  synced,    \* the contents that have reached the disk, by part
  dest,      \* content of <path>
  meta,      \* content that <path>.meta.json describes
  maybe,     \* the contents either name may show after a power loss
  torn,      \* the contents a power loss has damaged
  rank,      \* order in which contents became visible at <path>
  commits,   \* how many have
  clean,     \* reconcile: "off", "removing" or "done"
  plan,      \* the temporary files it planned to remove
  outages

vars == <<pc, tmp, synced, dest, meta, maybe, torn, rank, commits, clean, plan,
          outages>>
disk == <<synced, dest, meta, maybe, torn, rank, commits>>
cleaner == <<clean, plan>>

Step == {"idle", "data", "meta", "commit", "seal", "dir"}
Stopped == {"done", "failed", "dead"}

TypeOK ==
  /\ pc \in [Writer -> Step \cup Stopped]
  /\ tmp \in [Writer -> SUBSET Part]
  /\ synced \in [Part -> SUBSET Content]
  /\ dest \in Content /\ meta \in Content
  /\ maybe \in [Part -> SUBSET Content]
  /\ torn \subseteq Content \X Part
  /\ rank \in [Content -> Nat] /\ commits \in Nat
  /\ clean \in {"off", "removing", "done"}
  /\ plan \subseteq Writer \X Part
  /\ outages \in Nat

Init ==
  /\ pc = [w \in Writer |-> "idle"]
  /\ tmp = [w \in Writer |-> {}]
  /\ synced = [p \in Part |-> {Old}]
  /\ dest = Old /\ meta = Old
  /\ maybe = [p \in Part |-> {Old}]
  /\ torn = {}
  /\ rank = [c \in Content |-> 0] /\ commits = 0
  /\ clean = "off"
  /\ plan = {}
  /\ outages = 0

-----------------------------------------------------------------------------
(* AtomicWriter::write.                                                    *)

\* Step 1: the data goes to a temporary file of its own.
WriteData(w) ==
  /\ pc[w] = "idle"
  /\ tmp' = [tmp EXCEPT ![w] = @ \cup {"data"}]
  /\ pc' = [pc EXCEPT ![w] = "data"]
  /\ UNCHANGED <<disk, cleaner, outages>>

\* Mutant: only the sidecar is synced.
AfterSync_MetaOnly(w, part) ==
  IF Fsync /\ part = "meta" THEN [synced EXCEPT ![part] = @ \cup {w}] ELSE synced

\* Steps 2 and 4: fsync of a temporary file, skipped when fsync is off.
AfterSync(w, part) == IF Fsync THEN [synced EXCEPT ![part] = @ \cup {w}] ELSE synced

\* Steps 2 and 3: sync the data, then write the sidecar's temporary file.
WriteMeta(w) ==
  /\ pc[w] = "data"
  /\ synced' = AfterSync(w, "data")
  /\ tmp' = [tmp EXCEPT ![w] = @ \cup {"meta"}]
  /\ pc' = [pc EXCEPT ![w] = "meta"]
  /\ UNCHANGED <<dest, meta, maybe, torn, rank, commits, cleaner, outages>>

\* Mutant: the sidecar is written in place.
SyncMeta_InPlace(w) ==
  /\ pc[w] = "meta"
  /\ meta' = w
  /\ pc' = [pc EXCEPT ![w] = "commit"]
  /\ UNCHANGED <<tmp, synced, dest, maybe, torn, rank, commits, cleaner, outages>>

\* Step 4.
SyncMeta(w) ==
  /\ pc[w] = "meta"
  /\ synced' = AfterSync(w, "meta")
  /\ pc' = [pc EXCEPT ![w] = "commit"]
  /\ UNCHANGED <<tmp, dest, meta, maybe, torn, rank, commits, cleaner, outages>>

\* Step 5: rename the data into place; it fails when the temporary file is gone.
RenameData(w) ==
  /\ pc[w] = "commit"
  /\ \/ /\ "data" \in tmp[w]
        /\ dest' = w
        /\ rank' = [rank EXCEPT ![w] = commits + 1]
        /\ commits' = commits + 1
        /\ maybe' = [maybe EXCEPT !["data"] = @ \cup {w}]
        /\ tmp' = [tmp EXCEPT ![w] = @ \ {"data"}]
        /\ pc' = [pc EXCEPT ![w] = "seal"]
     \/ /\ "data" \notin tmp[w]
        /\ pc' = [pc EXCEPT ![w] = "failed"]
        /\ UNCHANGED <<tmp, dest, maybe, rank, commits>>
  /\ UNCHANGED <<synced, meta, torn, cleaner, outages>>

\* Step 6: rename the sidecar.
RenameMeta(w) ==
  /\ pc[w] = "seal"
  /\ \/ /\ "meta" \in tmp[w]
        /\ meta' = w
        /\ maybe' = [maybe EXCEPT !["meta"] = @ \cup {w}]
        /\ tmp' = [tmp EXCEPT ![w] = @ \ {"meta"}]
        /\ pc' = [pc EXCEPT ![w] = "dir"]
     \/ /\ "meta" \notin tmp[w]
        /\ pc' = [pc EXCEPT ![w] = "failed"]
        /\ UNCHANGED <<tmp, meta, maybe>>
  /\ UNCHANGED <<synced, dest, torn, rank, commits, cleaner, outages>>

\* Mutant: write returns without syncing the directory.
SyncDir_Skipped(w) ==
  /\ pc[w] = "dir"
  /\ pc' = [pc EXCEPT ![w] = "done"]
  /\ UNCHANGED <<tmp, disk, cleaner, outages>>

\* Step 7: fsync of the parent directory, then Ok.
SyncDir(w) ==
  /\ pc[w] = "dir"
  /\ maybe' = IF Fsync THEN [p \in Part |-> IF p = "data" THEN {dest} ELSE {meta}]
              ELSE maybe
  /\ pc' = [pc EXCEPT ![w] = "done"]
  /\ UNCHANGED <<tmp, synced, dest, meta, torn, rank, commits, cleaner, outages>>

\* Any step may fail; write returns and leaves its temporary files behind.
Fail(w) ==
  /\ pc[w] \in Step
  /\ pc' = [pc EXCEPT ![w] = "failed"]
  /\ UNCHANGED <<tmp, disk, cleaner, outages>>

-----------------------------------------------------------------------------
(* The world.                                                              *)

\* The writer's process dies; what it wrote stays in the running system.
Die(w) ==
  /\ pc[w] \in Step \ {"idle"}
  /\ pc' = [pc EXCEPT ![w] = "dead"]
  /\ UNCHANGED <<tmp, disk, cleaner, outages>>

\* Power fails: every process dies, each name shows one of the contents it
\* may have on disk, and a content shown but never synced may be damaged.
PowerLoss ==
  /\ outages < Outages
  /\ outages' = outages + 1
  /\ pc' = [w \in Writer |-> IF pc[w] \in Step \ {"idle"} THEN "dead" ELSE pc[w]]
  /\ \E d \in maybe["data"], m \in maybe["meta"] :
       /\ dest' = d /\ meta' = m
       /\ maybe' = [p \in Part |-> IF p = "data" THEN {d} ELSE {m}]
       /\ \E lost \in SUBSET {x \in {<<d, "data">>, <<m, "meta">>} : x[1] \notin synced[x[2]]} :
            torn' = torn \cup lost
  /\ clean' = "off" /\ plan' = {}
  /\ UNCHANGED <<tmp, synced, rank, commits>>

\* Mutant: the name test also matches the finished file.
Leftovers_Loose == {x \in Writer \X Part : x[2] \in tmp[x[1]]} \cup {<<dest, "data">>}

\* plan_cleanup: every *.tmp.<hex> under the run's directory.
Leftovers == {x \in Writer \X Part : x[2] \in tmp[x[1]]}

\* cleanup_orphans at the start of some other command.
PlanCleanup ==
  /\ clean # "removing"
  /\ plan' = Leftovers
  /\ clean' = IF Leftovers = {} THEN "done" ELSE "removing"
  /\ UNCHANGED <<pc, tmp, disk, outages>>

\* A planned file that is gone by now counts as removed.
RemoveOrphan(x) ==
  /\ clean = "removing" /\ x \in plan
  /\ tmp' = [tmp EXCEPT ![x[1]] = @ \ {x[2]}]
  /\ plan' = plan \ {x}
  /\ clean' = IF plan = {x} THEN "done" ELSE "removing"
  /\ UNCHANGED <<pc, disk, outages>>

Write(w) ==
  \/ WriteData(w) \/ WriteMeta(w) \/ SyncMeta(w)
  \/ RenameData(w) \/ RenameMeta(w) \/ SyncDir(w)

Cleanup == PlanCleanup \/ \E x \in Writer \X Part : RemoveOrphan(x)

Next ==
  \/ \E w \in Writer : Write(w) \/ Fail(w) \/ Die(w)
  \/ PowerLoss
  \/ Cleanup

Spec == Init /\ [][Next]_vars

\* One writer after the other, and a cleanup that never meets a live one.
Alone(w) == \A v \in Writer \ {w} : pc[v] \in {"idle"} \cup Stopped
QuietSpec ==
  Init /\ [][\/ \E w \in Writer : Alone(w) /\ (Write(w) \/ Die(w))]_vars

-----------------------------------------------------------------------------
(* Properties.                                                             *)

\* writer.rs:4-8: whoever reads <path> finds content that was written whole,
\* after any interleaving of writers, failures, cleanups and power losses.
NeverTorn == Fsync => <<dest, "data">> \notin torn

\* writer.rs:19, step 7: once write has returned Ok, no power loss brings
\* back a content older than the one it wrote.
Durable ==
  Fsync => \A w \in Writer : pc[w] = "done" =>
             \A c \in maybe["data"] : rank[c] >= rank[w]

\* writer.rs:15-18, the order of steps 3 to 6: while the system is up the
\* sidecar never describes a content that is not visible yet, nor one newer
\* than the file, whichever writers overlap and wherever they stop.
SidecarNotAhead ==
  outages = 0 => rank[meta] <= rank[dest] /\ (meta # Old => rank[meta] > 0)

\* writer.rs:3-6 "produces a `<path>` that is either fully present (correct
\* contents and matching `.meta.json` sidecar) or fully absent": between
\* writes, the sidecar describes the file. It does not hold (README, section 5).
Matched == (\A w \in Writer : pc[w] \in {"idle"} \cup Stopped) => dest = meta
=============================================================================
