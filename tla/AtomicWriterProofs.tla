------------------------- MODULE AtomicWriterProofs -------------------------
(* What a reader of an atomically written file may rely on, for any number *)
(* of writers, failures, cleanups and power losses.                        *)
EXTENDS AtomicWriter, TLAPS

LEMMA NamesDiffer == \A w \in Writer : w # Old /\ w \in Content
  BY NamesAssumption DEF Content

LEMMA TypeInit == Init => TypeOK
  BY DEF Init, TypeOK, Content, Part, Step, Stopped

LEMMA TypeStep == TypeOK /\ [Next]_vars => TypeOK'
  <1> SUFFICES ASSUME TypeOK, [Next]_vars PROVE TypeOK'
    OBVIOUS
  <1> USE NamesDiffer DEF TypeOK, Part, Step, Stopped, disk, cleaner
  <1>1. ASSUME NEW w \in Writer, WriteData(w) PROVE TypeOK'
    BY <1>1 DEF WriteData
  <1>2. ASSUME NEW w \in Writer, WriteMeta(w) PROVE TypeOK'
    BY <1>2 DEF WriteMeta, AfterSync
  <1>3. ASSUME NEW w \in Writer, SyncMeta(w) PROVE TypeOK'
    BY <1>3 DEF SyncMeta, AfterSync
  <1>4. ASSUME NEW w \in Writer, RenameData(w) PROVE TypeOK'
    BY <1>4 DEF RenameData
  <1>5. ASSUME NEW w \in Writer, RenameMeta(w) PROVE TypeOK'
    BY <1>5 DEF RenameMeta
  <1>6. ASSUME NEW w \in Writer, SyncDir(w) PROVE TypeOK'
    BY <1>6 DEF SyncDir
  <1>7. ASSUME NEW w \in Writer, Fail(w) PROVE TypeOK'
    BY <1>7 DEF Fail
  <1>8. ASSUME NEW w \in Writer, Die(w) PROVE TypeOK'
    BY <1>8 DEF Die
  <1>9. CASE PowerLoss
    <2>1. pc' \in [Writer -> Step \cup Stopped]
      BY <1>9 DEF PowerLoss
    <2>2. PICK d \in maybe["data"], m \in maybe["meta"] :
            /\ dest' = d /\ meta' = m
            /\ maybe' = [p \in Part |-> IF p = "data" THEN {d} ELSE {m}]
            /\ \E lost \in SUBSET {x \in {<<d, "data">>, <<m, "meta">>} : x[1] \notin synced[x[2]]} :
                 torn' = torn \cup lost
      BY <1>9 DEF PowerLoss
    <2>3. d \in Content /\ m \in Content
      OBVIOUS
    <2>4. torn' \subseteq Content \X Part
      BY <2>2, <2>3
    <2>5. maybe' \in [Part -> SUBSET Content]
      BY <2>2, <2>3
    <2> QED BY <1>9, <2>1, <2>2, <2>3, <2>4, <2>5, OutagesAssumption DEF PowerLoss
  <1>10. CASE PlanCleanup
    BY <1>10 DEF PlanCleanup, Leftovers
  <1>11. ASSUME NEW x \in Writer \X Part, RemoveOrphan(x) PROVE TypeOK'
    BY <1>11 DEF RemoveOrphan
  <1>12. CASE UNCHANGED vars
    BY <1>12 DEF vars
  <1> QED
    BY <1>1, <1>2, <1>3, <1>4, <1>5, <1>6, <1>7, <1>8, <1>9, <1>10, <1>11, <1>12
    DEF Next, Write, Cleanup

\* The state of every write keeps its types.
THEOREM TypeCorrect == Spec => []TypeOK
  BY TypeInit, TypeStep, PTL DEF Spec

-----------------------------------------------------------------------------
(* With fsync on, only synced contents are ever named, and a synced        *)
(* content is not damaged.                                                 *)

Whole ==
  /\ dest \in maybe["data"]
  /\ maybe["data"] \subseteq synced["data"]
  /\ \A w \in Writer : pc[w] \in {"meta", "commit", "seal", "dir"} => w \in synced["data"]
  /\ \A c \in synced["data"] : <<c, "data">> \notin torn

\* A content that was never synced cannot be torn later, once synced.
Fresh == \A w \in Writer : pc[w] \in {"idle", "data"} => <<w, "data">> \notin torn

LEMMA WholeStep == Fsync /\ TypeOK /\ Whole /\ Fresh /\ [Next]_vars => Whole' /\ Fresh'
  <1> SUFFICES ASSUME Fsync, TypeOK, Whole, Fresh, [Next]_vars PROVE Whole' /\ Fresh'
    OBVIOUS
  <1> USE NamesDiffer DEF TypeOK, Whole, Fresh, Part, Step, Stopped, disk, cleaner
  <1>1. ASSUME NEW w \in Writer, WriteData(w) PROVE Whole' /\ Fresh'
    BY <1>1 DEF WriteData
  <1>2. ASSUME NEW w \in Writer, WriteMeta(w) PROVE Whole' /\ Fresh'
    BY <1>2 DEF WriteMeta, AfterSync
  <1>3. ASSUME NEW w \in Writer, SyncMeta(w) PROVE Whole' /\ Fresh'
    BY <1>3 DEF SyncMeta, AfterSync
  <1>4. ASSUME NEW w \in Writer, RenameData(w) PROVE Whole' /\ Fresh'
    BY <1>4 DEF RenameData
  <1>5. ASSUME NEW w \in Writer, RenameMeta(w) PROVE Whole' /\ Fresh'
    BY <1>5 DEF RenameMeta
  <1>6. ASSUME NEW w \in Writer, SyncDir(w) PROVE Whole' /\ Fresh'
    BY <1>6 DEF SyncDir
  <1>7. ASSUME NEW w \in Writer, Fail(w) PROVE Whole' /\ Fresh'
    BY <1>7 DEF Fail
  <1>8. ASSUME NEW w \in Writer, Die(w) PROVE Whole' /\ Fresh'
    BY <1>8 DEF Die
  <1>9. CASE PowerLoss
    <2>1. PICK d \in maybe["data"], m \in maybe["meta"] :
            /\ dest' = d /\ meta' = m
            /\ maybe' = [p \in Part |-> IF p = "data" THEN {d} ELSE {m}]
            /\ \E lost \in SUBSET {x \in {<<d, "data">>, <<m, "meta">>} : x[1] \notin synced[x[2]]} :
                 torn' = torn \cup lost
      BY <1>9 DEF PowerLoss
    <2>2. d \in synced["data"]
      OBVIOUS
    <2>3. \A c : <<c, "data">> \in torn' => <<c, "data">> \in torn
      BY <2>1, <2>2
    <2>4. \A w \in Writer : pc'[w] = pc[w] \/ pc'[w] = "dead"
      BY <1>9 DEF PowerLoss
    <2>5. synced' = synced
      BY <1>9 DEF PowerLoss
    <2> QED BY <2>1, <2>2, <2>3, <2>4, <2>5
  <1>10. CASE PlanCleanup
    BY <1>10 DEF PlanCleanup
  <1>11. ASSUME NEW x \in Writer \X Part, RemoveOrphan(x) PROVE Whole' /\ Fresh'
    BY <1>11 DEF RemoveOrphan
  <1>12. CASE UNCHANGED vars
    BY <1>12 DEF vars
  <1> QED
    BY <1>1, <1>2, <1>3, <1>4, <1>5, <1>6, <1>7, <1>8, <1>9, <1>10, <1>11, <1>12
    DEF Next, Write, Cleanup

\* writer.rs:4-8: with fsync on, a reader never meets damaged content.
THEOREM NeverTornCorrect == Spec => []NeverTorn
  <1>1. CASE Fsync
    <2>1. Init => Whole /\ Fresh
      BY NamesDiffer DEF Init, Whole, Fresh, Part
    <2>2. TypeOK /\ Whole => NeverTorn
      BY DEF Whole, NeverTorn
    <2>3. TypeOK /\ Whole /\ Fresh /\ [Next]_vars => Whole' /\ Fresh'
      BY <1>1, WholeStep
    <2> QED BY <2>1, <2>2, <2>3, TypeInit, TypeStep, PTL DEF Spec
  <1>2. CASE ~Fsync
    <2>1. TypeOK => NeverTorn
      BY <1>2 DEF NeverTorn
    <2> QED BY <2>1, TypeInit, TypeStep, PTL DEF Spec
  <1> QED BY <1>1, <1>2

-----------------------------------------------------------------------------
(* What has been committed stays committed.                                *)

\* While the system is up <path> only moves forward; a directory sync makes
\* what it shows the least a power loss can bring back.
Kept ==
  /\ dest \in maybe["data"]
  /\ \A c \in Content : rank[c] <= commits
  /\ \A w \in Writer :
       /\ pc[w] \in {"seal", "dir"} => rank[dest] >= rank[w]
       /\ pc[w] = "done" => \A c \in maybe["data"] : rank[c] >= rank[w]

LEMMA KeptStep == Fsync /\ TypeOK /\ Kept /\ [Next]_vars => Kept'
  <1> SUFFICES ASSUME Fsync, TypeOK, Kept, [Next]_vars PROVE Kept'
    OBVIOUS
  <1> USE NamesDiffer DEF TypeOK, Kept, Part, Step, Stopped, disk, cleaner
  <1>1. ASSUME NEW w \in Writer, WriteData(w) PROVE Kept'
    BY <1>1 DEF WriteData
  <1>2. ASSUME NEW w \in Writer, WriteMeta(w) PROVE Kept'
    BY <1>2 DEF WriteMeta
  <1>3. ASSUME NEW w \in Writer, SyncMeta(w) PROVE Kept'
    BY <1>3 DEF SyncMeta
  <1>4. ASSUME NEW w \in Writer, RenameData(w) PROVE Kept'
    <2>1. CASE "data" \notin tmp[w]
      BY <1>4, <2>1 DEF RenameData
    <2>2. CASE "data" \in tmp[w]
      <3>1. /\ dest' = w /\ commits' = commits + 1 /\ rank'[w] = commits + 1
            /\ \A c \in Content \ {w} : rank'[c] = rank[c]
            /\ maybe'["data"] = maybe["data"] \cup {w}
            /\ pc'[w] = "seal" /\ \A v \in Writer \ {w} : pc'[v] = pc[v]
        BY <1>4, <2>2 DEF RenameData
      <3>2. \A c \in Content : rank'[c] >= rank[c] /\ rank'[c] <= commits'
        BY <3>1
      <3>3. \A v \in Writer \ {w} : rank'[v] = rank[v] /\ rank[v] <= commits
        BY <3>1
      <3>4. \A v \in Writer \ {w}, c \in maybe'["data"] :
              pc[v] = "done" => rank'[c] >= rank'[v]
        <4> SUFFICES ASSUME NEW v \in Writer \ {w}, NEW c \in maybe'["data"], pc[v] = "done"
                     PROVE  rank'[c] >= rank'[v]
          OBVIOUS
        <4>1. CASE c = w
          BY <3>1, <3>3, <4>1
        <4>2. CASE c # w
          <5>1. c \in maybe["data"] /\ c \in Content /\ rank'[c] = rank[c]
            BY <3>1, <4>2
          <5> QED BY <3>3, <5>1
        <4> QED BY <4>1, <4>2
      <3>5. \A v \in Writer : pc'[v] \in {"seal", "dir"} => rank'[dest'] >= rank'[v]
        BY <3>1, <3>3
      <3> QED BY <3>1, <3>2, <3>4, <3>5
    <2> QED BY <2>1, <2>2
  <1>5. ASSUME NEW w \in Writer, RenameMeta(w) PROVE Kept'
    BY <1>5 DEF RenameMeta
  <1>6. ASSUME NEW w \in Writer, SyncDir(w) PROVE Kept'
    <2>1. /\ pc[w] = "dir" /\ maybe'["data"] = {dest}
          /\ pc' = [pc EXCEPT ![w] = "done"]
          /\ dest' = dest /\ rank' = rank /\ commits' = commits
      BY <1>6 DEF SyncDir
    <2> QED BY <2>1
  <1>7. ASSUME NEW w \in Writer, Fail(w) PROVE Kept'
    BY <1>7 DEF Fail
  <1>8. ASSUME NEW w \in Writer, Die(w) PROVE Kept'
    BY <1>8 DEF Die
  <1>9. CASE PowerLoss
    <2>1. PICK d \in maybe["data"], m \in maybe["meta"] :
            /\ dest' = d
            /\ maybe' = [p \in Part |-> IF p = "data" THEN {d} ELSE {m}]
      BY <1>9 DEF PowerLoss
    <2>2. \A w \in Writer : /\ pc'[w] \notin {"seal", "dir"}
                            /\ pc'[w] = "done" => pc[w] = "done"
      BY <1>9 DEF PowerLoss
    <2>3. rank' = rank /\ commits' = commits
      BY <1>9 DEF PowerLoss
    <2> QED BY <2>1, <2>2, <2>3
  <1>10. CASE PlanCleanup
    BY <1>10 DEF PlanCleanup
  <1>11. ASSUME NEW x \in Writer \X Part, RemoveOrphan(x) PROVE Kept'
    BY <1>11 DEF RemoveOrphan
  <1>12. CASE UNCHANGED vars
    BY <1>12 DEF vars
  <1> QED
    BY <1>1, <1>2, <1>3, <1>4, <1>5, <1>6, <1>7, <1>8, <1>9, <1>10, <1>11, <1>12
    DEF Next, Write, Cleanup

\* writer.rs:19: a power loss undoes no write that returned Ok.
THEOREM DurableCorrect == Spec => []Durable
  <1>1. CASE Fsync
    <2>1. Init => Kept
      BY NamesDiffer DEF Init, Kept, Part, Content
    <2>2. TypeOK /\ Kept => Durable
      BY DEF Kept, Durable
    <2>3. TypeOK /\ Kept /\ [Next]_vars => Kept'
      BY <1>1, KeptStep
    <2> QED BY <2>1, <2>2, <2>3, TypeInit, TypeStep, PTL DEF Spec
  <1>2. CASE ~Fsync
    <2>1. TypeOK => Durable
      BY <1>2 DEF Durable
    <2> QED BY <2>1, TypeInit, TypeStep, PTL DEF Spec
  <1> QED BY <1>1, <1>2
-----------------------------------------------------------------------------
(* The sidecar follows the file.                                           *)

\* Until the power first fails <path> shows the last content committed, and a
\* writer at or past step 6 has committed its own.
Follows ==
  /\ \A c \in Content : rank[c] <= commits
  /\ outages = 0 =>
       /\ rank[dest] = commits
       /\ meta # Old => rank[meta] > 0
       /\ \A w \in Writer : pc[w] \in {"seal", "dir"} => rank[w] > 0

LEMMA FollowsStep == TypeOK /\ Follows /\ [Next]_vars => Follows'
  <1> SUFFICES ASSUME TypeOK, Follows, [Next]_vars PROVE Follows'
    OBVIOUS
  <1> USE NamesDiffer DEF TypeOK, Follows, Part, Step, Stopped, disk, cleaner
  <1>1. ASSUME NEW w \in Writer, WriteData(w) PROVE Follows'
    BY <1>1 DEF WriteData
  <1>2. ASSUME NEW w \in Writer, WriteMeta(w) PROVE Follows'
    BY <1>2 DEF WriteMeta
  <1>3. ASSUME NEW w \in Writer, SyncMeta(w) PROVE Follows'
    BY <1>3 DEF SyncMeta
  <1>4. ASSUME NEW w \in Writer, RenameData(w) PROVE Follows'
    <2>1. CASE "data" \notin tmp[w]
      BY <1>4, <2>1 DEF RenameData
    <2>2. CASE "data" \in tmp[w]
      <3>1. /\ dest' = w /\ meta' = meta /\ outages' = outages
            /\ commits' = commits + 1 /\ rank'[w] = commits + 1
            /\ \A c \in Content \ {w} : rank'[c] = rank[c]
            /\ \A v \in Writer \ {w} : pc'[v] = pc[v]
        BY <1>4, <2>2 DEF RenameData
      <3>2. \A c \in Content : /\ rank'[c] <= commits'
                               /\ rank[c] > 0 => rank'[c] > 0
        BY <3>1
      <3>3. rank'[w] > 0
        BY <3>1
      <3> QED BY <3>1, <3>2, <3>3
    <2> QED BY <2>1, <2>2
  <1>5. ASSUME NEW w \in Writer, RenameMeta(w) PROVE Follows'
    BY <1>5 DEF RenameMeta
  <1>6. ASSUME NEW w \in Writer, SyncDir(w) PROVE Follows'
    BY <1>6 DEF SyncDir
  <1>7. ASSUME NEW w \in Writer, Fail(w) PROVE Follows'
    BY <1>7 DEF Fail
  <1>8. ASSUME NEW w \in Writer, Die(w) PROVE Follows'
    BY <1>8 DEF Die
  <1>9. CASE PowerLoss
    <2>1. outages' # 0 /\ rank' = rank /\ commits' = commits
      BY <1>9 DEF PowerLoss
    <2> QED BY <2>1
  <1>10. CASE PlanCleanup
    BY <1>10 DEF PlanCleanup
  <1>11. ASSUME NEW x \in Writer \X Part, RemoveOrphan(x) PROVE Follows'
    BY <1>11 DEF RemoveOrphan
  <1>12. CASE UNCHANGED vars
    BY <1>12 DEF vars
  <1> QED
    BY <1>1, <1>2, <1>3, <1>4, <1>5, <1>6, <1>7, <1>8, <1>9, <1>10, <1>11, <1>12
    DEF Next, Write, Cleanup

\* writer.rs:15-18: with or without fsync, as long as the power holds the
\* sidecar describes no content that is newer than the file or was never in
\* place.
THEOREM SidecarNotAheadCorrect == Spec => []SidecarNotAhead
  <1>1. Init => Follows
    BY NamesDiffer DEF Init, Follows, Content
  <1>2. TypeOK /\ Follows => SidecarNotAhead
    BY DEF TypeOK, Follows, SidecarNotAhead
  <1> QED BY <1>1, <1>2, TypeInit, TypeStep, FollowsStep, PTL DEF Spec
=============================================================================
