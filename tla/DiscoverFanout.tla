--------------------------- MODULE DiscoverFanout ---------------------------
(***************************************************************************)
(* A discover run (cli/discover.rs, discovery/, the discover phases): one  *)
(* call per point of a fan-out over provider pairs and matrix cells, one   *)
(* file per thesis; then one curation file per cell; then the catalogue.   *)
(* A process may end anywhere, and `moagan continue --kind discovery` runs *)
(* the same pipeline again on what it finds. Nothing keeps two processes   *)
(* off one run: every pipeline takes the lease under the same holder name. *)
(*                                                                         *)
(* The cells are the facets of one dimension. A thesis is known by its     *)
(* number and its cell; what it claims, and every prompt, is left out.     *)
(***************************************************************************)
EXTENDS Integers, FiniteSets, SequencesExt

CONSTANTS
  Proc,       \* processes
  Cell,       \* cells, positive integers
  Pairs,      \* the (section, model) pairs of the matrix, in key order
  Points,     \* points per cell of each pair: temperatures * replicas * index
  Hostings,   \* the sets of pairs a registry may host
  Derived,    \* what the model may derive: sequences of cells
  Sources,    \* source runs of a merge: [matrix, theses], sequences of cells
  MaxStarts,  \* bound: processes started
  MaxPerCall, \* MAX_THESES_PER_CALL
  Group,      \* group numbers a curator's answer may use
  None

MinToCurate == 2     \* MIN_THESES_TO_CURATE
ThesisRetries == 2   \* THESIS_RETRIES
Outside == 0         \* the cell of theses with an unknown angle

ASSUME DiscoverAssumption ==
  /\ Cell \subseteq Nat \ {0}
  /\ Points \in [1 .. Len(Pairs) -> Nat \ {0}]
  /\ Hostings \subseteq SUBSET Range(Pairs)
  /\ Derived \subseteq Seq(Cell) \ {<<>>}
  /\ MaxPerCall \in Nat \ {0} /\ MaxStarts \in Nat
  /\ None \notin {"own", "merged", "running", "incomplete", "completed"}

VARIABLES
  spec,      \* discover_run.json: None, "own" or "merged"
  brief,     \* brief.json is valid
  dims,      \* discovery_dimensions.json; <<>> when there is none
  matrix,    \* exploration_matrix.json; <<>> when there is none
  thesis,    \* theses/th_n.json by n: its cell, or None
  curation,  \* curation/<cell>.json by cell
  catalog,   \* final/: the catalogue last written
  status,    \* runs.status
  proc,      \* each process
  lost,      \* cells whose last curation file could not be written
  solo,      \* no two processes have worked on the run at once
  starts

disk == <<spec, brief, dims, matrix, thesis, curation, catalog, status>>
ghosts == <<lost, solo, starts>>
vars == <<disk, proc, ghosts>>

-----------------------------------------------------------------------------
(* The fan-out: pair, then cell, then the points of the pair; numbered from 0. *)
Fanout(host, cells) ==
  LET block(i) == FlattenSeq([j \in 1 .. Len(cells) |->
                               [k \in 1 .. Points[i] |-> cells[j]]])
      hosted == SelectSeq([i \in 1 .. Len(Pairs) |-> i],
                          LAMBDA i : Pairs[i] \in host)
      seq == FlattenSeq([i \in 1 .. Len(hosted) |-> block(hosted[i])])
  IN  [n \in 0 .. Len(seq) - 1 |-> seq[n + 1]]

Pool == FlattenSeq([i \in 1 .. Len(Sources) |-> Sources[i].theses])

MergedMatrix ==
  FoldLeft(LAMBDA m, s : m \o SelectSeq(s.matrix, LAMBDA c : c \notin Range(m)),
           <<>>, Sources)

(* The cells of the source runs' matrices are cells. *)
ASSUME MergeAssumption == Range(MergedMatrix) \subseteq Cell

Matrices == Derived \cup {<<>>, MergedMatrix}

Number == (UNION {DOMAIN Fanout(h, m) : h \in Hostings, m \in Derived \cup {MergedMatrix}})
            \cup 0 .. Len(Pool) - 1

Curation == [status : {"Ok", "Failed"}, members : SUBSET Number,
             groups : SUBSET SUBSET Number]

ASSUME CurationAssumption == None \notin Curation

(* Every point is asked again. *)
MutantPending(points) == DOMAIN points

Pending(points) == {n \in DOMAIN points : thesis[n] = None}

(* generate: what each attempt's answer would be, gated and retried. *)
Gate(answer, attempt) ==
  IF answer = "short" /\ attempt < ThesisRetries THEN "error" ELSE answer

Generate(answers) ==
  LET good == {a \in DOMAIN answers : Gate(answers[a], a) # "error"}
  IN  IF good = {} THEN "error" ELSE answers[Min(good)]

PointOutcomes ==
  {CASE Generate(a) = "error" -> "Failed"
     [] Generate(a) = "short" -> "Rejected"
     [] OTHER -> "Accepted"
   : a \in [0 .. ThesisRetries -> {"error", "short", "long"}]}

-----------------------------------------------------------------------------
(* Curation of a cell's theses. *)
CellOf(in, n) == IF in.thesis[n] \in Range(in.matrix) THEN in.thesis[n] ELSE Outside
Written(in) == {n \in Number : in.thesis[n] # None}
Members(in, c) == {n \in Written(in) : CellOf(in, n) = c}

(* An answer assigns theses to groups; the others are left unassigned. *)
Normalise(ids, assign) ==
  {{n \in ids : assign[n] = g} : g \in Group \cup {None}} \ {{}}

Acceptable(ids, assign) ==
  5 * Cardinality({n \in ids : assign[n] = None}) <= Cardinality(ids)

(* One call: None when it fails or its answer is not acceptable. *)
Attempt(ids) ==
  {Normalise(ids, f) : f \in {f \in [ids -> Group \cup {None}] : Acceptable(ids, f)}}
    \cup {None}

ChunkOutcomes(ids) ==
  {IF first # None THEN first ELSE retry : first, retry \in Attempt(ids)}

(* The ids, in order, in as few runs of nearly equal length as will do. *)
Rank(ids, x) == Cardinality({y \in ids : y <= x})
Chunk(ids, k, i) ==
  LET n == Cardinality(ids)
  IN  {x \in ids : ((i - 1) * n) \div k < Rank(ids, x) /\ Rank(ids, x) <= (i * n) \div k}
ChunkCount(ids) == (Cardinality(ids) + MaxPerCall - 1) \div MaxPerCall
Chunks(ids) == {Chunk(ids, ChunkCount(ids), i) : i \in 1 .. ChunkCount(ids)}

MergeChunks(ids, result) ==
  IF \E ch \in DOMAIN result : result[ch] = None
  THEN [status |-> "Failed", members |-> ids, groups |-> {}]
  ELSE [status |-> "Ok", members |-> ids,
        groups |-> UNION {result[ch] : ch \in DOMAIN result}]

CellOutcomes(ids) ==
  LET all == UNION {ChunkOutcomes(ch) : ch \in Chunks(ids)}
  IN  {MergeChunks(ids, r) : r \in {f \in [Chunks(ids) -> all] :
                                    \A ch \in Chunks(ids) : f[ch] \in ChunkOutcomes(ch)}}

Once(groups, n) == \E g \in groups : \A h \in groups : n \in h <=> h = g

(* The file of the cell is taken for a curation of its present theses. *)
MutantCovers(cur, ids) == TRUE

Covers(cur, ids) ==
  /\ cur.members = ids
  /\ \/ cur.status = "Failed"
     \/ UNION cur.groups = ids /\ \A n \in ids : Once(cur.groups, n)

(* A curation that was Ok once is kept. *)
MutantPendingCells(in) ==
  {c \in Range(in.matrix) :
     /\ Cardinality(Members(in, c)) >= MinToCurate
     /\ \/ curation[c] = None
        \/ curation[c].status = "Failed"}

PendingCells(in) ==
  {c \in Range(in.matrix) :
     /\ Cardinality(Members(in, c)) >= MinToCurate
     /\ \/ curation[c] = None
        \/ curation[c].status = "Failed"
        \/ ~Covers(curation[c], Members(in, c))}

-----------------------------------------------------------------------------
(* The catalogue: one implicit group per cell, or those of its curation. *)
Entry(in, c) ==
  LET ids == Members(in, c)
      cur == IF c = Outside THEN None ELSE curation[c]
      implicit == {ids} \ {{}}
  IN  IF cur = None \/ ~Covers(cur, ids)
      THEN [kind |-> "flat", groups |-> implicit]
      ELSE IF cur.status = "Ok" THEN [kind |-> "grouped", groups |-> cur.groups]
      ELSE [kind |-> "failed", groups |-> implicit]

Catalogue(in) == [c \in Range(in.matrix) \cup {Outside} |-> Entry(in, c)]

(* Catalog::validate, invariant I3. *)
Valid(in, cat) ==
  /\ \A n \in Written(in) :
       \E c \in DOMAIN cat :
         /\ Once(cat[c].groups, n)
         /\ \A d \in DOMAIN cat \ {c} : n \notin UNION cat[d].groups
  /\ \A c \in DOMAIN cat : UNION cat[c].groups \subseteq Written(in)

-----------------------------------------------------------------------------
Off == [pc |-> "off", host |-> {}, derive |-> FALSE, cells |-> <<>>, todo |-> {},
        in |-> None, settled |-> FALSE]

Init ==
  /\ spec = None /\ brief = FALSE /\ dims = <<>> /\ matrix = <<>>
  /\ thesis = [n \in Number |-> None]
  /\ curation = [c \in Cell |-> None]
  /\ catalog = None /\ status = None
  /\ proc = [p \in Proc |-> Off]
  /\ lost = {} /\ solo = TRUE /\ starts = 0

Idle(p) == proc[p].pc \in {"off", "broken"}

Move(p, r) == proc' = [proc EXCEPT ![p] = r]

Launch(p) ==
  /\ Idle(p)
  /\ starts < MaxStarts
  /\ starts' = starts + 1
  /\ solo' = (solo /\ \A q \in Proc : Idle(q))
  /\ UNCHANGED lost

(* Everything a run of this hosting would do is done, by the files. *)
Settled(host) ==
  /\ status = "completed" /\ solo' /\ lost = {} /\ brief
  /\ \A n \in DOMAIN Fanout(host, matrix) : thesis[n] # None

(* execute, up to the pipeline: the run is registered or marked running. *)
Execute(p, kind) ==
  /\ \E h \in Hostings :
       Move(p, IF kind = "merged"
               THEN [Off EXCEPT !.pc = "theses", !.settled = Settled({})]
               ELSE [Off EXCEPT !.pc = "intake", !.host = h, !.derive = (matrix = <<>>),
                                !.settled = Settled(h)])
  /\ status' = "running"

(* --brief, if it is given, copies a valid brief. *)
Run(p) ==
  /\ starts = 0
  /\ Launch(p)
  /\ brief' \in BOOLEAN
  /\ spec' = "own"
  /\ Execute(p, "own")
  /\ UNCHANGED <<dims, matrix, thesis, curation, catalog>>

(* A spec that was never written is rebuilt from the matrix, as an own run. *)
Resume(p) ==
  /\ starts > 0
  /\ Launch(p)
  /\ spec # None \/ matrix # <<>>
  /\ Execute(p, IF spec = None THEN "own" ELSE spec)
  /\ UNCHANGED <<spec, brief, dims, matrix, thesis, curation, catalog>>

(* discover merge: brief, dimensions and matrix, each thesis, then the spec. *)
Merge(p) ==
  /\ starts = 0
  /\ Launch(p)
  /\ brief' = TRUE
  /\ dims' = MergedMatrix
  /\ matrix' = MergedMatrix
  /\ Move(p, [Off EXCEPT !.pc = "merge", !.todo = 0 .. Len(Pool) - 1])
  /\ UNCHANGED <<spec, thesis, curation, catalog, status>>

MergeThesis(p) ==
  /\ proc[p].pc = "merge"
  /\ proc[p].todo # {}
  /\ LET n == Min(proc[p].todo)
     IN  /\ thesis' = [thesis EXCEPT ![n] = Pool[n + 1]]
         /\ Move(p, [proc[p] EXCEPT !.todo = @ \ {n}])
  /\ UNCHANGED <<spec, brief, dims, matrix, curation, catalog, status, ghosts>>

MergeSpec(p) ==
  /\ proc[p].pc = "merge"
  /\ proc[p].todo = {}
  /\ spec' = "merged"
  /\ UNCHANGED ghosts
  /\ Execute(p, "merged")
  /\ UNCHANGED <<brief, dims, matrix, thesis, curation, catalog>>

-----------------------------------------------------------------------------
(* The phases. A call or a read that fails ends the process: see Stop. *)
Intake(p) ==
  /\ proc[p].pc = "intake"
  /\ brief' = TRUE
  /\ Move(p, [proc[p] EXCEPT !.pc = IF proc[p].derive THEN "dims" ELSE "load",
                             !.derive = FALSE])
  /\ UNCHANGED <<spec, dims, matrix, thesis, curation, catalog, status, ghosts>>

Dimensions(p) ==
  /\ proc[p].pc = "dims"
  /\ dims' \in IF dims # <<>> THEN {dims} ELSE Derived
  /\ Move(p, [proc[p] EXCEPT !.pc = "load"])
  /\ UNCHANGED <<spec, brief, matrix, thesis, curation, catalog, status, ghosts>>

(* load_or_build_matrix looks for the file, else builds it from the
   dimensions and writes it; the points without a file are then planned. *)
Plan(p, cells) ==
  Move(p, [proc[p] EXCEPT !.pc = "theses", !.cells = cells,
                          !.todo = Pending(Fanout(proc[p].host, cells))])

LoadMatrix(p) ==
  /\ proc[p].pc = "load"
  /\ IF matrix # <<>>
     THEN Plan(p, matrix)
     ELSE Move(p, [proc[p] EXCEPT !.pc = "build", !.cells = dims])
  /\ UNCHANGED <<disk, ghosts>>

BuildMatrix(p) ==
  /\ proc[p].pc = "build"
  /\ matrix' = proc[p].cells
  /\ Plan(p, proc[p].cells)
  /\ UNCHANGED <<spec, brief, dims, thesis, curation, catalog, status, ghosts>>

(* One point's task ends and is joined; only an accepted thesis is written,
   and the write may fail. *)
JoinPoint(p) ==
  /\ proc[p].pc = "theses"
  /\ \E n \in proc[p].todo, outcome \in PointOutcomes :
       /\ Move(p, [proc[p] EXCEPT !.todo = @ \ {n}])
       /\ thesis' \in {thesis} \cup
            (IF outcome # "Accepted" THEN {} ELSE
             {[thesis EXCEPT ![n] = Fanout(proc[p].host, proc[p].cells)[n]]})
  /\ UNCHANGED <<spec, brief, dims, matrix, curation, catalog, status, ghosts>>

PlanCells(p) ==
  /\ proc[p].pc = "theses"
  /\ proc[p].todo = {}
  /\ LET in == [matrix |-> matrix, thesis |-> thesis]
     IN  Move(p, [proc[p] EXCEPT !.pc = "cells", !.in = in, !.todo = PendingCells(in),
                                 !.host = {}, !.cells = <<>>])
  /\ UNCHANGED <<disk, ghosts>>

(* One cell's task ends and is joined; its file is written, or cannot be. *)
JoinCell(p) ==
  /\ proc[p].pc = "cells"
  /\ \E c \in proc[p].todo :
       /\ Move(p, [proc[p] EXCEPT !.todo = @ \ {c}])
       /\ \/ /\ \E cur \in CellOutcomes(Members(proc[p].in, c)) :
                  curation' = [curation EXCEPT ![c] = cur]
             /\ lost' = lost \ {c}
          \/ /\ lost' = lost \cup {c}
             /\ UNCHANGED curation
  /\ UNCHANGED <<spec, brief, dims, matrix, thesis, catalog, status, solo, starts>>

LoadInputs(p) ==
  /\ proc[p].pc = "cells"
  /\ proc[p].todo = {}
  /\ Move(p, [proc[p] EXCEPT !.pc = "apply",
                             !.in = [matrix |-> matrix, thesis |-> thesis]])
  /\ UNCHANGED <<disk, ghosts>>

(* A catalogue that breaks I3 ends the command with an error. *)
Render(p) ==
  /\ proc[p].pc = "apply"
  /\ LET cat == Catalogue(proc[p].in)
     IN  IF Valid(proc[p].in, cat)
         THEN catalog' = cat /\ Move(p, [proc[p] EXCEPT !.pc = "mark", !.in = None])
         ELSE UNCHANGED catalog /\ Move(p, [proc[p] EXCEPT !.pc = "broken", !.in = None])
  /\ UNCHANGED <<spec, brief, dims, matrix, thesis, curation, status, ghosts>>

FinalStatus ==
  IF \E c \in Cell : curation[c] # None /\ curation[c].status = "Failed"
  THEN "incomplete" ELSE "completed"

Finish(p) ==
  /\ proc[p].pc = "mark"
  /\ status' = FinalStatus
  /\ Move(p, Off)
  /\ UNCHANGED <<spec, brief, dims, matrix, thesis, curation, catalog, ghosts>>

(* Ctrl-C, a timeout, an error of a phase, a crash: the tasks are dropped
   and the status stays. *)
Stop(p) ==
  /\ ~Idle(p)
  /\ Move(p, Off)
  /\ UNCHANGED <<disk, ghosts>>

Step(p) ==
  \/ Run(p) \/ Resume(p) \/ Merge(p) \/ MergeThesis(p) \/ MergeSpec(p)
  \/ Intake(p) \/ Dimensions(p) \/ LoadMatrix(p) \/ BuildMatrix(p)
  \/ JoinPoint(p)
  \/ PlanCells(p) \/ JoinCell(p)
  \/ LoadInputs(p) \/ Render(p) \/ Finish(p) \/ Stop(p)

Next == \E p \in Proc : Step(p)

Spec == Init /\ [][Next]_vars

-----------------------------------------------------------------------------
(* A run marked completed has every cell of two theses or more in the      *)
(* groups of a curation of exactly its present theses, in the catalogue    *)
(* too, whatever was killed, failed and resumed before; only a curation    *)
(* file that could not be written, or two processes at once, break it      *)
(* (cli/discover.rs: "must not exit 0").                                   *)
Complete ==
  status = "completed" /\ solo =>
    LET in == [matrix |-> matrix, thesis |-> thesis]
    IN  \A c \in Range(matrix) \ lost :
          Cardinality(Members(in, c)) >= MinToCurate =>
            /\ curation[c] # None
            /\ curation[c].status = "Ok"
            /\ curation[c].members = Members(in, c)
            /\ catalog[c] = [kind |-> "grouped", groups |-> curation[c].groups]

(* No catalogue breaks invariant I3 (every thesis listed exactly once), not *)
(* even when another process writes theses, curations and the matrix       *)
(* between this one's reads: a curation that no longer fits its cell is    *)
(* not used (discovery/catalog.rs validate, phases/discover_render.rs).    *)
Catalogued == \A p \in Proc : proc[p].pc # "broken"

(* A run that completed with every thesis of the fan-out written makes no  *)
(* model call when it is continued ("a complete run makes no model call    *)
(* and only re-renders"), in whatever steps it came about.                 *)
Quiet ==
  solo => \A p \in Proc : proc[p].settled =>
            /\ proc[p].pc = "intake" => brief
            /\ proc[p].pc # "dims"
            /\ proc[p].pc \in {"theses", "cells"} => proc[p].todo = {}

TypeOK ==
  /\ spec \in {None, "own", "merged"}
  /\ brief \in BOOLEAN /\ solo \in BOOLEAN
  /\ dims \in Matrices /\ matrix \in Matrices
  /\ DOMAIN thesis = Number
  /\ curation \in [Cell -> Curation \cup {None}]
  /\ lost \subseteq Cell
  /\ status \in {None, "running", "incomplete", "completed"}
  /\ starts \in 0 .. MaxStarts
  /\ DOMAIN proc = Proc
  /\ \A p \in Proc :
       /\ DOMAIN proc[p] = DOMAIN Off
       /\ proc[p].pc \in {"off", "broken", "intake", "dims", "load", "build", "theses",
                          "cells", "apply", "mark", "merge"}
=============================================================================
