------------------------ MODULE DiscoverFanoutProofs ------------------------
(* A discover run, for any number of processes, any fan-out, any cells,    *)
(* any hosting and any chunk size. Three layers: what holds with processes *)
(* working on the run at once (Base), what one that works alone knows of   *)
(* the files (Alone, Tracked), and what is left to do of a finished run    *)
(* (AllUndisturbed).                                                       *)
EXTENDS DiscoverFanout, FiniteSetTheorems, TLAPS

-----------------------------------------------------------------------------
(* What fails for some natural number fails for a least one. *)
LEMMA LeastNatural ==
  ASSUME NEW T \in SUBSET Nat, T # {}
  PROVE  \E x \in T : \A y \in T : x <= y
<1> DEFINE R == {ss \in Nat \X Nat : ss[1] < ss[2]}
<1>1. IsWellFoundedOn(R, Nat)
  BY NatLessThanWellFounded, Zenon DEF OpToRel
<1> HIDE DEF R
<1>2. \A x, y \in Nat : y < x => <<y, x>> \in R
  BY DEF R
<1>3. PICK x \in T : \A y \in T : <<y, x>> \notin R
  BY <1>1, WFMin
<1>4. \A y \in T : ~(y < x)
  BY <1>2, <1>3
<1>5. \A y \in T : x <= y
  BY <1>4
<1> QED BY <1>3, <1>5

LEMMA NumberNat == Number \subseteq Nat
<1>1. ASSUME NEW h, NEW m PROVE DOMAIN Fanout(h, m) \subseteq Nat
  <2>1. \E k : DOMAIN Fanout(h, m) = 0 .. k
    BY DEF Fanout
  <2> QED BY <2>1
<1>2. 0 .. Len(Pool) - 1 \subseteq Nat
  OBVIOUS
<1>3. ASSUME NEW x \in Number, x \notin 0 .. Len(Pool) - 1
      PROVE  \E h, m : x \in DOMAIN Fanout(h, m)
  BY <1>3 DEF Number
<1> QED BY <1>1, <1>2, <1>3

LEMMA MatrixCells ==
  ASSUME NEW m \in Matrices
  PROVE  Range(m) \subseteq Cell
BY DiscoverAssumption, MergeAssumption DEF Matrices, Range

-----------------------------------------------------------------------------
(* chunk_ranges: the chunks of a cell are disjoint and leave nobody out.   *)
LEMMA DivLe ==
  ASSUME NEW a \in Nat, NEW b \in Nat, NEW k \in Nat \ {0}, a <= b
  PROVE  a \div k \in Nat /\ a \div k <= b \div k
<1> DEFINE x == a \div k
           y == b \div k
<1>1. /\ x \in Nat /\ y \in Nat
      /\ k * x <= a /\ b < k * y + k
  OBVIOUS
<1>2. CASE x > y
  <2>1. x >= y + 1
    BY <1>1, <1>2
  <2>2. k * x >= k * (y + 1)
    BY <1>1, <2>1
  <2>3. k * (y + 1) = k * y + k
    BY <1>1
  <2> QED BY <1>1, <2>2, <2>3
<1> QED BY <1>1, <1>2

LEMMA RankRange ==
  ASSUME NEW ids \in SUBSET Nat, IsFiniteSet(ids), NEW x \in ids
  PROVE  Rank(ids, x) \in 1 .. Cardinality(ids)
<1> DEFINE below == {y \in ids : y <= x}
<1>1. below \subseteq ids /\ x \in below
  OBVIOUS
<1>2. IsFiniteSet(below) /\ Cardinality(below) <= Cardinality(ids)
  BY <1>1, FS_Subset
<1>3. Cardinality(below) # 0
  BY <1>1, <1>2, FS_EmptySet
<1>4. Cardinality(below) \in Nat /\ Cardinality(ids) \in Nat
  BY <1>2, FS_CardinalityType
<1> QED BY <1>2, <1>3, <1>4 DEF Rank

LEMMA CountRange ==
  ASSUME NEW ids, IsFiniteSet(ids), ids # {}
  PROVE  Cardinality(ids) \in Nat \ {0} /\ ChunkCount(ids) \in Nat \ {0}
<1>1. Cardinality(ids) \in Nat \ {0}
  BY FS_CardinalityType, FS_EmptySet
<1>2. (Cardinality(ids) + MaxPerCall - 1) \div MaxPerCall >= 1
  <2>1. MaxPerCall <= Cardinality(ids) + MaxPerCall - 1 /\ MaxPerCall \in Nat \ {0}
    BY <1>1, DiscoverAssumption
  <2>2. MaxPerCall \div MaxPerCall = 1
    BY <2>1
  <2>3. MaxPerCall \div MaxPerCall <= (Cardinality(ids) + MaxPerCall - 1) \div MaxPerCall
    BY <1>1, <2>1, DivLe
  <2> QED BY <2>2, <2>3
<1>3. (Cardinality(ids) + MaxPerCall - 1) \div MaxPerCall \in Nat
  BY <1>1, DiscoverAssumption, DivLe
<1> QED BY <1>1, <1>2, <1>3 DEF ChunkCount

LEMMA ChunksCover ==
  ASSUME NEW ids \in SUBSET Nat, IsFiniteSet(ids), NEW x \in ids
  PROVE  \E ch \in Chunks(ids) : x \in ch
<1> DEFINE n == Cardinality(ids)
           k == ChunkCount(ids)
           T == {i \in Nat : Rank(ids, x) <= (i * n) \div k}
<1>1. n \in Nat \ {0} /\ k \in Nat \ {0}
  BY CountRange
<1>2. Rank(ids, x) \in 1 .. n
  BY RankRange
<1> HIDE DEF n, k
<1>3. k \in T
  <2>1. (k * n) \div k = n
    BY <1>1
  <2> QED BY <1>1, <1>2, <2>1
<1>4. PICK i \in T : \A j \in T : i <= j
  BY <1>3, LeastNatural
<1>5. i # 0
  <2>1. (0 * n) \div k = 0
    BY <1>1
  <2> QED BY <1>2, <1>4, <2>1
<1>6. i \in 1 .. k
  BY <1>1, <1>3, <1>4, <1>5
<1>7. ((i - 1) * n) \div k < Rank(ids, x)
  <2>1. i - 1 \in Nat /\ i - 1 \notin T
    BY <1>4, <1>5
  <2>2. (i - 1) * n \in Nat
    BY <1>1, <2>1
  <2>3. ((i - 1) * n) \div k \in Nat
    BY <1>1, <2>2, DivLe
  <2> QED BY <1>2, <2>1, <2>3
<1>8. x \in Chunk(ids, k, i)
  BY <1>4, <1>7 DEF Chunk, n
<1> QED BY <1>6, <1>8 DEF Chunks, k

LEMMA ChunksDisjoint ==
  ASSUME NEW ids \in SUBSET Nat, IsFiniteSet(ids), NEW x \in ids,
         NEW c \in Chunks(ids), NEW d \in Chunks(ids), x \in c, x \in d
  PROVE  c = d
<1> DEFINE n == Cardinality(ids)
           k == ChunkCount(ids)
<1>1. n \in Nat \ {0} /\ k \in Nat \ {0}
  BY CountRange
<1>2. Rank(ids, x) \in 1 .. n
  BY RankRange
<1>3. PICK i \in 1 .. k, j \in 1 .. k : c = Chunk(ids, k, i) /\ d = Chunk(ids, k, j)
  BY DEF Chunks
<1>4. /\ ((i - 1) * n) \div k < Rank(ids, x) /\ Rank(ids, x) <= (i * n) \div k
      /\ ((j - 1) * n) \div k < Rank(ids, x) /\ Rank(ids, x) <= (j * n) \div k
  BY <1>3 DEF Chunk
<1> HIDE DEF n, k
<1>5. ASSUME NEW a \in 1 .. k, NEW b \in 1 .. k, a < b,
             Rank(ids, x) <= (a * n) \div k, ((b - 1) * n) \div k < Rank(ids, x)
      PROVE  FALSE
  <2>1. a \in Nat /\ b - 1 \in Nat /\ a <= b - 1
    BY <1>1, <1>5
  <2>2. a * n \in Nat /\ (b - 1) * n \in Nat /\ a * n <= (b - 1) * n
    BY <1>1, <2>1
  <2>3. (a * n) \div k \in Nat /\ (a * n) \div k <= ((b - 1) * n) \div k
    BY <1>1, <2>2, DivLe
  <2>4. ((b - 1) * n) \div k \in Nat
    BY <1>1, <2>2, DivLe
  <2> QED BY <1>2, <1>5, <2>3, <2>4
<1>6. i = j
  BY <1>1, <1>4, <1>5
<1> QED BY <1>3, <1>6

-----------------------------------------------------------------------------
(* Curation: an answer that is accepted puts every thesis of its chunk in  *)
(* one group, so a cell whose chunks all succeed is covered.               *)
Parts(groups, ids) == UNION groups = ids /\ \A n \in ids : Once(groups, n)

LEMMA NormaliseParts ==
  ASSUME NEW ids, NEW assign \in [ids -> Group \cup {None}]
  PROVE  Parts(Normalise(ids, assign), ids)
<1> DEFINE class(g) == {n \in ids : assign[n] = g}
<1>1. ASSUME NEW n \in ids
      PROVE  class(assign[n]) \in Normalise(ids, assign) /\ n \in class(assign[n])
  BY DEF Normalise
<1>2. ASSUME NEW h \in Normalise(ids, assign) PROVE \E g : h = class(g)
  BY DEF Normalise
<1>3. UNION Normalise(ids, assign) = ids
  BY <1>1, <1>2
<1>4. ASSUME NEW n \in ids PROVE Once(Normalise(ids, assign), n)
  <2>1. \A h \in Normalise(ids, assign) : n \in h <=> h = class(assign[n])
    BY <1>1, <1>2
  <2> QED BY <1>1, <2>1 DEF Once
<1> QED BY <1>3, <1>4 DEF Parts

LEMMA ChunkParts ==
  ASSUME NEW ids, NEW r \in ChunkOutcomes(ids), r # None
  PROVE  Parts(r, ids)
<1>1. r \in Attempt(ids)
  BY DEF ChunkOutcomes
<1>2. PICK f \in [ids -> Group \cup {None}] : r = Normalise(ids, f)
  BY <1>1 DEF Attempt
<1> QED BY <1>2, NormaliseParts

LEMMA OutcomeShape ==
  ASSUME NEW ids \in SUBSET Number, IsFiniteSet(ids), NEW cur \in CellOutcomes(ids)
  PROVE  cur \in Curation /\ cur.members = ids /\ Covers(cur, ids)
<1>0. ids \in SUBSET Nat
  BY NumberNat
<1>1. PICK r : /\ cur = MergeChunks(ids, r) /\ DOMAIN r = Chunks(ids)
               /\ \A ch \in Chunks(ids) : r[ch] \in ChunkOutcomes(ch)
  BY DEF CellOutcomes
<1>2. CASE \E ch \in DOMAIN r : r[ch] = None
  BY <1>1, <1>2 DEF MergeChunks, Curation, Covers
<1>3. CASE \A ch \in DOMAIN r : r[ch] # None
  <2> DEFINE groups == UNION {r[ch] : ch \in DOMAIN r}
  <2>1. cur = [status |-> "Ok", members |-> ids, groups |-> groups]
    BY <1>1, <1>3 DEF MergeChunks
  <2>2. \A ch \in Chunks(ids) : Parts(r[ch], ch)
    BY <1>1, <1>3, ChunkParts
  <2>3. \A ch \in Chunks(ids) : ch \subseteq ids
    BY DEF Chunks, Chunk
  <2>4. ASSUME NEW g \in groups PROVE \E ch \in Chunks(ids) : g \in r[ch] /\ g \subseteq ch
    BY <1>1, <2>2 DEF Parts
  <2>5. ASSUME NEW n \in ids PROVE Once(groups, n)
    <3>1. PICK ch \in Chunks(ids) : n \in ch
      BY <1>0, ChunksCover
    <3>2. PICK g \in r[ch] : \A h \in r[ch] : n \in h <=> h = g
      BY <2>2, <3>1 DEF Parts, Once
    <3>3. ASSUME NEW h \in groups, n \in h PROVE h = g
      <4>1. PICK d \in Chunks(ids) : h \in r[d] /\ h \subseteq d
        BY <2>4, <3>3
      <4>2. d = ch
        BY <1>0, <3>1, <3>3, <4>1, ChunksDisjoint
      <4> QED BY <3>2, <3>3, <4>1, <4>2
    <3>4. g \in groups /\ n \in g
      BY <1>1, <3>1, <3>2
    <3> QED BY <3>3, <3>4 DEF Once
  <2>6. UNION groups = ids
    BY <2>3, <2>4, <2>5 DEF Once
  <2>7. groups \in SUBSET SUBSET Number
    BY <2>3, <2>4
  <2> HIDE DEF groups
  <2> QED BY <2>1, <2>5, <2>6, <2>7 DEF Curation, Covers
<1> QED BY <1>2, <1>3

-----------------------------------------------------------------------------
(* The catalogue lists every thesis once, whatever the curations say.      *)
LEMMA EntryParts ==
  ASSUME NEW in, NEW c \in Cell \cup {Outside}, curation \in [Cell -> Curation \cup {None}]
  PROVE  Parts(Entry(in, c).groups, Members(in, c))
<1> DEFINE ids == Members(in, c)
           cur == IF c = Outside THEN None ELSE curation[c]
           implicit == {ids} \ {{}}
<1>1. Parts(implicit, ids)
  BY DEF Parts, Once
<1>2. cur \in Curation \cup {None}
  BY DEF Outside
<1> HIDE DEF ids
<1>3. CASE cur = None \/ ~Covers(cur, ids) \/ cur.status # "Ok"
  <2>1. Entry(in, c).groups = implicit
    BY <1>3 DEF Entry, ids
  <2> QED BY <1>1, <2>1 DEF ids
<1>4. CASE cur # None /\ Covers(cur, ids) /\ cur.status = "Ok"
  <2>1. Entry(in, c).groups = cur.groups
    BY <1>4 DEF Entry, ids
  <2>2. Parts(cur.groups, ids)
    BY <1>4 DEF Covers, Parts
  <2> QED BY <2>1, <2>2 DEF ids
<1> QED BY <1>3, <1>4

LEMMA CatalogueValid ==
  ASSUME NEW in, Range(in.matrix) \subseteq Cell, curation \in [Cell -> Curation \cup {None}]
  PROVE  Valid(in, Catalogue(in))
<1> DEFINE cat == Catalogue(in)
           D == Range(in.matrix) \cup {Outside}
<1>1. DOMAIN cat = D /\ \A c \in D : cat[c] = Entry(in, c)
  BY DEF Catalogue
<1>2. \A c \in D : Parts(cat[c].groups, Members(in, c))
  BY <1>1, EntryParts
<1> HIDE DEF cat
<1>3. ASSUME NEW n \in Written(in)
      PROVE  \E c \in DOMAIN cat :
               /\ Once(cat[c].groups, n)
               /\ \A d \in DOMAIN cat \ {c} : n \notin UNION cat[d].groups
  <2> DEFINE c == CellOf(in, n)
  <2>1. c \in D /\ n \in Members(in, c)
    BY DEF CellOf, Members
  <2>2. Once(cat[c].groups, n)
    BY <1>2, <2>1 DEF Parts
  <2>3. ASSUME NEW d \in D \ {c} PROVE n \notin UNION cat[d].groups
    BY <1>2 DEF Parts, Members
  <2> QED BY <1>1, <2>1, <2>2, <2>3
<1>4. \A c \in DOMAIN cat : UNION cat[c].groups \subseteq Written(in)
  BY <1>1, <1>2 DEF Parts, Members
<1> QED BY <1>3, <1>4 DEF Valid, cat

-----------------------------------------------------------------------------
(* What holds of the files and of every process, however many work on the  *)
(* run at once.                                                            *)
Now == [matrix |-> matrix, thesis |-> thesis]

Files ==
  /\ IsFiniteSet(Written(Now))
  /\ \A c \in Cell : curation[c] # None => Covers(curation[c], curation[c].members)
  /\ starts = 0 =>
       /\ spec = None /\ status = None /\ dims = <<>> /\ matrix = <<>>
       /\ \A p \in Proc : proc[p].pc = "off"
  /\ status = "completed" => matrix # <<>> \/ spec = "merged"

Shape(p) ==
  /\ proc[p].pc = "off" => proc[p] = Off
  /\ proc[p].pc # "broken"
  /\ proc[p].pc \in {"theses", "merge"} => proc[p].todo \subseteq Number
  /\ proc[p].pc = "cells" => proc[p].todo \subseteq Cell
  /\ proc[p].pc \in {"cells", "apply"} =>
       Range(proc[p].in.matrix) \subseteq Cell /\ IsFiniteSet(Written(proc[p].in))
  /\ proc[p].pc \in {"intake", "dims", "load", "build"} => proc[p].host \in Hostings
  /\ proc[p].pc = "intake" => proc[p].derive \/ matrix # <<>>
  /\ proc[p].pc = "load" => dims # <<>> \/ matrix # <<>>
  /\ proc[p].pc = "build" => proc[p].cells \in Matrices \ {<<>>}
  /\ proc[p].pc \in {"theses", "cells", "apply", "mark"} => matrix # <<>> \/ spec = "merged"

Base == TypeOK /\ Files /\ \A p \in Proc : Shape(p)

(* A process that does not step keeps its shape while the files only gain. *)
Gains ==
  /\ matrix # <<>> => matrix' # <<>>
  /\ dims # <<>> => dims' # <<>>
  /\ spec = "merged" => spec' = "merged"

LEMMA ShapeSame ==
  ASSUME NEW p \in Proc, Shape(p), proc'[p] = proc[p], Gains
  PROVE  Shape(p)'
BY DEF Shape, Gains, Written, Range

ThesesOK == DOMAIN thesis = Number /\ IsFiniteSet(Written(Now))

CurationsOK ==
  /\ curation \in [Cell -> Curation \cup {None}]
  /\ \A c \in Cell : curation[c] # None => Covers(curation[c], curation[c].members)

LEMMA ThesesSame ==
  ASSUME Base, thesis' = thesis
  PROVE  ThesesOK'
<1>1. Written(Now)' = Written(Now)
  BY DEF Written, Now
<1> QED BY <1>1 DEF Base, Files, TypeOK, ThesesOK

LEMMA ThesisWritten ==
  ASSUME Base, NEW n \in Number, NEW v, thesis' = [thesis EXCEPT ![n] = v]
  PROVE  ThesesOK'
<1>1. Written(Now)' \subseteq Written(Now) \cup {n}
  BY DEF Written, Now, Base, TypeOK
<1>2. IsFiniteSet(Written(Now) \cup {n})
  BY FS_AddElement DEF Base, Files
<1>3. IsFiniteSet(Written(Now)')
  BY <1>1, <1>2, FS_Subset
<1> QED BY <1>3 DEF Base, TypeOK, ThesesOK

LEMMA CurationsSame ==
  ASSUME Base, curation' = curation
  PROVE  CurationsOK'
BY DEF Base, Files, TypeOK, CurationsOK

LEMMA CurationWritten ==
  ASSUME Base, NEW c \in Cell, NEW in, IsFiniteSet(Written(in)),
         NEW cur \in CellOutcomes(Members(in, c)), curation' = [curation EXCEPT ![c] = cur]
  PROVE  /\ CurationsOK' /\ cur # None /\ cur.members = Members(in, c)
         /\ Covers(cur, Members(in, c))
<1>1. Members(in, c) \subseteq Written(in) /\ Written(in) \subseteq Number
  BY DEF Members, Written
<1>2. IsFiniteSet(Members(in, c))
  BY <1>1, FS_Subset
<1>3. cur \in Curation /\ cur.members = Members(in, c) /\ Covers(cur, Members(in, c))
  BY <1>1, <1>2, OutcomeShape
<1>4. cur # None
  BY <1>3, CurationAssumption
<1>5. CurationsOK'
  BY <1>3 DEF Base, Files, TypeOK, CurationsOK
<1> QED BY <1>3, <1>4, <1>5

Stages == {"off", "intake", "dims", "load", "build", "theses", "cells", "apply", "mark",
           "merge"}

(* A step of p preserves Base if it leaves theses, curations and its own   *)
(* state well formed.                                                      *)
LEMMA MoveBase ==
  ASSUME Base, NEW p \in Proc, NEW r, Move(p, r), DOMAIN r = DOMAIN Off, r.pc \in Stages,
         Shape(p)', Gains, ThesesOK', CurationsOK',
         spec' \in {None, "own", "merged"}, brief' \in BOOLEAN, solo' \in BOOLEAN,
         dims' \in Matrices, matrix' \in Matrices, lost' \subseteq Cell,
         status' \in {None, "running", "incomplete", "completed"},
         status' = "completed" => matrix' # <<>> \/ spec' = "merged",
         starts' \in 0 .. MaxStarts, starts' # 0
  PROVE  Base'
<1>1. DOMAIN proc' = Proc /\ proc'[p] = r /\ \A q \in Proc \ {p} : proc'[q] = proc[q]
  BY DEF Move, Base, TypeOK
<1>2. TypeOK'
  BY <1>1 DEF Base, TypeOK, Off, Stages, ThesesOK, CurationsOK
<1>3. Files'
  BY DEF Files, ThesesOK, CurationsOK
<1>4. \A q \in Proc : Shape(q)'
  BY <1>1, ShapeSame DEF Base
<1> QED BY <1>2, <1>3, <1>4 DEF Base

(* The same for a step that leaves the files and the ghosts alone. *)
LEMMA QuietMove ==
  ASSUME Base, NEW p \in Proc, NEW r, Move(p, r), DOMAIN r = DOMAIN Off, r.pc \in Stages,
         Shape(p)', proc[p].pc # "off", UNCHANGED <<disk, ghosts>>
  PROVE  Base'
<1>1. ThesesOK' /\ CurationsOK'
  BY ThesesSame, CurationsSame DEF disk
<1>2. starts # 0
  BY DEF Base, Files
<1> QED BY <1>1, <1>2, MoveBase DEF disk, ghosts, Gains, Base, TypeOK, Files

LEMMA PlanNumber ==
  ASSUME NEW h \in Hostings, NEW m \in Matrices \ {<<>>}
  PROVE  Pending(Fanout(h, m)) \subseteq Number
<1>1. m \in Derived \cup {MergedMatrix}
  BY DEF Matrices
<1>2. Pending(Fanout(h, m)) \subseteq DOMAIN Fanout(h, m)
  BY DEF Pending
<1> QED BY <1>1, <1>2 DEF Number

LEMMA BaseInit == Init => Base
<1> SUFFICES ASSUME Init PROVE Base
  OBVIOUS
<1>1. Written(Now) = {}
  BY DEF Init, Written, Now
<1>2. TypeOK
  <2>1. 0 \in 0 .. MaxStarts
    BY DiscoverAssumption
  <2>2. curation \in [Cell -> Curation \cup {None}] /\ lost \subseteq Cell /\ DOMAIN thesis = Number
    BY DEF Init
  <2>3. DOMAIN proc = Proc /\ \A p \in Proc : proc[p] = Off
    BY DEF Init
  <2>4. Off.pc = "off"
    BY DEF Off
  <2>5. dims \in Matrices /\ matrix \in Matrices
    BY DEF Init, Matrices
  <2> QED BY <2>1, <2>2, <2>3, <2>4, <2>5 DEF Init, TypeOK
<1>3. Files
  BY <1>1, FS_EmptySet, DiscoverAssumption DEF Init, Files, Off
<1>4. \A p \in Proc : Shape(p)
  BY DEF Init, Shape, Off
<1> QED BY <1>2, <1>3, <1>4 DEF Base

-----------------------------------------------------------------------------
LEMMA ExecuteBase ==
  ASSUME Base, NEW p \in Proc, NEW kind \in {"own", "merged"}, Execute(p, kind),
         kind = "merged" => spec' = "merged", Gains, thesis' = thesis, curation' = curation,
         spec' \in {"own", "merged", spec}, brief' \in BOOLEAN, solo' \in BOOLEAN,
         dims' = dims, matrix' = matrix, lost' = lost,
         starts' \in 0 .. MaxStarts, starts' # 0
  PROVE  Base'
<1>1. PICK h \in Hostings :
        Move(p, IF kind = "merged"
                THEN [Off EXCEPT !.pc = "theses", !.settled = Settled({})]
                ELSE [Off EXCEPT !.pc = "intake", !.host = h, !.derive = (matrix = <<>>),
                                 !.settled = Settled(h)])
  BY DEF Execute
<1> DEFINE r == IF kind = "merged"
                THEN [Off EXCEPT !.pc = "theses", !.settled = Settled({})]
                ELSE [Off EXCEPT !.pc = "intake", !.host = h, !.derive = (matrix = <<>>),
                                 !.settled = Settled(h)]
<1>2. /\ DOMAIN r = DOMAIN Off /\ r.pc \in {"theses", "intake"}
      /\ r.pc = "theses" => kind = "merged" /\ r.todo = {}
      /\ r.pc = "intake" => r.host = h /\ r.derive = (matrix = <<>>)
  BY DEF Off
<1>3. Move(p, r)
  BY <1>1
<1> HIDE DEF r
<1>4. proc'[p] = r
  BY <1>3 DEF Move, Base, TypeOK
<1>5. Shape(p)'
  BY <1>2, <1>4 DEF Shape
<1>6. status' = "running"
  BY DEF Execute
<1>7. ThesesOK' /\ CurationsOK'
  BY ThesesSame, CurationsSame
<1>8. /\ spec' \in {None, "own", "merged"} /\ dims' \in Matrices /\ matrix' \in Matrices
      /\ lost' \subseteq Cell
  BY DEF Base, TypeOK
<1> QED BY <1>2, <1>3, <1>5, <1>6, <1>7, <1>8, MoveBase DEF Stages

LEMMA BaseStep == Base /\ [Next]_vars => Base'
<1> SUFFICES ASSUME Base, [Next]_vars PROVE Base'
  OBVIOUS
<1>1. CASE UNCHANGED vars
  <2>1. /\ UNCHANGED <<disk, proc, ghosts>> /\ TypeOK'
    BY <1>1 DEF vars, disk, ghosts, Base, TypeOK
  <2>2. ThesesOK' /\ CurationsOK'
    BY <2>1, ThesesSame, CurationsSame DEF disk
  <2>3. \A p \in Proc : Shape(p)'
    BY <2>1, ShapeSame DEF Base, Gains, disk
  <2>4. Files'
    BY <2>1, <2>2 DEF Base, Files, ThesesOK, CurationsOK, disk, ghosts
  <2> QED BY <2>1, <2>3, <2>4 DEF Base
<1>2. ASSUME NEW p \in Proc, Step(p) PROVE Base'
  <2>0. /\ TypeOK /\ Files /\ Shape(p)
        /\ DOMAIN proc[p] = DOMAIN Off /\ (proc[p].pc # "off" => starts # 0)
        /\ starts \in 0 .. MaxStarts
    BY DEF Base, TypeOK, Files
  <2>l. ASSUME Launch(p)
        PROVE  lost' = lost /\ starts' \in 0 .. MaxStarts /\ starts' # 0 /\ solo' \in BOOLEAN
    BY <2>0, <2>l, DiscoverAssumption DEF Launch, TypeOK
  <2>1. CASE Run(p)
    <3>1. Gains
      BY <2>0, <2>1, DiscoverAssumption DEF Run, Files, Gains
    <3> QED BY <2>1, <2>l, <3>1, ExecuteBase DEF Run
  <2>2. CASE Resume(p)
    <3>1. Gains
      BY <2>2 DEF Resume, Gains
    <3>2. (IF spec = None THEN "own" ELSE spec) \in {"own", "merged"}
      BY <2>0 DEF TypeOK
    <3>3. brief' \in BOOLEAN
      BY <2>0, <2>2 DEF Resume, TypeOK
    <3>4. (IF spec = None THEN "own" ELSE spec) = "merged" => spec' = "merged"
      BY <2>2 DEF Resume
    <3> QED BY <2>2, <2>l, <3>1, <3>2, <3>3, <3>4, ExecuteBase DEF Resume
  <2>3. CASE Merge(p)
    <3> DEFINE r == [Off EXCEPT !.pc = "merge", !.todo = 0 .. Len(Pool) - 1]
    <3>1. DOMAIN r = DOMAIN Off /\ r.pc = "merge" /\ r.todo = 0 .. Len(Pool) - 1
      BY DEF Off
    <3>2. Move(p, r) /\ starts = 0 /\ Launch(p)
      BY <2>3 DEF Merge
    <3> HIDE DEF r
    <3>3. proc'[p] = r
      BY <2>0, <3>2 DEF Move, TypeOK
    <3>4. Shape(p)'
      BY <3>1, <3>3 DEF Shape, Number
    <3>5. Gains
      BY <2>0, <2>3, DiscoverAssumption DEF Merge, Files, Gains
    <3>6. ThesesOK' /\ CurationsOK'
      BY <2>3, ThesesSame, CurationsSame DEF Merge
    <3>7. /\ spec' \in {None, "own", "merged"} /\ brief' \in BOOLEAN
          /\ dims' \in Matrices /\ matrix' \in Matrices
          /\ status' \in {None, "running", "incomplete", "completed"}
          /\ status' # "completed"
      BY <2>0, <2>3, <3>2, DiscoverAssumption DEF Merge, TypeOK, Matrices, Files
    <3>8. lost' \subseteq Cell
      BY <2>0, <2>l, <3>2 DEF TypeOK
    <3> QED BY <2>l, <3>1, <3>2, <3>4, <3>5, <3>6, <3>7, <3>8, MoveBase DEF Stages
  <2>4. CASE MergeThesis(p)
    <3> DEFINE n == Min(proc[p].todo)
               r == [proc[p] EXCEPT !.todo = @ \ {n}]
    <3>1. n \in proc[p].todo /\ proc[p].pc = "merge" /\ n \in Number
      <4>1. proc[p].pc = "merge" /\ proc[p].todo # {} /\ proc[p].todo \subseteq Number
        BY <2>0, <2>4 DEF MergeThesis, Shape
      <4>2. \E x \in proc[p].todo : \A y \in proc[p].todo : x <= y
        BY <4>1, LeastNatural, NumberNat
      <4> QED BY <4>1, <4>2 DEF Min
    <3>2. thesis' = [thesis EXCEPT ![n] = Pool[n + 1]] /\ Move(p, r)
      BY <2>4 DEF MergeThesis
    <3> HIDE DEF n
    <3>3. DOMAIN r = DOMAIN Off /\ r.pc = "merge" /\ r.todo = proc[p].todo \ {n}
      BY <2>0, <3>1 DEF Off
    <3> HIDE DEF r
    <3>4. proc'[p] = r
      BY <2>0, <3>2 DEF Move, TypeOK
    <3>5. Shape(p)'
      BY <2>0, <3>1, <3>3, <3>4 DEF Shape
    <3>6. ThesesOK' /\ CurationsOK'
      BY <2>4, <3>1, <3>2, ThesisWritten, CurationsSame DEF MergeThesis
    <3> QED
      BY <2>0, <2>4, <3>1, <3>2, <3>3, <3>5, <3>6, MoveBase
      DEF MergeThesis, ghosts, Gains, TypeOK, Files, Stages
  <2>5. CASE MergeSpec(p)
    <3>1. Gains /\ proc[p].pc = "merge"
      BY <2>5 DEF MergeSpec, Gains
    <3>2. brief' \in BOOLEAN /\ solo' \in BOOLEAN /\ starts' \in 0 .. MaxStarts /\ starts' # 0
      BY <2>0, <2>5, <3>1 DEF MergeSpec, TypeOK, ghosts
    <3> QED BY <2>5, <3>1, <3>2, ExecuteBase DEF MergeSpec, ghosts
  <2>6. CASE Intake(p)
    <3> DEFINE r == [proc[p] EXCEPT !.pc = IF proc[p].derive THEN "dims" ELSE "load",
                                    !.derive = FALSE]
    <3>1. Move(p, r) /\ proc[p].pc = "intake"
      BY <2>6 DEF Intake
    <3>2. /\ DOMAIN r = DOMAIN Off /\ r.pc \in {"dims", "load"} /\ r.host = proc[p].host
          /\ r.pc = "load" => ~proc[p].derive
      BY <2>0 DEF Off
    <3> HIDE DEF r
    <3>3. proc'[p] = r
      BY <2>0, <3>1 DEF Move, TypeOK
    <3>4. Shape(p)'
      BY <2>0, <2>6, <3>1, <3>2, <3>3 DEF Shape, Intake
    <3>5. ThesesOK' /\ CurationsOK'
      BY <2>6, ThesesSame, CurationsSame DEF Intake
    <3> QED
      BY <2>0, <2>6, <3>1, <3>2, <3>4, <3>5, MoveBase
      DEF Intake, ghosts, Gains, TypeOK, Files, Stages
  <2>7. CASE Dimensions(p)
    <3> DEFINE r == [proc[p] EXCEPT !.pc = "load"]
    <3>1. Move(p, r) /\ proc[p].pc = "dims"
      BY <2>7 DEF Dimensions
    <3>2. DOMAIN r = DOMAIN Off /\ r.pc = "load" /\ r.host = proc[p].host
      BY <2>0 DEF Off
    <3> HIDE DEF r
    <3>3. proc'[p] = r
      BY <2>0, <3>1 DEF Move, TypeOK
    <3>4. dims' \in Matrices /\ dims' # <<>>
      BY <2>0, <2>7, DiscoverAssumption DEF Dimensions, TypeOK, Matrices
    <3>5. Shape(p)'
      BY <2>0, <3>1, <3>2, <3>3, <3>4 DEF Shape
    <3>6. ThesesOK' /\ CurationsOK'
      BY <2>7, ThesesSame, CurationsSame DEF Dimensions
    <3> QED
      BY <2>0, <2>7, <3>1, <3>2, <3>4, <3>5, <3>6, MoveBase
      DEF Dimensions, ghosts, Gains, TypeOK, Files, Stages
  <2>8. CASE LoadMatrix(p) /\ matrix # <<>>
    <3> DEFINE r == [proc[p] EXCEPT !.pc = "theses", !.cells = matrix,
                                    !.todo = Pending(Fanout(proc[p].host, matrix))]
    <3>1. Move(p, r) /\ proc[p].pc = "load"
      BY <2>8 DEF LoadMatrix, Plan
    <3>2. /\ DOMAIN r = DOMAIN Off /\ r.pc = "theses"
          /\ r.todo = Pending(Fanout(proc[p].host, matrix))
      BY <2>0 DEF Off
    <3> HIDE DEF r
    <3>3. proc'[p] = r /\ matrix' = matrix
      BY <2>0, <2>8, <3>1 DEF Move, TypeOK, LoadMatrix, disk
    <3>4. r.todo \subseteq Number
      BY <2>0, <2>8, <3>1, <3>2, PlanNumber DEF Shape, TypeOK
    <3>5. Shape(p)'
      BY <2>8, <3>2, <3>3, <3>4 DEF Shape
    <3> QED BY <2>8, <3>1, <3>2, <3>5, QuietMove DEF LoadMatrix, Stages
  <2>9. CASE LoadMatrix(p) /\ matrix = <<>>
    <3> DEFINE r == [proc[p] EXCEPT !.pc = "build", !.cells = dims]
    <3>1. Move(p, r) /\ proc[p].pc = "load"
      BY <2>9 DEF LoadMatrix
    <3>2. DOMAIN r = DOMAIN Off /\ r.pc = "build" /\ r.host = proc[p].host /\ r.cells = dims
      BY <2>0 DEF Off
    <3> HIDE DEF r
    <3>3. proc'[p] = r
      BY <2>0, <3>1 DEF Move, TypeOK
    <3>4. Shape(p)'
      BY <2>0, <2>9, <3>1, <3>2, <3>3 DEF Shape, TypeOK
    <3> QED BY <2>9, <3>1, <3>2, <3>4, QuietMove DEF LoadMatrix, Stages
  <2>10. CASE BuildMatrix(p)
    <3> DEFINE r == [proc[p] EXCEPT !.pc = "theses", !.cells = proc[p].cells,
                                    !.todo = Pending(Fanout(proc[p].host, proc[p].cells))]
    <3>1. Move(p, r) /\ proc[p].pc = "build"
      BY <2>10 DEF BuildMatrix, Plan
    <3>2. /\ DOMAIN r = DOMAIN Off /\ r.pc = "theses"
          /\ r.todo = Pending(Fanout(proc[p].host, proc[p].cells))
      BY <2>0 DEF Off
    <3> HIDE DEF r
    <3>3. proc'[p] = r /\ matrix' = proc[p].cells
      BY <2>0, <2>10, <3>1 DEF Move, TypeOK, BuildMatrix
    <3>4. r.todo \subseteq Number /\ matrix' \in Matrices /\ matrix' # <<>>
      BY <2>0, <3>1, <3>2, <3>3, PlanNumber DEF Shape
    <3>5. Shape(p)'
      BY <3>2, <3>3, <3>4 DEF Shape
    <3>6. ThesesOK' /\ CurationsOK'
      BY <2>10, ThesesSame, CurationsSame DEF BuildMatrix
    <3> QED
      BY <2>0, <2>10, <3>1, <3>2, <3>4, <3>5, <3>6, MoveBase
      DEF BuildMatrix, ghosts, Gains, TypeOK, Files, Stages
  <2>11. CASE JoinPoint(p)
    <3>1. PICK n \in proc[p].todo :
            /\ Move(p, [proc[p] EXCEPT !.todo = @ \ {n}])
            /\ thesis' = thesis \/ \E v : thesis' = [thesis EXCEPT ![n] = v]
      BY <2>11 DEF JoinPoint
    <3> DEFINE r == [proc[p] EXCEPT !.todo = @ \ {n}]
    <3>2. proc[p].pc = "theses" /\ n \in Number
      BY <2>0, <2>11, <3>1 DEF JoinPoint, Shape
    <3>3. DOMAIN r = DOMAIN Off /\ r.pc = "theses" /\ r.todo = proc[p].todo \ {n}
      BY <2>0, <3>2 DEF Off
    <3> HIDE DEF r
    <3>4. proc'[p] = r /\ Move(p, r)
      BY <2>0, <3>1 DEF Move, TypeOK, r
    <3>5. Shape(p)'
      BY <2>0, <2>11, <3>2, <3>3, <3>4 DEF Shape, JoinPoint
    <3>6. ThesesOK' /\ CurationsOK'
      BY <2>11, <3>1, <3>2, ThesesSame, ThesisWritten, CurationsSame DEF JoinPoint
    <3> QED
      BY <2>0, <2>11, <3>2, <3>3, <3>4, <3>5, <3>6, MoveBase
      DEF JoinPoint, ghosts, Gains, TypeOK, Files, Stages
  <2>12. CASE PlanCells(p)
    <3> DEFINE r == [proc[p] EXCEPT !.pc = "cells", !.in = Now, !.todo = PendingCells(Now),
                                    !.host = {}, !.cells = <<>>]
    <3>1. Move(p, r) /\ proc[p].pc = "theses"
      BY <2>12 DEF PlanCells, Now
    <3>2. DOMAIN r = DOMAIN Off /\ r.pc = "cells" /\ r.in = Now /\ r.todo = PendingCells(Now)
      BY <2>0 DEF Off
    <3> HIDE DEF r
    <3>3. proc'[p] = r /\ matrix' = matrix /\ spec' = spec
      BY <2>0, <2>12, <3>1 DEF Move, TypeOK, PlanCells, disk
    <3>4. Range(Now.matrix) \subseteq Cell /\ IsFiniteSet(Written(Now))
      BY <2>0, MatrixCells DEF Now, TypeOK, Files
    <3>5. PendingCells(Now) \subseteq Cell
      BY <3>4 DEF PendingCells
    <3>6. Shape(p)'
      BY <2>0, <3>1, <3>2, <3>3, <3>4, <3>5 DEF Shape, Written
    <3> QED BY <2>12, <3>1, <3>2, <3>6, QuietMove DEF PlanCells, Stages
  <2>13. CASE JoinCell(p)
    <3>1. PICK c \in proc[p].todo :
            /\ Move(p, [proc[p] EXCEPT !.todo = @ \ {c}])
            /\ \/ /\ \E cur \in CellOutcomes(Members(proc[p].in, c)) :
                       curation' = [curation EXCEPT ![c] = cur]
                  /\ lost' = lost \ {c}
               \/ lost' = lost \cup {c} /\ curation' = curation
      BY <2>13 DEF JoinCell
    <3> DEFINE r == [proc[p] EXCEPT !.todo = @ \ {c}]
    <3>2. proc[p].pc = "cells" /\ c \in Cell /\ IsFiniteSet(Written(proc[p].in))
      BY <2>0, <2>13, <3>1 DEF JoinCell, Shape
    <3>3. /\ DOMAIN r = DOMAIN Off /\ r.pc = "cells" /\ r.todo = proc[p].todo \ {c}
          /\ r.in = proc[p].in
      BY <2>0, <3>2 DEF Off
    <3> HIDE DEF r
    <3>4. proc'[p] = r /\ Move(p, r) /\ matrix' = matrix /\ spec' = spec
      BY <2>0, <2>13, <3>1 DEF Move, TypeOK, r, JoinCell
    <3>5. Shape(p)'
      BY <2>0, <3>2, <3>3, <3>4 DEF Shape, Written
    <3>6. CurationsOK' /\ lost' \subseteq Cell
      BY <2>0, <3>1, <3>2, CurationWritten, CurationsSame DEF TypeOK
    <3>7. ThesesOK'
      BY <2>13, ThesesSame DEF JoinCell
    <3> QED
      BY <2>0, <2>13, <3>2, <3>3, <3>4, <3>5, <3>6, <3>7, MoveBase
      DEF JoinCell, Gains, TypeOK, Files, Stages
  <2>14. CASE LoadInputs(p)
    <3> DEFINE r == [proc[p] EXCEPT !.pc = "apply", !.in = Now]
    <3>1. Move(p, r) /\ proc[p].pc = "cells"
      BY <2>14 DEF LoadInputs, Now
    <3>2. DOMAIN r = DOMAIN Off /\ r.pc = "apply" /\ r.in = Now
      BY <2>0 DEF Off
    <3> HIDE DEF r
    <3>3. proc'[p] = r /\ matrix' = matrix /\ spec' = spec
      BY <2>0, <2>14, <3>1 DEF Move, TypeOK, LoadInputs, disk
    <3>4. Range(Now.matrix) \subseteq Cell /\ IsFiniteSet(Written(Now))
      BY <2>0, MatrixCells DEF Now, TypeOK, Files
    <3>5. Shape(p)'
      BY <2>0, <3>1, <3>2, <3>3, <3>4 DEF Shape, Written
    <3> QED BY <2>14, <3>1, <3>2, <3>5, QuietMove DEF LoadInputs, Stages
  <2>15. CASE Render(p)
    <3> DEFINE r == [proc[p] EXCEPT !.pc = "mark", !.in = None]
    <3>1. proc[p].pc = "apply" /\ Range(proc[p].in.matrix) \subseteq Cell
      BY <2>0, <2>15 DEF Render, Shape
    <3>2. Valid(proc[p].in, Catalogue(proc[p].in))
      BY <2>0, <3>1, CatalogueValid DEF TypeOK
    <3>3. Move(p, r)
      BY <2>15, <3>2 DEF Render
    <3>4. DOMAIN r = DOMAIN Off /\ r.pc = "mark"
      BY <2>0 DEF Off
    <3> HIDE DEF r
    <3>5. proc'[p] = r
      BY <2>0, <3>3 DEF Move, TypeOK
    <3>6. Shape(p)'
      BY <2>0, <2>15, <3>1, <3>4, <3>5 DEF Shape, Render
    <3>7. ThesesOK' /\ CurationsOK'
      BY <2>15, ThesesSame, CurationsSame DEF Render
    <3> QED
      BY <2>0, <2>15, <3>1, <3>3, <3>4, <3>6, <3>7, MoveBase
      DEF Render, ghosts, Gains, TypeOK, Files, Stages
  <2>16. CASE Finish(p)
    <3>1. Move(p, Off) /\ proc[p].pc = "mark" /\ Off.pc = "off"
      BY <2>16 DEF Finish, Off
    <3>2. proc'[p] = Off
      BY <2>0, <3>1 DEF Move, TypeOK
    <3>3. Shape(p)'
      BY <3>1, <3>2 DEF Shape
    <3>4. ThesesOK' /\ CurationsOK'
      BY <2>16, ThesesSame, CurationsSame DEF Finish
    <3>5. status' \in {"incomplete", "completed"}
      BY <2>16 DEF Finish, FinalStatus
    <3>6. matrix' # <<>> \/ spec' = "merged"
      BY <2>0, <2>16, <3>1 DEF Finish, Shape
    <3> QED
      BY <2>0, <2>16, <3>1, <3>3, <3>4, <3>5, <3>6, MoveBase
      DEF Finish, ghosts, Gains, TypeOK, Stages
  <2>17. CASE Stop(p)
    <3>1. Move(p, Off) /\ proc[p].pc # "off" /\ Off.pc = "off"
      BY <2>17 DEF Stop, Off, Idle
    <3>2. proc'[p] = Off
      BY <2>0, <3>1 DEF Move, TypeOK
    <3>3. Shape(p)'
      BY <3>1, <3>2 DEF Shape
    <3> QED BY <2>17, <3>1, <3>3, QuietMove DEF Stop, Stages
  <2> QED
    BY <1>2, <2>1, <2>2, <2>3, <2>4, <2>5, <2>6, <2>7, <2>8, <2>9, <2>10, <2>11, <2>12, <2>13,
       <2>14, <2>15, <2>16, <2>17
    DEF Step
<1> QED BY <1>1, <1>2 DEF Next

(* The files and every process stay well formed, with any number of        *)
(* processes on the run.                                                   *)
THEOREM BaseCorrect == Spec => []Base
BY BaseInit, BaseStep, PTL DEF Spec

(* Every file and every process of a discover run keeps its type.          *)
THEOREM TypeCorrect == Spec => []TypeOK
BY BaseCorrect, PTL DEF Base

(* No catalogue breaks invariant I3, whatever other processes write        *)
(* between the reads (discovery/catalog.rs validate).                      *)
THEOREM CataloguedCorrect == Spec => []Catalogued
<1>1. Base => Catalogued
  BY DEF Base, Shape, Catalogued
<1> QED BY <1>1, BaseCorrect, PTL

-----------------------------------------------------------------------------
(* Runs no two processes of which overlap: while one works on it the run   *)
(* is not marked completed.                                                *)
Alone ==
  solo => /\ \A p, q \in Proc : ~Idle(p) /\ ~Idle(q) => p = q
          /\ \A p \in Proc : ~Idle(p) => status # "completed"

LEMMA Actor ==
  ASSUME Base, NEW p \in Proc, Step(p)
  PROVE  /\ \A q \in Proc \ {p} : proc'[q] = proc[q]
         /\ Launch(p) \/ (~Idle(p) /\ solo' = solo)
<1> USE DEF Base, TypeOK, ghosts, Idle, Move
<1>1. CASE Run(p) \/ Resume(p) \/ Merge(p)
  BY <1>1 DEF Run, Resume, Merge, Execute
<1>2. CASE MergeThesis(p) \/ MergeSpec(p)
  BY <1>2 DEF MergeThesis, MergeSpec, Execute
<1>3. CASE Intake(p) \/ Dimensions(p) \/ LoadMatrix(p) \/ BuildMatrix(p)
  BY <1>3 DEF Intake, Dimensions, LoadMatrix, BuildMatrix, Plan
<1>4. CASE JoinPoint(p) \/ PlanCells(p) \/ JoinCell(p)
  BY <1>4 DEF JoinPoint, PlanCells, JoinCell
<1>5. CASE LoadInputs(p) \/ Render(p) \/ Finish(p) \/ Stop(p)
  BY <1>5 DEF LoadInputs, Render, Finish, Stop
<1> QED BY <1>1, <1>2, <1>3, <1>4, <1>5 DEF Step

(* While nobody else has worked on the run, everyone but the actor is idle. *)
LEMMA OthersIdle ==
  ASSUME Base, Alone, NEW p \in Proc, Step(p), solo'
  PROVE  solo /\ \A q \in Proc \ {p} : Idle(q) /\ Idle(q)' /\ proc'[q] = proc[q]
<1>1. solo /\ \A q \in Proc \ {p} : Idle(q)
  BY Actor DEF Launch, Alone
<1> QED BY <1>1, Actor DEF Idle

LEMMA ExecuteStarts ==
  ASSUME Base, NEW p \in Proc, NEW kind, Execute(p, kind)
  PROVE  /\ status' = "running" /\ proc'[p].pc \in {"theses", "intake"}
         /\ proc'[p].pc = "theses" => kind = "merged" /\ proc'[p].todo = {}
         /\ proc'[p].pc = "intake" => kind # "merged" /\ proc'[p].derive = (matrix = <<>>)
         /\ proc'[p].derive => proc'[p].pc = "intake"
         /\ \E h : /\ proc'[p].settled = Settled(h)
                   /\ proc'[p].pc = "intake" => proc'[p].host = h
BY DEF Execute, Move, Base, TypeOK, Off

(* The stages a step leads to, and when it marks the run. *)
LEMMA Leads ==
  ASSUME Base, NEW p \in Proc, Step(p)
  PROVE  /\ \/ proc'[p].pc \notin {"cells", "apply", "mark"}
            \/ PlanCells(p) \/ JoinCell(p) \/ LoadInputs(p) \/ Render(p)
         /\ \/ Finish(p) /\ proc'[p] = Off
            \/ Launch(p) /\ status' # "completed"
            \/ ~Launch(p) /\ status' \in {status, "running"}
<1>0. /\ DOMAIN proc = Proc /\ DOMAIN proc[p] = DOMAIN Off /\ proc[p].pc # "broken"
      /\ starts = 0 => status # "completed"
      /\ proc[p].pc # "off" => ~Idle(p) /\ ~Launch(p)
  BY DiscoverAssumption DEF Base, TypeOK, Shape, Files, Idle, Launch
<1>1. CASE Run(p) \/ Resume(p)
  BY <1>1, ExecuteStarts DEF Run, Resume
<1>2. CASE Merge(p)
  BY <1>0, <1>2 DEF Merge, Move, Off
<1>3. CASE MergeThesis(p) \/ Stop(p)
  BY <1>0, <1>3 DEF MergeThesis, Stop, Move, Off, Idle, disk
<1>4. CASE MergeSpec(p)
  BY <1>0, <1>4, ExecuteStarts DEF MergeSpec
<1>5. CASE Intake(p)
  BY <1>0, <1>5 DEF Intake, Move, Off
<1>11. CASE Dimensions(p)
  BY <1>0, <1>11 DEF Dimensions, Move, Off
<1>8. CASE LoadMatrix(p)
  BY <1>0, <1>8 DEF LoadMatrix, Plan, Move, Off, disk
<1>9. CASE BuildMatrix(p)
  BY <1>0, <1>9 DEF BuildMatrix, Plan, Move, Off
<1>10. CASE JoinPoint(p)
  BY <1>0, <1>10 DEF JoinPoint, Move, Off
<1>6. CASE PlanCells(p) \/ JoinCell(p) \/ LoadInputs(p) \/ Render(p)
  BY <1>0, <1>6 DEF PlanCells, JoinCell, LoadInputs, Render, disk
<1>7. CASE Finish(p)
  BY <1>0, <1>7 DEF Finish, Move, Off
<1> QED BY <1>1, <1>2, <1>3, <1>4, <1>5, <1>6, <1>7, <1>8, <1>9, <1>10, <1>11 DEF Step

LEMMA AloneStep == Base /\ Alone /\ [Next]_vars => Alone'
<1> SUFFICES ASSUME Base, Alone, [Next]_vars, solo'
             PROVE  /\ \A p, q \in Proc : (~Idle(p) /\ ~Idle(q) => p = q)'
                    /\ \A p \in Proc : (~Idle(p))' => status' # "completed"
  BY DEF Alone
<1>1. CASE UNCHANGED vars
  BY <1>1 DEF vars, disk, ghosts, Alone, Idle
<1>2. ASSUME NEW p \in Proc, Step(p)
      PROVE  /\ \A q, o \in Proc : (~Idle(q) /\ ~Idle(o) => q = o)'
             /\ \A q \in Proc : (~Idle(q))' => status' # "completed"
  <2>1. solo /\ \A q \in Proc \ {p} : Idle(q)'
    BY <1>2, OthersIdle
  <2>2. ASSUME (~Idle(p))' PROVE status' # "completed"
    <3>1. CASE Finish(p) /\ proc'[p] = Off
      BY <2>2, <3>1 DEF Idle, Off
    <3>2. CASE ~Launch(p) /\ status' \in {status, "running"}
      BY <1>2, <2>1, <3>2, Actor DEF Alone
    <3> QED BY <1>2, <3>1, <3>2, Leads
  <2> QED BY <2>1, <2>2
<1> QED BY <1>1, <1>2 DEF Next

-----------------------------------------------------------------------------
(* From the planning of the curations on, a process that works alone knows *)
(* the files: every cell that needs a curation has one of its present      *)
(* theses, is still to do, or its file was lost.                           *)
Needs(c) == Cardinality(Members(Now, c)) >= MinToCurate

Done(c) == curation[c] # None /\ curation[c].members = Members(Now, c)

Work(p) ==
  /\ proc[p].pc \in {"cells", "apply"} => proc[p].in = Now
  /\ proc[p].pc \in {"cells", "apply", "mark"} =>
       \A c \in Range(matrix) : Needs(c) =>
         \/ proc[p].pc = "cells" /\ c \in proc[p].todo
         \/ c \in lost
         \/ Done(c)
  /\ proc[p].pc = "mark" => catalog = Catalogue(Now)

Tracked == solo => \A p \in Proc : Work(p)

LEMMA NowSame ==
  ASSUME matrix' = matrix, thesis' = thesis
  PROVE  /\ Now' = Now
         /\ \A c : Members(Now, c)' = Members(Now, c)
         /\ \A c : Needs(c)' = Needs(c)
         /\ curation' = curation => \A c : Done(c)' = Done(c)
         /\ curation' = curation => Catalogue(Now)' = Catalogue(Now)
<1>1. Now' = Now
  BY DEF Now
<1>2. \A c : Members(Now, c)' = Members(Now, c)
  BY <1>1 DEF Members, Written, CellOf
<1>3. \A c : Needs(c)' = Needs(c)
  BY <1>2 DEF Needs
<1>4. curation' = curation => \A c : Done(c)' = Done(c)
  BY <1>2 DEF Done
<1>5. ASSUME curation' = curation PROVE Catalogue(Now)' = Catalogue(Now)
  <2>1. \A c : Entry(Now, c)' = Entry(Now, c)
    BY <1>1, <1>2, <1>5 DEF Entry
  <2> QED BY <1>1, <2>1 DEF Catalogue
<1> QED BY <1>1, <1>2, <1>3, <1>4, <1>5

LEMMA TrackedStep == Base /\ Alone /\ Tracked /\ [Next]_vars => Tracked'
<1> SUFFICES ASSUME Base, Alone, Tracked, [Next]_vars, solo'
             PROVE  \A p \in Proc : Work(p)'
  BY DEF Tracked
<1>1. CASE UNCHANGED vars
  <2>1. UNCHANGED <<matrix, thesis, curation, catalog, lost, solo, proc>>
    BY <1>1 DEF vars, disk, ghosts
  <2> QED BY <2>1, NowSame DEF Tracked, Work
<1>2. ASSUME NEW p \in Proc, Step(p) PROVE \A q \in Proc : Work(q)'
  <2>1. solo /\ \A q \in Proc \ {p} : Idle(q)'
    BY <1>2, OthersIdle
  <2>2. \A q \in Proc \ {p} : Work(q)'
    BY <2>1 DEF Idle, Work
  <2> SUFFICES Work(p)'
    BY <2>2
  <2>0. /\ DOMAIN proc = Proc /\ DOMAIN proc[p] = DOMAIN Off /\ Work(p) /\ Shape(p) /\ TypeOK
        /\ \A c \in Cell : curation[c] # None => Covers(curation[c], curation[c].members)
    BY <2>1 DEF Base, TypeOK, Tracked, Files
  <2>3. CASE PlanCells(p)
    <3>1. /\ UNCHANGED <<matrix, thesis, curation, lost>>
          /\ proc'[p].pc = "cells" /\ proc'[p].in = Now /\ proc'[p].todo = PendingCells(Now)
      BY <2>0, <2>3 DEF PlanCells, Move, Now, Off, disk, ghosts
    <3>2. ASSUME NEW c \in Range(matrix), Needs(c) PROVE c \in PendingCells(Now) \/ Done(c)
      BY <3>2 DEF Needs, Done, PendingCells, Covers, Now
    <3> QED BY <3>1, <3>2, NowSame DEF Work
  <2>4. CASE JoinCell(p)
    <3>1. PICK c \in proc[p].todo :
            /\ Move(p, [proc[p] EXCEPT !.todo = @ \ {c}])
            /\ \/ /\ \E cur \in CellOutcomes(Members(proc[p].in, c)) :
                       curation' = [curation EXCEPT ![c] = cur]
                  /\ lost' = lost \ {c}
               \/ lost' = lost \cup {c} /\ curation' = curation
      BY <2>4 DEF JoinCell
    <3>2. /\ UNCHANGED <<matrix, thesis>> /\ proc[p].pc = "cells" /\ proc'[p].pc = "cells"
          /\ proc'[p].in = proc[p].in /\ proc'[p].todo = proc[p].todo \ {c}
      BY <2>0, <2>4, <3>1 DEF JoinCell, Move, Off
    <3>3. /\ c \in Cell /\ IsFiniteSet(Written(proc[p].in)) /\ proc[p].in = Now
          /\ Range(matrix) \subseteq Cell
      BY <2>0, <3>2, MatrixCells DEF Shape, Work, TypeOK
    <3>4. c \in lost' \/ Done(c)'
      <4>1. ASSUME NEW cur \in CellOutcomes(Members(Now, c)),
                   curation' = [curation EXCEPT ![c] = cur]
            PROVE  Done(c)'
        <5>1. cur # None /\ cur.members = Members(Now, c)
          BY <3>3, <4>1, CurationWritten
        <5>2. curation'[c] = cur
          BY <2>0, <3>3, <4>1 DEF TypeOK
        <5> QED BY <3>2, <5>1, <5>2, NowSame DEF Done
      <4> QED BY <3>1, <3>3, <4>1
    <3>5. ASSUME NEW d \in Range(matrix), d # c
          PROVE  (d \in lost' <=> d \in lost) /\ (Done(d)' <=> Done(d))
      <4>1. curation'[d] = curation[d]
        BY <2>0, <3>1, <3>3, <3>5 DEF TypeOK
      <4> QED BY <3>1, <3>2, <3>5, <4>1, NowSame DEF Done
    <3>6. ASSUME NEW d \in Range(matrix), Needs(d)
          PROVE  d \in proc'[p].todo \/ d \in lost' \/ Done(d)'
      BY <2>0, <3>2, <3>4, <3>5, <3>6 DEF Work
    <3> QED BY <3>2, <3>3, <3>6, NowSame DEF Work
  <2>5. CASE LoadInputs(p)
    <3>1. /\ UNCHANGED <<matrix, thesis, curation, lost>>
          /\ proc[p].pc = "cells" /\ proc[p].todo = {}
          /\ proc'[p].pc = "apply" /\ proc'[p].in = Now
      BY <2>0, <2>5 DEF LoadInputs, Move, Now, Off, disk, ghosts
    <3> QED BY <2>0, <3>1, NowSame DEF Work
  <2>6. CASE Render(p)
    <3>1. proc[p].pc = "apply" /\ proc[p].in = Now
      BY <2>0, <2>6 DEF Render, Work
    <3>2. Valid(Now, Catalogue(Now))
      BY <2>0, <3>1, CatalogueValid DEF Shape, TypeOK
    <3>3. /\ UNCHANGED <<matrix, thesis, curation, lost>>
          /\ proc'[p].pc = "mark" /\ catalog' = Catalogue(Now)
      BY <2>0, <2>6, <3>1, <3>2 DEF Render, Move, Off, ghosts
    <3> QED BY <2>0, <3>1, <3>3, NowSame DEF Work
  <2>7. CASE proc'[p].pc \notin {"cells", "apply", "mark"}
    BY <2>7 DEF Work
  <2> QED BY <1>2, <2>3, <2>4, <2>5, <2>6, <2>7, Leads
<1> QED BY <1>1, <1>2 DEF Next

LEMMA CompleteStep == Base /\ Alone /\ Tracked /\ Complete /\ [Next]_vars => Complete'
<1> SUFFICES ASSUME Base, Alone, Tracked, Complete, [Next]_vars,
                    status' = "completed", solo', NEW c \in Range(matrix') \ lost',
                    (Needs(c))'
             PROVE  /\ curation'[c] # None
                    /\ curation'[c].status = "Ok"
                    /\ curation'[c].members = Members(Now, c)'
                    /\ catalog'[c] = [kind |-> "grouped", groups |-> curation'[c].groups]
  BY DEF Complete, Needs, Now
<1>1. CASE UNCHANGED vars
  <2>1. UNCHANGED <<matrix, thesis, curation, catalog, lost, solo, status>>
    BY <1>1 DEF vars, disk, ghosts
  <2> QED BY <2>1, NowSame DEF Complete, Needs, Now
<1>2. ASSUME NEW p \in Proc, Step(p) PROVE Finish(p)
  <2>1. solo /\ (~Idle(p) => status # "completed")
    BY <1>2, OthersIdle DEF Alone
  <2> QED BY <1>2, <2>1, Leads, Actor
<1>3. ASSUME NEW p \in Proc, Finish(p)
      PROVE  /\ curation'[c] # None
             /\ curation'[c].status = "Ok"
             /\ curation'[c].members = Members(Now, c)'
             /\ catalog'[c] = [kind |-> "grouped", groups |-> curation'[c].groups]
  <2>1. /\ UNCHANGED <<matrix, thesis, curation, catalog, lost, solo>>
        /\ proc[p].pc = "mark" /\ FinalStatus = "completed"
    BY <1>3 DEF Finish, ghosts
  <2>2. c \in Range(matrix) /\ c \notin lost /\ Needs(c)
    BY <2>1, NowSame
  <2>3. catalog = Catalogue(Now) /\ Done(c)
    BY <2>1, <2>2 DEF Tracked, Work
  <2>4. c \in Cell /\ c # Outside
    BY <2>2, MatrixCells, DiscoverAssumption DEF Base, TypeOK, Outside
  <2>5. curation[c] \in Curation /\ Covers(curation[c], curation[c].members)
    BY <2>3, <2>4 DEF Done, Base, TypeOK, Files
  <2>6. curation[c].status = "Ok"
    BY <2>1, <2>3, <2>4, <2>5 DEF FinalStatus, Done, Curation
  <2>7. catalog[c] = Entry(Now, c)
    BY <2>2, <2>3 DEF Catalogue, Now
  <2>8. Entry(Now, c) = [kind |-> "grouped", groups |-> curation[c].groups]
    BY <2>3, <2>4, <2>5, <2>6 DEF Entry, Done
  <2> QED BY <2>1, <2>3, <2>6, <2>7, <2>8, NowSame DEF Done
<1> QED BY <1>1, <1>2, <1>3 DEF Next

(* A run marked completed has a curation of exactly its present theses for *)
(* every cell that needs one, and a catalogue that shows it (execute,      *)
(* cli/discover.rs), for any fan-out, any hosting and any interruptions.   *)
THEOREM CompleteCorrect == Spec => []Complete
<1>1. Init => Alone /\ Tracked /\ Complete
  BY DiscoverAssumption DEF Init, Alone, Tracked, Work, Complete, Idle, Off
<1> QED
  BY <1>1, BaseCorrect, AloneStep, TrackedStep, CompleteStep, PTL DEF Spec

-----------------------------------------------------------------------------
(* A process that started on a settled run: the files hold all it would    *)
(* produce, so each stage finds nothing to do.                             *)
Undisturbed(p) ==
  proc[p].settled =>
    /\ lost = {} /\ brief /\ ~proc[p].derive
    /\ proc[p].pc \in {"intake", "load", "theses", "cells", "apply", "mark"}
    /\ proc[p].pc \in {"intake", "load", "theses"} => PendingCells(Now) = {}
    /\ proc[p].pc \in {"intake", "load"} =>
         matrix # <<>> /\ \A n \in DOMAIN Fanout(proc[p].host, matrix) : thesis[n] # None
    /\ proc[p].pc \in {"theses", "cells"} => proc[p].todo = {}

AllUndisturbed == solo => \A p \in Proc : Undisturbed(p)

LEMMA PendingSame ==
  ASSUME matrix' = matrix, thesis' = thesis, curation' = curation
  PROVE  PendingCells(Now)' = PendingCells(Now)
<1>1. Now' = Now
  BY DEF Now
<1> QED BY <1>1 DEF PendingCells

LEMMA NothingPending ==
  ASSUME Base, Complete, status = "completed", solo, lost = {}
  PROVE  PendingCells(Now) = {}
<1> SUFFICES ASSUME NEW c \in PendingCells(Now) PROVE FALSE
  OBVIOUS
<1>1. c \in Range(matrix) /\ Cardinality(Members(Now, c)) >= MinToCurate
  BY DEF PendingCells, Now
<1>2. curation[c] # None /\ curation[c].status = "Ok" /\ curation[c].members = Members(Now, c)
  BY <1>1 DEF Complete, Now
<1>3. c \in Cell
  BY <1>1, MatrixCells DEF Base, TypeOK
<1>4. Covers(curation[c], Members(Now, c))
  BY <1>2, <1>3 DEF Base, Files
<1> QED BY <1>2, <1>4 DEF PendingCells

LEMMA ExecuteQuiet ==
  ASSUME Base, Complete, NEW p \in Proc, NEW kind, Execute(p, kind), solo' => solo,
         kind # "merged" => spec # "merged",
         UNCHANGED <<matrix, thesis, curation, lost>>, brief => brief'
  PROVE  Undisturbed(p)'
<1> SUFFICES ASSUME proc'[p].settled PROVE Undisturbed(p)'
  BY DEF Undisturbed
<1>1. PICK h : Settled(h) /\ (proc'[p].pc = "intake" => proc'[p].host = h)
  BY ExecuteStarts
<1>2. status = "completed" /\ solo /\ lost = {} /\ brief
  BY <1>1 DEF Settled
<1>3. PendingCells(Now)' = {}
  BY <1>2, NothingPending, PendingSame
<1>4. CASE proc'[p].pc = "theses"
  BY <1>2, <1>3, <1>4, ExecuteStarts DEF Undisturbed
<1>5. CASE proc'[p].pc = "intake"
  <2>1. matrix # <<>>
    BY <1>2, <1>5, ExecuteStarts DEF Base, Files
  <2>2. ~proc'[p].derive
    BY <1>5, <2>1, ExecuteStarts
  <2>3. \A n \in DOMAIN Fanout(proc'[p].host, matrix) : thesis[n] # None
    BY <1>1, <1>5 DEF Settled
  <2> QED BY <1>2, <1>3, <1>5, <2>1, <2>2, <2>3 DEF Undisturbed
<1> QED BY <1>4, <1>5, ExecuteStarts

LEMMA QuietStep == Base /\ Base' /\ Alone /\ Complete /\ AllUndisturbed /\ [Next]_vars
                     => AllUndisturbed'
<1> SUFFICES ASSUME Base, Base', Alone, Complete, AllUndisturbed, [Next]_vars, solo'
             PROVE  \A p \in Proc : Undisturbed(p)'
  BY DEF AllUndisturbed
<1>1. CASE UNCHANGED vars
  <2>1. UNCHANGED <<matrix, thesis, curation, brief, lost, solo, proc>>
    BY <1>1 DEF vars, disk, ghosts
  <2> QED BY <2>1, PendingSame DEF AllUndisturbed, Undisturbed
<1>2. ASSUME NEW p \in Proc, Step(p) PROVE \A q \in Proc : Undisturbed(q)'
  <2>1. solo /\ \A q \in Proc \ {p} : Idle(q)'
    BY <1>2, OthersIdle
  <2>2. ASSUME NEW q \in Proc, Idle(q)' PROVE Undisturbed(q)'
    <3>1. proc'[q] = Off
      BY <2>2 DEF Base, Shape, Idle
    <3> QED BY <3>1 DEF Undisturbed, Off
  <2> SUFFICES Undisturbed(p)'
    BY <2>1, <2>2
  <2>0. /\ DOMAIN proc = Proc /\ DOMAIN proc[p] = DOMAIN Off /\ Undisturbed(p) /\ TypeOK
        /\ starts = 0 => spec = None /\ status = None
    BY <2>1 DEF Base, TypeOK, AllUndisturbed, Files
  <2>3. CASE Run(p)
    BY <2>0, <2>1, <2>3, ExecuteStarts, DiscoverAssumption DEF Run, Settled, Undisturbed
  <2>4. CASE Resume(p)
    <3>1. (IF spec = None THEN "own" ELSE spec) # "merged" => spec # "merged"
      BY <2>0, DiscoverAssumption DEF TypeOK
    <3> QED BY <2>1, <2>4, <3>1, ExecuteQuiet DEF Resume, Launch
  <2>5. CASE Merge(p)
    <3>1. ~proc'[p].settled
      BY <2>0, <2>5 DEF Merge, Move, Off
    <3> QED BY <3>1 DEF Undisturbed
  <2>6. CASE MergeSpec(p)
    BY <2>1, <2>6, ExecuteQuiet DEF MergeSpec, ghosts
  <2>7. CASE MergeThesis(p) \/ Dimensions(p) \/ BuildMatrix(p)
    <3>1. ~proc[p].settled
      BY <2>0, <2>7 DEF MergeThesis, Dimensions, BuildMatrix, Undisturbed
    <3>2. proc'[p].settled = proc[p].settled
      BY <2>0, <2>7 DEF MergeThesis, Dimensions, BuildMatrix, Plan, Move, Off
    <3> QED BY <3>1, <3>2 DEF Undisturbed
  <2>8. CASE JoinPoint(p) \/ JoinCell(p)
    <3>1. ~proc[p].settled
      BY <2>0, <2>8 DEF JoinPoint, JoinCell, Undisturbed
    <3>2. proc'[p].settled = proc[p].settled
      BY <2>0, <2>8 DEF JoinPoint, JoinCell, Move, Off
    <3> QED BY <3>1, <3>2 DEF Undisturbed
  <2>9. CASE Intake(p)
    <3>1. /\ UNCHANGED <<matrix, thesis, curation, lost>> /\ brief' /\ proc[p].pc = "intake"
          /\ proc'[p].settled = proc[p].settled /\ ~proc'[p].derive
          /\ proc'[p].host = proc[p].host
          /\ ~proc[p].derive => proc'[p].pc = "load"
      BY <2>0, <2>9 DEF Intake, Move, Off, ghosts
    <3> QED BY <2>0, <3>1, PendingSame DEF Undisturbed
  <2>10. CASE LoadMatrix(p)
    <3>1. /\ UNCHANGED <<matrix, thesis, curation, lost, brief>> /\ proc[p].pc = "load"
          /\ proc'[p].settled = proc[p].settled /\ proc'[p].derive = proc[p].derive
          /\ matrix # <<>> => /\ proc'[p].pc = "theses"
                              /\ proc'[p].todo = Pending(Fanout(proc[p].host, matrix))
      BY <2>0, <2>10 DEF LoadMatrix, Plan, Move, Off, disk, ghosts
    <3>2. proc[p].settled => Pending(Fanout(proc[p].host, matrix)) = {}
      BY <2>0, <3>1 DEF Undisturbed, Pending
    <3> QED BY <2>0, <3>1, <3>2, PendingSame DEF Undisturbed
  <2>11. CASE PlanCells(p)
    <3>1. /\ UNCHANGED <<matrix, thesis, curation, lost, brief>> /\ proc[p].pc = "theses"
          /\ proc'[p].settled = proc[p].settled /\ proc'[p].derive = proc[p].derive
          /\ proc'[p].pc = "cells" /\ proc'[p].todo = PendingCells(Now)
      BY <2>0, <2>11 DEF PlanCells, Now, Move, Off, disk, ghosts
    <3> QED BY <2>0, <3>1 DEF Undisturbed
  <2>12. CASE LoadInputs(p)
    <3>1. /\ UNCHANGED <<lost, brief>> /\ proc'[p].settled = proc[p].settled
          /\ proc'[p].derive = proc[p].derive /\ proc'[p].pc = "apply"
      BY <2>0, <2>12 DEF LoadInputs, Move, Off, disk, ghosts
    <3> QED BY <2>0, <3>1 DEF Undisturbed
  <2>13. CASE Render(p)
    <3>1. /\ UNCHANGED <<lost, brief>> /\ proc'[p].settled = proc[p].settled
          /\ proc'[p].derive = proc[p].derive /\ proc'[p].pc \in {"mark", "broken"}
      BY <2>0, <2>13 DEF Render, Move, Off, ghosts
    <3>2. proc'[p].pc = "mark"
      BY <3>1 DEF Base, Shape
    <3> QED BY <2>0, <3>1, <3>2 DEF Undisturbed
  <2>14. CASE Finish(p) \/ Stop(p)
    <3>1. Idle(p)'
      BY <2>0, <2>14 DEF Finish, Stop, Move, Off, Idle
    <3> QED BY <2>2, <3>1
  <2> QED
    BY <1>2, <2>3, <2>4, <2>5, <2>6, <2>7, <2>8, <2>9, <2>10, <2>11, <2>12, <2>13, <2>14 DEF Step
<1> QED BY <1>1, <1>2 DEF Next

(* A complete run that is continued makes no model call: intake copies the *)
(* brief, dimensions are not derived, and no thesis and no curation is     *)
(* pending ("a complete run makes no model call and only re-renders").     *)
THEOREM QuietCorrect == Spec => []Quiet
<1>1. Init => Alone /\ AllUndisturbed
  BY DEF Init, Alone, AllUndisturbed, Undisturbed, Idle, Off
<1>2. AllUndisturbed => Quiet
  BY DEF AllUndisturbed, Undisturbed, Quiet
<1> QED
  BY <1>1, <1>2, BaseCorrect, CompleteCorrect, AloneStep, QuietStep, PTL DEF Spec
=============================================================================
