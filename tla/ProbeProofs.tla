---------------------------- MODULE ProbeProofs ----------------------------
(* What the probes leave behind: the rows of the sidecars, for any set of  *)
(* processes, models and values, and the value the search for max_tokens   *)
(* ends with, for every upstream interval, every floor and ceiling, every  *)
(* batch size and any number of lost answers.                              *)
EXTENDS TokenSearch, ProbeTables, FiniteSetTheorems, TLAPS

-----------------------------------------------------------------------------
(* Induction: a set of naturals that is not empty has a least member, so   *)
(* what fails for some size fails for a smallest one.                      *)
LEMMA LeastNatural ==
  ASSUME NEW T \in SUBSET Nat, T # {}
  PROVE  \E x \in T : \A y \in T : x <= y
<1> DEFINE R == {ss \in Nat \X Nat : ss[1] < ss[2]}
<1>1. IsWellFoundedOn(R, Nat)
  BY NatLessThanWellFounded, Zenon DEF OpToRel
<1> HIDE DEF R
<1>2. \A x, y \in Nat : y < x => <<y, x>> \in R
  BY DEF R
<1>3. PICK x \in T : \A y \in T : <<y, x>> \notin R
  BY <1>1, WFMin
<1>4. \A y \in T : ~(y < x)
  BY <1>2, <1>3
<1>5. \A y \in T : x <= y
  BY <1>4
<1> QED BY <1>3, <1>5

HasMax(U) == \E x \in U : \A y \in U : x >= y

LEMMA FiniteHasMax ==
  ASSUME NEW S \in SUBSET Nat, IsFiniteSet(S), S # {}
  PROVE  HasMax(S)
<1> DEFINE Bad(U) == U \in SUBSET Nat /\ IsFiniteSet(U) /\ U # {} /\ ~HasMax(U)
           T == {k \in Nat : \E U : Bad(U) /\ Cardinality(U) = k}
<1> SUFFICES ASSUME Bad(S) PROVE FALSE
  OBVIOUS
<1>1. Cardinality(S) \in T
  BY FS_CardinalityType
<1>2. PICK k \in T : \A j \in T : k <= j
  BY <1>1, LeastNatural
<1>3. PICK U : Bad(U) /\ Cardinality(U) = k
  BY <1>2
<1>4. PICK x \in U : TRUE
  BY <1>3
<1>5. IsFiniteSet(U \ {x}) /\ Cardinality(U \ {x}) = k - 1 /\ U \ {x} \in SUBSET Nat
  BY <1>3, <1>4, FS_RemoveElement
<1>6. U \ {x} # {}
  BY <1>3, <1>4 DEF HasMax
<1>7. k - 1 \in Nat
  BY <1>5, FS_CardinalityType
<1>8. HasMax(U \ {x})
  <2>1. k - 1 \notin T
    BY <1>2, <1>7
  <2> QED BY <1>5, <1>6, <1>7, <2>1
<1>9. PICK y \in U \ {x} : \A z \in U \ {x} : y >= z
  BY <1>8 DEF HasMax
<1> QED BY <1>3, <1>4, <1>9 DEF HasMax

LEMMA EndsOfSet ==
  ASSUME NEW A \in SUBSET Value, A # {}
  PROVE  Max(A) \in A /\ Min(A) \in A
<1>1. A \in SUBSET Nat /\ IsFiniteSet(A)
  BY ProbeAssumption, FS_Subset
<1>2. Max(A) \in A
  <2>1. \E x \in A : \A y \in A : x >= y
    BY <1>1, FiniteHasMax DEF HasMax
  <2> QED BY <2>1 DEF Max
<1>3. Min(A) \in A
  <2>1. \E x \in A : \A y \in A : x =< y
    BY <1>1, LeastNatural
  <2> QED BY <2>1 DEF Min
<1> QED BY <1>2, <1>3

LEMMA LeastOfPair ==
  ASSUME NEW x \in Nat, NEW y \in Nat
  PROVE  Min({x, y}) \in {x, y}
<1>1. \E a \in {x, y} : \A b \in {x, y} : a =< b
  OBVIOUS
<1> QED BY <1>1 DEF Min

-----------------------------------------------------------------------------
(* What a sweep leaves of the values it heard accepted, and what a later   *)
(* verify asks about of that.                                              *)
LEMMA KeptShape ==
  ASSUME kind \in Kinds, NEW A \in SUBSET Value, Kept(A) # None
  PROVE  /\ Kept(A) \in SUBSET (Value \cup {0})
         /\ kind = "max_tokens" => Kept(A) \in SUBSET Value
         /\ Asked(Kept(A)) \subseteq A \cup {0}
<1> USE DEF Kept, Asked, Kinds
<1>1. CASE kind = "max_tokens"
  BY <1>1, EndsOfSet DEF Kept_max_tokens
<1>2. CASE kind = "temperature"
  BY <1>2 DEF Kept_temperature
<1>3. CASE kind \in {"top_p", "top_k"}
  <2>1. Kept(A) = IF A = {} THEN {0} ELSE {Min(A), Max(A)}
    BY <1>3 DEF Kept_top_p, Kept_top_k
  <2>2. CASE A = {}
    <3>1. Kept(A) = {0, 0}
      BY <2>1, <2>2
    <3>2. Min({0, 0}) \in {0, 0}
      BY LeastOfPair
    <3> QED BY <1>3, <3>1, <3>2
  <2>3. CASE A # {}
    <3>1. Min(A) \in A /\ Max(A) \in A /\ Min(A) \in Nat /\ Max(A) \in Nat
      BY <2>3, EndsOfSet, ProbeAssumption
    <3>2. Min({Min(A), Max(A)}) \in {Min(A), Max(A)}
      BY <3>1, LeastOfPair
    <3> QED BY <1>3, <2>1, <2>3, <3>1, <3>2
  <2> QED BY <2>2, <2>3
<1> QED BY <1>1, <1>2, <1>3

LEMMA MergeShape ==
  ASSUME NEW theirs \in Table, NEW mine \in Table
  PROVE  Merge(theirs, mine) \in Table
BY DEF Merge, Table

LEMMA PinShape ==
  ASSUME TypeOK, NEW p \in Proc
  PROVE  Pin(p) \in (SUBSET Value) \cup {None}
<1>1. Outcomes(p) \subseteq SUBSET Value
  BY DEF Outcomes, TypeOK
<1>2. UNION Outcomes(p) \in SUBSET Value
  BY <1>1
<1>3. Pin_least(p) \in (SUBSET Value) \cup {None}
  BY <1>2, EndsOfSet DEF Pin_least
<1> QED BY <1>2, <1>3 DEF Pin, Pin_temperature

LEMMA EntryUpdate ==
  ASSUME NEW S, NEW f \in [Proc -> [Model -> S]], NEW p \in Proc, NEW m \in Model, NEW v \in S
  PROVE  [f EXCEPT ![p][m] = v] \in [Proc -> [Model -> S]]
OBVIOUS

LEMMA OtherEntry ==
  ASSUME NEW S, NEW f \in [Proc -> [Model -> S]], NEW p \in Proc, NEW m \in Model,
         NEW q \in Proc, NEW o \in Model, q # p \/ o # m, NEW v
  PROVE  [f EXCEPT ![q][o] = v][p][m] = f[p][m]
OBVIOUS

LEMMA RowUpdate ==
  ASSUME NEW f \in [Proc -> Table], NEW p \in Proc, NEW m \in Model, NEW v \in Row \cup {None}
  PROVE  [f EXCEPT ![p].rows[m] = v] \in [Proc -> Table]
<1>1. f[p] \in Table /\ f[p].rows \in [Model -> Row \cup {None}]
  BY DEF Table
<1>2. [f[p].rows EXCEPT ![m] = v] \in [Model -> Row \cup {None}]
  BY <1>1
<1>3. [f[p] EXCEPT !.rows = [f[p].rows EXCEPT ![m] = v]] \in Table
  BY <1>1, <1>2 DEF Table
<1> QED BY <1>3

LEMMA PinUpdate ==
  ASSUME NEW f \in [Proc -> Table], NEW p \in Proc, NEW v \in (SUBSET Value) \cup {None}
  PROVE  [f EXCEPT ![p].pin = v] \in [Proc -> Table]
<1>1. [f[p] EXCEPT !.pin = v] \in Table
  BY DEF Table
<1> QED BY <1>1

LEMMA TypeInit == Init => TypeOK
<1> SUFFICES ASSUME Init PROVE TypeOK
  OBVIOUS
<1>1. PICK old \in [Model -> {None} \cup {Kept(A) : A \in SUBSET Value}] :
        disk = [rows |-> [m \in Model |-> IF old[m] = None THEN None ELSE
                           [value |-> old[m], detected |-> 0, verified |-> 0]],
                pin |-> None]
  BY DEF Init
<1>2. \A m \in Model : old[m] # None => old[m] \in SUBSET (Value \cup {0})
  BY KeptShape DEF Init
<1>3. \A m \in Model : disk.rows[m] \in Row \cup {None}
  BY <1>1, <1>2, ProbeAssumption DEF Row
<1>4. disk \in Table
  BY <1>1, <1>3 DEF Table
<1>5. NoTable \in Table
  BY DEF NoTable, Table
<1>6. kind \in Kinds /\ accepts \in [Model -> SUBSET Value] /\ now \in 0 .. MaxTime
  BY ProbeAssumption DEF Init
<1>7. mem \in [Proc -> Table]
  BY <1>5 DEF Init
<1>8. sweep \in [Proc -> [Model -> Progress]]
  BY DEF Init, All, Unswept, Progress
<1> QED BY <1>4, <1>6, <1>7, <1>8 DEF Init, TypeOK, All

LEMMA PersistType ==
  ASSUME TypeOK, NEW p \in Proc, Persist(p)
  PROVE  disk' \in Table /\ readable' \in BOOLEAN
<1>1. disk \in Table /\ mem[p] \in Table /\ readable \in BOOLEAN
  BY DEF TypeOK
<1>2. NoTable \in Table
  BY DEF NoTable, Table
<1> QED BY <1>1, <1>2, MergeShape DEF Persist, file

LEMMA GoneType ==
  ASSUME TypeOK, NEW p \in Proc, Gone(p), disk' \in Table, readable' \in BOOLEAN
  PROVE  TypeOK'
<1>1. NoTable \in Table /\ Unswept \in Progress
  BY DEF NoTable, Table, Unswept, Progress
<1> QED BY <1>1 DEF Gone, TypeOK, All, world

(* A command about to pin has done its sweeps, and one of them succeeded.  *)
PinKnown ==
  \A p \in Proc : pc[p] = "pin" => task[p] = All("done") /\ Pin(p) # None

LEMMA PinSame ==
  ASSUME NEW p \in Proc, kind' = kind, swept'[p] = swept[p]
  PROVE  Pin(p)' = Pin(p)
<1>1. Outcomes(p)' = Outcomes(p)
  BY DEF Outcomes
<1> QED BY <1>1 DEF Pin, Pin_temperature, Pin_least

LEMMA PinStep == TypeOK /\ PinKnown /\ [Next]_vars => PinKnown'
<1> SUFFICES ASSUME TypeOK, PinKnown, [Next]_vars, NEW p \in Proc, pc'[p] = "pin"
             PROVE  task'[p] = All("done") /\ Pin(p)' # None
  BY DEF PinKnown, All
<1> USE DEF world
<1>1. CASE UNCHANGED <<kind, pc, task, swept>>
  <2>1. task[p] = All("done") /\ Pin(p) # None
    BY <1>1 DEF PinKnown
  <2> QED BY <1>1, <2>1, PinSame
<1>2. ASSUME NEW q \in Proc, NEW m \in Model, ProbeStep(q, m)
      PROVE  task'[p] = All("done") /\ Pin(p)' # None
  <2>1. /\ kind' = kind /\ pc' = pc /\ task[q][m] # "done"
        /\ \A o \in Proc \ {q} : task'[o] = task[o] /\ swept'[o] = swept[o]
    BY <1>2 DEF ProbeStep, Ask, Apply, SaveVerified, NothingToVerify, Request, StoreRow,
                SaveStored, NextModel, TypeOK
  <2>2. task[p] = All("done") /\ Pin(p) # None
    BY <2>1 DEF PinKnown
  <2>3. p # q
    BY <2>1, <2>2 DEF All
  <2> QED BY <2>1, <2>2, <2>3, PinSame
<1>3. ASSUME NEW q \in Proc,
             \/ StartRun(q) \/ StartCli(q) \/ SetOperatorCap(q) \/ SavePin(q) \/ End(q)
             \/ Kill(q) \/ LoadFails(q)
      PROVE  task'[p] = All("done") /\ Pin(p)' # None
  <2>1. /\ kind' = kind /\ pc'[q] # "pin"
        /\ \A o \in Proc \ {q} : task'[o] = task[o] /\ swept'[o] = swept[o] /\ pc'[o] = pc[o]
    BY <1>3 DEF StartRun, StartCli, SetOperatorCap, SavePin, End, Kill, LoadFails, Gone, TypeOK
  <2>2. p # q /\ pc[p] = "pin"
    BY <2>1
  <2>3. task[p] = All("done") /\ Pin(p) # None
    BY <2>2 DEF PinKnown
  <2> QED BY <2>1, <2>2, <2>3, PinSame
<1>4. ASSUME NEW q \in Proc, LoadToPin(q)
      PROVE  task'[p] = All("done") /\ Pin(p)' # None
  <2>1. kind' = kind /\ task' = task /\ swept' = swept /\ pc' = [pc EXCEPT ![q] = "pin"]
    BY <1>4 DEF LoadToPin
  <2>2. task[p] = All("done") /\ Pin(p) # None
    BY <1>4, <2>1 DEF PinKnown, LoadToPin, TypeOK
  <2> QED BY <2>1, <2>2, PinSame
<1>5. CASE Tick \/ Spoil
  BY <1>1, <1>5 DEF Tick, Spoil
<1>6. CASE UNCHANGED vars
  BY <1>1, <1>6 DEF vars
<1> QED BY <1>2, <1>3, <1>4, <1>5, <1>6 DEF Next

LEMMA TypeStep == TypeOK /\ PinKnown /\ [Next]_vars => TypeOK'
<1> SUFFICES ASSUME TypeOK, PinKnown, [Next]_vars PROVE TypeOK'
  OBVIOUS
<1> USE DEF world, file
<1>1. ASSUME NEW p \in Proc, StartRun(p) PROVE TypeOK'
  BY <1>1 DEF StartRun, TypeOK, All
<1>2. ASSUME NEW p \in Proc, StartCli(p) PROVE TypeOK'
  BY <1>2 DEF StartCli, TypeOK, All
<1>3. ASSUME NEW p \in Proc, LoadToPin(p) PROVE TypeOK'
  BY <1>3 DEF LoadToPin, TypeOK
<1>4. ASSUME NEW p \in Proc, SetOperatorCap(p) PROVE TypeOK'
  <2>1. Pin(p) \in (SUBSET Value) \cup {None} /\ mem[p] \in Table
    BY PinShape DEF TypeOK
  <2> DEFINE v == IF kind = "temperature" /\ mem[p].pin # None
                    THEN mem[p].pin \cup Pin(p) ELSE Pin(p)
  <2>2. v \in (SUBSET Value) \cup {None}
    <3>1. Pin(p) # None
      BY <1>4 DEF SetOperatorCap, PinKnown
    <3>2. mem[p].pin \in (SUBSET Value) \cup {None}
      BY <2>1 DEF Table
    <3> QED BY <2>1, <3>1, <3>2
  <2>3. mem' \in [Proc -> Table]
    <3>1. mem \in [Proc -> Table]
      BY DEF TypeOK
    <3>2. [mem EXCEPT ![p].pin = v] \in [Proc -> Table]
      BY <2>2, <3>1, PinUpdate
    <3> QED BY <1>4, <3>2 DEF SetOperatorCap
  <2> QED BY <1>4, <2>3 DEF SetOperatorCap, TypeOK
<1>5. ASSUME NEW p \in Proc, SavePin(p) PROVE TypeOK'
  BY <1>5, PersistType, GoneType DEF SavePin
<1>6. ASSUME NEW p \in Proc, End(p) \/ Kill(p) \/ LoadFails(p) PROVE TypeOK'
  <2>1. disk' \in Table /\ readable' \in BOOLEAN
    BY <1>6 DEF End, Kill, LoadFails, TypeOK
  <2> QED BY <1>6, <2>1, GoneType DEF End, Kill, LoadFails
<1>7. ASSUME NEW p \in Proc, NEW m \in Model, Ask(p, m) PROVE TypeOK'
  <2>1. mem[p].rows[m] \in Row \cup {None}
    BY DEF TypeOK, Table
  <2> QED BY <1>7, <2>1 DEF Ask, TypeOK, Verdicts, GiveUps
<1>8. ASSUME NEW p \in Proc, NEW m \in Model, Apply(p, m) PROVE TypeOK'
  <2>1. /\ mem[p] \in Table /\ mem[p].rows[m] \in Row \cup {None}
        /\ now \in 0 .. MaxTime /\ answer[p][m] \in {"accepted", "rejected", "unclear"}
    BY DEF TypeOK, Table
  <2>2. ASSUME NEW same \in BOOLEAN, same => mem[p].rows[m] # None
        PROVE  Verified(mem[p].rows[m], same, answer[p][m]) \in Row \cup {None}
    BY <2>1, <2>2 DEF Verified, Row
  <2>3. \E new \in Row \cup {None} : mem' = [mem EXCEPT ![p].rows[m] = new]
    BY <1>8, <2>2 DEF Apply
  <2>4. mem' \in [Proc -> Table]
    <3>1. mem \in [Proc -> Table]
      BY DEF TypeOK
    <3> QED BY <2>3, <3>1, RowUpdate
  <2> QED BY <1>8, <2>4 DEF Apply, TypeOK
<1>9. ASSUME NEW p \in Proc, NEW m \in Model, SaveVerified(p, m) \/ SaveStored(p, m)
      PROVE  TypeOK'
  <2>2. \E v \in {"done", "sweep"} : task' = [task EXCEPT ![p][m] = v]
    BY <1>9 DEF SaveVerified, SaveStored
  <2>4. gave' \in [Proc -> [Model -> BOOLEAN]]
    <3>1. gave' = gave \/ \E g \in BOOLEAN : gave' = [gave EXCEPT ![p][m] = g]
      BY <1>9 DEF SaveVerified, SaveStored, TypeOK
    <3>2. gave \in [Proc -> [Model -> BOOLEAN]]
      BY DEF TypeOK
    <3>3. \A g \in BOOLEAN : [gave EXCEPT ![p][m] = g] \in [Proc -> [Model -> BOOLEAN]]
      BY <3>2, EntryUpdate
    <3> QED BY <3>1, <3>2, <3>3
  <2>1. disk' \in Table /\ readable' \in BOOLEAN
    BY <1>9, PersistType DEF SaveVerified, SaveStored
  <2>3. task' \in [Proc -> [Model -> {"idle", "start", "verdict", "kept", "dropped",
                                     "sweep", "stored", "done"}]]
    BY <2>2 DEF TypeOK
  <2> QED BY <1>9, <2>1, <2>3, <2>4 DEF SaveVerified, SaveStored, TypeOK
<1>10. ASSUME NEW p \in Proc, NEW m \in Model, NothingToVerify(p, m) PROVE TypeOK'
  BY <1>10 DEF NothingToVerify, TypeOK
<1>11. ASSUME NEW p \in Proc, NEW m \in Model, Request(p, m) PROVE TypeOK'
  <2> DEFINE v == Min(sweep[p][m].left)
  <2>1. PICK outcome \in {"answered", "lost", "throttled"} :
          /\ sweep' = [sweep EXCEPT ![p][m] =
               [left |-> @.left \ {v},
                heard |-> IF outcome = "answered" THEN @.heard \cup ({v} \cap accepts[m])
                                                  ELSE @.heard,
                lossy |-> @.lossy \/ outcome = "lost"]]
          /\ gave' = [gave EXCEPT ![p][m] = @ \/ outcome = "throttled"]
    BY <1>11 DEF Request
  <2> HIDE DEF v
  <2> DEFINE old == sweep[p][m]
             new == [left |-> old.left \ {v},
                     heard |-> IF outcome = "answered"
                                 THEN old.heard \cup ({v} \cap accepts[m]) ELSE old.heard,
                     lossy |-> old.lossy \/ outcome = "lost"]
  <2>2. new \in Progress
    <3>1. old \in Progress /\ accepts[m] \in SUBSET Value
      BY DEF TypeOK
    <3> HIDE DEF old
    <3> QED BY <3>1 DEF Progress
  <2>3. sweep' \in [Proc -> [Model -> Progress]]
    <3>1. sweep' = [sweep EXCEPT ![p][m] = new] /\ sweep \in [Proc -> [Model -> Progress]]
      BY <2>1 DEF TypeOK
    <3> HIDE DEF new
    <3> QED BY <2>2, <3>1, EntryUpdate
  <2>4. gave' \in [Proc -> [Model -> BOOLEAN]]
    BY <2>1, EntryUpdate DEF TypeOK
  <2> QED BY <1>11, <2>3, <2>4 DEF Request, TypeOK
<1>15. ASSUME NEW p \in Proc, NEW m \in Model, StoreRow(p, m) PROVE TypeOK'
  <2> DEFINE heard == sweep[p][m].heard
             stored == Stores(Kept(heard), gave[p][m])
  <2>1. /\ IF stored
              THEN /\ mem' = [mem EXCEPT ![p].rows[m] =
                        [value |-> Kept(heard), detected |-> now, verified |-> now]]
                   /\ swept' = [swept EXCEPT ![p][m] =
                        IF p \notin Cli THEN @
                        ELSE IF kind = "max_tokens" THEN Kept(heard) ELSE heard]
                   /\ ruled' = [ruled EXCEPT ![p][m] = TRUE]
              ELSE UNCHANGED <<mem, swept, ruled>>
        /\ task' = [task EXCEPT ![p][m] = AfterSweep(stored)]
        /\ sweep' = [sweep EXCEPT ![p][m] = Unswept]
        /\ gave' = [gave EXCEPT ![p][m] = FALSE]
        /\ UNCHANGED <<world, now, file, pc, probed, answer>>
    BY <1>15 DEF StoreRow
  <2>2. heard \in SUBSET Value
    <3>1. sweep[p][m] \in Progress
      BY DEF TypeOK
    <3> QED BY <3>1 DEF Progress
  <2>3. stored => /\ Kept(heard) \in SUBSET (Value \cup {0})
                  /\ kind = "max_tokens" => Kept(heard) \in SUBSET Value
    BY <2>2, KeptShape DEF Stores, TypeOK
  <2> HIDE DEF heard, stored
  <2>4. mem' \in [Proc -> Table]
    <3>1. mem \in [Proc -> Table] /\ now \in 0 .. MaxTime
      BY DEF TypeOK
    <3>2. CASE stored
      <4>1. [value |-> Kept(heard), detected |-> now, verified |-> now] \in Row
        BY <2>3, <3>1, <3>2 DEF Row
      <4>2. \E new \in Row : mem' = [mem EXCEPT ![p].rows[m] = new]
        BY <2>1, <3>2, <4>1
      <4> QED BY <3>1, <4>2, RowUpdate
    <3>3. CASE ~stored
      BY <2>1, <3>1, <3>3
    <3> QED BY <3>2, <3>3
  <2>5. swept' \in [Proc -> [Model -> (SUBSET Value) \cup {None}]]
    <3>1. swept[p][m] \in (SUBSET Value) \cup {None}
      BY DEF TypeOK
    <3>2. \/ swept' = swept
          \/ \E v \in (SUBSET Value) \cup {None} : swept' = [swept EXCEPT ![p][m] = v]
      BY <2>1, <2>2, <2>3, <3>1
    <3>3. swept \in [Proc -> [Model -> (SUBSET Value) \cup {None}]]
      BY DEF TypeOK
    <3> QED BY <3>2, <3>3
  <2>6. ruled' \in [Proc -> [Model -> BOOLEAN]]
    <3>1. ruled' = ruled \/ ruled' = [ruled EXCEPT ![p][m] = TRUE]
      BY <2>1
    <3>2. ruled \in [Proc -> [Model -> BOOLEAN]]
      BY DEF TypeOK
    <3>3. [ruled EXCEPT ![p][m] = TRUE] \in [Proc -> [Model -> BOOLEAN]]
      BY <3>2, EntryUpdate
    <3> QED BY <3>1, <3>2, <3>3
  <2>7. AfterSweep(stored) \in {"stored", "done"}
    BY DEF AfterSweep
  <2>8. gave' \in [Proc -> [Model -> BOOLEAN]] /\ sweep' \in [Proc -> [Model -> Progress]]
    <3>1. Unswept \in Progress
      BY DEF Unswept, Progress
    <3>2. [gave EXCEPT ![p][m] = FALSE] \in [Proc -> [Model -> BOOLEAN]]
      BY EntryUpdate DEF TypeOK
    <3>3. [sweep EXCEPT ![p][m] = Unswept] \in [Proc -> [Model -> Progress]]
      BY <3>1, EntryUpdate DEF TypeOK
    <3> QED BY <2>1, <3>2, <3>3
  <2> QED BY <2>1, <2>4, <2>5, <2>6, <2>7, <2>8 DEF TypeOK
<1>12. ASSUME NEW p \in Proc, NEW m \in Model, NextModel(p, m) PROVE TypeOK'
  BY <1>12 DEF NextModel, TypeOK
<1>13. CASE Tick
  BY <1>13, ProbeAssumption DEF Tick, TypeOK
<1>16. CASE Spoil
  BY <1>16 DEF Spoil, TypeOK
<1>14. CASE UNCHANGED vars
  BY <1>14 DEF vars, TypeOK
<1> QED
  BY <1>1, <1>2, <1>3, <1>4, <1>5, <1>6, <1>7, <1>8, <1>9, <1>10, <1>11, <1>12, <1>13, <1>14,
     <1>15, <1>16
  DEF Next, ProbeStep

(* Every table, in memory and on disk, and every task keep their types.    *)
THEOREM TypeCorrect == Spec => []TypeOK
<1>1. Init => PinKnown
  BY DEF Init, PinKnown
<1> QED BY <1>1, TypeInit, TypeStep, PinStep, PTL DEF Spec


-----------------------------------------------------------------------------
(* The file only gains: rows it has are kept or replaced by rows verified  *)
(* no earlier, for any processes saving in any order.                      *)
LEMMA MergeKeeps ==
  ASSUME NEW theirs \in Table, NEW mine \in Table, NEW m \in Model, theirs.rows[m] # None
  PROVE  /\ Merge(theirs, mine).rows[m] # None
         /\ Merge(theirs, mine).rows[m].verified >= theirs.rows[m].verified
<1>1. /\ theirs.rows[m] \in Row
      /\ mine.rows[m] \in Row \cup {None}
  BY DEF Table
<1>2. theirs.rows[m].verified \in Int /\ (mine.rows[m] # None => mine.rows[m].verified \in Int)
  BY <1>1, ProbeAssumption DEF Row
<1> QED BY <1>2 DEF Merge

(* The file changes only by a process's save. *)
LEMMA FileChanges ==
  ASSUME [Next]_vars
  PROVE  \/ disk' = disk
         \/ \E p \in Proc : disk' = Merge(IF readable THEN disk ELSE NoTable, mem[p])
<1> DEFINE Saved(p) == disk' = Merge(IF readable THEN disk ELSE NoTable, mem[p])
<1> USE DEF file
<1>1. ASSUME NEW p \in Proc, NEW m \in Model, ProbeStep(p, m)
      PROVE  disk' = disk \/ Saved(p)
  BY <1>1 DEF ProbeStep, Ask, Apply, SaveVerified, NothingToVerify, Request, StoreRow,
              SaveStored, NextModel, Persist
<1>2. ASSUME NEW p \in Proc, SavePin(p) \/ End(p) \/ Kill(p) \/ LoadFails(p)
      PROVE  disk' = disk \/ Saved(p)
  BY <1>2 DEF SavePin, End, Kill, LoadFails, Persist
<1>3. ASSUME NEW p \in Proc,
             StartRun(p) \/ StartCli(p) \/ LoadToPin(p) \/ SetOperatorCap(p)
      PROVE  disk' = disk
  BY <1>3 DEF StartRun, StartCli, LoadToPin, SetOperatorCap
<1>4. ASSUME Tick \/ Spoil \/ UNCHANGED vars PROVE disk' = disk
  BY <1>4 DEF Tick, Spoil, vars
<1> QED BY <1>1, <1>2, <1>3, <1>4 DEF Next

(* A save that can read the file takes no row and no later verification    *)
(* from it, and leaves a provider that had a pin with one, perhaps another *)
(* (merge_entries, persist_to).                                            *)
THEOREM NothingLostCorrect == Spec => NothingLost
<1> DEFINE Kept_rows == \A m \in Model : disk.rows[m] # None =>
                     /\ disk'.rows[m] # None
                     /\ disk'.rows[m].verified >= disk.rows[m].verified
           Kept_pin == disk.pin # None => disk'.pin # None
           A == readable => Kept_rows /\ Kept_pin
<1>1. ASSUME TypeOK, [Next]_vars PROVE [A]_vars
  <2>1. CASE disk' = disk
    <3>1. \A m \in Model : disk.rows[m] # None => disk.rows[m].verified \in Int
      BY <1>1, ProbeAssumption DEF TypeOK, Table, Row
    <3> QED BY <2>1, <3>1
  <2>2. ASSUME NEW p \in Proc, disk' = Merge(disk, mem[p]) PROVE A
    <3>1. disk \in Table /\ mem[p] \in Table
      BY <1>1 DEF TypeOK
    <3>2. disk.pin # None => disk'.pin # None
      BY <2>2 DEF Merge
    <3> QED BY <2>2, <3>1, <3>2, MergeKeeps
  <2>3. readable => disk' = disk \/ \E p \in Proc : disk' = Merge(disk, mem[p])
    BY <1>1, FileChanges
  <2> QED BY <2>1, <2>2, <2>3
<1> QED BY <1>1, TypeCorrect, PTL DEF Spec, NothingLost

(* The three outcomes of a verify for the row it was about. *)
LEMMA VerifiedIs ==
  ASSUME NEW row, NEW same \in BOOLEAN, NEW v \in {"accepted", "rejected", "unclear"}
  PROVE  /\ ~same \/ v = "unclear" => Verified(row, same, v) = row
         /\ same /\ v = "accepted" => Verified(row, same, v) = [row EXCEPT !.verified = now]
         /\ same /\ v = "rejected" => Verified(row, same, v) = None
BY DEF Verified

-----------------------------------------------------------------------------
(* How far a sweep is says what it has heard: all that the upstream takes  *)
(* of what it has asked, unless a request was lost or the transport gave   *)
(* up. Between two sweeps nothing is left of the last one.                 *)
HeardAll(s, gaveUp, taken) ==
  /\ s.heard \subseteq taken
  /\ ~s.lossy /\ ~gaveUp => s.heard = taken \ s.left

SweepOK(p, m) ==
  /\ pc[p] = "off" => task[p][m] = "idle"
  /\ task[p][m] # "sweep" => sweep[p][m] = Unswept
  /\ HeardAll(sweep[p][m], gave[p][m], accepts[m])

LEMMA HeardNone ==
  ASSUME TypeOK, NEW m \in Model, NEW g
  PROVE  HeardAll(Unswept, g, accepts[m])
BY DEF HeardAll, Unswept, TypeOK

LEMMA HeardOne ==
  ASSUME NEW s \in Progress, NEW gaveUp \in BOOLEAN, NEW taken \in SUBSET Value,
         HeardAll(s, gaveUp, taken), NEW v \in s.left,
         NEW outcome \in {"answered", "lost", "throttled"}, NEW g \in BOOLEAN,
         outcome = "throttled" => g,
         NEW new, new = [left |-> s.left \ {v},
                         heard |-> IF outcome = "answered" THEN s.heard \cup ({v} \cap taken)
                                                           ELSE s.heard,
                         lossy |-> s.lossy \/ outcome = "lost"]
  PROVE  HeardAll(new, gaveUp \/ g, taken)
<1>1. new.heard \subseteq taken
  BY DEF HeardAll
<1>2. ASSUME ~new.lossy, ~(gaveUp \/ g) PROVE new.heard = taken \ new.left
  <2>1. outcome = "answered" /\ s.heard = taken \ s.left
    BY <1>2 DEF HeardAll
  <2>2. new.heard = s.heard \cup ({v} \cap taken) /\ new.left = s.left \ {v}
    BY <2>1
  <2> QED BY <2>1, <2>2
<1> QED BY <1>1, <1>2 DEF HeardAll

LEMMA SweepOKSame ==
  ASSUME NEW p, NEW m, SweepOK(p, m), accepts' = accepts,
         pc'[p] = pc[p], task'[p][m] = task[p][m],
         sweep'[p][m] = sweep[p][m], gave'[p][m] = gave[p][m]
  PROVE  SweepOK(p, m)'
BY DEF SweepOK, HeardAll

LEMMA SweepOKIdle ==
  ASSUME TypeOK, NEW p, NEW m \in Model, accepts' = accepts, sweep'[p][m] = Unswept,
         pc'[p] # "off" \/ task'[p][m] = "idle"
  PROVE  SweepOK(p, m)'
<1>1. HeardAll(Unswept, gave'[p][m], accepts[m])
  BY HeardNone
<1> QED BY <1>1 DEF SweepOK

LEMMA SweepOKOwn ==
  ASSUME TypeOK, NEW p \in Proc, NEW m \in Model, SweepOK(p, m), ProbeStep(p, m)
  PROVE  SweepOK(p, m)'
<1> USE DEF world
<1>0. accepts' = accepts /\ pc' = pc
  BY DEF ProbeStep, Ask, Apply, SaveVerified, NothingToVerify, Request, StoreRow,
         SaveStored, NextModel
<1>1. CASE Ask(p, m) \/ Apply(p, m) \/ SaveStored(p, m) \/ SaveVerified(p, m)
        \/ NothingToVerify(p, m) \/ NextModel(p, m)
  <2>1. task[p][m] # "sweep" /\ sweep' = sweep /\ (pc[p] # "off" \/ task[p][m] # "idle")
    BY <1>1 DEF Ask, Apply, SaveStored, SaveVerified, NothingToVerify, NextModel
  <2>2. pc[p] # "off" /\ sweep[p][m] = Unswept
    BY <2>1 DEF SweepOK
  <2> QED BY <1>0, <2>1, <2>2, SweepOKIdle
<1>2. CASE StoreRow(p, m)
  <2>1. sweep'[p][m] = Unswept /\ task[p][m] = "sweep"
    BY <1>2 DEF StoreRow, TypeOK
  <2>2. pc[p] # "off"
    BY <2>1 DEF SweepOK
  <2> QED BY <1>0, <2>1, <2>2, SweepOKIdle
<1>3. CASE Request(p, m)
  <2>0. PICK v \in sweep[p][m].left : v = Min(sweep[p][m].left)
    <3>1. sweep[p][m].left \in SUBSET Value
      BY DEF TypeOK, Progress
    <3> QED BY <1>3, <3>1, EndsOfSet DEF Request
  <2>1. PICK outcome \in {"answered", "lost", "throttled"} :
          /\ sweep' = [sweep EXCEPT ![p][m] =
               [left |-> @.left \ {v},
                heard |-> IF outcome = "answered" THEN @.heard \cup ({v} \cap accepts[m])
                                                  ELSE @.heard,
                lossy |-> @.lossy \/ outcome = "lost"]]
          /\ gave' = [gave EXCEPT ![p][m] = @ \/ outcome = "throttled"]
    BY <1>3, <2>0 DEF Request
  <2>5. PICK g \in BOOLEAN : g <=> outcome = "throttled"
    OBVIOUS
  <2>6. gave' = [gave EXCEPT ![p][m] = @ \/ g]
    BY <2>1, <2>5
  <2>2. task' = task /\ task[p][m] = "sweep"
    BY <1>3 DEF Request
  <2>7. gave'[p][m] = (gave[p][m] \/ g)
    BY <2>6 DEF TypeOK
  <2>8. sweep'[p][m] =
          [left |-> sweep[p][m].left \ {v},
           heard |-> IF outcome = "answered"
                       THEN sweep[p][m].heard \cup ({v} \cap accepts[m])
                       ELSE sweep[p][m].heard,
           lossy |-> sweep[p][m].lossy \/ outcome = "lost"]
    BY <2>1 DEF TypeOK
  <2>3. /\ sweep[p][m] \in Progress /\ gave[p][m] \in BOOLEAN /\ accepts[m] \in SUBSET Value
        /\ HeardAll(sweep[p][m], gave[p][m], accepts[m])
    BY DEF TypeOK, SweepOK
  <2>4. HeardAll(sweep'[p][m], gave[p][m] \/ g, accepts[m])
    BY <2>3, <2>5, <2>8, HeardOne
  <2> QED BY <1>0, <2>2, <2>4, <2>7 DEF SweepOK
<1> QED BY <1>1, <1>2, <1>3 DEF ProbeStep

LEMMA SweepOKStep ==
  ASSUME TypeOK, [Next]_vars, NEW p \in Proc, NEW m \in Model, SweepOK(p, m)
  PROVE  SweepOK(p, m)'
<1> USE DEF world
<1>1. ASSUME NEW q \in Proc, NEW o \in Model, ProbeStep(q, o), q # p \/ o # m
      PROVE  SweepOK(p, m)'
  <2>1. accepts' = accepts /\ pc' = pc
    BY <1>1 DEF ProbeStep, Ask, Apply, SaveVerified, NothingToVerify, Request, StoreRow,
                SaveStored, NextModel
  <2>2. \/ task' = task
        \/ \E v : task' = [task EXCEPT ![q][o] = v]
    BY <1>1 DEF ProbeStep, Ask, Apply, SaveVerified, NothingToVerify, Request, StoreRow,
                SaveStored, NextModel
  <2>3. sweep' = sweep \/ \E v : sweep' = [sweep EXCEPT ![q][o] = v]
    BY <1>1 DEF ProbeStep, Ask, Apply, SaveVerified, NothingToVerify, Request, StoreRow,
                SaveStored, NextModel
  <2>4. gave' = gave \/ \E v : gave' = [gave EXCEPT ![q][o] = v]
    BY <1>1 DEF ProbeStep, Ask, Apply, SaveVerified, NothingToVerify, Request, StoreRow,
                SaveStored, NextModel
  <2>5. task'[p][m] = task[p][m]
    BY <1>1, <2>2 DEF TypeOK
  <2>6. sweep'[p][m] = sweep[p][m]
    <3>1. sweep \in [Proc -> [Model -> Progress]]
      BY DEF TypeOK
    <3> QED BY <1>1, <2>3, <3>1, OtherEntry
  <2>7. gave'[p][m] = gave[p][m]
    <3>1. gave \in [Proc -> [Model -> BOOLEAN]]
      BY DEF TypeOK
    <3> QED BY <1>1, <2>4, <3>1, OtherEntry
  <2> QED BY <2>1, <2>5, <2>6, <2>7, SweepOKSame
<1>2. ASSUME NEW q \in Proc, NEW o \in Model, ProbeStep(q, o) PROVE SweepOK(p, m)'
  BY <1>1, <1>2, SweepOKOwn
<1>3. ASSUME NEW q \in Proc, StartRun(q) \/ StartCli(q) PROVE SweepOK(p, m)'
  <2>1. accepts' = accepts /\ sweep' = sweep /\ gave' = gave /\ pc[q] = "off"
    BY <1>3 DEF StartRun, StartCli
  <2>2. CASE q = p
    <3>1. pc'[p] # "off" /\ sweep[p][m] = Unswept
      BY <1>3, <2>1, <2>2 DEF StartRun, StartCli, SweepOK, TypeOK
    <3> QED BY <2>1, <3>1, SweepOKIdle
  <2>3. CASE q # p
    <3>1. pc'[p] = pc[p] /\ task'[p] = task[p]
      BY <1>3, <2>3 DEF StartRun, StartCli, TypeOK
    <3> QED BY <2>1, <3>1, SweepOKSame
  <2> QED BY <2>2, <2>3
<1>4. ASSUME NEW q \in Proc, LoadToPin(q) \/ SetOperatorCap(q) PROVE SweepOK(p, m)'
  <2>1. /\ accepts' = accepts /\ sweep' = sweep /\ gave' = gave /\ task' = task
        /\ pc[q] # "off" /\ \E v \in {"pin", "pinned"} : pc' = [pc EXCEPT ![q] = v]
    BY <1>4 DEF LoadToPin, SetOperatorCap
  <2>2. pc'[p] = pc[p] \/ (pc[p] # "off" /\ pc'[p] # "off")
    BY <2>1 DEF TypeOK
  <2> QED BY <2>1, <2>2 DEF SweepOK, HeardAll
<1>5. ASSUME NEW q \in Proc, SavePin(q) \/ End(q) \/ Kill(q) \/ LoadFails(q)
      PROVE  SweepOK(p, m)'
  <2>1. Gone(q)
    BY <1>5 DEF SavePin, End, Kill, LoadFails
  <2>2. accepts' = accepts
    BY <2>1 DEF Gone
  <2>3. CASE q = p
    <3>1. task'[p][m] = "idle" /\ sweep'[p][m] = Unswept
      BY <2>1, <2>3 DEF Gone, All, TypeOK
    <3> QED BY <2>2, <3>1, SweepOKIdle
  <2>4. CASE q # p
    <3>1. /\ pc'[p] = pc[p] /\ task'[p] = task[p] /\ sweep'[p] = sweep[p]
          /\ gave'[p] = gave[p]
      BY <2>1, <2>4 DEF Gone, TypeOK
    <3> QED BY <2>2, <3>1, SweepOKSame
  <2> QED BY <2>3, <2>4
<1>6. CASE Tick \/ Spoil \/ UNCHANGED vars
  <2>1. UNCHANGED <<accepts, pc, task, sweep, gave>>
    BY <1>6 DEF Tick, Spoil, vars
  <2> QED BY <2>1, SweepOKSame
<1> QED BY <1>2, <1>3, <1>4, <1>5, <1>6 DEF Next

LEMMA SweepsAreOK == Spec => [](\A p \in Proc, m \in Model : SweepOK(p, m))
<1> DEFINE I == \A p \in Proc, m \in Model : SweepOK(p, m)
<1>1. Init => I
  <2> SUFFICES ASSUME Init, NEW p \in Proc, NEW m \in Model PROVE SweepOK(p, m)
    OBVIOUS
  <2>1. sweep[p][m] = Unswept /\ task[p][m] = "idle"
    BY DEF Init, All
  <2>2. HeardAll(Unswept, gave[p][m], accepts[m])
    BY TypeInit, HeardNone
  <2> QED BY <2>1, <2>2, TypeInit DEF SweepOK
<1>2. TypeOK /\ I /\ [Next]_vars => I'
  BY SweepOKStep
<1> QED BY <1>1, <1>2, TypeCorrect, PTL DEF Spec

(* A sweep that has asked everything, lost nothing and was not given up    *)
(* knows exactly what the upstream takes.                                  *)
LEMMA SweptAll ==
  ASSUME TypeOK, NEW p \in Proc, NEW m \in Model, SweepOK(p, m), sweep[p][m].left = {},
         ~sweep[p][m].lossy, ~gave[p][m]
  PROVE  sweep[p][m].heard = accepts[m]
BY DEF SweepOK, HeardAll

(* A step in which a sweep's row is stored is the one that ends the sweep, *)
(* and stores what was heard.                                              *)
LEMMA StoredBy ==
  ASSUME TypeOK, [Next]_vars, NEW p \in Proc, NEW m \in Model,
         task[p][m] = "sweep", task'[p][m] = "stored"
  PROVE  /\ sweep[p][m].left = {} /\ ~gave[p][m]
         /\ mem'[p].rows[m].value = Kept(sweep[p][m].heard)
<1>1. ASSUME NEW q \in Proc, NEW o \in Model, ProbeStep(q, o) PROVE StoreRow(p, m)
  <2>1. q = p /\ o = m
    <3>1. task' = task \/ \E v : task' = [task EXCEPT ![q][o] = v]
      BY <1>1 DEF ProbeStep, Ask, Apply, SaveVerified, NothingToVerify, Request, StoreRow,
                  SaveStored, NextModel
    <3>2. task[p][m] # task'[p][m] /\ task \in [Proc -> [Model -> {
            "idle", "start", "verdict", "kept", "dropped", "sweep", "stored", "done"}]]
      BY DEF TypeOK
    <3> QED BY <3>1, <3>2, OtherEntry
  <2>2. CASE StoreRow(q, o)
    BY <2>1, <2>2
  <2>3. CASE Request(q, o)
    BY <2>3 DEF Request
  <2>4. CASE \/ Ask(q, o) \/ Apply(q, o) \/ SaveVerified(q, o) \/ NothingToVerify(q, o)
             \/ SaveStored(q, o) \/ NextModel(q, o)
    BY <2>1, <2>4 DEF Ask, Apply, SaveVerified, NothingToVerify, SaveStored, NextModel
  <2> QED BY <1>1, <2>2, <2>3, <2>4 DEF ProbeStep
<1>2. ASSUME NEW q \in Proc,
             \/ StartRun(q) \/ StartCli(q) \/ LoadToPin(q) \/ SetOperatorCap(q)
             \/ SavePin(q) \/ End(q) \/ Kill(q) \/ LoadFails(q)
      PROVE  StoreRow(p, m)
  <2>1. CASE StartRun(q)
    <3>1. \A o \in Model : task'[q][o] \in {"start", "done"}
      BY <2>1 DEF StartRun, TypeOK
    <3>2. q # p => task'[p] = task[p]
      BY <2>1 DEF StartRun, TypeOK
    <3> QED BY <3>1, <3>2
  <2>2. CASE StartCli(q)
    <3>1. task'[p] \in {task[p], All("start")}
      BY <2>2 DEF StartCli, TypeOK
    <3> QED BY <3>1 DEF All
  <2>3. CASE LoadToPin(q) \/ SetOperatorCap(q)
    BY <2>3 DEF LoadToPin, SetOperatorCap
  <2>4. CASE SavePin(q) \/ End(q) \/ Kill(q) \/ LoadFails(q)
    <3>1. task'[p] \in {task[p], All("idle")}
      BY <2>4 DEF SavePin, End, Kill, LoadFails, Gone, TypeOK
    <3> QED BY <3>1 DEF All
  <2> QED BY <1>2, <2>1, <2>2, <2>3, <2>4
<1>3. ASSUME Tick \/ Spoil \/ UNCHANGED vars PROVE StoreRow(p, m)
  BY <1>3 DEF Tick, Spoil, vars
<1>4. StoreRow(p, m)
  BY <1>1, <1>2, <1>3 DEF Next
<1> DEFINE value == Kept(sweep[p][m].heard)
           row == [value |-> value, detected |-> now, verified |-> now]
<1>5. /\ sweep[p][m].left = {}
      /\ task' = [task EXCEPT ![p][m] = AfterSweep(Stores(value, gave[p][m]))]
      /\ Stores(value, gave[p][m]) => mem' = [mem EXCEPT ![p].rows[m] = row]
  BY <1>4 DEF StoreRow
<1> HIDE DEF value
<1>6. Stores(value, gave[p][m])
  BY <1>5 DEF AfterSweep, TypeOK
<1>7. mem'[p].rows[m].value = value
  BY <1>5, <1>6 DEF TypeOK, Table
<1> QED BY <1>5, <1>6, <1>7 DEF Stores, value

(* What the provider throttles, in verify or in sweep, narrows no row: one *)
(* whose sweep lost no answer otherwise says exactly what the model takes  *)
(* when it is stored (probe_and_store).                                    *)
THEOREM ThrottlingNeverNarrowsCorrect == Spec => ThrottlingNeverNarrows
<1> DEFINE I == \A p \in Proc, m \in Model : SweepOK(p, m)
           A == \A p \in Proc, m \in Model :
                  /\ kind # "max_tokens"
                  /\ task[p][m] = "sweep" /\ task'[p][m] = "stored"
                  /\ ~sweep[p][m].lossy
                  => mem'[p].rows[m].value = Kept(accepts[m])
<1>1. ASSUME TypeOK, I, [Next]_vars PROVE [A]_vars
  <2> SUFFICES ASSUME NEW p \in Proc, NEW m \in Model,
                      task[p][m] = "sweep", task'[p][m] = "stored", ~sweep[p][m].lossy
               PROVE  mem'[p].rows[m].value = Kept(accepts[m])
    OBVIOUS
  <2>1. /\ sweep[p][m].left = {} /\ ~gave[p][m]
        /\ mem'[p].rows[m].value = Kept(sweep[p][m].heard)
    BY <1>1, StoredBy
  <2>2. sweep[p][m].heard = accepts[m]
    BY <1>1, <2>1, SweptAll
  <2> QED BY <2>1, <2>2
<1> QED BY <1>1, TypeCorrect, SweepsAreOK, PTL DEF Spec, ThrottlingNeverNarrows

-----------------------------------------------------------------------------
(* A run's probe of one model: what it holds of it at each stage. While it *)
(* awaits a verdict nothing else touches the row; after a clear verdict or *)
(* a sweep the row holds what the upstream takes, or nothing.              *)
Accepted(p, m) == Asked(mem[p].rows[m].value) \subseteq accepts[m] \cup {0}

ProbeOK(p, m) ==
  /\ pc[p] \in {"off", "run"}
  /\ pc[p] = "off" => task[p][m] = "idle"
  /\ task[p][m] \in {"idle", "start"} => ~ruled[p][m]
  /\ task[p][m] = "verdict" =>
       /\ mem[p].rows[m] # None /\ mem[p].rows[m] = probed[p][m]
       /\ answer[p][m] = "unclear" => ~ruled[p][m]
       /\ answer[p][m] = "accepted" => Accepted(p, m)
  /\ task[p][m] \in {"dropped", "sweep"} => mem[p].rows[m] = None
  /\ task[p][m] \in {"kept", "stored", "done"} /\ ruled[p][m] /\ mem[p].rows[m] # None =>
       Accepted(p, m)

LEMMA ProbeOKSame ==
  ASSUME NEW p, NEW m, ProbeOK(p, m), kind' = kind, accepts' = accepts,
         pc'[p] = pc[p], task'[p][m] = task[p][m], mem'[p].rows[m] = mem[p].rows[m],
         probed'[p][m] = probed[p][m], answer'[p][m] = answer[p][m],
         ruled'[p][m] = ruled[p][m]
  PROVE  ProbeOK(p, m)'
BY DEF ProbeOK, Accepted, Asked

LEMMA ProbeOKStep ==
  ASSUME TypeOK, [Next]_vars, NEW p \in Run, NEW m \in Model, ProbeOK(p, m), SweepOK(p, m)
  PROVE  ProbeOK(p, m)'
<1> USE DEF world
<1>0. /\ p \in Proc /\ mem \in [Proc -> Table] /\ mem[p] \in Table
      /\ mem[p].rows \in [Model -> Row \cup {None}]
  BY DEF TypeOK, Table, Proc
<1>1. ASSUME NEW q \in Proc, NEW o \in Model, ProbeStep(q, o), q # p \/ o # m
      PROVE  ProbeOK(p, m)'
  <2>1. kind' = kind /\ accepts' = accepts /\ pc' = pc
    BY <1>1 DEF ProbeStep, Ask, Apply, SaveVerified, NothingToVerify, Request, StoreRow,
                SaveStored, NextModel
  <2>2. /\ task'[p][m] = task[p][m] /\ probed'[p][m] = probed[p][m]
        /\ answer'[p][m] = answer[p][m] /\ ruled'[p][m] = ruled[p][m]
    <3> USE <1>0, <1>1 DEF TypeOK
    <3>1. CASE Ask(q, o)
      BY <3>1 DEF Ask
    <3>2. CASE Apply(q, o)
      BY <3>2 DEF Apply
    <3>3. CASE SaveVerified(q, o)
      BY <3>3 DEF SaveVerified
    <3>6. CASE SaveStored(q, o)
      BY <3>6 DEF SaveStored
    <3>4. CASE NothingToVerify(q, o)
      BY <3>4 DEF NothingToVerify
    <3>7. CASE NextModel(q, o)
      BY <3>7 DEF NextModel
    <3>5. CASE Request(q, o)
      BY <3>5 DEF Request
    <3>8. CASE StoreRow(q, o)
      BY <3>8 DEF StoreRow
    <3> QED BY <3>1, <3>2, <3>3, <3>4, <3>5, <3>6, <3>7, <3>8 DEF ProbeStep
  <2>3. mem'[p].rows[m] = mem[p].rows[m]
    <3>1. CASE NextModel(q, o)
      <4>1. q # p
        BY <3>1 DEF NextModel, ProbeOK
      <4> QED BY <1>0, <3>1, <4>1 DEF NextModel
    <3>2. CASE ~NextModel(q, o)
      <4>1. mem' = mem \/ \E row : mem' = [mem EXCEPT ![q].rows[o] = row]
        BY <1>1, <3>2 DEF ProbeStep, Ask, Apply, SaveVerified, NothingToVerify, Request,
                          StoreRow, SaveStored
      <4> QED BY <1>0, <1>1, <4>1 DEF Table
    <3> QED BY <3>1, <3>2
  <2> QED BY <2>1, <2>2, <2>3, ProbeOKSame
<1>2. CASE Ask(p, m)
  <2>1. PICK v \in Verdicts(m, mem[p].rows[m]) :
          /\ answer' = [answer EXCEPT ![p][m] = v]
          /\ ruled' = [ruled EXCEPT ![p][m] = v # "unclear"]
    BY <1>2 DEF Ask
  <2>2. v = "accepted" => Asked(mem[p].rows[m].value) \subseteq accepts[m]
    BY <2>1 DEF Verdicts
  <2>3. /\ answer'[p][m] = v /\ ruled'[p][m] = (v # "unclear")
        /\ task'[p][m] = "verdict" /\ probed'[p][m] = mem[p].rows[m]
        /\ mem' = mem /\ pc' = pc /\ pc[p] = "run" /\ mem[p].rows[m] # None
        /\ kind' = kind /\ accepts' = accepts
    BY <1>0, <1>2, <2>1 DEF Ask, TypeOK
  <2> QED BY <2>2, <2>3 DEF ProbeOK, Accepted, Asked
<1>3. CASE Apply(p, m)
  <2> DEFINE row == mem[p].rows[m]
             same == /\ row # None
                     /\ Asked(row.value) = Asked(probed[p][m].value)
                     /\ row.detected = probed[p][m].detected
             v == answer[p][m]
  <2>1. task[p][m] = "verdict" /\ row # None /\ same
    BY <1>3 DEF Apply, ProbeOK
  <2>2. v \in {"accepted", "rejected", "unclear"} /\ row \in Row
    BY <1>0, <2>1 DEF TypeOK
  <2>3. /\ mem' = [mem EXCEPT ![p].rows[m] = Verified(row, same, v)]
        /\ task' = [task EXCEPT ![p][m] =
              IF same /\ v # "rejected" THEN "kept" ELSE "dropped"]
        /\ ruled' = ruled /\ pc' = pc /\ kind' = kind /\ accepts' = accepts
    BY <1>3 DEF Apply
  <2>4. Verified(row, same, v) =
          IF v = "accepted" THEN [row EXCEPT !.verified = now]
          ELSE IF v = "rejected" THEN None ELSE row
    <3>1. same = TRUE
      BY <2>1
    <3> HIDE DEF row, same, v
    <3> QED BY <2>2, <3>1, VerifiedIs
  <2>5. /\ mem'[p].rows[m] = Verified(row, same, v)
        /\ task'[p][m] = IF v # "rejected" THEN "kept" ELSE "dropped"
    BY <1>0, <2>1, <2>3 DEF Table, TypeOK
  <2>6. pc'[p] = "run" /\ ruled'[p][m] = ruled[p][m]
    BY <2>1, <2>3 DEF ProbeOK
  <2>7. CASE v = "accepted"
    <3>1. Accepted(p, m)
      BY <2>1, <2>7 DEF ProbeOK
    <3>2. mem'[p].rows[m].value = row.value
      BY <2>2, <2>4, <2>5, <2>7 DEF Row
    <3>3. Accepted(p, m)'
      BY <2>3, <3>1, <3>2 DEF Accepted, Asked
    <3>4. task'[p][m] = "kept"
      BY <2>5, <2>7
    <3> QED BY <2>6, <3>3, <3>4 DEF ProbeOK
  <2>8. CASE v = "unclear"
    <3>1. ~ruled[p][m]
      BY <2>1, <2>8 DEF ProbeOK
    <3>2. task'[p][m] = "kept"
      BY <2>5, <2>8
    <3> QED BY <2>6, <3>1, <3>2 DEF ProbeOK
  <2>9. CASE v = "rejected"
    <3>1. task'[p][m] = "dropped" /\ mem'[p].rows[m] = None
      BY <2>4, <2>5, <2>9
    <3> QED BY <2>6, <3>1 DEF ProbeOK
  <2> QED BY <2>2, <2>7, <2>8, <2>9
<1>4. CASE SaveVerified(p, m) \/ SaveStored(p, m)
  <2>1. /\ mem' = mem /\ pc' = pc /\ ruled' = ruled /\ kind' = kind /\ accepts' = accepts
        /\ \/ task[p][m] \in {"kept", "stored"} /\ task'[p][m] = "done"
           \/ task[p][m] = "dropped" /\ task'[p][m] = "sweep"
    BY <1>0, <1>4 DEF SaveVerified, SaveStored, TypeOK
  <2> QED BY <2>1 DEF ProbeOK, Accepted, Asked
<1>5. CASE NothingToVerify(p, m)
  <2>1. /\ mem' = mem /\ pc' = pc /\ pc[p] = "run" /\ task'[p][m] = "sweep"
        /\ mem[p].rows[m] = None
    BY <1>0, <1>5 DEF NothingToVerify, TypeOK
  <2> QED BY <2>1 DEF ProbeOK
<1>6. CASE StoreRow(p, m)
  <2> DEFINE heard == sweep[p][m].heard
  <2>1. /\ pc' = pc /\ kind' = kind /\ accepts' = accepts /\ task[p][m] = "sweep"
        /\ pc[p] = "run" /\ mem[p].rows[m] = None /\ task'[p][m] \in {"stored", "done"}
    BY <1>0, <1>6 DEF StoreRow, AfterSweep, ProbeOK, TypeOK
  <2>2. CASE ~Stores(Kept(heard), gave[p][m])
    <3>1. mem' = mem
      BY <1>6, <2>2 DEF StoreRow
    <3> QED BY <2>1, <3>1 DEF ProbeOK
  <2>3. CASE Stores(Kept(heard), gave[p][m])
    <3>1. mem' = [mem EXCEPT ![p].rows[m] =
                 [value |-> Kept(heard), detected |-> now, verified |-> now]]
      BY <1>6, <2>3 DEF StoreRow
    <3>2. heard \subseteq accepts[m]
      BY DEF SweepOK, HeardAll
    <3>3. Kept(heard) # None /\ heard \in SUBSET Value /\ kind \in Kinds
      BY <1>0, <2>3, <3>2 DEF Stores, TypeOK
    <3>4. Asked(Kept(heard)) \subseteq heard \cup {0}
      BY <3>3, KeptShape
    <3>5. mem'[p].rows[m].value = Kept(heard)
      BY <1>0, <3>1
    <3>6. Accepted(p, m)'
      BY <2>1, <3>2, <3>4, <3>5 DEF Accepted, Asked
    <3> QED BY <2>1, <3>6 DEF ProbeOK
  <2> QED BY <2>2, <2>3
<1>15. CASE Request(p, m)
  <2>1. UNCHANGED <<kind, accepts, pc, task, mem, probed, answer, ruled>>
    BY <1>15 DEF Request
  <2> QED BY <2>1, ProbeOKSame
<1>7. CASE NextModel(p, m)
  BY <1>7 DEF NextModel, ProbeOK
<1>8. CASE StartRun(p)
  <2>1. /\ pc'[p] = "run" /\ task'[p][m] \in {"start", "done"} /\ ruled' = ruled
        /\ ~ruled[p][m]
    BY <1>0, <1>8 DEF StartRun, ProbeOK, TypeOK
  <2> QED BY <2>1 DEF ProbeOK
<1>9. CASE StartCli(p) \/ LoadToPin(p) \/ SetOperatorCap(p) \/ SavePin(p)
  BY <1>9, ProbeAssumption DEF StartCli, LoadToPin, SetOperatorCap, SavePin, ProbeOK
<1>10. CASE End(p) \/ Kill(p) \/ LoadFails(p)
  <2>1. pc'[p] = "off" /\ task'[p][m] = "idle" /\ ~ruled'[p][m]
    BY <1>0, <1>10 DEF End, Kill, LoadFails, Gone, All, TypeOK
  <2> QED BY <2>1 DEF ProbeOK
<1>11. ASSUME NEW q \in Proc, q # p,
              \/ StartRun(q) \/ StartCli(q) \/ LoadToPin(q) \/ SetOperatorCap(q)
              \/ SavePin(q) \/ End(q) \/ Kill(q) \/ LoadFails(q)
       PROVE  ProbeOK(p, m)'
  <2>1. /\ kind' = kind /\ accepts' = accepts /\ pc'[p] = pc[p] /\ task'[p] = task[p]
        /\ mem'[p] = mem[p] /\ probed'[p] = probed[p] /\ answer'[p] = answer[p]
        /\ ruled'[p] = ruled[p]
    BY <1>0, <1>11 DEF StartRun, StartCli, LoadToPin, SetOperatorCap, SavePin, End, Kill,
                       LoadFails, Gone, TypeOK
  <2> QED BY <2>1, ProbeOKSame
<1>12. CASE Tick \/ Spoil \/ UNCHANGED vars
  <2>1. UNCHANGED <<kind, accepts, pc, task, mem, probed, answer, ruled>>
    BY <1>12 DEF Tick, Spoil, vars
  <2> QED BY <2>1, ProbeOKSame
<1>13. ASSUME NEW q \in Proc, NEW o \in Model, ProbeStep(q, o) PROVE ProbeOK(p, m)'
  BY <1>13, <1>1, <1>2, <1>3, <1>4, <1>5, <1>6, <1>7, <1>15 DEF ProbeStep
<1>14. ASSUME NEW q \in Proc,
              \/ StartRun(q) \/ StartCli(q) \/ LoadToPin(q) \/ SetOperatorCap(q)
              \/ SavePin(q) \/ End(q) \/ Kill(q) \/ LoadFails(q)
       PROVE  ProbeOK(p, m)'
  BY <1>14, <1>8, <1>9, <1>10, <1>11
<1> QED BY <1>12, <1>13, <1>14 DEF Next

(* A run whose probe of a model ended on a clear answer holds no value     *)
(* that verify asks about and the upstream refuses, whatever the file held *)
(* and whatever other processes do.                                        *)
THEOREM RepairedCorrect == Spec => []Repaired
<1> DEFINE I == \A p \in Run, m \in Model : ProbeOK(p, m)
           S == \A p \in Proc, m \in Model : SweepOK(p, m)
<1>1. Init => I
  BY DEF Init, ProbeOK, All, Proc
<1>2. TypeOK /\ S /\ I /\ [Next]_vars => I'
  BY ProbeOKStep DEF Proc
<1>3. I => Repaired
  BY DEF ProbeOK, Accepted, Repaired
<1> QED BY <1>1, <1>2, <1>3, TypeCorrect, SweepsAreOK, PTL DEF Spec

-----------------------------------------------------------------------------
(* The search for max_tokens (TokenSearch). *)
USE SearchAssumption, PowersAssumption DEF SearchAssumption, PowersAssumption

LEMMA ClampRange ==
  ASSUME SearchTypeOK, NEW k \in Nat
  PROVE  /\ Clamp(k) \in Nat
         /\ k <= cap => Clamp(k) <= cap \/ Clamp(k) = Clamp(0)
         /\ k + 2 >= Largest => Clamp(k) + 2 >= Largest
BY DEF Clamp, Largest, SearchTypeOK

(* The points of a batch lie above lo_strict, the first of a linear sweep  *)
(* on it, and no batch leaves both ends of the gap where they were.        *)
LEMMA PointRange ==
  ASSUME SearchTypeOK, Gap, NEW i \in 1 .. Points
  PROVE  /\ Points \in Nat
         /\ Point(i) \in Nat /\ Point(i) >= lo_strict
         /\ i = 1 => Point(i) <= hi_strict
         /\ i = 2 /\ Span <= Batch => Point(i) <= hi_strict
         /\ Point(i) = lo_strict => i = 1 /\ Span <= Batch
<1> DEFINE step == Span \div Batch
<1>1. Span \in Nat /\ Span > 0
  BY DEF Gap, Span, SearchTypeOK
<1>2. Points \in Nat /\ i \in Nat /\ i >= 1
  BY <1>1 DEF Points
<1>3. CASE Span <= Batch
  BY <1>1, <1>2, <1>3 DEF Point, Points, Span, SearchTypeOK
<1>4. CASE Span > Batch
  <2>1. step \in Nat /\ step >= 1 /\ step <= Span
    BY <1>1, <1>4
  <2>2. i * step \in Nat /\ i * step >= 1 /\ (i = 1 => i * step = step)
    BY <1>2, <2>1
  <2>3. Point(i) = lo_strict + i * step
    BY <1>1, <1>4 DEF Point
  <2>4. QED BY <1>1, <1>2, <1>4, <2>1, <2>2, <2>3 DEF Span, SearchTypeOK
<1>5. QED BY <1>1, <1>3, <1>4

LEMMA BatchMoves ==
  ASSUME SearchTypeOK, Gap, NEW k \in 0 .. Points
  PROVE  ~(/\ (IF k = 0 THEN lo_strict ELSE Point(k)) = lo_strict
           /\ NewHi(k) = hi_strict)
<1>1. Span \in Nat /\ Span > 0 /\ Points \in Nat /\ Points >= 1
  BY DEF Gap, Span, Points, SearchTypeOK
<1>2. CASE k = 0
  <2>1. 1 \in 1 .. Points BY <1>1
  <2>2. Point(1) \in Nat /\ Point(1) <= hi_strict BY <2>1, PointRange
  <2>3. NewHi(0) = Pred(Point(1)) BY <1>1 DEF NewHi
  <2>4. QED BY <1>2, <2>2, <2>3 DEF Pred, Gap, SearchTypeOK
<1>3. CASE k > 0 /\ Point(k) = lo_strict
  <2>1. k \in 1 .. Points BY <1>1, <1>3
  <2>2. k = 1 /\ Span <= Batch BY <1>3, <2>1, PointRange
  <2>3. 2 \in 1 .. Points BY <1>1, <2>2 DEF Points
  <2>4. Point(2) \in Nat /\ Point(2) <= hi_strict BY <2>2, <2>3, PointRange
  <2>5. NewHi(1) = Pred(Point(2)) BY <1>1, <2>3 DEF NewHi
  <2>6. QED BY <2>2, <2>4, <2>5 DEF Pred, Gap, SearchTypeOK
<1>4. QED BY <1>1, <1>2, <1>3

-----------------------------------------------------------------------------
(* What was committed as accepted is accepted. *)
Grounded ==
  /\ lo > 0 => Accepts(lo)
  /\ found => Accepts(lo_strict)
  /\ stage = "validate" => candidate \in Nat

(* Where phase 1 stands: every power of two below n has been asked for.    *)
Walked ==
  stage \in {"phase0", "validate", "phase1"} =>
    /\ n >= 2 /\ lo < n /\ hi = ceiling /\ found = FALSE
    /\ n \in Powers \/ \A q \in Powers : q < n
    /\ lost = 0 => \A q \in Powers : q < n /\ Accepts(q) => lo > 0

(* Where phase 2 stands: nothing above the gap but the ceiling itself can  *)
(* be accepted, and its lower end follows an accepted value.               *)
Narrowed ==
  stage = "phase2" =>
    /\ lost = 0 /\ Findable => lo > 0
    /\ lost = 0 /\ lo > 0 => Largest <= hi_strict + 1
    /\ lo_strict >= lo + 1
    /\ ~found => lo_strict = lo + 1

IInv == SearchTypeOK /\ stage # "commit" /\ Grounded /\ Walked /\ Narrowed /\ Sound /\ Tight

LEMMA IInvInit == SearchInit => IInv
<1> SUFFICES ASSUME SearchInit PROVE IInv
  OBVIOUS
<1>0. found \in BOOLEAN
  BY Zenon DEF SearchInit
<1>1. 0 \in 0 .. MaxLost /\ ceiling \in Nat
  BY DEF SearchInit
<1>2. SearchTypeOK
  BY <1>0, <1>1 DEF SearchInit, SearchTypeOK
<1>3. stage # "commit" /\ Grounded /\ Narrowed /\ Sound /\ Tight
  BY DEF SearchInit, Grounded, Narrowed, Sound, Tight
<1>4. Walked BY <1>1 DEF SearchInit, Walked
<1>5. QED BY <1>2, <1>3, <1>4 DEF IInv

LEMMA Phase0Step == IInv /\ Phase0 => IInv'
<1> SUFFICES ASSUME IInv, Phase0 PROVE IInv'
  OBVIOUS
<1>1. PICK report \in Reports \cup {NoCap} :
         /\ candidate' = ParsedCap(report)
         /\ stage' = IF ParsedCap(report) = NoCap THEN "phase1" ELSE "validate"
  BY DEF Phase0
<1>2. /\ candidate' \in Nat \cup {NoCap}
      /\ stage' = "phase1" \/ (stage' = "validate" /\ candidate' \in Nat)
  BY <1>1 DEF ParsedCap
<1>3. UNCHANGED <<cap, least, floor, ceiling, n, lo, hi, lo_strict, hi_strict,
                  found, round, lost, result>>
  BY DEF Phase0, upstream, phase1, phase2
<1>4. SearchTypeOK' BY <1>2, <1>3 DEF IInv, SearchTypeOK
<1>5. Walked' /\ Grounded'
  BY <1>2, <1>3 DEF IInv, Phase0, Walked, Grounded, Accepts
<1>6. stage' # "commit" /\ Narrowed' /\ Sound' /\ Tight'
  BY <1>2 DEF Narrowed, Sound, Tight
<1>7. QED BY <1>4, <1>5, <1>6 DEF IInv

LEMMA ValidateStep == IInv /\ Validate => IInv'
<1> SUFFICES ASSUME IInv, Validate PROVE IInv'
  OBVIOUS
<1>1. UNCHANGED <<cap, least, floor, ceiling, candidate, n, lo, hi, lo_strict,
                  hi_strict, found, round, lost>>
  BY DEF Validate, upstream, phase1, phase2
<1>2. candidate \in Nat /\ candidate # NoCap
  BY DEF IInv, Validate, Grounded
<1>3. CASE stage' = "phase1" /\ UNCHANGED result
  <2>1. SearchTypeOK' BY <1>1, <1>3 DEF IInv, SearchTypeOK
  <2>2. Walked' /\ Grounded'
    BY <1>1, <1>3 DEF IInv, Validate, Walked, Grounded, Accepts
  <2>3. stage' # "commit" /\ Narrowed' /\ Sound' /\ Tight'
    BY <1>3 DEF Narrowed, Sound, Tight
  <2>4. QED BY <2>1, <2>2, <2>3 DEF IInv
<1>4. CASE Accepts(candidate) /\ stage' = "done" /\ result' = Clamp(candidate)
  <2>1. Clamp(candidate) \in Nat BY <1>2, ClampRange DEF IInv
  <2>2. SearchTypeOK' BY <1>1, <1>4, <2>1 DEF IInv, SearchTypeOK
  <2>3. Clamp(candidate) <= cap \/ Clamp(candidate) = Clamp(0)
    BY <1>2, <1>4, ClampRange DEF IInv, Accepts
  <2>4. Sound'
    BY <1>1, <1>4, <2>3 DEF Sound, Clamp
  <2>5. Tight'
    BY <1>1, <1>2, <1>4 DEF Tight, Accepts
  <2>6. stage' # "commit" /\ Narrowed' /\ Walked' /\ Grounded'
    BY <1>1, <1>4 DEF IInv, Narrowed, Walked, Grounded, Accepts
  <2>7. QED BY <2>2, <2>4, <2>5, <2>6 DEF IInv
<1>5. QED BY <1>3, <1>4 DEF Validate

LEMMA WalkStep == IInv /\ Walk => IInv'
<1> SUFFICES ASSUME IInv, Walk PROVE IInv'
  OBVIOUS
<1>1. UNCHANGED <<cap, least, floor, ceiling, candidate, found, round, result>>
  BY DEF Walk, upstream, phase2
<1>2. /\ n \in Powers /\ n \in Nat /\ n >= 2 /\ n <= ceiling
      /\ lo \in Nat /\ lo < n /\ hi = ceiling
      /\ stage = "phase1" /\ found = FALSE
  BY DEF IInv, SearchTypeOK, Walk, Walked
<1>3. \A q \in Powers : q < 2 * n => q <= n
  BY <1>2
<1>4. 2 * n \in Powers \/ \A q \in Powers : q < 2 * n
  BY <1>2
<1>5. CASE /\ Accepts(n) /\ lo' = n /\ n' = 2 * n
           /\ UNCHANGED <<hi, stage, lost, phase2>>
  <2>1. SearchTypeOK' BY <1>1, <1>2, <1>5 DEF IInv, SearchTypeOK, phase2
  <2>2. Grounded' BY <1>1, <1>2, <1>5 DEF Grounded, Accepts, phase2
  <2>3. Walked' BY <1>1, <1>2, <1>4, <1>5 DEF Walked, phase2
  <2>4. stage' # "commit" /\ Narrowed' /\ Sound' /\ Tight'
    BY <1>2, <1>5 DEF Narrowed, Sound, Tight
  <2>5. QED BY <2>1, <2>2, <2>3, <2>4 DEF IInv
<1>6. CASE /\ NotAccepted(n) /\ lo = 0 /\ lo' = lo
           /\ n' = 2 * n /\ UNCHANGED <<hi, stage, phase2>>
  <2>1. lost' \in 0 .. MaxLost /\ (lost' = 0 => lost = 0 /\ ~Accepts(n))
    BY <1>6 DEF NotAccepted, Refused, Lost, IInv, SearchTypeOK
  <2>2. SearchTypeOK' BY <1>1, <1>2, <1>6, <2>1 DEF IInv, SearchTypeOK, phase2
  <2>3. Grounded' BY <1>1, <1>2, <1>6 DEF Grounded, phase2
  <2>4. ASSUME lost' = 0, NEW q \in Powers, q < n', Accepts(q)' PROVE lo' > 0
    <3>1. q <= n /\ Accepts(q) /\ ~Accepts(n)
      BY <1>1, <1>3, <1>6, <2>1, <2>4 DEF Accepts
    <3>2. q < n BY <1>2, <3>1
    <3>3. QED BY <1>2, <1>6, <2>1, <2>4, <3>1, <3>2 DEF IInv, Walked
  <2>5. Walked' BY <1>1, <1>2, <1>4, <1>6, <2>4 DEF Walked, phase2
  <2>6. stage' # "commit" /\ Narrowed' /\ Sound' /\ Tight'
    BY <1>2, <1>6 DEF Narrowed, Sound, Tight
  <2>7. QED BY <2>2, <2>3, <2>5, <2>6 DEF IInv
<1>7. CASE /\ NotAccepted(n) /\ lo > 0 /\ lo' = lo
           /\ hi' = n /\ stage' = "phase2" /\ n' = n
           /\ lo_strict' = lo + 1 /\ hi_strict' = Pred(n)
  <2>1. lost' \in 0 .. MaxLost /\ (lost' = 0 => lost = 0 /\ ~Accepts(n))
    BY <1>7 DEF NotAccepted, Refused, Lost, IInv, SearchTypeOK
  <2>2. Pred(n) = n - 1 BY <1>2 DEF Pred
  <2>3. SearchTypeOK' BY <1>1, <1>2, <1>7, <2>1, <2>2 DEF IInv, SearchTypeOK
  <2>4. Grounded' BY <1>1, <1>2, <1>7 DEF IInv, Grounded, Accepts
  <2>5. Narrowed'
    <3>1. lost' = 0 => cap < n
      BY <1>2, <1>7, <2>1 DEF IInv, SearchTypeOK, Grounded, Accepts
    <3>2. lost' = 0 => Largest' <= hi_strict' + 1
      BY <1>1, <1>2, <1>7, <2>2, <3>1 DEF Largest, IInv, SearchTypeOK
    <3>3. QED BY <1>1, <1>2, <1>7, <3>2 DEF Narrowed
  <2>6. stage' # "commit" /\ Walked' /\ Sound' /\ Tight'
    BY <1>7 DEF Walked, Sound, Tight
  <2>7. QED BY <2>3, <2>4, <2>5, <2>6 DEF IInv
<1>8. QED BY <1>2, <1>5, <1>6, <1>7 DEF Walk

LEMMA WalkEndsStep == IInv /\ WalkEnds => IInv'
<1> SUFFICES ASSUME IInv, WalkEnds PROVE IInv'
  OBVIOUS
<1>1. UNCHANGED <<cap, least, floor, ceiling, candidate, n, lo, hi, found,
                  round, lost, result>>
  BY DEF WalkEnds, upstream, phase1
<1>2. /\ hi = ceiling /\ ceiling \in Nat /\ ceiling > 0 /\ lo \in Nat
      /\ stage' = "phase2" /\ found = FALSE
      /\ lo_strict' = lo + 1 /\ hi_strict' = ceiling - 1
  BY DEF IInv, SearchTypeOK, WalkEnds, Walked, Pred
<1>3. SearchTypeOK' BY <1>1, <1>2 DEF IInv, SearchTypeOK
<1>4. Grounded' BY <1>1, <1>2 DEF IInv, Grounded, Accepts
<1>5. lost = 0 /\ Findable => lo > 0
  <2> SUFFICES ASSUME lost = 0, NEW q \in Powers, Accepts(q), q <= ceiling
               PROVE  lo > 0
    BY DEF Findable
  <2>1. q < n
    BY <1>2 DEF IInv, SearchTypeOK, WalkEnds, Walked
  <2>2. QED BY <2>1 DEF IInv, Walked, WalkEnds
<1>6. Largest' <= hi_strict' + 1
  BY <1>1, <1>2 DEF Largest, IInv, SearchTypeOK
<1>7. Findable' = Findable
  BY <1>1 DEF Findable, Accepts
<1>8. Narrowed' BY <1>1, <1>2, <1>5, <1>6, <1>7 DEF Narrowed
<1>9. stage' # "commit" /\ Walked' /\ Sound' /\ Tight'
  BY <1>2 DEF Walked, Sound, Tight
<1>10. QED BY <1>3, <1>4, <1>8, <1>9 DEF IInv

LEMMA NarrowStep == IInv /\ Narrow => IInv'
<1> SUFFICES ASSUME IInv, Narrow PROVE IInv'
  OBVIOUS
<1> USE DEF IInv
<1>1. UNCHANGED <<cap, least, floor, ceiling, candidate, n, lo, hi, result>>
  BY DEF Narrow, upstream, phase1
<1>2. /\ stage = "phase2" /\ Gap /\ round' = round + 1
      /\ Points \in Nat /\ Points >= 1
  BY DEF Narrow, Gap, Points, Span, SearchTypeOK
<1>3. PICK k \in 0 .. Points :
        /\ \A i \in 1 .. k : Accepts(Point(i))
        /\ NarrowTo(k, NewHi(k))
        /\ IF k = Points THEN UNCHANGED lost ELSE NotAccepted(Point(k + 1))
  BY DEF Narrow
<1> DEFINE newLo == IF k = 0 THEN lo_strict ELSE Point(k)
<1>4. /\ lo_strict' = newLo /\ hi_strict' = NewHi(k)
      /\ found' = (found \/ k > 0)
      /\ stage' = "phase2"
  BY <1>2, <1>3, BatchMoves DEF NarrowTo
<1>5. newLo \in Nat /\ newLo >= lo_strict /\ (k > 0 => Accepts(newLo))
  <2>1. CASE k = 0 BY <2>1 DEF SearchTypeOK
  <2>2. CASE k > 0
    <3>1. k \in 1 .. Points BY <1>2, <2>2
    <3>2. Point(k) \in Nat /\ Point(k) >= lo_strict
      BY <1>2, <3>1, PointRange
    <3>3. QED BY <1>3, <2>2, <3>2
  <2>3. QED BY <1>2, <2>1, <2>2
<1>6. lost' \in 0 .. MaxLost /\ (lost' = 0 => lost = 0)
  BY <1>3 DEF NotAccepted, Refused, Lost, SearchTypeOK
<1>7. /\ NewHi(k) \in Nat
      /\ lost' = 0 /\ lo > 0 => Largest <= NewHi(k) + 1
  <2>1. CASE k = Points
    BY <1>2, <1>6, <2>1 DEF NewHi, Narrowed, SearchTypeOK
  <2>2. CASE k # Points
    <3>1. k + 1 \in 1 .. Points BY <1>2, <2>2
    <3>2. Point(k + 1) \in Nat /\ Point(k + 1) >= lo_strict
      BY <1>2, <3>1, PointRange
    <3>3. lost' = 0 => ~Accepts(Point(k + 1))
      BY <1>3, <2>2 DEF NotAccepted, Refused, Lost, SearchTypeOK
    <3>4. lo > 0 => Point(k + 1) >= least /\ Point(k + 1) > 0
      BY <1>2, <3>2 DEF Narrowed, Grounded, Accepts, SearchTypeOK
    <3>5. lost' = 0 /\ lo > 0 => cap < Point(k + 1)
      BY <3>2, <3>3, <3>4 DEF Accepts, SearchTypeOK
    <3>6. QED BY <2>2, <3>2, <3>4, <3>5 DEF NewHi, Pred, Largest, SearchTypeOK
  <2>3. QED BY <2>1, <2>2
<1>8. found' \in BOOLEAN
  BY <1>4 DEF SearchTypeOK
<1>9. SearchTypeOK'
  BY <1>1, <1>2, <1>4, <1>5, <1>6, <1>7, <1>8 DEF SearchTypeOK
<1>10. Grounded'
  <2>1. found' => Accepts(newLo)
    <3>1. found' => found \/ k > 0 BY <1>4
    <3>2. found /\ k = 0 => Accepts(newLo) BY DEF Grounded
    <3>3. QED BY <1>2, <1>5, <3>1, <3>2
  <2>2. Accepts(newLo) => Accepts(lo_strict)'
    BY <1>1, <1>4 DEF Accepts
  <2>3. QED BY <1>1, <1>4, <2>1, <2>2 DEF Grounded, Accepts
<1>11. Narrowed'
  <2>1. Findable' = Findable /\ Largest' = Largest
    BY <1>1 DEF Findable, Largest, Accepts
  <2>2. lo_strict' >= lo' + 1
    BY <1>1, <1>2, <1>4, <1>5 DEF Narrowed, SearchTypeOK
  <2>3. ~found' => lo_strict' = lo' + 1
    <3>1. ~found' => ~found /\ ~(k > 0) BY <1>4
    <3>2. ~found => lo_strict = lo + 1 BY <1>2 DEF Narrowed
    <3>3. ~(k > 0) => newLo = lo_strict BY <1>2
    <3>4. lo' = lo /\ lo_strict' = newLo BY <1>1, <1>4
    <3>5. QED BY <3>1, <3>2, <3>3, <3>4, Zenon
  <2>4. QED BY <1>1, <1>2, <1>4, <1>6, <1>7, <2>1, <2>2, <2>3 DEF Narrowed
<1>12. stage' # "commit" /\ Walked' /\ Sound' /\ Tight'
  BY <1>4 DEF Walked, Sound, Tight
<1>13. QED BY <1>9, <1>10, <1>11, <1>12

LEMMA CommitStep == IInv /\ Commit => IInv'
<1> SUFFICES ASSUME IInv, Commit PROVE IInv'
  OBVIOUS
<1> USE DEF IInv
<1>1. UNCHANGED <<cap, least, floor, ceiling, candidate, n, lo, hi, lo_strict,
                  hi_strict, found, round, lost>>
  BY DEF Commit, upstream, phase1, phase2
<1>2. stage = "phase2" /\ (~Gap \/ round >= Rounds)
  BY DEF Commit
<1>3. Discovered \in Nat /\ (Discovered > 0 => Discovered <= cap)
  BY DEF Discovered, Grounded, Accepts, SearchTypeOK
<1>4. lost = 0 /\ Findable /\ round < Rounds => Discovered + 2 >= Largest
  <2> SUFFICES ASSUME lost = 0, Findable, round < Rounds
               PROVE  Discovered + 2 >= Largest
    OBVIOUS
  <2>1. Largest <= hi_strict + 1
    BY <1>2 DEF Narrowed
  <2>2. lo_strict >= hi_strict
    BY <1>2 DEF Gap, SearchTypeOK
  <2>3. QED BY <1>2, <2>1, <2>2 DEF Discovered, Narrowed, Largest, SearchTypeOK
<1>5. Findable' = Findable /\ Largest' = Largest
  BY <1>1 DEF Findable, Largest, Accepts
<1>6. CASE Discovered < MinFloor /\ stage' = "failed" /\ UNCHANGED result
  <2>1. SearchTypeOK' BY <1>1, <1>6 DEF SearchTypeOK
  <2>2. Largest \in Nat BY DEF Largest, SearchTypeOK
  <2>3. Tight'
    BY <1>1, <1>3, <1>4, <1>5, <1>6, <2>2 DEF Tight
  <2>4. stage' # "commit" /\ Grounded' /\ Walked' /\ Narrowed' /\ Sound'
    BY <1>1, <1>6 DEF Grounded, Accepts, Walked, Narrowed, Sound
  <2>5. QED BY <2>1, <2>3, <2>4
<1>7. CASE /\ Discovered >= MinFloor /\ stage' = "done"
           /\ result' = Clamp(Discovered)
  <2>1. /\ Clamp(Discovered) \in Nat
        /\ Clamp(Discovered) <= cap \/ Clamp(Discovered) = Clamp(0)
        /\ Discovered + 2 >= Largest => Clamp(Discovered) + 2 >= Largest
    BY <1>3, <1>7, ClampRange
  <2>2. SearchTypeOK' BY <1>1, <1>7, <2>1 DEF SearchTypeOK
  <2>3. Sound' BY <1>1, <1>7, <2>1 DEF Sound, Clamp
  <2>4. Tight' BY <1>1, <1>4, <1>5, <1>7, <2>1 DEF Tight
  <2>5. stage' # "commit" /\ Grounded' /\ Walked' /\ Narrowed'
    BY <1>1, <1>7 DEF Grounded, Accepts, Walked, Narrowed
  <2>6. QED BY <2>2, <2>3, <2>4, <2>5
<1>8. QED BY <1>3, <1>6, <1>7 DEF Commit

LEMMA IInvStep == IInv /\ [SearchNext]_searchVars => IInv'
<1> SUFFICES ASSUME IInv, [SearchNext]_searchVars PROVE IInv'
  OBVIOUS
<1>1. CASE UNCHANGED searchVars
  <2>1. SearchTypeOK' BY <1>1 DEF IInv, SearchTypeOK, searchVars
  <2>2. Grounded' /\ Walked' /\ stage' # "commit"
    BY <1>1 DEF IInv, Grounded, Walked, Accepts, searchVars
  <2>3. Findable' = Findable /\ Largest' = Largest
    BY <1>1 DEF Findable, Largest, Accepts, searchVars
  <2>4. Narrowed' BY <1>1, <2>3 DEF IInv, Narrowed, searchVars
  <2>5. Sound' /\ Tight'
    BY <1>1, <2>3 DEF IInv, Sound, Tight, Clamp, Accepts, searchVars
  <2>6. QED BY <2>1, <2>2, <2>4, <2>5 DEF IInv
<1>2. QED
  BY <1>1, Phase0Step, ValidateStep, WalkStep, WalkEndsStep, NarrowStep,
     CommitStep DEF SearchNext

-----------------------------------------------------------------------------
(* The inductive invariant of the search: what was committed is grounded,  *)
(* no power of two is skipped, nothing above the gap can be accepted.      *)
THEOREM SearchInvariant == SearchSpec => []IInv
<1>1. QED BY IInvInit, IInvStep, PTL DEF SearchSpec

(* The stored value is one the upstream takes or the operator's floor, for *)
(* every upstream and whatever answers were lost.                          *)
THEOREM SearchIsSound == SearchSpec => []Sound
<1>1. IInv => Sound BY DEF IInv
<1>2. QED BY <1>1, SearchInvariant, PTL

(* Without lost answers the search ends at most two below the maximum, for *)
(* every batch size and every ceiling.                                     *)
THEOREM SearchIsTight == SearchSpec => []Tight
<1>1. IInv => Tight BY DEF IInv
<1>2. QED BY <1>1, SearchInvariant, PTL

-----------------------------------------------------------------------------
(* Why the rounds of phase 2 suffice: every batch of at least two points   *)
(* leaves less than half of the gap, so that a gap of w[r] in round r is   *)
(* one of at most w[r + 1] in the next.                                    *)

LEMMA Division ==
  ASSUME NEW s \in Nat, NEW b \in Nat, b >= 2, s >= b
  PROVE  \E d \in Nat : /\ d = s \div b /\ d >= 1
                        /\ b * d \in Nat /\ b * d <= s /\ s < b * d + b
                        /\ 2 * d <= b * d /\ b <= b * d
<1> DEFINE d == s \div b
<1>1. d \in Nat /\ b * d <= s /\ s < b * d + b
  OBVIOUS
<1> HIDE DEF d
<1>2. d >= 1
  BY <1>1
<1>3. b * d \in Nat /\ 2 * d <= b * d /\ b <= b * d
  BY <1>1, <1>2
<1>4. QED BY <1>1, <1>2, <1>3 DEF d

LEMMA BatchHalves ==
  ASSUME SearchTypeOK, Gap, Batch >= 2, NEW k \in 0 .. Points,
         NEW newLo, newLo = (IF k = 0 THEN lo_strict ELSE Point(k)),
         newLo < NewHi(k)
  PROVE  2 * (NewHi(k) - newLo) + 1 <= Span
<1>1. /\ Span \in Nat /\ Span > 0 /\ lo_strict \in Nat /\ hi_strict = lo_strict + Span
      /\ Batch \in Nat /\ k \in Nat
  BY DEF Gap, Span, SearchTypeOK, Points
<1>2. CASE Span <= Batch
  <2>1. Points = Span + 1 /\ \A i \in Nat : Point(i) = lo_strict + i - 1
    BY <1>2 DEF Points, Point
  <2>2. QED BY <1>1, <2>1 DEF NewHi, Pred
<1>3. CASE Span > Batch
  <2>1. PICK d \in Nat : /\ d = Span \div Batch /\ d >= 1
                         /\ Batch * d \in Nat /\ Batch * d <= Span /\ Span < Batch * d + Batch
                         /\ 2 * d <= Batch * d /\ Batch <= Batch * d
    BY <1>1, <1>3, Division
  <2>2. Points = Batch /\ \A i \in Nat : Point(i) = lo_strict + i * d
    BY <1>1, <1>3, <2>1 DEF Points, Point
  <2>3. CASE k = Batch
    <3>1. newLo = lo_strict + Batch * d /\ NewHi(k) = lo_strict + Span
      BY <1>1, <2>2, <2>3 DEF NewHi
    <3>2. QED BY <1>1, <2>1, <3>1
  <2>4. CASE k < Batch
    <3>1. newLo = lo_strict + k * d
      BY <1>1, <2>1, <2>2
    <3>2. k + 1 \in Nat /\ (k + 1) * d = k * d + d /\ k * d \in Nat
      BY <1>1, <2>1
    <3>3. NewHi(k) = Pred(lo_strict + (k + 1) * d)
      BY <1>1, <2>2, <2>4, <3>2 DEF NewHi
    <3>4. NewHi(k) = newLo + d - 1
      BY <1>1, <2>1, <3>1, <3>2, <3>3 DEF Pred
    <3>5. newLo \in Nat
      BY <1>1, <3>1, <3>2
    <3>6. QED BY <1>1, <2>1, <3>4, <3>5
  <2>5. QED BY <1>1, <2>2, <2>3, <2>4
<1>4. QED BY <1>1, <1>2, <1>3

Fits(w) ==
  /\ stage \in {"phase0", "validate", "phase1"} => round = 0
  /\ stage = "phase2" /\ Gap => round <= Rounds /\ Span <= w[round]

LEMMA FitsStep ==
  ASSUME IInv, Batch >= 2, [SearchNext]_searchVars,
         NEW w, \A r \in 0 .. Rounds : w[r] \in Nat,
         \A r \in 0 .. Rounds - 1 : w[r] <= 2 * w[r + 1] + 1,
         \A c \in Ceilings : c <= w[0],
         Fits(w)
  PROVE  Fits(w)'
<1>1. CASE Phase0 \/ Validate
  BY <1>1 DEF Phase0, Validate, phase2, Fits
<1>2. ASSUME stage = "phase1", stage' = "phase2", round' = round,
             lo_strict' = lo + 1, hi_strict' \in Nat, hi_strict' <= ceiling
      PROVE  Fits(w)'
  <2>1. /\ round' = 0 /\ 0 \in 0 .. Rounds /\ w[0] \in Nat /\ ceiling \in Nat /\ lo \in Nat
        /\ ceiling <= w[0]
    BY <1>2 DEF Fits, IInv, SearchTypeOK
  <2>2. Span' <= w[0]
    BY <1>2, <2>1 DEF Span
  <2>3. QED BY <1>2, <2>1, <2>2 DEF Fits
<1>3. CASE Walk
  <2>1. n \in Nat /\ n <= ceiling /\ ceiling \in Nat /\ Pred(n) \in Nat /\ Pred(n) <= ceiling
    BY <1>3 DEF Walk, IInv, SearchTypeOK, Pred
  <2>2. \/ stage' = "phase1" /\ UNCHANGED phase2
        \/ stage' = "phase2" /\ round' = round /\ lo_strict' = lo + 1 /\ hi_strict' = Pred(n)
    BY <1>3 DEF Walk
  <2>3. QED BY <1>2, <1>3, <2>1, <2>2 DEF Walk, Fits, phase2
<1>4. CASE WalkEnds
  <2>1. hi = ceiling /\ ceiling \in Nat /\ Pred(hi) \in Nat /\ Pred(hi) <= ceiling
    BY <1>4 DEF WalkEnds, IInv, Walked, SearchTypeOK, Pred
  <2>2. QED BY <1>2, <1>4, <2>1 DEF WalkEnds
<1>5. CASE Narrow
  <2>1. PICK k \in 0 .. Points : NarrowTo(k, NewHi(k))
    BY <1>5 DEF Narrow
  <2>2. /\ SearchTypeOK /\ Gap /\ round \in Nat /\ round < Rounds /\ round' = round + 1
        /\ Span <= w[round] /\ Rounds \in Nat /\ stage = "phase2"
    BY <1>5 DEF Narrow, Fits, IInv, SearchTypeOK
  <2>3. /\ lo_strict' = (IF k = 0 THEN lo_strict ELSE Point(k))
        /\ hi_strict' = NewHi(k)
        /\ stage' \in {"phase2", "commit"}
    BY <2>1 DEF NarrowTo
  <2>4. Gap' => 2 * (hi_strict' - lo_strict') + 1 <= Span
    BY <2>2, <2>3, BatchHalves DEF Gap
  <2>5. lo_strict' \in Nat /\ hi_strict' \in Nat /\ Span \in Int
    BY IInvStep DEF IInv, SearchTypeOK, Span
  <2>6. /\ w[round] \in Nat /\ w[round + 1] \in Nat
        /\ w[round] <= 2 * w[round + 1] + 1
    BY <2>2
  <2>7. Gap' => Span' <= w[round + 1]
    BY <2>2, <2>4, <2>5, <2>6 DEF Span
  <2>8. QED BY <2>2, <2>3, <2>7 DEF Fits
<1>6. CASE Commit
  BY <1>6 DEF Commit, Fits
<1>7. CASE UNCHANGED searchVars
  BY <1>7 DEF searchVars, Fits, Gap, Span
<1>8. QED BY <1>1, <1>3, <1>4, <1>5, <1>6, <1>7 DEF SearchNext

(* 2^32 - 1 halved thirty-two times: the largest u32 and what each round   *)
(* may leave of it.                                                        *)
Halved ==
  <<4294967295, 2147483647, 1073741823, 536870911, 268435455, 134217727,
    67108863, 33554431, 16777215, 8388607, 4194303, 2097151, 1048575, 524287,
    262143, 131071, 65535, 32767, 16383, 8191, 4095, 2047, 1023, 511, 255,
    127, 63, 31, 15, 7, 3, 1, 0>>

(* For every u32 ceiling the 32 rounds close the gap before they run out,  *)
(* with any batch of two points or more, whatever answers are lost: the    *)
(* bound of the loop never decides what is stored.                         *)
THEOREM ConvergesCorrect ==
  ASSUME Batch >= 2, Rounds = 32, \A c \in Ceilings : c < 4294967296
  PROVE  SearchSpec => []Converges
<1> DEFINE w == [r \in 0 .. 32 |-> Halved[r + 1]]
<1>1. /\ \A r \in 0 .. Rounds : w[r] \in Nat
      /\ \A r \in 0 .. Rounds - 1 : w[r] <= 2 * w[r + 1] + 1
      /\ w[0] = 4294967295 /\ w[32] = 0
  BY DEF Halved
<1> HIDE DEF w
<1>2. \A c \in Ceilings : c <= w[0]
  BY <1>1
<1>3. SearchInit => Fits(w)
  BY DEF SearchInit, Fits
<1>4. IInv /\ Fits(w) /\ [SearchNext]_searchVars => Fits(w)'
  BY <1>1, <1>2, FitsStep
<1>5. IInv /\ Fits(w) => Converges
  BY <1>1 DEF IInv, SearchTypeOK, Fits, Converges, Gap, Span
<1>6. QED BY <1>3, <1>4, <1>5, SearchInvariant, PTL DEF SearchSpec
=============================================================================
