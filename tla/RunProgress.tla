----------------------------- MODULE RunProgress -----------------------------
(***************************************************************************)
(* What a run promises, whatever processes execute it: its phases finish   *)
(* in the canonical order, finished work is never lost, and the run is     *)
(* called completed only when no phase is missing.                         *)
(***************************************************************************)
EXTENDS Naturals

CONSTANT N  \* phases of the pipeline

VARIABLES
  done,    \* phases whose artefacts are on disk
  verdict  \* what the index says of the run

Phase == 1 .. N

Init ==
  /\ done = {}
  /\ verdict # "completed"

Finish(p) ==
  /\ 1 .. p - 1 \subseteq done
  /\ done' = done \cup {p}
  /\ UNCHANGED verdict

Conclude ==
  /\ verdict' = "completed" => done = Phase
  /\ UNCHANGED done

Next == Conclude \/ \E p \in Phase : Finish(p)

Spec == Init /\ [][Next]_<<done, verdict>>
=============================================================================
