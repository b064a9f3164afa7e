--------------------------- MODULE MCRunLifecycle ---------------------------
(* Two interchangeable command slots on one run of three phases. *)
EXTENDS RunLifecycle, TLC

CONSTANTS p1, p2

Symmetry == Permutations(Proc)
=============================================================================
