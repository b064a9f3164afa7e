--------------------------- MODULE MCProbeTables ---------------------------
(* One run and one probe command over one sidecar. *)
EXTENDS ProbeTables, TLC

CONSTANTS r1, c1, m1
=============================================================================
