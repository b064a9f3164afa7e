----------------------------- MODULE MCSandbox -----------------------------
(* Two calls of one Sandbox, the second with stdin to feed. *)
EXTENDS Sandbox

CONSTANTS c1, c2
=============================================================================
