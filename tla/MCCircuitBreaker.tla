-------------------------- MODULE MCCircuitBreaker --------------------------
(* Two or three callers of one breaker. *)
EXTENDS CircuitBreaker, TLC

CONSTANTS c1, c2, c3

Symmetric == Permutations(Task)
=============================================================================
