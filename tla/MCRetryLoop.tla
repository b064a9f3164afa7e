---------------------------- MODULE MCRetryLoop ----------------------------
(* Every mode class and strategy, with ceilings below and above the budget. *)
EXTENDS RetryLoop

Ceilings == {1, 2, 5}
=============================================================================
