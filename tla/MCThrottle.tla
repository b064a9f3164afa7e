----------------------------- MODULE MCThrottle -----------------------------
(* One caller of one role and three of another, on one provider.            *)
EXTENDS Throttle, TLC

CONSTANTS c1, c2, c3, c4, thesis, tagger

TwoRoles == [c \in Caller |-> IF c = c1 THEN thesis ELSE tagger]
=============================================================================
