----------------------------- MODULE MCRunLease -----------------------------
(* Small instances of RunLease: two or three processes of one run, sharing *)
(* the label "heartbeat" as RunContext::new gives it.                      *)
EXTENDS RunLease

CONSTANTS p1, p2, p3

SharedHolder == [p \in Proc |-> "heartbeat"]
SharedHolders == {"heartbeat"}
=============================================================================
