--------------------------- MODULE CircuitBreaker ---------------------------
(***************************************************************************)
(* llm/circuit_breaker.rs: one CircuitBreaker shared by the callers of     *)
(* CircuitBreaker::run. The mutex makes pre_check, record_success,         *)
(* record_failure and trip atomic; the sleep and the wrapped call happen   *)
(* outside it, so callers interleave there.                                *)
(*                                                                         *)
(* Instants are kept as their age, capped just above the longest duration  *)
(* the code compares it with, so that time never runs out.                 *)
(***************************************************************************)
EXTENDS Integers, Sequences

CONSTANTS
  Task,         \* tasks that call through the breaker
  Threshold,    \* failures that open it
  Window,       \* longest gap between two failures of one streak
  Cooldown,     \* time an open breaker stays open
  MaxFailures,  \* where the u32 counter saturates
  Never

ASSUME NeverAssumption == Never \notin Int
ASSUME BreakerAssumption ==
  /\ Threshold \in Nat \ {0}
  /\ MaxFailures \in Nat /\ Threshold <= MaxFailures
  /\ Window \in Nat
  /\ Cooldown \in Nat

VARIABLES
  state,     \* State::{Closed, Open, HalfOpen}
  openAge,   \* time since the instant State::Open holds
  failures,  \* failure counter
  lastAge,   \* time since last_failure, or Never
  doing,     \* what each caller of run is doing
  wait,      \* what is left of its sleep
  recent     \* history: ages of the last failures since a success, oldest first

breaker == <<state, openAge, failures, lastAge>>
breakerVars == <<state, openAge, failures, lastAge, doing, wait, recent>>

\* Ages in the history are capped here: older than any streak can be.
Horizon == Threshold * (Window + 1)

BreakerTypeOK ==
  /\ state \in {"closed", "open", "half_open"}
  /\ openAge \in 0 .. Cooldown
  /\ failures \in 0 .. MaxFailures
  /\ lastAge \in (0 .. Window + 1) \cup {Never}
  /\ doing \in [Task -> {"idle", "sleeping", "calling"}]
  /\ wait \in [Task -> 0 .. Cooldown]

BreakerInit ==
  /\ state = "closed"
  /\ openAge = 0
  /\ failures = 0
  /\ lastAge = Never
  /\ doing = [c \in Task |-> "idle"]
  /\ wait = [c \in Task |-> 0]
  /\ recent = <<>>

Older(age, cap) == IF age < cap THEN age + 1 ELSE cap

-----------------------------------------------------------------------------
(* run: pre_check, the sleep it asks for, the wrapped call.                *)

PreCheckAdmits ==
  \/ state \in {"closed", "half_open"}
  \/ state = "open" /\ openAge >= Cooldown

Enter(c) ==
  /\ doing[c] = "idle"
  /\ PreCheckAdmits
  /\ state' = IF state = "open" THEN "half_open" ELSE state
  /\ doing' = [doing EXCEPT ![c] = "calling"]
  /\ UNCHANGED <<openAge, failures, lastAge, wait, recent>>

\* Still cooling down: sleep the rest, without looking again afterwards.
Sleep(c) ==
  /\ doing[c] = "idle"
  /\ ~PreCheckAdmits
  /\ wait' = [wait EXCEPT ![c] = Cooldown - openAge]
  /\ doing' = [doing EXCEPT ![c] = "sleeping"]
  /\ UNCHANGED <<state, openAge, failures, lastAge, recent>>

Wake(c) ==
  /\ doing[c] = "sleeping"
  /\ wait[c] = 0
  /\ doing' = [doing EXCEPT ![c] = "calling"]
  /\ UNCHANGED <<state, openAge, failures, lastAge, wait, recent>>

\* Mutant: a success resets the counter and forgets to close the breaker.
RecordSuccess_StayHalfOpen ==
  /\ failures' = 0
  /\ lastAge' = Never
  /\ recent' = <<>>
  /\ UNCHANGED <<state, openAge>>

RecordSuccess ==
  /\ state' = "closed"
  /\ failures' = 0
  /\ lastAge' = Never
  /\ recent' = <<>>
  /\ UNCHANGED openAge

\* The last failure is outside the window: the streak starts anew.
Expired == lastAge # Never /\ lastAge > Window

\* Mutants: the counter does not saturate; the gap to the last failure is not
\* looked at.
Counted_Unsaturated == IF Expired THEN 1 ELSE failures + 1

Counted_NoReset == IF failures < MaxFailures THEN failures + 1 ELSE MaxFailures

Counted ==
  LET before == IF Expired THEN 0 ELSE failures
  IN IF before < MaxFailures THEN before + 1 ELSE MaxFailures

LastOf(s) == IF Len(s) > Threshold THEN Tail(s) ELSE s

\* Mutant: an expired streak resets the counter but not the state.
RecordFailure_KeepState ==
  /\ failures' = Counted
  /\ lastAge' = 0
  /\ IF Counted >= Threshold
     THEN state' = "open" /\ openAge' = 0
     ELSE UNCHANGED <<state, openAge>>
  /\ recent' = LastOf(Append(recent, 0))

RecordFailure ==
  /\ failures' = Counted
  /\ lastAge' = 0
  /\ IF Counted >= Threshold
     THEN state' = "open" /\ openAge' = 0
     ELSE /\ state' = IF Expired THEN "closed" ELSE state
          /\ UNCHANGED openAge
  /\ recent' = LastOf(Append(recent, 0))

CallOk(c) ==
  /\ doing[c] = "calling"
  /\ RecordSuccess
  /\ doing' = [doing EXCEPT ![c] = "idle"]
  /\ UNCHANGED wait

CallErr(c) ==
  /\ doing[c] = "calling"
  /\ RecordFailure
  /\ doing' = [doing EXCEPT ![c] = "idle"]
  /\ UNCHANGED wait

\* Forced open by whoever knows that the plan is exhausted; last_failure stays.
Trip ==
  /\ state' = "open"
  /\ openAge' = 0
  /\ failures' = Threshold
  /\ UNCHANGED <<lastAge, doing, wait, recent>>

BreakerTick ==
  /\ openAge' = Older(openAge, Cooldown)
  /\ lastAge' = IF lastAge = Never THEN Never ELSE Older(lastAge, Window + 1)
  /\ wait' = [c \in Task |-> IF wait[c] > 0 THEN wait[c] - 1 ELSE 0]
  /\ recent' = [i \in DOMAIN recent |-> Older(recent[i], Horizon)]
  /\ UNCHANGED <<state, failures, doing>>

BreakerNext ==
  \/ BreakerTick \/ Trip
  \/ \E c \in Task :
       \/ Enter(c) \/ Sleep(c) \/ Wake(c) \/ CallOk(c) \/ CallErr(c)

BreakerSpec == BreakerInit /\ [][BreakerNext]_breakerVars

\* Time passes, a sleep that is over returns, a call returns, and some caller
\* keeps asking for the provider (the retry loops above the breaker do).
FairBreakerSpec ==
  /\ BreakerSpec
  /\ WF_breakerVars(BreakerTick)
  /\ \A c \in Task :
       /\ WF_breakerVars(Enter(c) \/ Sleep(c))
       /\ WF_breakerVars(Wake(c))
       /\ WF_breakerVars(CallOk(c) \/ CallErr(c))

-----------------------------------------------------------------------------
(* Properties.                                                             *)

\* The state follows the counter: the breaker is closed exactly while the
\* counter is below the threshold (the contradiction record_failure's comment
\* rules out: "state=open with failures < threshold").
StateMatchesCount == (state = "closed") <=> (failures < Threshold)

\* A failure opens a closed breaker only at the end of Threshold failures
\* with no success in between and no gap longer than the window.
OpensOnStreak ==
  [][(state = "closed" /\ \E c \in Task : CallErr(c) /\ state' = "open")
       => /\ Len(recent') = Threshold
          /\ \A i \in 1 .. Threshold - 1 : recent'[i] - recent'[i + 1] <= Window]_breakerVars

Failing == Trip \/ \E c \in Task : CallErr(c)

\* Once the provider has recovered the breaker closes, whatever the callers
\* that slept through an earlier outage were told to do.
Recloses == []<><<Failing>>_breakerVars \/ <>[](state = "closed")
=============================================================================
