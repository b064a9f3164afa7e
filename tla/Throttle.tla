------------------------------ MODULE Throttle ------------------------------
(***************************************************************************)
(* llm/governor.rs and RunContext::dispatch_with_governors: the cooldown   *)
(* of one provider (ProviderGate), shared by every role, the adaptive      *)
(* backoff of each role (ThrottleGovernor), and the callers that sleep in  *)
(* both before the wrapped call and feed both with its result.             *)
(*                                                                         *)
(* Instants are kept as what is left of a cooldown and as the age of the   *)
(* last 429; both are capped, so time never runs out.                      *)
(***************************************************************************)
EXTENDS Integers

CONSTANTS
  Caller, Role,
  RoleOf,          \* the role each caller dispatches for
  InitialBackoff,  \* backoff installed by the first 429
  MaxBackoff,      \* cap of the backoff
  Jitter,          \* most that a sleep is lengthened by
  InitialConc, MaxConc,  \* governor's concurrency estimate
  AdditiveAfter,   \* quiet time before the estimate grows
  RetryAfter,      \* Retry-After hints an upstream may send
  None

ASSUME RoleAssumption == RoleOf \in [Caller -> Role]
ASSUME BackoffAssumption ==
  /\ MaxBackoff \in Nat
  /\ InitialBackoff \in 1 .. MaxBackoff
  /\ Jitter \in Nat
  /\ AdditiveAfter \in Nat
  /\ RetryAfter \subseteq Nat
  /\ None \notin Int
ASSUME ConcurrencyAssumption ==
  /\ InitialConc \in Nat \ {0}
  /\ MaxConc \in Nat /\ InitialConc <= MaxConc

VARIABLES
  level,    \* ProviderGate: backoff_ms
  cooling,  \* ProviderGate: what is left until `until`
  conc,     \* ThrottleGovernor, by role: current_concurrency
  backoff,  \*   current_backoff_ms
  quiet,    \*   time since last_429_at, or None
  pc,       \* what each caller of dispatch_with_governors is doing
  sleep     \* what is left of its sleep

gate == <<level, cooling>>
governor == <<conc, backoff, quiet>>
callers == <<pc, sleep>>
vars == <<level, cooling, conc, backoff, quiet, pc, sleep>>

TypeOK ==
  /\ level \in 0 .. MaxBackoff
  /\ cooling \in 0 .. MaxBackoff
  /\ conc \in [Role -> 1 .. MaxConc]
  /\ backoff \in [Role -> 0 .. MaxBackoff]
  /\ quiet \in [Role -> (0 .. AdditiveAfter) \cup {None}]
  /\ pc \in [Caller -> {"idle", "gate", "governor", "calling"}]
  /\ sleep \in [Caller -> 0 .. MaxBackoff + Jitter]

Init ==
  /\ level = 0
  /\ cooling = 0
  /\ conc = [r \in Role |-> InitialConc]
  /\ backoff = [r \in Role |-> 0]
  /\ quiet = [r \in Role |-> None]
  /\ pc = [c \in Caller |-> "idle"]
  /\ sleep = [c \in Caller |-> 0]

Least(a, b) == IF a < b THEN a ELSE b
Greatest(a, b) == IF a < b THEN b ELSE a

\* The backoff after a 429 and after a success.
Doubled(b) == Least(IF b = 0 THEN InitialBackoff ELSE 2 * b, MaxBackoff)
Decayed(b) == (b * 3) \div 4

-----------------------------------------------------------------------------
(* ProviderGate and ThrottleGovernor, each behind its own mutex.           *)

\* Mutant: the new cooldown replaces the one already installed.
GateOn429_Replace ==
  /\ level' = Doubled(level)
  /\ cooling' = Doubled(level)

\* Never shortens a cooldown another caller installed.
GateOn429 ==
  /\ level' = Doubled(level)
  /\ cooling' = Greatest(cooling, Doubled(level))

\* Mutant: the cooldown survives a backoff that has decayed to zero.
GateOnSuccess_KeepUntil ==
  /\ level' = Decayed(level)
  /\ UNCHANGED cooling

GateOnSuccess ==
  /\ level' = Decayed(level)
  /\ cooling' = IF Decayed(level) = 0 THEN 0 ELSE cooling

\* Mutant: Retry-After is taken as it comes, above the cap.
GovernorOn429_Uncapped(r, hint) ==
  /\ conc' = [conc EXCEPT ![r] = Greatest(@ \div 2, 1)]
  /\ backoff' = [backoff EXCEPT ![r] = Greatest(Doubled(@), hint)]
  /\ quiet' = [quiet EXCEPT ![r] = 0]

GovernorOn429(r, hint) ==
  /\ conc' = [conc EXCEPT ![r] = Greatest(@ \div 2, 1)]
  /\ backoff' = [backoff EXCEPT ![r] = Least(Greatest(Doubled(@), hint), MaxBackoff)]
  /\ quiet' = [quiet EXCEPT ![r] = 0]

\* Mutant: the backoff is rounded up and never reaches zero.
GovernorOnSuccess_RoundUp(r) ==
  /\ backoff' = [backoff EXCEPT ![r] = (@ * 3 + 3) \div 4]
  /\ UNCHANGED <<conc, quiet>>

GovernorOnSuccess(r) ==
  /\ backoff' = [backoff EXCEPT ![r] = Decayed(@)]
  /\ conc' = [conc EXCEPT ![r] =
                IF /\ Decayed(backoff[r]) = 0
                   /\ @ < MaxConc
                   /\ quiet[r] = None \/ quiet[r] >= AdditiveAfter
                THEN @ + 1 ELSE @]
  /\ UNCHANGED quiet

-----------------------------------------------------------------------------
(* dispatch_with_governors.                                                *)

\* A positive wait is lengthened by the jitter, a zero wait is not slept.
SleepFor(c, wait) ==
  \E j \in 0 .. Jitter : sleep' = [sleep EXCEPT ![c] = IF wait = 0 THEN 0 ELSE wait + j]

EnterGate(c) ==
  /\ pc[c] = "idle"
  /\ pc' = [pc EXCEPT ![c] = "gate"]
  /\ SleepFor(c, cooling)
  /\ UNCHANGED <<level, cooling, conc, backoff, quiet>>

\* The gate is not looked at again once its sleep is over.
EnterGovernor(c) ==
  /\ pc[c] = "gate"
  /\ sleep[c] = 0
  /\ pc' = [pc EXCEPT ![c] = "governor"]
  /\ SleepFor(c, backoff[RoleOf[c]])
  /\ UNCHANGED <<level, cooling, conc, backoff, quiet>>

StartCall(c) ==
  /\ pc[c] = "governor"
  /\ sleep[c] = 0
  /\ pc' = [pc EXCEPT ![c] = "calling"]
  /\ UNCHANGED <<level, cooling, conc, backoff, quiet, sleep>>

Return(c) ==
  /\ pc[c] = "calling"
  /\ pc' = [pc EXCEPT ![c] = "idle"]
  /\ UNCHANGED sleep

ReturnOk(c) ==
  /\ Return(c)
  /\ GovernorOnSuccess(RoleOf[c])
  /\ GateOnSuccess

ReturnThrottled(c) ==
  /\ Return(c)
  /\ GateOn429
  /\ \E hint \in RetryAfter \cup {0} : GovernorOn429(RoleOf[c], hint)

\* The plan is exhausted: every role is held, the role's own governor and the
\* breaker of the pair are left alone.
ReturnExhausted(c) ==
  /\ Return(c)
  /\ GateOn429
  /\ UNCHANGED <<conc, backoff, quiet>>

ReturnOtherError(c) ==
  /\ Return(c)
  /\ UNCHANGED <<level, cooling, conc, backoff, quiet>>

Elapsed(left) == IF left > 0 THEN left - 1 ELSE 0

Tick ==
  /\ cooling' = Elapsed(cooling)
  /\ quiet' = [r \in Role |-> IF quiet[r] \in 0 .. AdditiveAfter - 1
                              THEN quiet[r] + 1 ELSE quiet[r]]
  /\ sleep' = [c \in Caller |-> Elapsed(sleep[c])]
  /\ UNCHANGED <<level, conc, backoff, pc>>

Next ==
  \/ Tick
  \/ \E c \in Caller :
       \/ EnterGate(c) \/ EnterGovernor(c) \/ StartCall(c)
       \/ ReturnOk(c) \/ ReturnThrottled(c)
       \/ ReturnExhausted(c) \/ ReturnOtherError(c)

Spec == Init /\ [][Next]_vars

\* Time passes, sleeps end, calls return, and callers keep dispatching.
FairSpec ==
  /\ Spec
  /\ WF_vars(Tick)
  /\ \A c \in Caller :
       /\ WF_vars(EnterGate(c) \/ EnterGovernor(c) \/ StartCall(c))
       /\ WF_vars(ReturnOk(c) \/ ReturnThrottled(c)
                  \/ ReturnExhausted(c) \/ ReturnOtherError(c))

-----------------------------------------------------------------------------
(* Properties.                                                             *)

\* A provider is cooling down only while its backoff level is positive, so the
\* successes that bring the level to zero always lift the cooldown as well.
CooldownHasLevel == cooling > 0 => level > 0

\* A 429 never shortens a cooldown that another caller installed: it ends with
\* time, or by the success that clears the backoff (ProviderGate::on_429).
NeverShortened ==
  [][cooling' < cooling =>
       \/ cooling' = cooling - 1 /\ UNCHANGED <<level, pc>>
       \/ level' = 0 /\ cooling' = 0]_vars

Throttled == \E c \in Caller : ReturnThrottled(c) \/ ReturnExhausted(c)

\* Once an upstream stops throttling and every caller is answered again and
\* again, other errors in between or not, its backoffs have decayed to zero for
\* good and every role is back at its full concurrency estimate.
Recovers ==
  /\ <>[][~Throttled]_vars
  /\ \A c \in Caller : []<><<ReturnOk(c)>>_vars
  => <>[](/\ level = 0 /\ cooling = 0
          /\ \A c \in Caller : backoff[RoleOf[c]] = 0 /\ conc[RoleOf[c]] = MaxConc)
=============================================================================
