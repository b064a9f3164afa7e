--------------------------- MODULE ProviderProofs ---------------------------
(* What stands between the callers and a provider: the gate and the        *)
(* governors of Throttle, for every curve of backoffs, every set of roles  *)
(* and callers and every Retry-After an upstream may send, and the circuit *)
(* breaker, for every threshold, window, cooldown and saturation bound.    *)
EXTENDS Throttle, CircuitBreaker, SequenceTheorems, TLAPS

LEMMA DoubledRange ==
  ASSUME NEW b \in 0 .. MaxBackoff
  PROVE  Doubled(b) \in 1 .. MaxBackoff
BY BackoffAssumption DEF Doubled, Least

LEMMA DecayedRange ==
  ASSUME NEW b \in 0 .. MaxBackoff
  PROVE  Decayed(b) \in 0 .. MaxBackoff /\ (b = 0 => Decayed(b) = 0)
BY BackoffAssumption DEF Decayed

LEMMA GateType ==
  ASSUME TypeOK, GateOn429 \/ GateOnSuccess
  PROVE  level' \in 0 .. MaxBackoff /\ cooling' \in 0 .. MaxBackoff
<1>1. CASE GateOn429
  <2>1. Doubled(level) \in 1 .. MaxBackoff
    BY DoubledRange DEF TypeOK
  <2>2. QED BY <1>1, <2>1 DEF GateOn429, Greatest, TypeOK
<1>2. CASE GateOnSuccess
  <2>1. Decayed(level) \in 0 .. MaxBackoff
    BY DecayedRange DEF TypeOK
  <2>2. QED BY <1>2, <2>1, BackoffAssumption DEF GateOnSuccess, TypeOK
<1>3. QED BY <1>1, <1>2

LEMMA GovernorType ==
  ASSUME TypeOK, NEW r \in Role,
         GovernorOnSuccess(r) \/ \E hint \in RetryAfter \cup {0} : GovernorOn429(r, hint)
  PROVE  /\ conc' \in [Role -> 1 .. MaxConc]
         /\ backoff' \in [Role -> 0 .. MaxBackoff]
         /\ quiet' \in [Role -> (0 .. AdditiveAfter) \cup {None}]
<1> USE BackoffAssumption, ConcurrencyAssumption
<1>1. backoff[r] \in 0 .. MaxBackoff /\ conc[r] \in 1 .. MaxConc
  BY DEF TypeOK
<1>2. CASE GovernorOnSuccess(r)
  <2>1. Decayed(backoff[r]) \in 0 .. MaxBackoff
    BY <1>1, DecayedRange
  <2>2. QED BY <1>1, <1>2, <2>1 DEF GovernorOnSuccess, TypeOK
<1>3. ASSUME NEW hint \in RetryAfter \cup {0}, GovernorOn429(r, hint)
      PROVE  /\ conc' \in [Role -> 1 .. MaxConc]
             /\ backoff' \in [Role -> 0 .. MaxBackoff]
             /\ quiet' \in [Role -> (0 .. AdditiveAfter) \cup {None}]
  <2>1. Doubled(backoff[r]) \in 1 .. MaxBackoff
    BY <1>1, DoubledRange
  <2>2. Least(Greatest(Doubled(backoff[r]), hint), MaxBackoff) \in 0 .. MaxBackoff
    BY <2>1 DEF Least, Greatest
  <2>3. Greatest(conc[r] \div 2, 1) \in 1 .. MaxConc
    BY <1>1 DEF Greatest
  <2>4. QED BY <1>3, <2>2, <2>3 DEF GovernorOn429, TypeOK
<1>4. QED BY <1>2, <1>3

LEMMA SleepType ==
  ASSUME TypeOK, NEW c \in Caller, NEW ms \in 0 .. MaxBackoff, SleepFor(c, ms)
  PROVE  sleep' \in [Caller -> 0 .. MaxBackoff + Jitter]
BY BackoffAssumption DEF SleepFor, TypeOK

LEMMA TypeInit == Init => TypeOK
BY BackoffAssumption, ConcurrencyAssumption DEF Init, TypeOK

LEMMA TypeStep == TypeOK /\ [Next]_vars => TypeOK'
<1> SUFFICES ASSUME TypeOK, [Next]_vars PROVE TypeOK'
  OBVIOUS
<1>1. CASE Tick
  <2>1. cooling' \in 0 .. MaxBackoff
    BY <1>1, BackoffAssumption DEF Tick, Elapsed, TypeOK
  <2>2. quiet' \in [Role -> (0 .. AdditiveAfter) \cup {None}]
    BY <1>1, BackoffAssumption DEF Tick, TypeOK
  <2>3. sleep' \in [Caller -> 0 .. MaxBackoff + Jitter]
    BY <1>1, BackoffAssumption DEF Tick, Elapsed, TypeOK
  <2>4. QED BY <1>1, <2>1, <2>2, <2>3 DEF Tick, TypeOK
<1>2. ASSUME NEW c \in Caller, EnterGate(c) PROVE TypeOK'
  <2>1. sleep' \in [Caller -> 0 .. MaxBackoff + Jitter]
    BY <1>2, SleepType DEF EnterGate, TypeOK
  <2>2. QED BY <1>2, <2>1 DEF EnterGate, TypeOK
<1>3. ASSUME NEW c \in Caller, EnterGovernor(c) PROVE TypeOK'
  <2>1. backoff[RoleOf[c]] \in 0 .. MaxBackoff
    BY RoleAssumption DEF TypeOK
  <2>2. sleep' \in [Caller -> 0 .. MaxBackoff + Jitter]
    BY <1>3, <2>1, SleepType DEF EnterGovernor
  <2>3. QED BY <1>3, <2>2 DEF EnterGovernor, TypeOK
<1>4. ASSUME NEW c \in Caller, StartCall(c) PROVE TypeOK'
  BY <1>4 DEF StartCall, TypeOK
<1>5. ASSUME NEW c \in Caller, ReturnOk(c) PROVE TypeOK'
  BY <1>5, RoleAssumption, GateType, GovernorType DEF ReturnOk, Return, TypeOK
<1>6. ASSUME NEW c \in Caller, ReturnThrottled(c) PROVE TypeOK'
  BY <1>6, RoleAssumption, GateType, GovernorType DEF ReturnThrottled, Return, TypeOK
<1>7. ASSUME NEW c \in Caller, ReturnExhausted(c) PROVE TypeOK'
  BY <1>7, GateType DEF ReturnExhausted, Return, TypeOK
<1>8. ASSUME NEW c \in Caller, ReturnOtherError(c) PROVE TypeOK'
  BY <1>8 DEF ReturnOtherError, Return, TypeOK
<1>9. CASE UNCHANGED vars
  BY <1>9 DEF vars, TypeOK
<1>10. QED
  BY <1>1, <1>2, <1>3, <1>4, <1>5, <1>6, <1>7, <1>8, <1>9 DEF Next

\* Backoffs, cooldowns and sleeps stay below the configured cap, whatever
\* Retry-After says, and the concurrency estimate stays within its bounds.
THEOREM TypeCorrect == Spec => []TypeOK
BY TypeInit, TypeStep, PTL DEF Spec

-----------------------------------------------------------------------------

\* What one step may do to the provider gate.
LEMMA GateStep ==
  ASSUME TypeOK, [Next]_vars
  PROVE  \/ UNCHANGED gate
         \/ GateOn429
         \/ GateOnSuccess
         \/ /\ cooling' = Elapsed(cooling)
            /\ UNCHANGED <<level, pc>>
BY DEF Next, vars, gate, Tick, EnterGate, EnterGovernor, StartCall, ReturnOk,
       ReturnThrottled, ReturnExhausted, ReturnOtherError

LEMMA LevelStep == TypeOK /\ CooldownHasLevel /\ [Next]_vars => CooldownHasLevel'
<1> SUFFICES ASSUME TypeOK, CooldownHasLevel, [Next]_vars PROVE CooldownHasLevel'
  OBVIOUS
<1>1. CASE UNCHANGED gate
  BY <1>1 DEF gate, CooldownHasLevel
<1>2. CASE GateOn429
  BY <1>2, DoubledRange DEF GateOn429, CooldownHasLevel, TypeOK
<1>3. CASE GateOnSuccess
  BY <1>3, DecayedRange DEF GateOnSuccess, CooldownHasLevel, TypeOK
<1>4. CASE cooling' = Elapsed(cooling) /\ UNCHANGED <<level, pc>>
  BY <1>4 DEF Elapsed, CooldownHasLevel, TypeOK
<1>5. QED BY <1>1, <1>2, <1>3, <1>4, GateStep

\* A cooldown never outlives its backoff: no caller is held by a provider
\* whose successes have already cleared the backoff.
THEOREM CooldownHasLevelCorrect == Spec => []CooldownHasLevel
<1>1. Init => CooldownHasLevel
  BY DEF Init, CooldownHasLevel
<1>2. QED BY <1>1, LevelStep, TypeCorrect, PTL DEF Spec

\* Concurrent 429s only ever extend the cooldown of the provider.
THEOREM NeverShortenedCorrect == Spec => NeverShortened
<1> DEFINE A == cooling' < cooling =>
                  \/ cooling' = cooling - 1 /\ UNCHANGED <<level, pc>>
                  \/ level' = 0 /\ cooling' = 0
<1>1. TypeOK /\ [Next]_vars => [A]_vars
  <2> SUFFICES ASSUME TypeOK, [Next]_vars, cooling' < cooling
               PROVE  A
    OBVIOUS
  <2>1. CASE UNCHANGED gate
    BY <2>1 DEF gate, TypeOK
  <2>2. CASE GateOn429
    BY <2>2, DoubledRange DEF GateOn429, Greatest, TypeOK
  <2>3. CASE GateOnSuccess
    BY <2>3 DEF GateOnSuccess, TypeOK
  <2>4. CASE cooling' = Elapsed(cooling) /\ UNCHANGED <<level, pc>>
    BY <2>4 DEF Elapsed, TypeOK
  <2>5. QED BY <2>1, <2>2, <2>3, <2>4, GateStep
<1>2. QED BY <1>1, TypeCorrect, PTL DEF Spec, NeverShortened

-----------------------------------------------------------------------------
(* The circuit breaker: its counter and its state agree.                   *)

LEMMA CountedType ==
  ASSUME BreakerTypeOK
  PROVE  /\ Counted \in 1 .. MaxFailures
         /\ failures >= Threshold /\ ~Expired => Counted >= Threshold
BY BreakerAssumption DEF Counted, BreakerTypeOK

LEMMA BreakerTypeInit == BreakerInit => BreakerTypeOK
BY BreakerAssumption DEF BreakerInit, BreakerTypeOK

LEMMA BreakerTypeStep == BreakerTypeOK /\ [BreakerNext]_breakerVars => BreakerTypeOK'
<1> SUFFICES ASSUME BreakerTypeOK, [BreakerNext]_breakerVars PROVE BreakerTypeOK'
  OBVIOUS
<1> USE BreakerAssumption DEF BreakerTypeOK
<1>1. CASE BreakerTick
  <2>1. openAge' \in 0 .. Cooldown /\ lastAge' \in (0 .. Window + 1) \cup {Never}
    BY <1>1, NeverAssumption DEF BreakerTick, Older
  <2>2. wait' \in [Task -> 0 .. Cooldown]
    BY <1>1 DEF BreakerTick
  <2>3. QED BY <1>1, <2>1, <2>2 DEF BreakerTick
<1>2. CASE Trip
  BY <1>2 DEF Trip
<1>3. ASSUME NEW c \in Task, Enter(c) PROVE BreakerTypeOK'
  BY <1>3 DEF Enter
<1>4. ASSUME NEW c \in Task, Sleep(c) PROVE BreakerTypeOK'
  BY <1>4 DEF Sleep
<1>5. ASSUME NEW c \in Task, Wake(c) PROVE BreakerTypeOK'
  BY <1>5 DEF Wake
<1>6. ASSUME NEW c \in Task, CallOk(c) PROVE BreakerTypeOK'
  BY <1>6 DEF CallOk, RecordSuccess
<1>7. ASSUME NEW c \in Task, CallErr(c) PROVE BreakerTypeOK'
  <2>1. failures' \in 0 .. MaxFailures
    BY <1>7, CountedType DEF CallErr, RecordFailure
  <2>2. QED BY <1>7, <2>1 DEF CallErr, RecordFailure
<1>8. CASE UNCHANGED breakerVars
  BY <1>8 DEF breakerVars
<1>9. QED
  BY <1>1, <1>2, <1>3, <1>4, <1>5, <1>6, <1>7, <1>8 DEF BreakerNext

\* The breaker's state keeps its types; in particular the counter saturates.
THEOREM BreakerTypeCorrect == BreakerSpec => []BreakerTypeOK
BY BreakerTypeInit, BreakerTypeStep, PTL DEF BreakerSpec

LEMMA CountStep ==
  BreakerTypeOK /\ StateMatchesCount /\ [BreakerNext]_breakerVars => StateMatchesCount'
<1> SUFFICES ASSUME BreakerTypeOK, StateMatchesCount, [BreakerNext]_breakerVars
             PROVE  StateMatchesCount'
  OBVIOUS
<1> USE BreakerAssumption DEF StateMatchesCount
<1>1. CASE UNCHANGED <<state, failures>>
  BY <1>1
<1>2. CASE Trip
  BY <1>2 DEF Trip
<1>3. ASSUME NEW c \in Task, Enter(c) PROVE StateMatchesCount'
  BY <1>3 DEF Enter, PreCheckAdmits
<1>4. ASSUME NEW c \in Task, CallOk(c) PROVE StateMatchesCount'
  BY <1>4 DEF CallOk, RecordSuccess
<1>5. ASSUME NEW c \in Task, CallErr(c) PROVE StateMatchesCount'
  <2>1. CASE Counted >= Threshold
    BY <1>5, <2>1, CountedType DEF CallErr, RecordFailure
  <2>2. CASE Counted < Threshold
    <3>1. Expired \/ failures < Threshold
      BY <2>2, CountedType DEF BreakerTypeOK
    <3>2. ~(Counted >= Threshold) /\ failures' = Counted
      BY <1>5, <2>2, CountedType DEF CallErr, RecordFailure
    <3>3. state' = IF Expired THEN "closed" ELSE state
      BY <1>5, <3>2 DEF CallErr, RecordFailure
    <3>4. state' = "closed"
      BY <3>1, <3>3
    <3>5. QED BY <2>2, <3>2, <3>4
  <2>3. QED BY <2>1, <2>2, CountedType
<1>6. QED
  BY <1>1, <1>2, <1>3, <1>4, <1>5 DEF BreakerNext, BreakerTick, Sleep, Wake, breakerVars

\* An open or half-open breaker always stands on a full streak, a closed one
\* never does, whatever the order of calls, failures, trips and elapsed time.
THEOREM StateMatchesCountCorrect == BreakerSpec => []StateMatchesCount
<1>1. BreakerInit => StateMatchesCount
  BY BreakerAssumption DEF BreakerInit, StateMatchesCount
<1>2. QED BY <1>1, CountStep, BreakerTypeCorrect, PTL DEF BreakerSpec

-----------------------------------------------------------------------------
(* The streak behind the counter: while the breaker is closed the last     *)
(* `failures` entries of the history lie within the window of each other,  *)
(* and the instant the code keeps is not younger than the last of them.    *)

Unbroken(s, n) ==
  /\ n <= Len(s)
  /\ \A i \in 1 .. Len(s) - 1 : i > Len(s) - n => s[i] - s[i + 1] <= Window

Streak ==
  /\ recent \in Seq(0 .. Horizon)
  /\ Len(recent) <= Threshold
  /\ state = "closed" =>
       /\ Unbroken(recent, failures)
       /\ failures > 0 =>
            lastAge # Never /\ (lastAge <= Window => recent[Len(recent)] <= lastAge)

LEMMA HorizonType == Horizon \in Nat
BY BreakerAssumption DEF Horizon

\* A failure is put at the end of the history and the oldest may fall out.
LEMMA Remembered ==
  ASSUME recent \in Seq(0 .. Horizon), Len(recent) <= Threshold,
         NEW s, s = LastOf(Append(recent, 0))
  PROVE  /\ s \in Seq(0 .. Horizon)
         /\ Len(s) \in 1 .. Threshold
         /\ Len(s) = IF Len(recent) < Threshold THEN Len(recent) + 1 ELSE Threshold
         /\ s[Len(s)] = 0
         /\ \A i \in 1 .. Len(s) - 1 : s[i] = recent[i + Len(recent) + 1 - Len(s)]
<1> USE BreakerAssumption, HorizonType
<1>0. PICK a : a = Append(recent, 0)
  OBVIOUS
<1>1. /\ a \in Seq(0 .. Horizon) /\ Len(a) = Len(recent) + 1 /\ Len(recent) \in Nat
      /\ a[Len(recent) + 1] = 0
      /\ \A i \in 1 .. Len(recent) : a[i] = recent[i]
  <2>1. 0 \in 0 .. Horizon
    OBVIOUS
  <2>2. QED BY <1>0, <2>1, AppendProperties, LenProperties
<1>2. s = IF Len(a) > Threshold THEN Tail(a) ELSE a
  BY <1>0 DEF LastOf
<1>3. CASE Len(recent) < Threshold
  <2>1. s = a
    BY <1>1, <1>2, <1>3
  <2>2. Len(s) = Len(recent) + 1 /\ s \in Seq(0 .. Horizon)
    BY <1>1, <2>1
  <2>3. Len(s) \in 1 .. Threshold
    BY <1>1, <1>3, <2>2
  <2>4. s[Len(s)] = 0
    BY <1>1, <2>1, <2>2
  <2>5. ASSUME NEW i \in 1 .. Len(s) - 1
        PROVE  s[i] = recent[i + Len(recent) + 1 - Len(s)]
    <3>1. Len(recent) \in Nat /\ Len(s) = Len(recent) + 1
      BY <1>1, <2>2
    <3>2. i \in 1 .. Len(recent)
      BY <3>1
    <3>3. i + Len(recent) + 1 - Len(s) = i
      BY <3>1, <3>2
    <3>4. s[i] = recent[i]
      BY <1>1, <2>1, <3>2
    <3>5. QED BY <3>3, <3>4
  <2>6. QED BY <1>3, <2>2, <2>3, <2>4, <2>5
<1>4. CASE Len(recent) = Threshold
  <2>1. s = Tail(a) /\ a # << >>
    BY <1>1, <1>2, <1>4
  <2>2. /\ s \in Seq(0 .. Horizon) /\ Len(s) = Len(a) - 1
        /\ \A i \in 1 .. Len(s) : s[i] = a[i + 1]
    <3>1. /\ Tail(a) \in Seq(0 .. Horizon) /\ Len(Tail(a)) = Len(a) - 1
          /\ \A i \in 1 .. Len(Tail(a)) : Tail(a)[i] = a[i + 1]
      BY <1>1, <2>1, HeadTailProperties, Zenon
    <3>2. QED BY <2>1, <3>1
  <2>3. Len(s) = Threshold /\ Len(recent) = Threshold
    BY <1>1, <1>4, <2>2
  <2>4. s[Threshold] = 0
    BY <1>1, <2>2, <2>3
  <2>5. ASSUME NEW i \in 1 .. Threshold - 1 PROVE s[i] = recent[i + 1]
    <3>1. i \in 1 .. Len(s) /\ i + 1 \in 1 .. Len(recent)
      BY <2>3
    <3>2. QED BY <1>1, <2>2, <3>1
  <2>6. \A i \in 1 .. Threshold - 1 : i + Threshold + 1 - Threshold = i + 1
    OBVIOUS
  <2>7. QED BY <2>2, <2>3, <2>4, <2>5, <2>6
<1>5. QED BY <1>1, <1>3, <1>4

\* What a failure makes of the streak.
LEMMA FailureStreak ==
  ASSUME BreakerTypeOK, StateMatchesCount, Streak, RecordFailure
  PROVE  /\ recent' \in Seq(0 .. Horizon)
         /\ Len(recent') \in 1 .. Threshold
         /\ recent'[Len(recent')] = 0
         /\ (state = "closed" \/ Expired) => Unbroken(recent', Counted) /\ Counted <= Threshold
<1> USE BreakerAssumption, HorizonType
<1>1. recent \in Seq(0 .. Horizon) /\ Len(recent) <= Threshold
      /\ recent' = LastOf(Append(recent, 0))
  BY DEF Streak, RecordFailure
<1>2. /\ recent' \in Seq(0 .. Horizon)
      /\ Len(recent') \in 1 .. Threshold
      /\ Len(recent') = IF Len(recent) < Threshold THEN Len(recent) + 1 ELSE Threshold
      /\ recent'[Len(recent')] = 0
      /\ \A i \in 1 .. Len(recent') - 1 :
           recent'[i] = recent[i + Len(recent) + 1 - Len(recent')]
  BY <1>1, Remembered
<1>3. Len(recent) \in Nat /\ Len(recent') \in Nat
  BY <1>1, <1>2, LenProperties
<1>4. CASE Expired \/ (state = "closed" /\ failures = 0)
  <2>1. Counted = 1
    BY <1>4 DEF Counted
  <2>2. QED BY <1>2, <1>3, <2>1 DEF Unbroken
<1>5. CASE state = "closed" /\ ~Expired /\ failures # 0
  <2>1. failures \in 1 .. Threshold - 1 /\ Counted = failures + 1
    BY <1>5 DEF BreakerTypeOK, StateMatchesCount, Counted
  <2>2. Unbroken(recent, failures) /\ recent[Len(recent)] <= Window /\ Len(recent) >= 1
    BY <1>3, <1>5, <2>1, NeverAssumption DEF Streak, Expired, BreakerTypeOK, Unbroken
  <2>3. Counted <= Len(recent')
    BY <1>2, <1>3, <2>1, <2>2 DEF Unbroken
  <2>4. ASSUME NEW i \in 1 .. Len(recent') - 1, i > Len(recent') - Counted
        PROVE  recent'[i] - recent'[i + 1] <= Window
    <3> DEFINE j == i + Len(recent) + 1 - Len(recent')
    <3>1. j \in 1 .. Len(recent) /\ j > Len(recent) - failures /\ recent'[i] = recent[j]
      <4>1. recent'[i] = recent[j]
        BY <1>2
      <4>2. Len(recent') <= Len(recent) + 1 /\ i \in Int /\ 1 <= i /\ i <= Len(recent') - 1
        BY <1>2, <1>3
      <4>3. i > Len(recent') - failures - 1 /\ failures \in Int
        BY <1>3, <2>1, <2>4
      <4>4. QED BY <1>3, <4>1, <4>2, <4>3
    <3>2. CASE i = Len(recent') - 1
      <4>1. j = Len(recent) /\ i + 1 = Len(recent')
        BY <1>3, <3>2
      <4>2. recent'[i + 1] = 0 /\ recent[Len(recent)] \in 0 .. Horizon
        BY <1>1, <1>2, <2>2, <4>1, ElementOfSeq
      <4>3. QED BY <2>2, <3>1, <4>1, <4>2
    <3>3. CASE i < Len(recent') - 1
      <4>1. i + 1 \in 1 .. Len(recent') - 1 /\ j \in 1 .. Len(recent) - 1
            /\ i + 1 + Len(recent) + 1 - Len(recent') = j + 1
        BY <1>3, <3>1, <3>3
      <4>2. recent'[i + 1] = recent[j + 1]
        BY <1>2, <4>1
      <4>3. recent[j] - recent[j + 1] <= Window
        BY <2>2, <3>1, <4>1 DEF Unbroken
      <4>4. QED BY <3>1, <4>2, <4>3
    <3>4. QED BY <1>3, <3>2, <3>3
  <2>5. QED BY <1>2, <2>1, <2>3, <2>4 DEF Unbroken
<1>6. QED BY <1>2, <1>4, <1>5

LEMMA StreakStep ==
  BreakerTypeOK /\ StateMatchesCount /\ Streak /\ [BreakerNext]_breakerVars => Streak'
<1> SUFFICES ASSUME BreakerTypeOK, StateMatchesCount, Streak, [BreakerNext]_breakerVars
             PROVE  Streak'
  OBVIOUS
<1> USE BreakerAssumption, HorizonType
<1>1. CASE BreakerTick
  <2>1. recent \in Seq(0 .. Horizon) /\ Len(recent) \in Nat /\ DOMAIN recent = 1 .. Len(recent)
        /\ \A i \in 1 .. Len(recent) : recent[i] \in 0 .. Horizon
    BY ElementOfSeq, LenProperties DEF Streak
  <2>2. \A i \in 1 .. Len(recent) : recent'[i] = Older(recent[i], Horizon)
    BY <1>1, <2>1 DEF BreakerTick
  <2>3. recent' = [i \in 1 .. Len(recent) |-> Older(recent[i], Horizon)]
    BY <1>1, <2>1 DEF BreakerTick
  <2>4. \A i \in 1 .. Len(recent) : Older(recent[i], Horizon) \in 0 .. Horizon
    BY <2>1 DEF Older
  <2>5. recent' \in Seq(0 .. Horizon) /\ Len(recent') = Len(recent)
    BY <2>1, <2>3, <2>4, IsASeq
  <2>6. ASSUME NEW i \in 1 .. Len(recent) - 1, recent[i] - recent[i + 1] <= Window
        PROVE  recent'[i] - recent'[i + 1] <= Window
    <3>1. i \in 1 .. Len(recent) /\ i + 1 \in 1 .. Len(recent)
      BY <2>1
    <3>2. QED BY <2>1, <2>2, <2>6, <3>1 DEF Older
  <2>7. Unbroken(recent, failures) => Unbroken(recent', failures)
    BY <2>5, <2>6 DEF Unbroken
  <2>8. ASSUME failures > 0, state = "closed"
        PROVE  lastAge' # Never /\ (lastAge' <= Window => recent'[Len(recent')] <= lastAge')
    <3>1. lastAge \in 0 .. Window + 1
          /\ (lastAge <= Window => recent[Len(recent)] <= lastAge)
      BY <2>8 DEF Streak, BreakerTypeOK
    <3>2. lastAge' = Older(lastAge, Window + 1)
      BY <1>1, <3>1, NeverAssumption DEF BreakerTick
    <3>3. Len(recent) \in 1 .. Len(recent)
      BY <2>1, <2>8 DEF Streak, Unbroken, BreakerTypeOK
    <3>4. QED BY <2>1, <2>2, <2>5, <3>1, <3>2, <3>3, NeverAssumption DEF Older
  <2>9. QED BY <1>1, <2>5, <2>7, <2>8 DEF BreakerTick, Streak
<1>2. CASE Trip
  BY <1>2 DEF Trip, Streak
<1>3. ASSUME NEW c \in Task, Enter(c) PROVE Streak'
  BY <1>3 DEF Enter, Streak, Unbroken
<1>4. ASSUME NEW c \in Task, CallOk(c) PROVE Streak'
  BY <1>4, EmptySeq DEF CallOk, RecordSuccess, Streak, Unbroken
<1>5. ASSUME NEW c \in Task, CallErr(c) PROVE Streak'
  <2>1. RecordFailure
    BY <1>5 DEF CallErr
  <2>2. state' = "closed" => state = "closed" \/ Expired
    BY <2>1 DEF RecordFailure
  <2>3. failures' = Counted /\ lastAge' = 0
    BY <2>1 DEF RecordFailure
  <2>4. QED BY <2>1, <2>2, <2>3, FailureStreak, NeverAssumption DEF Streak
<1>6. CASE UNCHANGED <<state, failures, lastAge, recent>>
  BY <1>6 DEF Streak, Unbroken
<1>7. QED
  BY <1>1, <1>2, <1>3, <1>4, <1>5, <1>6 DEF BreakerNext, Sleep, Wake, breakerVars

\* Only an unbroken streak opens a closed breaker: Threshold failures without a
\* success in between and without a gap longer than the window, whichever
\* callers made them and however long each of their calls took.
THEOREM OpensOnStreakCorrect == BreakerSpec => OpensOnStreak
<1> DEFINE A == (state = "closed" /\ \E c \in Task : CallErr(c) /\ state' = "open")
                  => /\ Len(recent') = Threshold
                     /\ \A i \in 1 .. Threshold - 1 : recent'[i] - recent'[i + 1] <= Window
<1>1. BreakerInit => Streak
  BY BreakerAssumption, EmptySeq DEF BreakerInit, Streak, Unbroken
<1>2. BreakerTypeOK /\ StateMatchesCount /\ Streak => [A]_breakerVars
  <2> SUFFICES ASSUME BreakerTypeOK, StateMatchesCount, Streak, state = "closed",
                      NEW c \in Task, CallErr(c), state' = "open"
               PROVE  /\ Len(recent') = Threshold
                      /\ \A i \in 1 .. Threshold - 1 : recent'[i] - recent'[i + 1] <= Window
    OBVIOUS
  <2>1. RecordFailure
    BY DEF CallErr
  <2>2. Counted \in Int /\ Counted >= Threshold
    BY <2>1, CountedType, BreakerAssumption DEF RecordFailure
  <2>3. /\ Len(recent') \in 1 .. Threshold
        /\ Unbroken(recent', Counted) /\ Counted <= Threshold
    BY <2>1, FailureStreak
  <2>4. QED BY <2>2, <2>3, BreakerAssumption DEF Unbroken
<1>3. QED
  BY <1>1, <1>2, StreakStep, BreakerTypeCorrect, StateMatchesCountCorrect, PTL
  DEF BreakerSpec, OpensOnStreak
=============================================================================
