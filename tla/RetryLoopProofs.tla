-------------------------- MODULE RetryLoopProofs --------------------------
(* What one session of call_with_retry_parse may do, for every mode,       *)
(* strategy and ceiling a caller passes.                                   *)
EXTENDS RetryLoop, TLAPS

\* A session that has asked nothing yet is in its first attempt, or about to
\* make its second; it has failed in the lookup, or its only failure so far
\* is an answer of the cache that did not parse. A first failure of that
\* kind always leaves a second attempt to make.
Silent ==
  /\ sends = 0 => /\ attempt = 0 \/ pc = "call"
                  /\ pc # "repair"
                  /\ pc = "err" => failure = "Cache"
                  /\ pc = "decide" => failure = "Parse"
  /\ attempt = 0 /\ pc \notin {"repair", "ok", "err"} => budget = None

LEMMA BudgetShape ==
  ASSUME NEW m, NEW r
  PROVE  /\ budget_for(m, r) \in [max : 1 .. 6, repair : BOOLEAN]
         /\ budget_for(m, "Parse").max = 5
  <1>1. MaxAttempts(m, r) \in 1 .. 6
    BY DEF MaxAttempts
  <1>2. MaxAttempts(m, "Parse") = 5
    BY DEF MaxAttempts
  <1> QED BY <1>1, <1>2 DEF budget_for

LEMMA ReasonShape == \A e \in ProviderError : reason_from_error(e) \in Reason
  BY DEF ProviderError, RetriableError, reason_from_error, Reason

LEMMA NoneIsNoBudget == None \notin [max : 1 .. 6, repair : BOOLEAN]
  BY NoneAssumption

LEMMA NoAnswerShape == NoAnswer \in Answer
  BY DEF NoAnswer, Answer, Kind

LEMMA TypeStep == TypeOK /\ [Next]_vars => TypeOK'
  <1> SUFFICES ASSUME TypeOK, [Next]_vars PROVE TypeOK'
    OBVIOUS
  <1> USE DEF TypeOK, Answer, Kind, Control, Reason
  <1>1. CASE CacheHit
    <2>1. cached # None /\ cached # Undecodable
      BY <1>1 DEF CacheHit, Lookup
    <2> QED BY <1>1, <2>1 DEF CacheHit
  <1>2. CASE DispatchOk
    BY <1>2 DEF DispatchOk
  <1>3. CASE DispatchErr
    BY <1>3, ReasonShape DEF DispatchErr
  <1>4. CASE Continue
    BY <1>4 DEF Continue, NeedsContinuation, MaxContinuations
  <1>5. CASE Stitched
    BY <1>5 DEF Stitched
  <1>6. CASE Parse
    BY <1>6 DEF Parse
  <1>7. CASE Prefill
    BY <1>7 DEF Prefill
  <1>8. CASE Decide
    <2>1. Frozen \in [max : 1 .. 6, repair : BOOLEAN]
      BY BudgetShape DEF Frozen
    <2> QED BY <1>8, <2>1 DEF Decide
  <1>9. CASE Repair
    BY <1>9 DEF Repair
  <1>10. CASE Resume
    <2>1. resp' \in Answer /\ cached' \in Answer \cup {None, Undecodable}
      BY <1>10, NoAnswerShape DEF Resume
    <2>2. budget' \in [max : 1 .. 6, repair : BOOLEAN] \cup {None}
      BY <1>10 DEF Resume
    <2>3. prefilled' \in BOOLEAN /\ repairOn' \in BOOLEAN
      BY <1>10 DEF Resume
    <2> QED BY <1>10, <2>1, <2>2, <2>3 DEF Resume
  <1>11. CASE CacheErr
    BY <1>11 DEF CacheErr
  <1>12. CASE Evict
    BY <1>12 DEF Evict
  <1>13. CASE UNCHANGED vars
    BY <1>13 DEF vars
  <1> QED
    BY <1>1, <1>2, <1>3, <1>4, <1>5, <1>6, <1>7, <1>8, <1>9, <1>10, <1>11,
       <1>12, <1>13
    DEF Next, Step

LEMMA TypeInit == Init => TypeOK
  <1> SUFFICES ASSUME Init PROVE TypeOK
    OBVIOUS
  <1>1. resp \in Answer /\ cached \in Answer \cup {None, Undecodable}
    BY NoAnswerShape DEF Init
  <1>2. budget \in [max : 1 .. 6, repair : BOOLEAN] \cup {None}
    BY DEF Init
  <1>3. prefilled \in BOOLEAN /\ repairOn \in BOOLEAN
    BY DEF Init
  <1> QED BY <1>1, <1>2, <1>3 DEF Init, TypeOK, Control, Reason

\* The state of every session stays within its types: the answer kept and
\* stored is one the provider gave, the budget a row of the table.
THEOREM TypeCorrect == Spec => []TypeOK
  BY TypeInit, TypeStep, PTL DEF Spec

LEMMA SilentStep == TypeOK /\ Silent /\ [Next]_vars => Silent'
  <1> SUFFICES ASSUME TypeOK, Silent, [Next]_vars PROVE Silent'
    OBVIOUS
  <1> USE DEF Silent, TypeOK
  <1>1. CASE CacheHit
    BY <1>1 DEF CacheHit, Lookup, Consults
  <1>2. CASE DispatchOk
    BY <1>2 DEF DispatchOk
  <1>3. CASE DispatchErr
    BY <1>3 DEF DispatchErr
  <1>4. CASE Continue
    BY <1>4 DEF Continue
  <1>5. CASE Stitched
    BY <1>5 DEF Stitched
  <1>6. CASE Parse
    BY <1>6 DEF Parse
  <1>7. CASE Prefill
    BY <1>7 DEF Prefill
  <1>8. CASE Decide
    <2>1. CASE sends = 0
      <3>1. attempt = 0 /\ budget = None /\ failure = "Parse"
        BY <1>8, <2>1 DEF Decide
      <3>2. Frozen.max = 5
        BY <3>1, BudgetShape DEF Frozen, Reason
      <3>3. ceiling \in Nat \ {0}
        BY CeilingAssumption
      <3>4. ~Exhausted
        BY <3>1, <3>2, <3>3 DEF Exhausted, Least
      <3> QED BY <1>8, <2>1, <3>1, <3>4 DEF Decide
    <2>2. CASE sends # 0
      BY <1>8, <2>2 DEF Decide
    <2> QED BY <2>1, <2>2
  <1>9. CASE Repair
    BY <1>9 DEF Repair
  <1>10. CASE Resume
    BY <1>10 DEF Resume
  <1>11. CASE CacheErr
    BY <1>11 DEF CacheErr, Lookup, Consults
  <1>12. CASE Evict
    BY <1>12 DEF Evict
  <1>13. CASE UNCHANGED vars
    BY <1>13 DEF vars
  <1> QED
    BY <1>1, <1>2, <1>3, <1>4, <1>5, <1>6, <1>7, <1>8, <1>9, <1>10, <1>11,
       <1>12, <1>13
    DEF Next, Step

\* phase.rs:3337-3339: whatever the stored answer is worth, a session that
\* got it asks the provider itself before it fails; one that fails without
\* a request failed in the lookup of its first attempt.
THEOREM NotPoisonedCorrect == Spec => []NotPoisoned
  <1>1. Init => Silent
    BY DEF Init, Silent
  <1>2. TypeOK /\ Silent => NotPoisoned
    BY DEF TypeOK, Silent, NotPoisoned
  <1> QED BY <1>1, <1>2, TypeInit, TypeStep, SilentStep, PTL DEF Spec

-----------------------------------------------------------------------------
(* The requests a session may put on the wire.                             *)

\* What the attempt in progress may have sent so far.
Own ==
  CASE pc = "call" -> 0
    [] pc = "got"  -> 1 + conts
    [] OTHER       -> 1 + MaxContinuations

Extra ==
  (IF prefilled THEN 1 ELSE 0) + (IF pc \in {"ok", "err"} /\ repairOn THEN 1 ELSE 0)

Accounted ==
  /\ conts <= MaxContinuations
  /\ sends <= (1 + MaxContinuations) * attempt + Own + Extra
  /\ attempt = 0 \/ (budget # None /\ attempt + 1 <= Least(budget.max, ceiling + 1))
  /\ budget # None /\ attempt = 0 => 1 <= Least(budget.max, ceiling + 1)
  /\ prefilled => strategy = "PromptPrefill"
  /\ pc = "prefill" => strategy = "PromptPrefill" /\ ~prefilled
  /\ pc = "repair" => repairOn

LEMMA AccountedStep == TypeOK /\ Accounted /\ [Next]_vars => Accounted'
  <1> SUFFICES ASSUME TypeOK, Accounted, [Next]_vars PROVE Accounted'
    OBVIOUS
  <1>0. /\ MaxContinuations \in {0, 2}
        /\ strategy' = strategy => MaxContinuations' = MaxContinuations
    BY DEF MaxContinuations
  <1>a. ceiling \in Nat
    BY CeilingAssumption DEF TypeOK
  <1> DEFINE K == MaxContinuations
  <1>b. K \in {0, 2} /\ K' \in {0, 2} /\ (strategy' = strategy => K' = K)
    BY <1>0 DEF MaxContinuations
  <1>c. Accounted <=>
          /\ conts <= K
          /\ sends <= (1 + K) * attempt
                      + (IF pc = "call" THEN 0 ELSE IF pc = "got" THEN 1 + conts ELSE 1 + K)
                      + Extra
          /\ attempt = 0 \/ (budget # None /\ attempt + 1 <= Least(budget.max, ceiling + 1))
          /\ budget # None /\ attempt = 0 => 1 <= Least(budget.max, ceiling + 1)
          /\ prefilled => strategy = "PromptPrefill"
          /\ pc = "prefill" => strategy = "PromptPrefill" /\ ~prefilled
          /\ pc = "repair" => repairOn
    BY DEF Accounted, Own
  <1>d. Accounted' <=>
          /\ conts' <= K'
          /\ sends' <= (1 + K') * attempt'
                      + (IF pc' = "call" THEN 0 ELSE IF pc' = "got" THEN 1 + conts' ELSE 1 + K')
                      + Extra'
          /\ attempt' = 0 \/ (budget' # None /\ attempt' + 1 <= Least(budget'.max, ceiling' + 1))
          /\ budget' # None /\ attempt' = 0 => 1 <= Least(budget'.max, ceiling' + 1)
          /\ prefilled' => strategy' = "PromptPrefill"
          /\ pc' = "prefill" => strategy' = "PromptPrefill" /\ ~prefilled'
          /\ pc' = "repair" => repairOn'
    BY DEF Accounted, Own, Least
  <1> HIDE DEF K
  <1> USE <1>a, <1>b, <1>c, <1>d DEF TypeOK, Extra
  <1>1. CASE CacheHit
    BY <1>1 DEF CacheHit
  <1>2. CASE DispatchOk
    BY <1>2 DEF DispatchOk
  <1>3. CASE DispatchErr
    BY <1>3 DEF DispatchErr
  <1>4. CASE Continue
    BY <1>4 DEF Continue, NeedsContinuation, K
  <1>5. CASE Stitched
    BY <1>5 DEF Stitched
  <1>6. CASE Parse
    BY <1>6 DEF Parse
  <1>7. CASE Prefill
    BY <1>7 DEF Prefill
  <1>8. CASE Decide
    <2>1. Frozen \in [max : 1 .. 6, repair : BOOLEAN] /\ (budget # None => Frozen = budget)
      BY BudgetShape DEF Frozen
    <2>2. Frozen # None
      BY <2>1, NoneIsNoBudget
    <2>3. PICK f \in [max : 1 .. 6, repair : BOOLEAN] :
            f = Frozen /\ f # None /\ (budget # None => f = budget)
      BY <2>1, <2>2
    <2>4. /\ pc = "decide" /\ budget' = f /\ f.max \in 1 .. 6
          /\ Exhausted <=> attempt + 1 >= Least(f.max, ceiling + 1)
      BY <1>8, <2>3 DEF Decide, Exhausted
    <2>5. CASE ~Exhausted
      <3>1. attempt' = attempt + 1 /\ pc' = "call" /\ Extra' = Extra
        BY <1>8, <2>5, <2>4 DEF Decide
      <3>2. attempt' + 1 <= Least(budget'.max, ceiling' + 1)
        BY <1>8, <2>4, <2>5, <3>1 DEF Decide, Least
      <3> QED BY <1>8, <2>3, <2>4, <3>1, <3>2 DEF Decide
    <2>6. CASE Exhausted
      <3>1. attempt' = attempt /\ pc' \in {"repair", "err"}
        BY <1>8, <2>6 DEF Decide
      <3>2. pc' = "repair" => repairOn
        BY <1>8, <2>6 DEF Decide
      <3>3. attempt' = 0 \/ (budget' # None /\ attempt' + 1 <= Least(budget'.max, ceiling' + 1))
        BY <1>8, <2>3, <2>4, <3>1 DEF Decide
      <3>4. 1 <= Least(budget'.max, ceiling' + 1)
        BY <1>8, <2>4 DEF Decide, Least
      <3> QED BY <1>8, <3>1, <3>2, <3>3, <3>4 DEF Decide
    <2> QED BY <2>5, <2>6
  <1>9. CASE Repair
    BY <1>9 DEF Repair
  <1>10. CASE Resume
    BY <1>10 DEF Resume
  <1>11. CASE CacheErr
    BY <1>11 DEF CacheErr
  <1>12. CASE Evict
    BY <1>12 DEF Evict
  <1>13. CASE UNCHANGED vars
    BY <1>13 DEF vars
  <1> QED
    BY <1>1, <1>2, <1>3, <1>4, <1>5, <1>6, <1>7, <1>8, <1>9, <1>10, <1>11,
       <1>12, <1>13
    DEF Next, Step

\* phase.rs:3251-3253: the requests of one session are bounded by the budget
\* and by the caller's ceiling, continuations, prefill and repair included.
THEOREM WireBoundedCorrect == Spec => []WireBounded
  <1>1. Init => Accounted
    BY DEF Init, Accounted, Own, Extra, MaxContinuations
  <1>2. TypeOK /\ Accounted => WireBounded
    <2> SUFFICES ASSUME TypeOK, Accounted PROVE WireBounded
      OBVIOUS
    <2> DEFINE K == MaxContinuations
               cap == Least(IF budget = None THEN 1 ELSE budget.max, ceiling + 1)
    <2>1. K \in {0, 2} /\ ceiling \in Nat
      BY CeilingAssumption DEF TypeOK, MaxContinuations
    <2>2. cap \in Nat /\ attempt + 1 <= cap
      BY <2>1 DEF TypeOK, Accounted, Least
    <2>3. sends <= (1 + K) * attempt + Own + Extra
      BY DEF Accounted
    <2>4. Own <= 1 + K /\ Own \in Nat
      BY <2>1 DEF Own, TypeOK, Accounted
    <2>5. /\ Extra \in Nat
          /\ Extra <= (IF strategy = "PromptPrefill" THEN 1 ELSE 0) + (IF repairOn THEN 1 ELSE 0)
      BY DEF Extra, Accounted, TypeOK
    <2> HIDE DEF K, cap
    <2>6. (1 + K) * attempt + 1 + K <= (1 + K) * cap
      BY <2>1, <2>2 DEF TypeOK
    <2>7. (1 + K) * attempt \in Nat /\ (1 + K) * cap \in Nat
      BY <2>1, <2>2 DEF TypeOK
    <2>8. sends <= (1 + K) * cap + (IF strategy = "PromptPrefill" THEN 1 ELSE 0)
                                 + (IF repairOn THEN 1 ELSE 0)
      BY <2>1, <2>3, <2>4, <2>5, <2>6, <2>7 DEF TypeOK
    <2> QED BY <2>8 DEF WireBounded, K, cap
  <1> QED BY <1>1, <1>2, TypeInit, TypeStep, AccountedStep, PTL DEF Spec
-----------------------------------------------------------------------------
(* When the repair call is made.                                           *)

\* The reason "Parse" is only on record for the answer at hand, so a repair
\* chosen for it is a repair of that answer.
Justified ==
  /\ pc \in {"prefill", "repair"} => failure = "Parse"
  /\ pc \in {"prefill", "decide", "repair"} /\ failure = "Parse" => ~Parses(strategy, resp)
  /\ pc = "repair" => /\ budget # None /\ budget.repair
                      /\ attempt + 1 >= Least(budget.max, ceiling + 1)

LEMMA NoParseError == \A e \in ProviderError : reason_from_error(e) # "Parse"
  BY DEF ProviderError, RetriableError, reason_from_error

LEMMA JustifiedStep == TypeOK /\ Justified /\ [Next]_vars => Justified'
  <1> SUFFICES ASSUME TypeOK, Justified, [Next]_vars PROVE Justified'
    OBVIOUS
  <1> USE DEF Justified
  <1>1. CASE CacheHit
    BY <1>1 DEF CacheHit
  <1>2. CASE DispatchOk
    BY <1>2 DEF DispatchOk
  <1>3. CASE DispatchErr
    BY <1>3, NoParseError DEF DispatchErr
  <1>4. CASE Continue
    BY <1>4 DEF Continue
  <1>5. CASE Stitched
    BY <1>5 DEF Stitched
  <1>6. CASE Parse
    BY <1>6 DEF Parse, Parses
  <1>7. CASE Prefill
    BY <1>7 DEF Prefill, Parses
  <1>8. CASE Decide
    <2>1. CASE ~Exhausted
      BY <1>8, <2>1 DEF Decide
    <2>2. CASE Exhausted /\ pc' = "repair"
      <3>1. /\ failure = "Parse" /\ failure' = failure
            /\ resp' = resp /\ strategy' = strategy
            /\ budget' = Frozen /\ Frozen.repair
            /\ attempt' = attempt /\ ceiling' = ceiling
            /\ pc = "decide"
        BY <1>8, <2>2 DEF Decide
      <3>2. ~Parses(strategy', resp')
        BY <3>1
      <3>3. Frozen # None
        BY BudgetShape, NoneIsNoBudget DEF Frozen, TypeOK
      <3>4. attempt' + 1 >= Least(budget'.max, ceiling' + 1)
        BY <2>2, <3>1 DEF Exhausted
      <3> QED BY <2>2, <3>1, <3>2, <3>3, <3>4 DEF Parses
    <2>3. CASE Exhausted /\ pc' # "repair"
      BY <1>8, <2>3 DEF Decide
    <2> QED BY <2>1, <2>2, <2>3
  <1>9. CASE Repair
    BY <1>9 DEF Repair
  <1>10. CASE Resume
    BY <1>10 DEF Resume
  <1>11. CASE CacheErr
    BY <1>11 DEF CacheErr
  <1>12. CASE Evict
    BY <1>12 DEF Evict
  <1>13. CASE UNCHANGED vars
    BY <1>13 DEF vars, Parses, Least
  <1> QED
    BY <1>1, <1>2, <1>3, <1>4, <1>5, <1>6, <1>7, <1>8, <1>9, <1>10, <1>11,
       <1>12, <1>13
    DEF Next, Step

\* The JSON repair call is made for an answer that does not parse, and only
\* when the last attempt that budget and ceiling allow has been made.
THEOREM RepairIsLastResortCorrect == Spec => []RepairIsLastResort
  <1>1. Init => Accounted
    BY DEF Init, Accounted, Own, Extra, MaxContinuations
  <1>2. Init => Justified
    BY DEF Init, Justified
  <1>3. TypeOK /\ Accounted /\ Justified => RepairIsLastResort
    <2> SUFFICES ASSUME TypeOK, Accounted, Justified, pc = "repair" PROVE
                   /\ budget # None /\ budget.repair
                   /\ attempt + 1 = Least(budget.max, ceiling + 1)
                   /\ ~Parses(strategy, resp)
      BY DEF RepairIsLastResort
    <2>1. budget # None /\ budget.repair /\ ~Parses(strategy, resp)
      BY DEF Justified
    <2>2. ceiling \in Nat /\ attempt \in Nat /\ budget.max \in 1 .. 6
      BY <2>1, CeilingAssumption DEF TypeOK
    <2>3. attempt + 1 <= Least(budget.max, ceiling + 1)
      BY <2>1 DEF Accounted
    <2>4. attempt + 1 >= Least(budget.max, ceiling + 1)
      BY DEF Justified
    <2> QED BY <2>1, <2>2, <2>3, <2>4 DEF Least
  <1> QED BY <1>1, <1>2, <1>3, TypeInit, TypeStep, AccountedStep, JustifiedStep, PTL DEF Spec
=============================================================================
