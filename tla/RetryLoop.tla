----------------------------- MODULE RetryLoop -----------------------------
(***************************************************************************)
(* phases/phase.rs, RunContext::call_with_retry_parse: one model call of a *)
(* phase, with its answer cache, its parse attempts and its four ways to   *)
(* recover: re-issue within a budget frozen at the first failure, focused  *)
(* continuation of a truncated answer, one assistant prefill, and one JSON *)
(* repair call. The phase may fail or its process die at any step; the     *)
(* next `moagan continue` issues the same call again, with the answer      *)
(* cache the earlier sessions left behind.                                 *)
(*                                                                         *)
(* An answer is only what the loop tells apart: whether it parses as it    *)
(* is, parses after the lenient repairs, is JSON of the wrong shape, is no *)
(* JSON at all or is empty; and whether the upstream cut it short.         *)
(***************************************************************************)
EXTENDS Naturals

CONSTANTS
  Mode,      \* run modes the loop is entered in
  Strategy,  \* recovery strategies of the models it is entered for
  Ceiling,   \* values of the caller's max_retries
  Undecodable, \* a stored entry this version cannot decode
  None

ASSUME ModeAssumption ==
  Mode \subseteq {"fast", "standard", "deep", "explore", "batch"}
ASSUME StrategyAssumption ==
  Strategy \subseteq {"Strict", "Lenient", "Continuation", "PromptPrefill"}
\* Every caller in phases/ passes at least 2.
ASSUME CeilingAssumption == Ceiling \subseteq Nat \ {0}
Kind == {"clean", "fixable", "misshaped", "garbage", "empty"}
Answer == [kind : Kind, truncated : BOOLEAN]
NoAnswer == [kind |-> "empty", truncated |-> FALSE]

ASSUME NoneAssumption ==
  /\ None \notin [max : Nat, repair : BOOLEAN]
  /\ None # Undecodable /\ {None, Undecodable} \cap Answer = {}

\* Errors the loop tells apart; the last stands for every error that
\* should_retry_error refuses.
RetriableError == {"Provider", "PlanExhausted", "Throttled", "Timeout"}
ProviderError == RetriableError \cup {"Fatal"}

VARIABLES
  mode, strategy, ceiling, repairOn,  \* the call: fixed while it is retried
  cached,   \* the stored entry of this prompt, or None; survives the process
  pc,       \* what the loop is about to do
  attempt,  \* attempt
  budget,   \* budget: None until the first failure
  prefilled,\* prefill_attempted
  resp,     \* the answer being handled
  failure,  \* reason of the failure being handled; "Cache" if the lookup failed
  conts,    \* attempt_idx of continue_truncated_response
  sends     \* requests this session has handed to the dispatch, each of which
            \* LlmClient::send may repeat without a parameter that is refused

call == <<mode, strategy, ceiling, repairOn>>
session == <<pc, attempt, budget, prefilled, resp, failure, conts, sends>>
vars == <<mode, strategy, ceiling, repairOn, cached, pc, attempt, budget,
          prefilled, resp, failure, conts, sends>>

Reason == {"Transport", "RateLimit", "Timeout", "Parse", "Truncated"}
Control == {"call", "got", "parse", "prefill", "decide", "repair", "ok", "err"}

-----------------------------------------------------------------------------
(* llm/retry_budget.rs and llm/json_strategy.rs.                           *)

Least(a, b) == IF a < b THEN a ELSE b

MaxContinuations == IF strategy = "Continuation" THEN 2 ELSE 0

\* Parse stands for Parse and Schema, whose rows are the same in every mode.
MaxAttempts(m, reason) ==
  CASE reason = "Parse"     -> 5
    [] reason = "RateLimit" -> IF m = "deep" THEN 6 ELSE IF m = "standard" THEN 4 ELSE 3
    [] reason = "Truncated" -> IF m \in {"standard", "deep"} THEN 2 ELSE 1
    [] OTHER                -> IF m = "deep" THEN 4 ELSE 3

budget_for(m, reason) == [max |-> MaxAttempts(m, reason), repair |-> reason = "Parse"]

reason_from_error(e) ==
  CASE e = "Timeout"                      -> "Timeout"
    [] e \in {"PlanExhausted", "Throttled"} -> "RateLimit"
    [] OTHER                              -> "Transport"

should_retry_error(e) == e \in RetriableError

\* What parse_with_strategy_inner accepts.
Parses(s, a) == a.kind = "clean" \/ (a.kind = "fixable" /\ s # "Strict")

-----------------------------------------------------------------------------
TypeOK ==
  /\ mode \in Mode /\ strategy \in Strategy /\ ceiling \in Ceiling
  /\ repairOn \in BOOLEAN
  /\ cached \in Answer \cup {None, Undecodable}
  /\ pc \in Control
  /\ attempt \in Nat
  /\ budget \in [max : 1 .. 6, repair : BOOLEAN] \cup {None}
  /\ prefilled \in BOOLEAN
  /\ resp \in Answer
  /\ failure \in Reason \cup {"Cache"}
  /\ conts \in 0 .. 2
  /\ sends \in Nat

\* A cache shared by runs may hold an answer already, or an entry that
\* another version wrote.
Init ==
  /\ mode \in Mode /\ strategy \in Strategy /\ ceiling \in Ceiling
  /\ repairOn \in BOOLEAN
  /\ cached \in Answer \cup {None, Undecodable}
  /\ pc = "call" /\ attempt = 0 /\ budget = None /\ prefilled = FALSE
  /\ resp = NoAnswer /\ failure = "Parse" /\ conts = 0 /\ sends = 0

-----------------------------------------------------------------------------
(* The session.                                                            *)

\* Mutant: retries look the prompt up in the cache too.
Consults_Always == TRUE

\* Only the first attempt of a session goes through the cache.
Consults == attempt = 0

\* What Cache::lookup may return. An entry that cannot be decoded is an
\* error, and so is one that cannot be read or, on a hit, rewritten with
\* its new touched_at; one past its time to live is a miss.
Lookup ==
  IF ~Consults \/ cached = None THEN {"miss"}
  ELSE IF cached = Undecodable THEN {"error"} ELSE {"hit", "miss", "error"}

CacheHit ==
  /\ pc = "call" /\ "hit" \in Lookup
  /\ resp' = cached
  /\ conts' = 0
  /\ pc' = "got"
  /\ UNCHANGED <<mode, strategy, ceiling, repairOn, cached, attempt, budget,
                 prefilled, failure, sends>>

\* Error::Cache or Error::Io ends the call: should_retry_error refuses both.
CacheErr ==
  /\ pc = "call" /\ "error" \in Lookup
  /\ failure' = "Cache"
  /\ pc' = "err"
  /\ UNCHANGED <<mode, strategy, ceiling, repairOn, cached, attempt, budget,
                 prefilled, resp, conts, sends>>

\* An answer arrives. The first attempt stores it before anyone parses it;
\* a store that fails is only logged.
DispatchOk ==
  /\ pc = "call" /\ "miss" \in Lookup
  /\ \E a \in Answer :
       /\ resp' = a
       /\ cached' \in IF attempt = 0 THEN {a, cached} ELSE {cached}
  /\ sends' = sends + 1
  /\ conts' = 0
  /\ pc' = "got"
  /\ UNCHANGED <<mode, strategy, ceiling, repairOn, attempt, budget, prefilled, failure>>

\* The call fails: for good, or on to the budget.
DispatchErr ==
  /\ pc = "call" /\ "miss" \in Lookup
  /\ \E e \in ProviderError :
       IF should_retry_error(e)
       THEN /\ failure' = reason_from_error(e)
            /\ pc' = "decide"
       ELSE pc' = "err" /\ UNCHANGED failure
  /\ sends' = sends + 1
  /\ UNCHANGED <<mode, strategy, ceiling, repairOn, cached, attempt, budget,
                 prefilled, resp, conts>>

\* Mutant: continuations are not counted against their cap.
NeedsContinuation_Uncapped ==
  resp.truncated /\ resp.kind # "empty" /\ strategy = "Continuation"

NeedsContinuation ==
  resp.truncated /\ resp.kind # "empty" /\ conts < MaxContinuations

\* One round of continue_truncated_response. An error, or a report that is
\* not JSON, ends it with the answer still truncated; otherwise the text
\* grows and `finished` or a whole report ends it.
Continue ==
  /\ pc = "got" /\ NeedsContinuation
  /\ sends' = sends + 1
  /\ \/ /\ pc' = "parse"
        /\ UNCHANGED <<resp, conts>>
     \/ \E a \in [kind : Kind \ {"empty"}, truncated : BOOLEAN] :
          /\ resp' = a
          /\ conts' = conts + 1
          /\ pc' = "got"
  /\ UNCHANGED <<mode, strategy, ceiling, repairOn, cached, attempt, budget,
                 prefilled, failure>>

Stitched ==
  /\ pc = "got" /\ ~NeedsContinuation
  /\ pc' = "parse"
  /\ UNCHANGED <<mode, strategy, ceiling, repairOn, cached, attempt, budget,
                 prefilled, resp, failure, conts, sends>>

Parse ==
  /\ pc = "parse"
  /\ \/ Parses(strategy, resp) /\ pc' = "ok" /\ UNCHANGED failure
     \/ /\ ~Parses(strategy, resp)
        /\ failure' = "Parse"
        /\ pc' = IF strategy = "PromptPrefill" /\ ~prefilled THEN "prefill" ELSE "decide"
  /\ UNCHANGED <<mode, strategy, ceiling, repairOn, cached, attempt, budget,
                 prefilled, resp, conts, sends>>

\* retry_with_assistant_prefill: once per session, outside the budget.
Prefill ==
  /\ pc = "prefill"
  /\ prefilled' = TRUE
  /\ sends' = sends + 1
  /\ pc' \in {"ok", "decide"}
  /\ UNCHANGED <<mode, strategy, ceiling, repairOn, cached, attempt, budget,
                 resp, failure, conts>>

\* The budget is looked up at the first failure and frozen.
Frozen == IF budget = None THEN budget_for(mode, failure) ELSE budget

\* Mutants: the budget alone bounds the attempts; one attempt too many.
Exhausted_IgnoreCeiling == attempt + 1 >= Frozen.max
Exhausted_OneMore == attempt >= Least(Frozen.max, ceiling + 1)

Exhausted == attempt + 1 >= Least(Frozen.max, ceiling + 1)

\* Mutant: the attempt is not counted.
Decide_Uncounted ==
  /\ pc = "decide"
  /\ budget' = Frozen
  /\ pc' = IF ~Exhausted THEN "call" ELSE "err"
  /\ UNCHANGED <<mode, strategy, ceiling, repairOn, cached, attempt, prefilled,
                 resp, failure, conts, sends>>

Decide ==
  /\ pc = "decide"
  /\ budget' = Frozen
  /\ \/ /\ ~Exhausted
        /\ attempt' = attempt + 1
        /\ pc' = "call"
     \/ /\ Exhausted
        /\ pc' = IF failure = "Parse" /\ Frozen.repair /\ repairOn THEN "repair" ELSE "err"
        /\ UNCHANGED attempt
  /\ UNCHANGED <<mode, strategy, ceiling, repairOn, cached, prefilled, resp,
                 failure, conts, sends>>

\* call_json_repair_v2 on the last answer.
Repair ==
  /\ pc = "repair"
  /\ sends' = sends + 1
  /\ pc' \in {"ok", "err"}
  /\ UNCHANGED <<mode, strategy, ceiling, repairOn, cached, attempt, budget,
                 prefilled, resp, failure, conts>>

\* The process dies, or the run is continued after the call returned: the
\* phase runs again and issues the same call.
Resume ==
  /\ pc' = "call" /\ attempt' = 0 /\ budget' = None /\ prefilled' = FALSE
  /\ resp' = NoAnswer /\ failure' = "Parse" /\ conts' = 0 /\ sends' = 0
  /\ UNCHANGED <<mode, strategy, ceiling, repairOn, cached>>

\* evict_lru, when some call stores its answer in a cache over its cap.
Evict ==
  /\ cached # None
  /\ cached' = None
  /\ UNCHANGED <<mode, strategy, ceiling, repairOn, pc, attempt, budget,
                 prefilled, resp, failure, conts, sends>>

Step ==
  \/ CacheHit \/ CacheErr \/ DispatchOk \/ DispatchErr \/ Continue \/ Stitched \/ Parse
  \/ Prefill \/ Decide \/ Repair

Next == Step \/ Resume \/ Evict

Spec == Init /\ [][Next]_vars

\* The async task of a session is polled until it returns.
FairSpec == Spec /\ WF_vars(Step)

-----------------------------------------------------------------------------
(* Properties.                                                             *)

\* phase.rs:3251-3253 "the loop's actual cap is `min(budget.max_attempts,
\* max_retries + 1)`", and beyond it only bounded extras: the requests one
\* session hands to the dispatch never exceed that cap times the request and its
\* continuations, one prefill and one repair, whatever mix of failures,
\* truncations and cache hits it meets.
WireBounded ==
  sends <= (1 + MaxContinuations) * Least(IF budget = None THEN 1 ELSE budget.max, ceiling + 1)
           + (IF strategy = "PromptPrefill" THEN 1 ELSE 0)
           + (IF repairOn THEN 1 ELSE 0)

\* phase.rs:3337-3339 "Retries bypass the cache so a previously cached broken
\* response does not poison the retry loop": whatever answer is stored, and
\* whoever stored it, a session that got it fails only after a request of
\* its own. A session that fails without one never got past the lookup.
NotPoisoned == pc = "err" /\ sends = 0 => failure = "Cache" /\ attempt = 0

\* llm/cache/mod.rs:187-190 "A miss is returned when: ... the entry cannot be
\* decoded": such an entry does not end a call before it is sent.
UndecodableIsMiss == pc = "err" /\ cached = Undecodable => sends > 0

\* The JSON repair call is the last resort: it is made only for an answer
\* that failed to parse and only once every attempt the caller allows is
\* spent, so a call that could be re-issued is never repaired instead.
RepairIsLastResort ==
  pc = "repair" =>
    /\ budget # None /\ budget.repair
    /\ attempt + 1 = Least(budget.max, ceiling + 1)
    /\ ~Parses(strategy, resp)

\* phase.rs:3388-3489, a loop without a condition: no mix of answers keeps it
\* going. Unless the process is restarted over and over, every call returns.
Returns == []<>(pc \in {"ok", "err"}) \/ []<><<Resume>>_vars
=============================================================================
