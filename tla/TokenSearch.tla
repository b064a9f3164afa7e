---------------------------- MODULE TokenSearch ----------------------------
(***************************************************************************)
(* llm/probe.rs: the search for the largest max_tokens an upstream takes.  *)
(* Phase 0 asks for the impossible and reads the cap out of the refusal;   *)
(* phase 1 doubles until a value is refused; phase 2 narrows the gap in    *)
(* parallel batches of Batch points.                                       *)
(*                                                                         *)
(* The upstream accepts an interval least .. cap. A probe of an accepted   *)
(* value may still be committed as "not accepted": the call and its retry  *)
(* both came back Indeterminate. `lost` counts such answers, up to MaxLost.*)
(***************************************************************************)
EXTENDS Integers

CONSTANTS
  Batch,          \* points of a parallel batch (20)
  MinFloor,       \* MIN_AUTOPROBE_FLOOR
  Rounds,         \* batches of phase 2 (32)
  Powers,         \* 2^1 .. 2^MAX_PROBE_SHIFT
  Sentinel,       \* u32::MAX: a reported cap that means "no cap"
  Caps, Leasts,   \* what the upstream may accept
  Floors,         \* max_token_auto of the configuration
  Ceilings,       \* max_tokens_probe_ceiling of the provider
  Reports,        \* caps an error body may name
  MaxLost,        \* bound: answers lost in one search
  NoCap

ASSUME SearchAssumption ==
  /\ Batch \in Nat \ {0} /\ Rounds \in Nat /\ MinFloor \in Nat \ {0}
  /\ Sentinel \in Nat /\ MaxLost \in Nat
  /\ Caps \subseteq Nat /\ Leasts \subseteq Nat
  /\ Floors \subseteq Nat /\ Reports \subseteq Nat
  /\ Ceilings \subseteq {n \in Nat : n >= MinFloor}
  /\ NoCap \notin Int
ASSUME PowersAssumption ==
  /\ 2 \in Powers /\ Powers \subseteq Nat
  /\ \A q \in Powers : q >= 2
  /\ \A q, r \in Powers : q < r => 2 * q \in Powers /\ 2 * q <= r

VARIABLES
  cap, least,     \* the upstream
  floor, ceiling, \* the arguments
  stage,
  candidate,      \* the cap parsed in phase 0
  n,              \* the next power of two
  lo, hi,         \* phase 1: last accepted, first refused
  lo_strict, hi_strict, found, round,   \* phase 2
  lost,
  result

upstream == <<cap, least, floor, ceiling>>
phase1 == <<n, lo, hi>>
phase2 == <<lo_strict, hi_strict, found, round>>
searchVars == <<cap, least, floor, ceiling, stage, candidate, n, lo, hi,
          lo_strict, hi_strict, found, round, lost, result>>

SearchTypeOK ==
  /\ cap \in Caps /\ least \in Leasts
  /\ floor \in Floors /\ ceiling \in Ceilings
  /\ stage \in {"phase0", "validate", "phase1", "phase2", "commit", "done", "failed"}
  /\ candidate \in Nat \cup {NoCap}
  /\ n \in Nat /\ lo \in Nat /\ hi \in Nat
  /\ lo_strict \in Nat /\ hi_strict \in Nat
  /\ found \in BOOLEAN /\ lost \in 0 .. MaxLost
  /\ round \in Nat
  /\ result \in Nat

-----------------------------------------------------------------------------
Accepts(k) == least <= k /\ k <= cap

Clamp(k) ==
  LET raised == IF k < floor THEN floor ELSE k
  IN  IF raised > ceiling THEN ceiling ELSE raised

(* What saturating_sub(1) leaves of b. *)
Pred(b) == IF b = 0 THEN 0 ELSE b - 1

(* probe_send_with_body: a 4xx that names max_tokens is a refusal. *)
Refused(k) == ~Accepts(k) /\ UNCHANGED lost

(* retry_once_on_indeterminate: a call that failed or timed out, and so    *)
(* did its one retry.                                                      *)
Lost(k) == Accepts(k) /\ lost < MaxLost /\ lost' = lost + 1

(* k is committed as not accepted: phases 1 and 2 do not tell the two apart. *)
NotAccepted(k) == Refused(k) \/ Lost(k)

(* parse_cap_from_error_body: too large means "no cap", too small is noise. *)
ParsedCap(report) ==
  IF report = NoCap \/ report >= Sentinel \/ report < MinFloor THEN NoCap ELSE report

SearchInit ==
  /\ cap \in Caps /\ least \in Leasts
  /\ floor \in Floors /\ ceiling \in Ceilings
  /\ stage = "phase0" /\ candidate = NoCap
  /\ n = 2 /\ lo = 0 /\ hi = ceiling
  /\ lo_strict = 0 /\ hi_strict = 0 /\ found = FALSE /\ round = 0
  /\ lost = 0 /\ result = 0

(* phase_0_short_circuit, first half: one request for u32::MAX; the body   *)
(* names any cap at all, truthfully or not, or none.                       *)
Phase0 ==
  /\ stage = "phase0"
  /\ \E report \in Reports \cup {NoCap} :
       /\ candidate' = ParsedCap(report)
       /\ stage' = IF ParsedCap(report) = NoCap THEN "phase1" ELSE "validate"
  /\ UNCHANGED <<upstream, phase1, phase2, lost, result>>

(* Second half: the candidate and its successor are probed together. The   *)
(* candidate's answer alone decides: it is not retried, and whatever the   *)
(* successor's answer (after its retry) the candidate stands.              *)
Validate ==
  /\ stage = "validate"
  /\ \/ /\ Accepts(candidate)
        /\ stage' = "done" /\ result' = Clamp(candidate)
     \/ /\ stage' = "phase1" /\ UNCHANGED result
  /\ UNCHANGED <<upstream, candidate, phase1, phase2, lost>>

(* The first refusal ends the walk, whether or not anything was accepted. *)
MutantWalk ==
  /\ stage = "phase1" /\ n \in Powers /\ n <= ceiling
  /\ \/ /\ Accepts(n)
        /\ lo' = n /\ n' = 2 * n
        /\ UNCHANGED <<hi, stage, lost, phase2>>
     \/ /\ NotAccepted(n)
        /\ hi' = n /\ stage' = "phase2"
        /\ lo_strict' = lo + 1 /\ hi_strict' = Pred(n)
        /\ UNCHANGED <<lo, n, found, round>>
  /\ UNCHANGED <<upstream, candidate, result>>

(* Phase 1, one power of two. A refusal ends the walk only once something  *)
(* has been accepted: an upstream may also refuse what is too small.       *)
Walk ==
  /\ stage = "phase1" /\ n \in Powers /\ n <= ceiling
  /\ \/ /\ Accepts(n)
        /\ lo' = n /\ n' = 2 * n
        /\ UNCHANGED <<hi, stage, lost, phase2>>
     \/ /\ NotAccepted(n)
        /\ IF lo > 0
             THEN /\ hi' = n /\ stage' = "phase2"
                  /\ lo_strict' = lo + 1 /\ hi_strict' = Pred(n)
                  /\ UNCHANGED <<n, found, round>>
             ELSE /\ n' = 2 * n /\ UNCHANGED <<hi, stage, phase2>>
        /\ UNCHANGED lo
  /\ UNCHANGED <<upstream, candidate, result>>

WalkEnds ==
  /\ stage = "phase1" /\ (n \notin Powers \/ n > ceiling)
  /\ stage' = "phase2"
  /\ lo_strict' = lo + 1 /\ hi_strict' = Pred(hi)
  /\ UNCHANGED <<upstream, candidate, phase1, found, round, lost, result>>

-----------------------------------------------------------------------------
Span == hi_strict - lo_strict
Points == IF Span <= Batch THEN Span + 1 ELSE Batch

(* The batch does not spread over the gap. *)
MutantPoint(i) == lo_strict + i - 1

(* The points of a batch: every value of a narrow gap, else Batch points   *)
(* evenly spaced, the lower end left out.                                  *)
Point(i) == IF Span <= Batch THEN lo_strict + i - 1
                             ELSE lo_strict + i * (Span \div Batch)

Gap == lo_strict < hi_strict /\ hi_strict # 0

(* One batch of phase 2. Its answers are read upwards; the first k are     *)
(* accepted and the next one, if there is one, is not: the rest are        *)
(* ignored. A batch that moves neither end stops the search.               *)
NarrowTo(k, newHi) ==
  LET newLo == IF k = 0 THEN lo_strict ELSE Point(k)
  IN  /\ lo_strict' = newLo /\ hi_strict' = newHi
      /\ found' = (found \/ k > 0)
      /\ stage' = IF newLo = lo_strict /\ newHi = hi_strict THEN "commit" ELSE "phase2"

NewHi(k) == IF k = Points THEN hi_strict ELSE Pred(Point(k + 1))

Narrow ==
  /\ stage = "phase2" /\ Gap /\ round < Rounds
  /\ \E k \in 0 .. Points :
       /\ \A i \in 1 .. k : Accepts(Point(i))
       /\ NarrowTo(k, NewHi(k))
       /\ IF k = Points THEN UNCHANGED lost ELSE NotAccepted(Point(k + 1))
  /\ round' = round + 1
  /\ UNCHANGED <<upstream, candidate, phase1, result>>

(* lo_strict is returned though it was never probed. *)
MutantDiscovered == lo_strict

Discovered == IF found THEN lo_strict ELSE lo

Commit ==
  /\ \/ stage = "commit"
     \/ stage = "phase2" /\ (~Gap \/ round >= Rounds)
  /\ IF Discovered < MinFloor
       THEN stage' = "failed" /\ UNCHANGED result
       ELSE stage' = "done" /\ result' = Clamp(Discovered)
  /\ UNCHANGED <<upstream, candidate, phase1, phase2, lost>>

SearchNext == Phase0 \/ Validate \/ Walk \/ WalkEnds \/ Narrow \/ Commit

SearchSpec == SearchInit /\ [][SearchNext]_searchVars

-----------------------------------------------------------------------------
(* What is stored is never more than the upstream takes, unless it is the  *)
(* operator's own floor: whatever answers were lost on the way, and        *)
(* whatever cap the error body of phase 0 named.                           *)
Sound == stage = "done" => result <= cap \/ result = Clamp(0)

Largest == IF cap < ceiling THEN cap ELSE ceiling

(* Some value phase 1 may ask for is one the upstream takes. *)
Findable == \E q \in Powers : Accepts(q) /\ q <= ceiling

(* A search that lost no answer, and that phase 0 did not cut short, ends  *)
(* at most two below the largest value that upstream and ceiling allow; it *)
(* fails only where that value is of no use either. The two are the        *)
(* ceiling and the only value left of a gap, neither of which is probed.   *)
Tight ==
  /\ lost = 0 /\ Findable /\ round < Rounds
  /\ candidate = NoCap \/ ~Accepts(candidate)
  => /\ stage = "done" => result + 2 >= Largest
     /\ stage = "failed" => Largest <= MinFloor + 1

(* Phase 2 closes the gap before its rounds are used up, so the bound of   *)
(* the loop never decides the result.                                      *)
Converges == stage = "phase2" /\ Gap => round < Rounds
=============================================================================
