--------------------------- MODULE RankingPolicy ---------------------------
(***************************************************************************)
(* The ranking of the candidates that passed the gates and the quotas: the *)
(* deterministic best fit, the learned score on top of it, exploration,    *)
(* and the propensity that is logged for off-policy evaluation.            *)
(*                                                                         *)
(* Scores are in thousandths and rounded down.  A statistic gives its      *)
(* posterior means in hundredths and its latency penalty in thousandths;   *)
(* its observations are one less than a square.  A candidate is a record   *)
(*   [provider, model, origin, tier, order, reserved,                      *)
(*    requests, tokens, concurrent, daily]     headrooms, or Unlimited     *)
(* and route the hints of the request, NoHint where there are none.        *)
(***************************************************************************)
EXTENDS Integers, Sequences, FiniteSets, FiniteSetsExt, SequencesExt, Orderings

CONSTANT Draws     \* random() is one of 0, 1/Draws, ..., (Draws - 1)/Draws

Unlimited == -1
NoHint == -1
NoProvider == "no provider"
NoWinner == << >>
Thousand == 1000

-----------------------------------------------------------------------------
(* core/policy.ts                                                          *)

(* boundedPositive: a hint that is not positive is no hint.                *)
boundedPositive(value, fallback, maximum) ==
    IF value > 0 THEN (IF value < maximum THEN value ELSE maximum) ELSE fallback

(* The demand of the workflow the call is part of.  Without an estimate of *)
(* its tokens it is what the first candidate would reserve, once per call. *)
Demand(route, candidates) ==
    LET calls == boundedPositive(route.expectedCalls, 1, 1000)
        reserved == IF candidates = << >> THEN 0 ELSE candidates[1].reserved
    IN  [calls |-> calls,
         tokens |-> boundedPositive(route.estimatedTotalTokens,
                                    IF reserved * calls > 0 THEN reserved * calls ELSE 1,
                                    2000000000),
         concurrency |-> boundedPositive(route.maxConcurrency, 1, 1000)]

fits(available, required) == available = Unlimited \/ available >= required

workflowFits(c, demand) ==
    /\ fits(c.requests, demand.calls)
    /\ fits(c.tokens, demand.tokens)
    /\ fits(c.concurrent, demand.concurrency)
    /\ fits(c.daily, demand.tokens)

(* The tightest bin that is large enough scores best, and a bin that is    *)
(* too small by how much of the demand it covers.                          *)
bestFitScore(available, required) ==
    IF available = Unlimited THEN 10 * Thousand
    ELSE IF available >= required THEN (50 * Thousand * required) \div available
    ELSE (25 * Thousand * available) \div required

capacityScore(c, demand) ==
    bestFitScore(c.requests, demand.calls) + bestFitScore(c.tokens, demand.tokens)
      + bestFitScore(c.daily, demand.tokens) + bestFitScore(c.concurrent, demand.concurrency)

tierScore(c, route) ==
    IF route.reasoning THEN (IF c.tier = "reasoning" THEN 100 * Thousand ELSE 0)
    ELSE IF c.tier = route.tier THEN 50 * Thousand ELSE 0

switchingPenalty(c, route) ==
    IF route.preferredProviderId \notin {NoProvider, c.provider} THEN 120 * Thousand ELSE 0

(* Mutated form: the fit weighs as much as a preference.                   *)
fitScoreSoft(c, demand) == IF workflowFits(c, demand) THEN 100 * Thousand ELSE 0

fitScore(c, demand) == IF workflowFits(c, demand) THEN 10000 * Thousand ELSE 0

score(c, route, demand) ==
    fitScore(c, demand) + capacityScore(c, demand) + tierScore(c, route)
      - switchingPenalty(c, route) - c.order

(* rankCandidates: by score, then by the order of the catalogue.           *)
rankCandidates(route, candidates) ==
    LET demand == Demand(route, candidates)
        scored == {[candidate |-> candidates[i], score |-> score(candidates[i], route, demand),
                    place |-> i] : i \in DOMAIN candidates}
        before(a, b) ==
            \/ a.score > b.score
            \/ a.score = b.score /\ a.candidate.order < b.candidate.order
            \/ a.score = b.score /\ a.candidate.order = b.candidate.order /\ a.place < b.place
    IN  Sorted(scored, {p \in scored \X scored : before(p[1], p[2])})

-----------------------------------------------------------------------------
(* core/adaptive-policy.ts.  statistics maps a model to what was learned   *)
(* of it: planAndReserve gives one for every candidate.                    *)

Root(n) == CHOOSE k \in 1..n : k * k = n

learnedScore(ranked, statistic) ==
    ranked.score + (statistic.success - 50) * 3500 + (statistic.completion - 50) * 6500
      + (statistic.quality - 50) * 2500 - statistic.rateRisk * 3500
      - statistic.latencyPenalty + (80 * Thousand) \div Root(statistic.observations + 1)

(* rankWithStatistics: by learned score, then by score, then as before.    *)
rankWithStatistics(baseline, statistics) ==
    LET learned == {[candidate |-> baseline[i].candidate, score |-> baseline[i].score,
                     learned |-> learnedScore(baseline[i], statistics[baseline[i].candidate.model]),
                     place |-> i] : i \in DOMAIN baseline}
        before(a, b) ==
            \/ a.learned > b.learned
            \/ a.learned = b.learned /\ a.score > b.score
            \/ a.learned = b.learned /\ a.score = b.score /\ a.place < b.place
    IN  Sorted(learned, {p \in learned \X learned : before(p[1], p[2])})

(* normalizeControl: the rate is kept between 0 and 25 percent.            *)
Clamped(n, low, high) == IF n < low THEN low ELSE IF n > high THEN high ELSE n
normalizeControl(control) ==
    [mode |-> IF control.mode \in {"adaptive", "shadow"} THEN control.mode ELSE "baseline",
     explorationRate |-> Clamped(control.explorationRate, 0, 25),
     minObservations |-> Clamped(control.minObservations, 0, 1000000)]

enoughEvidence(statistics, control) ==
    \E m \in DOMAIN statistics : statistics[m].observations >= control.minObservations

(* Mutated form: a decision that explored never counts as the exploit one. *)
propensityByBranch(index, explored, rate, n) ==
    IF ~explored THEN <<100 * n - rate * n + rate, 100 * n>> ELSE <<rate, 100 * n>>

(* The probability of the chosen action, whichever way it was chosen, as   *)
(* the fraction <<n, d>>.                                                  *)
propensity(index, explored, rate, n) ==
    IF index = 1 THEN <<100 * n - rate * n + rate, 100 * n>> ELSE <<rate, 100 * n>>

(* Epsilon-greedy.  first and second are the two draws, of which the       *)
(* second is only taken to explore.                                        *)
explore(adaptive, explorationRate, first, second) ==
    LET n == Len(adaptive)
        rate == Clamped(explorationRate, 0, 25)
        explored == n > 1 /\ first * 100 < rate * Draws
        index == IF explored THEN (second * n) \div Draws + 1 ELSE 1
    IN  [ranked |-> <<adaptive[index]>> \o RemoveAt(adaptive, index), shadowWinner |-> NoWinner,
         propensity |-> propensity(index, explored, rate, n), explored |-> explored]

decidePolicy(route, candidates, statistics, control, first, second) ==
    LET baseline == rankCandidates(route, candidates)
        adaptive == rankWithStatistics(baseline, statistics)
    IN  IF control.mode = "adaptive" /\ enoughEvidence(statistics, control)
        THEN explore(adaptive, control.explorationRate, first, second)
        ELSE [ranked |-> baseline,
              shadowWinner |-> IF control.mode = "shadow" THEN adaptive[1].candidate.model
                               ELSE NoWinner,
              propensity |-> <<1, 1>>, explored |-> FALSE]

-----------------------------------------------------------------------------
(* core/evaluation.ts                                                      *)

(* evaluateOffPolicy: the inverse propensity score of the policy that      *)
(* would have taken an event's action with probability target, 0 or 1.     *)
(* Weights are over the product of the numerators of the propensities.     *)
evaluateOffPolicy(events) ==
    LET valid == {i \in DOMAIN events :
                     0 < events[i].logged[1] /\ events[i].logged[1] <= events[i].logged[2]}
        common == FoldSet(LAMBDA x, y : x * y, 1, {events[i].logged[1] : i \in valid})
        weight(i) == events[i].target * events[i].logged[2] * (common \div events[i].logged[1])
    IN  IF valid = {} THEN <<0, 1>>
        ELSE <<MapThenSumSet(LAMBDA i : weight(i) * events[i].reward, valid),
               common * Cardinality(valid)>>
=============================================================================
