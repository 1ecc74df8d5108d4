---------------------------- MODULE RequestPath ----------------------------
(***************************************************************************)
(* What happens to one request between its admissions: the specification   *)
(* and the hints of its workflow, the gates, the ranking of the accounts   *)
(* that passed them, and the answer on its way back.  Each phase keeps     *)
(* only what the next one reads.                                           *)
(***************************************************************************)
EXTENDS WorkflowSpec, RouteGates, ProviderCatalogue, RankingPolicy, AnswerStream

CONSTANTS
    Bodies,          \* what clients post to /v1/workflows
    Histories,       \* [caller, global]: the forecast rows of a workflow type
    Progress,        \* how far a workflow may be when a call is inspected
    Configurations,  \* how the router may be configured
    Requests,        \* what callers ask for
    Headrooms,       \* the availability of an account
    Statistics,      \* what was learned of a model
    Controls,        \* the policy control of the environment
    Sampled,         \* bound: the draws taken by a decision, all in 0..Draws-1
    Ranked,          \* bound: the requests whose candidates are ranked
    MaxRanked,       \* bound: the most candidates that are ranked
    WorkflowCalls    \* bound: the pairs of configuration and request tried in a workflow

ASSUME DrawAssumption == Draws \in Nat \ {0} /\ Sampled \subseteq 0..(Draws - 1)
ASSUME WorkflowsAssumption ==
    /\ Bodies \subseteq [known : BOOLEAN, expectedCalls : Counts, maxCalls : Counts,
                        maxConcurrency : Counts, reasoning : BOOLEAN]
    /\ Histories \subseteq [caller : Rows, global : Rows]
(* The penalty is 8 points for each power of e in the milliseconds, of     *)
(* which no number has more than 709.                                      *)
ASSUME RankingAssumption ==
    /\ Progress \subseteq [callsStarted : Nat, actualTokens : Nat, primaryProvider : STRING]
    /\ Headrooms \subseteq [requests : Nat \cup {Unlimited}, tokens : Nat \cup {Unlimited},
                           concurrent : Nat \cup {Unlimited}, daily : Nat \cup {Unlimited}]
    /\ \A s \in Statistics :
          /\ s.success \in 0..100 /\ s.completion \in 0..100
          /\ s.quality \in 0..100 /\ s.rateRisk \in 0..100
          /\ s.latencyPenalty \in Nat /\ s.latencyPenalty <= 5679 * Thousand
          /\ s.observations \in Nat
          /\ \E k \in 1..(s.observations + 1) : k * k = s.observations + 1
    /\ MaxRanked \in Nat /\ MaxRanked <= 1000 * Thousand
ASSUME GatesAssumption ==
    Configurations \subseteq ConfigurationType /\ Requests \subseteq RequestType

VARIABLES phase, work

NoHints == [expectedCalls |-> NoHint, maxCalls |-> NoHint, maxConcurrency |-> NoHint,
            estimatedTotalTokens |-> NoHint, preferredProviderId |-> NoProvider,
            reasoning |-> FALSE]

path == <<phase, work, stream>>

PathInit == phase = "start" /\ work = << >> /\ NoStream

(* POST /v1/workflows                                                      *)
createWorkflow ==
    /\ phase = "start"
    /\ \E posted \in Bodies, history \in Histories :
          LET forecast == workflowForecast(history.caller, history.global)
          IN  work' = [posted |-> posted, forecast |-> forecast,
                       spec |-> parseWorkflowSpec(posted, Defaults(forecast))]
    /\ phase' = "specified"
    /\ UNCHANGED stream

(* A call in the workflow carries the workflow's hints; a call outside one *)
(* is ranked by those of its client.                                       *)
callInWorkflow ==
    /\ phase = "specified"
    /\ ~work.spec.refused
    /\ \E progress \in Progress : work' = [hints |-> applyWorkflowContext(work.spec, progress)]
    /\ phase' = "hinted"
    /\ UNCHANGED stream

callOutside ==
    /\ phase = "start"
    /\ work' = [hints |-> NoHints]
    /\ phase' = "hinted"
    /\ UNCHANGED stream

(* A configuration that fails ends every request; one that no model may    *)
(* serve is refused with context_unavailable.                              *)
gate ==
    /\ phase = "hinted"
    /\ \E config \in Configurations, request \in Requests :
          /\ work.hints = NoHints \/ <<config, request>> \in WorkflowCalls
          /\ LET registered == registeredProviders(config)
                 selections == selectRoutes(request, Catalog(registered.providers))
             IN  /\ work' = [hints |-> work.hints, request |-> request,
                             catalog |-> Catalog(registered.providers), selections |-> selections,
                             runtimes |-> candidateRuntimes(selections, registered.providers)]
                 /\ phase' = IF registered.failed THEN "misconfigured" ELSE "gated"
    /\ UNCHANGED stream

Inspected(candidate, request, headroom) ==
    [provider |-> candidate.provider.id, model |-> candidate.model.id, tier |-> candidate.model.tier,
     order |-> candidate.order, reserved |-> request.input + request.output,
     requests |-> headroom.requests, tokens |-> headroom.tokens,
     concurrent |-> headroom.concurrent, daily |-> headroom.daily]

(* What the ranking reads of the hints, and the tier of the request.       *)
Route(hints, request) ==
    [expectedCalls |-> hints.expectedCalls, maxConcurrency |-> hints.maxConcurrency,
     estimatedTotalTokens |-> hints.estimatedTotalTokens,
     preferredProviderId |-> hints.preferredProviderId, reasoning |-> hints.reasoning,
     tier |-> request.tier]

(* planAndReserve quotes the accounts, reads what was learned of their     *)
(* models and the environment's control.                                   *)
inspect ==
    /\ phase = "gated"
    /\ work.request \in Ranked /\ Len(work.runtimes) \in 1..MaxRanked
    /\ \E headrooms \in [DOMAIN work.runtimes -> Headrooms],
          learned \in [{work.runtimes[i].model.id : i \in DOMAIN work.runtimes} -> Statistics],
          control \in Controls :
          work' = [route |-> Route(work.hints, work.request),
                   candidates |-> [i \in DOMAIN work.runtimes |->
                       Inspected(work.runtimes[i], work.request, headrooms[i])],
                   statistics |-> learned,
                   control |-> normalizeControl(control)]
    /\ phase' = "inspected"
    /\ UNCHANGED stream

decide ==
    /\ phase = "inspected"
    /\ \E first, second \in Sampled :
          work' = decidePolicy(work.route, work.candidates, work.statistics, work.control,
                               first, second)
    /\ phase' = "planned"
    /\ UNCHANGED stream

answer ==
    /\ phase = "planned"
    /\ Begin
    /\ work' = << >>
    /\ phase' = "answering"

PathNext ==
    \/ createWorkflow \/ callInWorkflow \/ callOutside \/ gate \/ inspect \/ decide \/ answer
    \/ phase = "answering" /\ Answer /\ UNCHANGED <<phase, work>>

PathSpec == PathInit /\ [][PathNext]_path

-----------------------------------------------------------------------------
(* Properties                                                              *)

Given(value) == value # Absent

(* History only fills in what a client leaves out.  Every accepted         *)
(* workflow may make the calls it expects to make, and a body that is      *)
(* accepted without history is refused with it only when the client gave   *)
(* one of the two call counts and the forecast of the other contradicts    *)
(* it.                                                                     *)
HistoryOnlyFillsIn ==
    phase = "specified" =>
        LET posted == work.posted
            spec == work.spec
            forecast == work.forecast
            plain == parseWorkflowSpec(posted, NoForecast)
        IN  /\ ~spec.refused =>
                  /\ 1 <= spec.expectedCalls /\ spec.expectedCalls <= spec.maxCalls
                  /\ Given(posted.expectedCalls) => spec.expectedCalls = posted.expectedCalls
                  /\ Given(posted.maxCalls) => spec.maxCalls = posted.maxCalls
            /\ spec.refused /\ ~plain.refused =>
                  \/ /\ Given(posted.expectedCalls) /\ ~Given(posted.maxCalls)
                     /\ forecast.maxCalls < posted.expectedCalls
                  \/ /\ Given(posted.maxCalls) /\ ~Given(posted.expectedCalls)
                     /\ posted.maxCalls < forecast.expectedCalls

Fulfils(c, contract) ==
    /\ c.free /\ c.automatic
    /\ c.context >= contract.context /\ c.output >= contract.output
    /\ contract.supports \subseteq c.supports
WithinContract(request, contract) ==
    /\ request.uses \subseteq contract.supports
    /\ request.output <= contract.output
    /\ request.input + request.output + Margin <= contract.context
    /\ request.tier = NoTier

(* A virtual model is a promise (README.md:258): only models that fulfil   *)
(* the contract serve it, whatever else the request allows, and a request  *)
(* that stays within it, safety margin included, is offered every one of   *)
(* them, in the order of the catalogue.                                    *)
ContractServed ==
    (phase = "gated" /\ IsVirtual(work.request.model)) =>
        LET contract == virtualModel(work.request.model)
        IN  /\ \A c \in Range(work.selections) : Fulfils(c, contract)
            /\ WithinContract(work.request, contract) =>
                  work.selections = Subsequence(work.catalog,
                      {i \in DOMAIN work.catalog : Fulfils(work.catalog[i], contract)})

(* Quotas, cooldowns and keys belong to an account: a model is called      *)
(* through the account whose configuration offered it, and none that       *)
(* passed the gates is lost on the way.                                    *)
RightAccount ==
    phase = "gated" =>
        /\ Len(work.runtimes) = Len(work.selections)
        /\ \A k \in DOMAIN work.runtimes :
              /\ work.runtimes[k].model = work.selections[k]
              /\ work.runtimes[k].provider.origin = work.runtimes[k].model.origin

Baseline == rankCandidates(work.route, work.candidates)
Adaptive == rankWithStatistics(Baseline, work.statistics)
Fits(ranked) == workflowFits(ranked.candidate, Demand(work.route, work.candidates))

(* "Workflow fit dominates soft preferences" (core/policy.ts:56): neither  *)
(* the deterministic nor the learned ranking puts an account that cannot   *)
(* take the whole workflow before one that can, however scarce the fit,    *)
(* whatever was preferred or learned.                                      *)
FitDominates ==
    phase = "inspected" =>
        \A order \in {Baseline, Adaptive} : \A i, j \in DOMAIN order :
            (i < j /\ Fits(order[j])) => Fits(order[i])

Decisions ==
    LET adaptive == Adaptive
    IN  [draws \in (0..(Draws - 1)) \X (0..(Draws - 1)) |->
            explore(adaptive, work.control.explorationRate, draws[1], draws[2])]

(* The logged propensity is the exact one (ADR 0004:14): over all draws of *)
(* a decision, the inverse propensity score of any policy that takes one   *)
(* fixed candidate is what that candidate earns.  Without exploration only *)
(* the best candidate is ever taken, and only it can be evaluated.         *)
EvaluationUnbiased ==
    (phase = "inspected" /\ work.control.mode = "adaptive"
       /\ enoughEvidence(work.statistics, work.control)) =>
        LET decisions == Decisions
            earns == [i \in DOMAIN work.candidates |-> i]
            arm(ranked) == CHOOSE i \in DOMAIN work.candidates :
                              work.candidates[i] = ranked.candidate
            events(target) ==
                [draws \in DOMAIN decisions |->
                    LET taken == arm(decisions[draws].ranked[1])
                    IN  [reward |-> earns[taken], logged |-> decisions[draws].propensity,
                         target |-> IF taken = target THEN 1 ELSE 0]]
        IN  \A target \in DOMAIN work.candidates :
               (work.control.explorationRate > 0 \/ target = arm(Adaptive[1])) =>
                   LET estimate == evaluateOffPolicy(events(target))
                   IN  estimate[1] = earns[target] * estimate[2]

WholeLines == {i \in DOMAIN body : Newline * i - 1 <= size /\ body[i].json}
Reports == {i \in WholeLines : body[i].tokens # NoReport}

(* The verdict on a streamed answer does not depend on where its chunks    *)
(* end: it is the one validateChatCompletion gives the same answer in one  *)
(* piece, except that blank text counts as visible, and what is charged is *)
(* what it reported last.                                                  *)
StreamJudgedAsWhole ==
    verdict.by = "end" =>
        LET texts == {body[i].text : i \in WholeLines}
            whole == validateChatCompletion(1, texts, \E i \in WholeLines : body[i].length)
        IN  /\ verdict.success <=> (whole = "valid"
                                      \/ /\ whole = "empty_output" /\ "blank" \in texts
                                         /\ ~\E i \in WholeLines : body[i].length)
            /\ verdict.tokens = IF Reports = {} THEN NoReport ELSE body[Max(Reports)].tokens

(* "Reasoning traces are stripped from JSON and SSE responses"             *)
(* (README.md:76): what leaves with reasoning in it is half a line, the    *)
(* last of an upstream that ended in its middle, or, in Node, a line with  *)
(* a choice that is no object.                                             *)
NoReasoningForwarded ==
    \A f \in forwarded :
        LET line == body[f.line]
        IN  (line.reasoning /\ line.json /\ ~f.stripped) =>
                \/ /\ ~Whole(f.halves)
                   /\ verdict.by = "end" /\ \A g \in forwarded : g.line <= f.line
                \/ runtime = "node" /\ line.odd

(* An answer the client gave up on is not recorded as a success: never in  *)
(* Node, in the Worker only if a pull was pending and nothing was missing  *)
(* of the lines that had come.                                             *)
CancelledIsNoSuccess ==
    (verdict.by = "cancel" /\ verdict.success) =>
        /\ runtime = "worker"
        /\ seen.visible /\ ~seen.truncated
        /\ arrived % Newline = 0
=============================================================================
