--------------------------- MODULE PolicyLearning ---------------------------
(***************************************************************************)
(* What one environment learns, and its two replicas: the statistics of    *)
(* RoutingCoordinator, by which planAndReserve ranks, and RoutingState,    *)
(* which keeps the same statistics, the telemetry and the forecasts that   *)
(* fill in a workflow's specification.  The outcomes of calls and          *)
(* workflows reach them through waitUntil and Durable Object RPCs: late,   *)
(* in any order, again, or never.                                          *)
(*                                                                         *)
(* Beta parameters are counts, so integers.  A quality mean is kept as its *)
(* total and its count.  The averages of latency and tokens are left out:  *)
(* they depend on the order of arrival, and nothing is claimed of them.    *)
(***************************************************************************)
EXTENDS Integers, FiniteSets, Functions

CONSTANTS
    CallOutcomes,      \* what may end a call: [id, caller, context, model, success, rateLimited]
    WorkflowOutcomes,  \* what may end a workflow: [id, caller, context, type, model, success,
                       \*  quality, calls, missed]; missed when its alarm failed it
    Retention,         \* ROUTING_EVENT_RETENTION_MS
    MaxTime,           \* bound: the clock stops here
    MaxTaught,         \* bound: an outcome is delivered until it was learned so often
    Units              \* unit of the forecast means, 1 / Units of a call

NoModel == "no model"    \* a workflow that never made a call has no primary model
NoQuality == -1
Replicas == {"coordinator", "state"}

IsCall(e) == "rateLimited" \in DOMAIN e

ASSUME OutcomesAssumption ==
    /\ \A o \in CallOutcomes :
           /\ IsCall(o) /\ o.model # NoModel
           /\ o.success \in BOOLEAN /\ o.rateLimited \in BOOLEAN
    /\ \A o \in WorkflowOutcomes :
           /\ ~IsCall(o)
           /\ o.success \in BOOLEAN /\ o.quality \in Nat \cup {NoQuality} /\ o.calls \in Nat
ASSUME RetentionAssumption ==
    Retention \in Nat /\ MaxTime \in Nat /\ MaxTaught \in Nat /\ Units \in Nat \ {0}

VARIABLES
    stats,      \* policy_stats of each replica, by scope and model
    forecasts,  \* workflow_forecasts of RoutingState, by scope and workflow type
    rows,       \* what each replica has a row for: learned_*_outcomes, *_outcomes
    sent,       \* reports sent; one that arrived may arrive again
    taught,     \* history: how often a replica learned an event
    now

vars == <<stats, forecasts, rows, sent, taught, now>>

Ids == {o.id : o \in CallOutcomes \cup WorkflowOutcomes}
EventsAt(t) == {[outcome |-> o, completedAt |-> t] : o \in CallOutcomes \cup WorkflowOutcomes}
Events == UNION {EventsAt(t) : t \in 0..MaxTime}

scopes(o) == {<<"global">>, <<"context", o.context>>, <<"caller", o.caller, o.context>>}
Keys(o) == {<<scope, o.model>> : scope \in scopes(o)}
ForecastKeys(o) == {<<<<"global">>, o.type>>, <<<<"caller", o.caller>>, o.type>>}

Init ==
    /\ stats = [r \in Replicas |-> << >>]
    /\ forecasts = << >>
    /\ rows = [r \in Replicas |-> {}]
    /\ sent = {}
    /\ taught = [r \in Replicas |-> [e \in Events |-> 0]]
    /\ now = 0

-----------------------------------------------------------------------------
(* INSERT ... ON CONFLICT DO UPDATE: the row of a key is created or        *)
(* updated.                                                                *)

Upserted(table, keys, first, next(_)) ==
    [k \in DOMAIN table \cup keys |->
        IF k \notin keys THEN table[k] ELSE IF k \in DOMAIN table THEN next(table[k]) ELSE first]

One(b) == IF b THEN 1 ELSE 0

(* The defaults of a policy_stats row.                                     *)
NewRow == [observations |-> 0, successAlpha |-> 1, successBeta |-> 1,
           completionAlpha |-> 1, completionBeta |-> 1, rateAlpha |-> 1, rateBeta |-> 9,
           qualityTotal |-> 0, qualityCount |-> 0]

(* Mutated form: the first call of a row is not counted as unrefused.      *)
FirstCallUncounted(o) ==
    [NewRow EXCEPT !.observations = 1,
                   !.successAlpha = IF o.success THEN 2 ELSE 1,
                   !.successBeta = IF o.success THEN 1 ELSE 2,
                   !.rateAlpha = IF o.rateLimited THEN 2 ELSE 1]

FirstCall(o) ==
    [NewRow EXCEPT !.observations = 1,
                   !.successAlpha = IF o.success THEN 2 ELSE 1,
                   !.successBeta = IF o.success THEN 1 ELSE 2,
                   !.rateAlpha = IF o.rateLimited THEN 2 ELSE 1,
                   !.rateBeta = IF o.rateLimited THEN 9 ELSE 10]

(* Mutated form: the parameters of the update change places.               *)
NextCallSwapped(row, o) ==
    [row EXCEPT !.observations = @ + 1,
                !.successAlpha = @ + One(~o.success), !.successBeta = @ + One(o.success),
                !.rateAlpha = @ + One(o.rateLimited), !.rateBeta = @ + One(~o.rateLimited)]

NextCall(row, o) ==
    [row EXCEPT !.observations = @ + 1,
                !.successAlpha = @ + One(o.success), !.successBeta = @ + One(~o.success),
                !.rateAlpha = @ + One(o.rateLimited), !.rateBeta = @ + One(~o.rateLimited)]

FirstWorkflow(o) ==
    [NewRow EXCEPT !.completionAlpha = IF o.success THEN 2 ELSE 1,
                   !.completionBeta = IF o.success THEN 1 ELSE 2,
                   !.qualityTotal = IF o.quality = NoQuality THEN 0 ELSE o.quality,
                   !.qualityCount = One(o.quality # NoQuality)]

NextWorkflow(row, o) ==
    [row EXCEPT !.completionAlpha = @ + One(o.success), !.completionBeta = @ + One(~o.success),
                !.qualityTotal = IF o.quality = NoQuality THEN @ ELSE @ + o.quality,
                !.qualityCount = @ + One(o.quality # NoQuality)]

CallLearned(table, o) ==
    LET next(row) == NextCall(row, o) IN Upserted(table, Keys(o), FirstCall(o), next)

WorkflowLearned(table, o) ==
    LET next(row) == NextWorkflow(row, o)
    IN  IF o.model = NoModel THEN table
        ELSE Upserted(table, Keys(o), FirstWorkflow(o), next)

(* updateWorkflowForecast: means in Units, squares in Units ^ 2, which are *)
(* exact as long as Units is a multiple of every count.  The token columns *)
(* follow the same recurrence.                                             *)
Prior(o, scope) ==
    IF <<scope, o.type>> \in DOMAIN forecasts THEN forecasts[<<scope, o.type>>]
    ELSE [observations |-> 0, completionAlpha |-> 1, completionBeta |-> 1,
          callsMean |-> 0, callsM2 |-> 0]

(* Mutated form: the square of the distance from the old mean.             *)
ForecastAfterOldMean(o, scope) ==
    LET prior == Prior(o, scope)
        nextCount == prior.observations + 1
        callsDelta == o.calls * Units - prior.callsMean
    IN  [observations |-> nextCount,
         completionAlpha |-> prior.completionAlpha + One(o.success),
         completionBeta |-> prior.completionBeta + One(~o.success),
         callsMean |-> prior.callsMean + callsDelta \div nextCount,
         callsM2 |-> prior.callsM2 + callsDelta * callsDelta]

ForecastAfter(o, scope) ==
    LET prior == Prior(o, scope)
        nextCount == prior.observations + 1
        callsDelta == o.calls * Units - prior.callsMean
        callsMean == prior.callsMean + callsDelta \div nextCount
    IN  [observations |-> nextCount,
         completionAlpha |-> prior.completionAlpha + One(o.success),
         completionBeta |-> prior.completionBeta + One(~o.success),
         callsMean |-> callsMean,
         callsM2 |-> prior.callsM2 + callsDelta * (o.calls * Units - callsMean)]

updateWorkflowForecast(o) ==
    [k \in DOMAIN forecasts \cup ForecastKeys(o) |->
        IF k \in ForecastKeys(o) THEN ForecastAfter(o, k[1]) ELSE forecasts[k]]

-----------------------------------------------------------------------------
(* Outcomes are reported.                                                  *)

Unreported(o) == \A m \in sent : m.event.outcome.id # o.id
Report(o, learners) ==
    sent' = sent \cup {[to |-> r, event |-> [outcome |-> o, completedAt |-> now]] : r \in learners}

(* finalizeAttempt: both replicas hear of a call.                          *)
finalizeAttempt(o) ==
    /\ Unreported(o)
    /\ Report(o, Replicas)
    /\ UNCHANGED <<stats, forecasts, rows, taught, now>>

(* The client's outcome goes to both, a missed deadline to RoutingState.   *)
workflowEnds(o) ==
    /\ Unreported(o)
    /\ Report(o, IF o.missed THEN {"state"} ELSE Replicas)
    /\ UNCHANGED <<stats, forecasts, rows, taught, now>>

-----------------------------------------------------------------------------
(* Outcomes are learned.                                                   *)

(* INSERT OR IGNORE writes no row when the id has one.                     *)
Known(r, o) == \E e \in rows[r] : e.outcome.id = o.id
Inserted(r, e) == rows' = [rows EXCEPT ![r] = @ \cup {e}]
Taught(r, e) == taught' = [taught EXCEPT ![r][e] = @ + 1]

recordLearningOutcome(e) ==
    /\ IsCall(e.outcome)
    /\ ~Known("coordinator", e.outcome)
    /\ stats' = [stats EXCEPT !["coordinator"] = CallLearned(@, e.outcome)]
    /\ Inserted("coordinator", e)
    /\ Taught("coordinator", e)
    /\ UNCHANGED <<forecasts, sent, now>>

(* RoutingCoordinator.recordWorkflowLearning: without a model it returns   *)
(* before it inserts.                                                      *)
recordWorkflowLearning(e) ==
    /\ ~IsCall(e.outcome)
    /\ e.outcome.model # NoModel
    /\ ~Known("coordinator", e.outcome)
    /\ stats' = [stats EXCEPT !["coordinator"] = WorkflowLearned(@, e.outcome)]
    /\ Inserted("coordinator", e)
    /\ Taught("coordinator", e)
    /\ UNCHANGED <<forecasts, sent, now>>

(* Mutated form: a row goes as soon as it is Retention old.                *)
ExpiredEarly(e) == e.completedAt <= now - Retention

(* RoutingState.purgeExpired, at the head of every record operation.       *)
Expired(e) == e.completedAt < now - Retention
KeptRows == {e \in rows["state"] : ~Expired(e)}
Recorded(e) ==
    /\ \A kept \in KeptRows : kept.outcome.id # e.outcome.id
    /\ rows' = [rows EXCEPT !["state"] = KeptRows \cup {e}]
    /\ Taught("state", e)

recordCallOutcome(e) ==
    /\ IsCall(e.outcome)
    /\ Recorded(e)
    /\ stats' = [stats EXCEPT !["state"] = CallLearned(@, e.outcome)]
    /\ UNCHANGED <<forecasts, sent, now>>

recordWorkflowOutcome(e) ==
    /\ ~IsCall(e.outcome)
    /\ Recorded(e)
    /\ forecasts' = updateWorkflowForecast(e.outcome)
    /\ stats' = [stats EXCEPT !["state"] = WorkflowLearned(@, e.outcome)]
    /\ UNCHANGED <<sent, now>>

(* A report of an outcome that is known purges, and teaches nothing.       *)
KnownAgain(e) ==
    /\ \E kept \in KeptRows : kept.outcome.id = e.outcome.id
    /\ rows' = [rows EXCEPT !["state"] = KeptRows]
    /\ UNCHANGED <<stats, forecasts, sent, taught, now>>

Delivered(m) ==
    /\ taught[m.to][m.event] < MaxTaught
    /\ \/ m.to = "coordinator" /\ (recordLearningOutcome(m.event) \/ recordWorkflowLearning(m.event))
       \/ m.to = "state" /\ (recordCallOutcome(m.event) \/ recordWorkflowOutcome(m.event)
                               \/ KnownAgain(m.event))

Tick ==
    /\ now < MaxTime
    /\ now' = now + 1
    /\ UNCHANGED <<stats, forecasts, rows, sent, taught>>

Next ==
    \/ \E o \in CallOutcomes : finalizeAttempt(o)
    \/ \E o \in WorkflowOutcomes : workflowEnds(o)
    \/ \E m \in sent : Delivered(m)
    \/ Tick

Spec == Init /\ [][Next]_vars

-----------------------------------------------------------------------------
(* hierarchicalStatistic: what a replica tells the ranking.  The Beta      *)
(* posterior of a caller in a context, as a fraction: its own hits and     *)
(* misses, and Strength pseudo-observations of the mean of the context,    *)
(* which is that of the whole environment while the context has no row.    *)

Strength == 12
Fraction(row, alpha, beta) == <<row[alpha], row[alpha] + row[beta]>>

posterior(table, q, alpha, beta) ==
    LET key(scope) == <<scope, q.model>>
        row(scope) == IF key(scope) \in DOMAIN table THEN table[key(scope)] ELSE NewRow
        context == <<"context", q.context>>
        prior == Fraction(row(IF key(context) \in DOMAIN table THEN context ELSE <<"global">>),
                          alpha, beta)
        caller == row(<<"caller", q.caller, q.context>>)
        hits == caller[alpha] - NewRow[alpha]
        misses == caller[beta] - NewRow[beta]
    IN  <<hits * prior[2] + Strength * prior[1], prior[2] * (hits + misses + Strength)>>

AtMost(f, g) == f[1] * g[2] <= g[1] * f[2]

-----------------------------------------------------------------------------
(* Properties                                                              *)

(* The type invariant of the replicas' tables and of the reports.          *)
LearningTypeOK ==
    /\ rows \in [Replicas -> SUBSET Events]
    /\ sent \subseteq [to : Replicas, event : Events]
    /\ taught \in [Replicas -> [Events -> 0..MaxTaught]]
    /\ now \in 0..MaxTime

Learned(r) == {e \in Events : taught[r][e] > 0}
Times(r, events) == SumFunctionOnSet(taught[r], events)
Total(r, events, value) == SumFunctionOnSet([e \in events |-> taught[r][e] * value[e]], events)

(* The row of a key, counted from what its replica learned.                *)
Counts(r, k) ==
    LET known == {e \in Learned(r) : k \in Keys(e.outcome)}
        calls == {e \in known : IsCall(e.outcome)}
        workflows == {e \in known : ~IsCall(e.outcome)}
        rated == {e \in workflows : e.outcome.quality # NoQuality}
    IN  [observations |-> Times(r, calls),
         successAlpha |-> 1 + Times(r, {e \in calls : e.outcome.success}),
         successBeta |-> 1 + Times(r, {e \in calls : ~e.outcome.success}),
         completionAlpha |-> 1 + Times(r, {e \in workflows : e.outcome.success}),
         completionBeta |-> 1 + Times(r, {e \in workflows : ~e.outcome.success}),
         rateAlpha |-> 1 + Times(r, {e \in calls : e.outcome.rateLimited}),
         rateBeta |-> 9 + Times(r, {e \in calls : ~e.outcome.rateLimited}),
         qualityTotal |-> Total(r, rated, [e \in rated |-> e.outcome.quality]),
         qualityCount |-> Times(r, rated)]

(* A row of the policy statistics is its prior plus one count for each     *)
(* outcome its replica learned in that scope, whichever way the reports    *)
(* were ordered, repeated or lost and whichever outcome created the row.   *)
(* So the three scopes add up, and replicas that learned the same outcomes *)
(* rank alike: what separates them is only reports that are missing.       *)
PosteriorsAreCounts ==
    \A r \in Replicas :
        /\ DOMAIN stats[r] =
              UNION {Keys(e.outcome) : e \in {x \in Learned(r) : x.outcome.model # NoModel}}
        /\ \A k \in DOMAIN stats[r] : stats[r][k] = Counts(r, k)

(* A repeated report teaches nothing: the ranking replica never learns an  *)
(* outcome twice, RoutingState only one that is older than its retention.  *)
LearnOnceWithinRetention ==
    [][\A r \in Replicas, e \in Events :
          (taught'[r][e] > taught[r][e] /\ taught[r][e] > 0)
              => (r = "state" /\ now - e.completedAt > Retention)]_vars

Learns(e) == taught'["coordinator"][e] > taught["coordinator"][e]
Queries(model) == {[caller |-> o.caller, context |-> o.context, model |-> model] :
                      o \in CallOutcomes \cup WorkflowOutcomes}
Moved(q, alpha, beta, up) ==
    LET before == posterior(stats["coordinator"], q, alpha, beta)
        after == posterior(stats'["coordinator"], q, alpha, beta)
    IN  IF up THEN AtMost(before, after) ELSE AtMost(after, before)

(* Evidence moves the estimates that rank a model one way only: a success  *)
(* lowers no caller's estimate in any context, a failure raises none, and  *)
(* so for completions and refusals.  The exception is the first outcome of *)
(* a context, whose new row replaces the evidence of the environment.      *)
EstimatesFollowOutcomes ==
    [][\A e \in Events : (Learns(e) /\ e.outcome.model # NoModel) =>
          \A q \in Queries(e.outcome.model) :
             (q.context # e.outcome.context
                \/ <<<<"context", q.context>>, q.model>> \in DOMAIN stats["coordinator"])
             => IF IsCall(e.outcome)
                THEN /\ Moved(q, "successAlpha", "successBeta", e.outcome.success)
                     /\ Moved(q, "rateAlpha", "rateBeta", e.outcome.rateLimited)
                ELSE Moved(q, "completionAlpha", "completionBeta", e.outcome.success)]_vars

(* The workflows behind a forecast: how many, their calls, and the squares *)
(* of their calls.                                                         *)
Forecasting(k) == {e \in Learned("state") : ~IsCall(e.outcome) /\ k \in ForecastKeys(e.outcome)}
Workflows(k) == Times("state", Forecasting(k))
CallsMade(k) == Total("state", Forecasting(k), [e \in Forecasting(k) |-> e.outcome.calls])
CallsSquared(k) ==
    Total("state", Forecasting(k), [e \in Forecasting(k) |-> e.outcome.calls * e.outcome.calls])

(* The forecast's running mean and variance of calls per workflow are the  *)
(* mean and the variance of the workflows learned, in whatever order they  *)
(* were reported.                                                          *)
ForecastIsExact ==
    \A k \in DOMAIN forecasts :
        LET n == Workflows(k)  sum == CallsMade(k) IN
        /\ forecasts[k].observations = n
        /\ forecasts[k].callsMean * n = Units * sum
        /\ forecasts[k].callsM2 * n = Units * Units * (n * CallsSquared(k) - sum * sum)
=============================================================================
