---------------------------- MODULE WorkflowSpec ----------------------------
(***************************************************************************)
(* What a workflow says of itself: POST /v1/workflows is parsed with the   *)
(* forecast of its type filling in what the client leaves out, and each of *)
(* its calls carries what is left of the workflow in place of the hints    *)
(* the client sent.  Absent stands for a member that is undefined; a value *)
(* that is no integer (a string, NaN, 1.5) is NotAnInteger.                *)
(*                                                                         *)
(* A forecast row is the number of workflows learned with the sum and the  *)
(* sum of squares of their calls, which determine its mean and its m2.     *)
(* The token columns are forecast the same way from their own sums; here   *)
(* a forecast asks TokensPerCall tokens for each expected call.            *)
(***************************************************************************)
EXTENDS Integers

CONSTANT TokensPerCall     \* 1024 in the code
ASSUME TokensPerCallAssumption == TokensPerCall \in Nat

Absent == -1
NotAnInteger == -2
Refused == [refused |-> TRUE]
Counts == Nat \cup {Absent, NotAnInteger}

AtLeastOne(n) == IF n < 1 THEN 1 ELSE n
Or(value, fallback) == IF value = Absent THEN fallback ELSE value

-----------------------------------------------------------------------------
(* RoutingState.workflowForecast.  Fractions are pairs <<n, d>>.           *)

NoRow == [observations |-> 0, calls |-> 0, squares |-> 0]
Rows == [observations : Nat, calls : Nat, squares : Nat]
Shrinkage == 10

RowMean(row) == IF row.observations = 0 THEN <<1, 1>> ELSE <<row.calls, row.observations>>

(* The caller's mean, shrunk toward the mean of the environment.           *)
callsMean(caller, global) ==
    LET prior == RowMean(global)
    IN  IF caller.observations = 0 THEN prior
        ELSE <<caller.calls * prior[2] + Shrinkage * prior[1],
               prior[2] * (caller.observations + Shrinkage)>>

(* A single workflow says nothing of the variance: its mean stands in.     *)
variance(row) ==
    IF row.observations < 2 THEN RowMean(row)
    ELSE <<row.observations * row.squares - row.calls * row.calls,
           row.observations * (row.observations - 1)>>

Larger(f, g) == IF f[1] * g[2] < g[1] * f[2] THEN g ELSE f

(* The standard deviation is at least that of a Poisson distribution.      *)
callsVariance(caller, global) ==
    Larger(callsMean(caller, global),
           variance(IF caller.observations > 0 THEN caller ELSE global))

(* n >= mean + tenths / 10 * sqrt(var)                                     *)
Covers(mean, var, tenths, n) ==
    LET above == n * mean[2] - mean[1]
    IN  above >= 0 /\ above * above * (100 * var[2])
                        >= tenths * tenths * (var[1] * mean[2] * mean[2])

(* No quantile that is forecast is larger.                                 *)
Beyond(mean, var) == mean[1] + 2 * var[1] + 2

Quantile(mean, var, tenths) ==
    CHOOSE n \in 1..Beyond(mean, var) :
        Covers(mean, var, tenths, n) /\ \A m \in 1..(n - 1) : ~Covers(mean, var, tenths, m)

(* 1.282 standard deviations are rounded to 1.3.                           *)
workflowForecast(caller, global) ==
    LET mean == callsMean(caller, global)
        var == callsVariance(caller, global)
    IN  [observations |-> IF caller.observations < global.observations
                          THEN global.observations ELSE caller.observations,
         expectedCalls |-> Quantile(mean, var, 13),
         maxCalls |-> Quantile(mean, var, 20)]

-----------------------------------------------------------------------------
(* parseWorkflowSpec                                                       *)

NoForecast == [expectedCalls |-> Absent, maxCalls |-> Absent]

(* The gateway passes a forecast on only if it rests on something.         *)
Defaults(forecast) ==
    IF forecast.observations > 0
    THEN [expectedCalls |-> forecast.expectedCalls, maxCalls |-> forecast.maxCalls]
    ELSE NoForecast

(* integer(): a member that is given has to be an integer in range; the    *)
(* fallback is taken as it is.                                             *)
InRange(value, minimum, maximum) ==
    value = Absent \/ (value # NotAnInteger /\ minimum <= value /\ value <= maximum)

expectedCallsOf(body, forecast) == Or(body.expectedCalls, Or(forecast.expectedCalls, 1))

maxCallsOf(body, forecast, expectedCalls) == Or(body.maxCalls, Or(forecast.maxCalls, expectedCalls))

(* Mutated form: only a maxCalls that the client gave is checked.          *)
CallsUnchecked(expectedCalls, maxCalls) == TRUE
CallsConsistent(expectedCalls, maxCalls) == ~(maxCalls < expectedCalls)

parseWorkflowSpec(body, forecast) ==
    LET expectedCalls == expectedCallsOf(body, forecast)
        maxCalls == maxCallsOf(body, forecast, expectedCalls)
    IN  IF /\ body.known
           /\ InRange(body.expectedCalls, 1, 1000)
           /\ InRange(body.maxCalls, expectedCalls, 10000)
           /\ CallsConsistent(expectedCalls, maxCalls)
           /\ InRange(body.maxConcurrency, 1, 1000)
        THEN [refused |-> FALSE, expectedCalls |-> expectedCalls, maxCalls |-> maxCalls,
              maxConcurrency |-> Or(body.maxConcurrency, 1),
              estimatedTotalTokens |-> TokensPerCall * expectedCalls,
              reasoning |-> body.reasoning]
        ELSE Refused

-----------------------------------------------------------------------------
(* applyWorkflowContext: the hints of a call in a workflow.  progress is   *)
(* what the workflow's row says when the call is inspected.                *)
applyWorkflowContext(spec, progress) ==
    [expectedCalls |-> AtLeastOne(spec.expectedCalls - progress.callsStarted),
     maxCalls |-> AtLeastOne(spec.maxCalls - progress.callsStarted),
     maxConcurrency |-> spec.maxConcurrency,
     estimatedTotalTokens |-> AtLeastOne(spec.estimatedTotalTokens - progress.actualTokens),
     preferredProviderId |-> progress.primaryProvider,
     reasoning |-> spec.reasoning]
=============================================================================
