----------------------------- MODULE Execution -----------------------------
(***************************************************************************)
(* executeGeneration: how one Worker invocation serves a request through   *)
(* the three Durable Objects that admit it.  In order: preview the caller's*)
(* quota, plan and reserve a provider, reserve the caller's quota, lease a *)
(* workflow call, call the provider; on a failure plan again without the   *)
(* providers already tried.  Each attempt sends one provider outcome and   *)
(* the request sends one caller outcome and one finishCall, all through    *)
(* waitUntil.                                                              *)
(*                                                                         *)
(* The provider coordinator is the RoutingCoordinator module: its attempts *)
(* are the pairs <<request, attempt number>>, and every step of a request  *)
(* that touches it is one of its actions.  The workflow is reduced to what *)
(* a request sees of it: a lease granted below the concurrency limit, or a *)
(* refusal for any reason.                                                 *)
(***************************************************************************)
EXTENDS RoutingCoordinator, QuotaCoordinator

CONSTANTS
    Requests,
    MaxProviderAttempts,    \* min(MAX_PROVIDER_ATTEMPTS, number of credentials)
    Limited,                \* requests whose caller has limits
    Members,                \* requests that belong to the workflow
    Streaming,              \* requests with stream: true
    WorkflowSlots,          \* maxConcurrency of the workflow
    MaxInlineWait,          \* MAX_INLINE_WAIT_MS
    Faults                  \* "crash": an invocation dies or an RPC it awaits throws;
                            \* "cancel": the cancellation of an upstream body rejects

ASSUME AttemptsAssumption ==
    MaxProviderAttempts \in Nat \ {0} /\ Calls = Requests \X (1 .. MaxProviderAttempts)
ASSUME RequestsAssumption ==
    /\ Limited \subseteq Requests /\ Members \subseteq Requests /\ Streaming \subseteq Requests
    /\ WorkflowSlots \in Nat \ {0} /\ MaxInlineWait \in Nat
    /\ Faults \subseteq {"crash", "cancel"}

VARIABLES
    requests,       \* where each invocation stands, and its local variables
    leases,         \* workflow leases: "none", "open", "closed"
    callerOutbox,   \* caller outcomes sent through waitUntil
    finishes        \* finishCall messages sent through waitUntil

NotAsleep == -1

requestVars == <<requests, callerLedger, leases, callerOutbox, finishes>>
execVars == <<vars, requestVars>>

NewRequest == [phase |-> "new", attempt |-> 1, resumeAt |-> NotAsleep, callerHeld |-> FALSE,
               totalActualTokens |-> 0, consumedProviderCapacity |-> FALSE]

ExecInit ==
    /\ Init
    /\ CallerInit
    /\ requests = [r \in Requests |-> NewRequest]
    /\ leases = [r \in Requests |-> "none"]
    /\ callerOutbox = {}
    /\ finishes = {}

Attempt(r) == <<r, requests[r].attempt>>
At(r, phase) == requests[r].phase = phase
Goto(r, phase) == requests' = [requests EXCEPT ![r].phase = phase]

-----------------------------------------------------------------------------
(* Admission.                                                              *)

(* inspectForCall refuses the workflow: the request ends with nothing held.*)
inspectWorkflow(r) ==
    /\ At(r, "new") /\ r \in Members
    /\ Goto(r, "ended")
    /\ UNCHANGED <<vars, callerLedger, leases, callerOutbox, finishes>>

inspectCallerAdmission(r) ==
    /\ At(r, "new")
    /\ IF r \in Limited
       THEN \E allowed \in BOOLEAN :
                /\ inspect(Max(TokenRequests), now, allowed)
                /\ Goto(r, IF allowed THEN "plan" ELSE "ended")
       ELSE Goto(r, "plan") /\ UNCHANGED callerLedger
    /\ UNCHANGED <<vars, leases, callerOutbox, finishes>>

excludedProviders(r) == {calls[<<r, n>>].scope : n \in 1 .. requests[r].attempt - 1}

LeaseOrInvoke(r) == IF r \in Members /\ leases[r] = "none" THEN "lease" ELSE "invoke"

AfterPlan(r) ==
    IF r \in Limited /\ ~requests[r].callerHeld THEN "caller" ELSE LeaseOrInvoke(r)

(* Mutated form: the lease is forgotten.                                   *)
finalizeLogicalLeaseKept(r, total, capacity) ==
    /\ callerOutbox' =
           IF ~requests[r].callerHeld THEN callerOutbox
           ELSE callerOutbox \cup
                {[request |-> r,
                  outcome |-> [quotaSuccess |-> capacity, cooldown |-> FALSE,
                               actualTokens |-> IF total = 0 THEN Undefined ELSE total,
                               retryAfterMs |-> Undefined]]}
    /\ finishes' = finishes

(* finalizeLogical: the caller outcome and the end of the lease are sent,  *)
(* for whichever of the two the request holds.                             *)
finalizeLogical(r, total, capacity) ==
    /\ callerOutbox' =
           IF ~requests[r].callerHeld THEN callerOutbox
           ELSE callerOutbox \cup
                {[request |-> r,
                  outcome |-> [quotaSuccess |-> capacity, cooldown |-> FALSE,
                               actualTokens |-> IF total = 0 THEN Undefined ELSE total,
                               retryAfterMs |-> Undefined]]}
    /\ finishes' = IF leases[r] = "none" THEN finishes ELSE finishes \cup {r}

Finish(r, total, capacity) ==
    /\ Goto(r, "ended")
    /\ finalizeLogical(r, total, capacity)

FinishAsIs(r) == Finish(r, requests[r].totalActualTokens, requests[r].consumedProviderCapacity)

(* A plan that admits nothing: the first attempt may sleep once for the    *)
(* wait it was quoted, when that is short enough, and ask again, or fail   *)
(* with nothing held; a later one ends the request.                        *)
PlanDenied(r, tokens, candidates) ==
    /\ Deny(Attempt(r), tokens, candidates)
    /\ IF requests[r].attempt > 1 THEN FinishAsIs(r)
       ELSE /\ IF /\ requests[r].resumeAt = NotAsleep
                  /\ candidates # {}
                  /\ earliestDenial(candidates, tokens) <= MaxInlineWait
               THEN requests' = [requests EXCEPT
                                   ![r].resumeAt = now + earliestDenial(candidates, tokens)]
               ELSE Goto(r, "ended")
            /\ UNCHANGED <<callerOutbox, finishes>>

admitRankedRoute(r, tokens) ==
    LET candidates == Scopes \ excludedProviders(r) IN
    /\ At(r, "plan") /\ requests[r].resumeAt <= now
    /\ \/ /\ Reserve(Attempt(r), tokens, candidates)
          /\ Goto(r, AfterPlan(r))
          /\ UNCHANGED <<callerOutbox, finishes>>
       \/ PlanDenied(r, tokens, candidates)
    /\ UNCHANGED <<callerLedger, leases>>

(* The outcome that gives an unused provider reservation back.             *)
Unspent == [quotaSuccess |-> FALSE, cooldown |-> FALSE, learning |-> FALSE,
            actualTokens |-> Undefined, retryAfterMs |-> Undefined]
ASSUME UnspentAssumption == Unspent \in Outcomes

(* The caller's quota is reserved with the first attempt and kept for the  *)
(* others.  If it is gone by now the provider reservation is given back.   *)
reserveCaller(r) ==
    /\ At(r, "caller")
    /\ \E allowed \in BOOLEAN :
           /\ reserve(r, calls[Attempt(r)].tokens, now, allowed)
           /\ IF allowed
              THEN /\ requests' = [requests EXCEPT ![r].callerHeld = TRUE,
                                                   ![r].phase = LeaseOrInvoke(r)]
                   /\ UNCHANGED vars
              ELSE /\ Finalize(Attempt(r), Unspent)
                   /\ Goto(r, "ended")
    /\ UNCHANGED <<leases, callerOutbox, finishes>>

OpenLeases == {r \in Requests : leases[r] = "open"}

leaseWorkflowCall(r) ==
    /\ At(r, "lease")
    /\ \/ /\ Cardinality(OpenLeases) < WorkflowSlots
          /\ leases' = [leases EXCEPT ![r] = "open"]
          /\ Goto(r, "invoke")
          /\ UNCHANGED vars
       \/ /\ Finalize(Attempt(r), Unspent)
          /\ Goto(r, "releasing")
          /\ UNCHANGED leases
    /\ UNCHANGED <<callerLedger, callerOutbox, finishes>>

(* A refused lease: once the provider reservation is back, so is the       *)
(* caller's.                                                               *)
releaseAfterRefusal(r) ==
    /\ At(r, "releasing")
    /\ Attempt(r) \notin DOMAIN ledgers[calls[Attempt(r)].scope].rows
    /\ FinishAsIs(r)
    /\ UNCHANGED <<vars, callerLedger, leases>>

-----------------------------------------------------------------------------
(* The provider's answer.                                                  *)

(* Mutated form: the tokens of earlier attempts are forgotten.             *)
LatestTokens(r, outcome) == IF outcome.actualTokens = Undefined THEN 0 ELSE outcome.actualTokens

TokensSoFar(r, outcome) ==
    requests[r].totalActualTokens
        + (IF outcome.actualTokens = Undefined THEN 0 ELSE outcome.actualTokens)

(* What follows a failed attempt: a plan for the next one, or the end.     *)
NextAttempt(r, outcome) ==
    IF requests[r].attempt < MaxProviderAttempts
    THEN /\ requests' = [requests EXCEPT ![r].phase = "plan", ![r].attempt = @ + 1,
                                         ![r].totalActualTokens = TokensSoFar(r, outcome)]
         /\ UNCHANGED <<callerOutbox, finishes>>
    ELSE Finish(r, TokensSoFar(r, outcome), requests[r].consumedProviderCapacity)

(* Mutated form: the request is settled with every failed attempt.         *)
attemptFailedAndSettled(r, outcome) ==
    /\ Finalize(Attempt(r), outcome)
    /\ finalizeLogical(r, TokensSoFar(r, outcome), requests[r].consumedProviderCapacity)
    /\ IF requests[r].attempt < MaxProviderAttempts
       THEN requests' = [requests EXCEPT ![r].phase = "plan", ![r].attempt = @ + 1,
                                         ![r].totalActualTokens = TokensSoFar(r, outcome)]
       ELSE Goto(r, "ended")

attemptFailed(r, outcome) ==
    /\ Finalize(Attempt(r), outcome)
    /\ NextAttempt(r, outcome)

(* The provider cannot be reached, or answers with an error status.        *)
invokeFails(r, outcome) ==
    /\ At(r, "invoke")
    /\ ~outcome.quotaSuccess /\ outcome.learning
    /\ attemptFailed(r, outcome)
    /\ UNCHANGED <<callerLedger, leases>>

invokeAnswers(r) ==
    /\ At(r, "invoke")
    /\ requests' = [requests EXCEPT ![r].phase = "serving",
                                    ![r].consumedProviderCapacity = TRUE]
    /\ UNCHANGED <<vars, callerLedger, leases, callerOutbox, finishes>>

(* The answer ends the request: the attempt is settled, then the request.  *)
Serve(r, outcome) ==
    /\ At(r, "serving")
    /\ outcome.quotaSuccess
    /\ Finalize(Attempt(r), outcome)
    /\ Finish(r, TokensSoFar(r, outcome), requests[r].consumedProviderCapacity)
    /\ UNCHANGED <<callerLedger, leases>>

(* A usable completion.                                                    *)
complete(r, outcome) == r \notin Streaming /\ Serve(r, outcome)

(* A stream that ends, fails or is cancelled, with the usage seen so far.  *)
observedStream(r, outcome) == r \in Streaming /\ Serve(r, outcome)

(* An empty or truncated completion: charged, and the next provider tried. *)
unusable(r, outcome) ==
    /\ At(r, "serving") /\ r \notin Streaming
    /\ outcome.quotaSuccess
    /\ attemptFailed(r, outcome)
    /\ UNCHANGED <<callerLedger, leases>>

(* cancel() awaits the cancellation of the upstream body before it settles *)
(* anything; when that rejects, nothing is settled.                        *)
cancelRejects(r) ==
    /\ "cancel" \in Faults
    /\ At(r, "serving") /\ r \in Streaming
    /\ Crash(Attempt(r))
    /\ Goto(r, "cancelled")
    /\ UNCHANGED <<callerLedger, leases, callerOutbox, finishes>>

(* The invocation dies, or an RPC it awaits throws.                        *)
invocationDies(r) ==
    /\ "crash" \in Faults
    /\ requests[r].phase \notin {"new", "ended", "cancelled", "crashed"}
    /\ IF calls[Attempt(r)].phase = "inflight" THEN Crash(Attempt(r)) ELSE UNCHANGED vars
    /\ Goto(r, "crashed")
    /\ UNCHANGED <<callerLedger, leases, callerOutbox, finishes>>

-----------------------------------------------------------------------------
(* waitUntil deliveries and time.                                          *)

deliverProviderOutcome(m) ==
    recordProviderOutcome(m.call, m.outcome) /\ UNCHANGED requestVars

deliverCallerOutcome(m) ==
    /\ recordOutcome(m.request, m.outcome, now)
    /\ UNCHANGED <<vars, requests, leases, callerOutbox, finishes>>

deliverFinish(r) ==
    /\ leases' = [leases EXCEPT ![r] = "closed"]
    /\ UNCHANGED <<vars, requests, callerLedger, callerOutbox, finishes>>

Step(r) ==
    \/ inspectWorkflow(r)
    \/ inspectCallerAdmission(r)
    \/ \E tokens \in TokenRequests : admitRankedRoute(r, tokens)
    \/ reserveCaller(r)
    \/ leaseWorkflowCall(r)
    \/ releaseAfterRefusal(r)
    \/ \E outcome \in Outcomes : invokeFails(r, outcome)
    \/ invokeAnswers(r)
    \/ \E outcome \in Outcomes : complete(r, outcome)
    \/ \E outcome \in Outcomes : observedStream(r, outcome)
    \/ \E outcome \in Outcomes : unusable(r, outcome)
    \/ cancelRejects(r)
    \/ invocationDies(r)

Deliver ==
    \/ \E m \in outbox : deliverProviderOutcome(m)
    \/ \E m \in callerOutbox : deliverCallerOutcome(m)
    \/ \E r \in finishes : deliverFinish(r)

ExecTick == Tick /\ UNCHANGED requestVars

ExecNext ==
    \/ \E r \in Requests : Step(r)
    \/ Deliver
    \/ ExecTick

ExecSpec == ExecInit /\ [][ExecNext]_execVars

(* An invocation that has started runs on, what is sent arrives and time   *)
(* passes.                                                                 *)
ExecFairness ==
    /\ WF_execVars(ExecTick)
    /\ \A r \in Requests : WF_execVars(requests[r].phase # "new" /\ Step(r))
    /\ \A c \in Calls :
           WF_execVars(\E m \in outbox : m.call = c /\ deliverProviderOutcome(m))
    /\ \A r \in Requests :
           /\ WF_execVars(\E m \in callerOutbox : m.request = r /\ deliverCallerOutcome(m))
           /\ WF_execVars(r \in finishes /\ deliverFinish(r))

ExecFairSpec == ExecSpec /\ ExecFairness

-----------------------------------------------------------------------------
(* Properties                                                              *)

(* The provider is only called while the provider's capacity, the caller's *)
(* quota and the workflow's lease are all held, on the first attempt and   *)
(* on every fallback ("leases a workflow call only after provider capacity *)
(* is reserved").                                                          *)
UpstreamIsAdmitted ==
    \A r \in Requests : requests[r].phase \in {"invoke", "serving"} =>
        /\ Attempt(r) \in DOMAIN ledgers[calls[Attempt(r)].scope].rows
        /\ r \in Limited => r \in DOMAIN callerLedger.rows
        /\ r \in Members => leases[r] = "open"

(* The caller's concurrency limit holds although its preview and its       *)
(* reservation are separate calls with the provider plan in between.       *)
CallerCeiling ==
    CallerSettings.maxConcurrent > 0 =>
        reservationCount(callerLedger) <= CallerSettings.maxConcurrent

OwedOutcome(c) == \E m \in outbox : m.call = c

(* A request that returned, or threw, leaves nothing behind: each row and  *)
(* lease it still holds has its settling message under way ("stream        *)
(* completion or cancellation reconciles the provider reservation,         *)
(* workflow lease, and routing outcome exactly once").                     *)
NothingAbandoned ==
    \A r \in Requests : requests[r].phase \in {"ended", "cancelled"} =>
        /\ \A n \in 1 .. MaxProviderAttempts, s \in Scopes :
               <<r, n>> \in DOMAIN ledgers[s].rows => OwedOutcome(<<r, n>>)
        /\ r \in DOMAIN callerLedger.rows => \E m \in callerOutbox : m.request = r
        /\ leases[r] = "open" => r \in finishes

ServedAttempts(r) == {m \in outbox : m.call[1] = r /\ m.outcome.quotaSuccess}

(* A caller pays for every attempt that consumed tokens, also for those    *)
(* whose answer was unusable and replaced by another provider's.           *)
CallerPaysForEveryAttempt ==
    \A m \in callerOutbox :
        LET served == ServedAttempts(m.request) IN
        (\A a \in served : a.outcome.actualTokens # Undefined)
            => /\ m.outcome.quotaSuccess = (served # {})
               /\ ChargedTokens(m.outcome, 0)
                      = SumFunctionOnSet([a \in served |-> a.outcome.actualTokens], served)

HoldsNothing(r) ==
    /\ r \notin DOMAIN callerLedger.rows
    /\ leases[r] # "open"
    /\ \A n \in 1 .. MaxProviderAttempts, s \in Scopes : <<r, n>> \notin DOMAIN ledgers[s].rows

(* A request that was started ends, and then holds nothing, whatever       *)
(* happens to the other requests; unless its own invocation dies, the      *)
(* cancellation of its stream fails, or it sleeps when the clock of the    *)
(* model stops.                                                            *)
RequestSettles ==
    \A r \in Requests :
        (requests[r].phase # "new")
            ~> (\/ requests[r].phase \in {"cancelled", "crashed"}
                \/ requests[r].phase = "plan" /\ requests[r].resumeAt > MaxTime
                \/ requests[r].phase = "ended" /\ HoldsNothing(r))
=============================================================================
