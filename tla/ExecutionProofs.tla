-------------------------- MODULE ExecutionProofs --------------------------
(***************************************************************************)
(* Theorems about Execution, for any number of requests, attempts, callers *)
(* and workflows: a request's steps are steps of the provider coordinator, *)
(* the caller's concurrency limit, what is held while the provider is      *)
(* called, what is left when a request ends, and what the caller pays.     *)
(***************************************************************************)
EXTENDS Execution, RoutingCoordinatorProofs

USE DayLengthAssumption, TimeAssumption, SettingsAssumption, TokensAssumption,
    OutcomesAssumption, NoScopeAssumption, AttemptsAssumption, RequestsAssumption,
    CallerSettingsAssumption, UnspentAssumption

-----------------------------------------------------------------------------
(* Types.                                                                  *)

Phases == {"new", "plan", "caller", "lease", "invoke", "serving", "releasing",
           "ended", "cancelled", "crashed"}

(* The local variables of an invocation.                                   *)
RequestType(request) ==
    /\ DOMAIN request = {"phase", "attempt", "resumeAt", "callerHeld",
                         "totalActualTokens", "consumedProviderCapacity"}
    /\ request.phase \in Phases
    /\ request.attempt \in 1 .. MaxProviderAttempts
    /\ request.callerHeld \in BOOLEAN
    /\ request.totalActualTokens \in Nat
    /\ request.consumedProviderCapacity \in BOOLEAN

(* The type invariant of the invocations and of what they send.            *)
ExecTypeOK ==
    /\ DOMAIN requests = Requests
    /\ \A r \in Requests : RequestType(requests[r])
    /\ LedgerType(callerLedger)
    /\ leases \in [Requests -> {"none", "open", "closed"}]
    /\ finishes \subseteq Requests
    /\ \A m \in callerOutbox : m.request \in Requests /\ OutcomeType(m.outcome)

(* One invocation moves on to these values, the others stay.               *)
Updates(r, phase, attempt, held, total, consumed) ==
    /\ DOMAIN requests' = Requests
    /\ \A q \in Requests : RequestType(requests'[q])
    /\ \A q \in Requests \ {r} : requests'[q] = requests[q]
    /\ requests'[r].phase = phase
    /\ requests'[r].attempt = attempt
    /\ requests'[r].callerHeld = held
    /\ requests'[r].totalActualTokens = total
    /\ requests'[r].consumedProviderCapacity = consumed

MovesTo(r, phase) ==
    Updates(r, phase, requests[r].attempt, requests[r].callerHeld,
            requests[r].totalActualTokens, requests[r].consumedProviderCapacity)

(* The assignments of a step, one by one.                                  *)
LEMMA UpdateEffects ==
    ASSUME ExecTypeOK, NEW r \in Requests
    PROVE  /\ \A phase \in Phases : Goto(r, phase) => MovesTo(r, phase)
           /\ \A time : requests' = [requests EXCEPT ![r].resumeAt = time]
                            => MovesTo(r, requests[r].phase)
           /\ \A phase \in Phases :
                  requests' = [requests EXCEPT ![r].callerHeld = TRUE, ![r].phase = phase]
                    => Updates(r, phase, requests[r].attempt, TRUE,
                               requests[r].totalActualTokens,
                               requests[r].consumedProviderCapacity)
           /\ requests[r].attempt < MaxProviderAttempts =>
              \A total \in Nat :
                  requests' = [requests EXCEPT ![r].phase = "plan", ![r].attempt = @ + 1,
                                               ![r].totalActualTokens = total]
                    => Updates(r, "plan", requests[r].attempt + 1, requests[r].callerHeld,
                               total, requests[r].consumedProviderCapacity)
           /\ requests' = [requests EXCEPT ![r].phase = "serving",
                                           ![r].consumedProviderCapacity = TRUE]
                => Updates(r, "serving", requests[r].attempt, requests[r].callerHeld,
                           requests[r].totalActualTokens, TRUE)
<1>0. DOMAIN requests = Requests /\ RequestType(requests[r])
  BY DEF ExecTypeOK
<1>1. ASSUME NEW phase \in Phases, Goto(r, phase) PROVE MovesTo(r, phase)
  <2>1. requests' = [requests EXCEPT ![r] = [requests[r] EXCEPT !.phase = phase]]
    BY <1>1 DEF Goto
  <2> QED
    BY <1>0, <2>1 DEF MovesTo, Updates, RequestType, ExecTypeOK
<1>2. ASSUME NEW time, requests' = [requests EXCEPT ![r].resumeAt = time]
      PROVE  MovesTo(r, requests[r].phase)
  <2>1. requests' = [requests EXCEPT ![r] = [requests[r] EXCEPT !.resumeAt = time]]
    BY <1>2
  <2> QED
    BY <1>0, <2>1 DEF MovesTo, Updates, RequestType, ExecTypeOK
<1>3. ASSUME NEW phase \in Phases,
             requests' = [requests EXCEPT ![r].callerHeld = TRUE, ![r].phase = phase]
      PROVE  Updates(r, phase, requests[r].attempt, TRUE, requests[r].totalActualTokens,
                     requests[r].consumedProviderCapacity)
  <2>1. requests' = [requests EXCEPT ![r] = [requests[r] EXCEPT !.callerHeld = TRUE,
                                                                !.phase = phase]]
    BY <1>0, <1>3
  <2> QED
    BY <1>0, <2>1 DEF Updates, RequestType, ExecTypeOK
<1>4. ASSUME NEW total \in Nat, requests[r].attempt < MaxProviderAttempts,
             requests' = [requests EXCEPT ![r].phase = "plan", ![r].attempt = @ + 1,
                                          ![r].totalActualTokens = total]
      PROVE  Updates(r, "plan", requests[r].attempt + 1, requests[r].callerHeld,
                     total, requests[r].consumedProviderCapacity)
  <2>1. requests' = [requests EXCEPT
                       ![r] = [requests[r] EXCEPT !.phase = "plan",
                                                  !.attempt = requests[r].attempt + 1,
                                                  !.totalActualTokens = total]]
    BY <1>0, <1>4
  <2>2. requests[r].attempt + 1 \in 1 .. MaxProviderAttempts
    BY <1>0, <1>4 DEF RequestType
  <2>3. "plan" \in Phases
    BY DEF Phases
  <2> QED
    BY <1>0, <2>1, <2>2, <2>3 DEF Updates, RequestType, ExecTypeOK
<1>5. ASSUME requests' = [requests EXCEPT ![r].phase = "serving",
                                          ![r].consumedProviderCapacity = TRUE]
      PROVE  Updates(r, "serving", requests[r].attempt, requests[r].callerHeld,
                     requests[r].totalActualTokens, TRUE)
  <2>1. requests' = [requests EXCEPT ![r] = [requests[r] EXCEPT
                                               !.phase = "serving",
                                               !.consumedProviderCapacity = TRUE]]
    BY <1>0, <1>5
  <2>2. "serving" \in Phases
    BY DEF Phases
  <2> QED
    BY <1>0, <2>1, <2>2 DEF Updates, RequestType, ExecTypeOK
<1> QED
  BY <1>1, <1>2, <1>3, <1>4, <1>5

-----------------------------------------------------------------------------
(* The provider coordinator's part of a step.                              *)

(* The ledgers are a table, one per credential.                            *)
LedgersAreTable == ledgers = [s \in Scopes |-> ledgers[s]]

LEMMA TableStep ==
    ASSUME TypeOK, LedgersAreTable, [Next]_vars
    PROVE  LedgersAreTable'
<1>1. ASSUME NEW c \in Calls, NEW tokens \in TokenRequests, NEW candidates \in SUBSET Scopes,
             Reserve(c, tokens, candidates)
      PROVE  LedgersAreTable'
  <2>1. PICK w \in candidates :
          ledgers' = [s \in Scopes |->
                 IF s = w THEN Reserved(Inspected(w), c, tokens, Settings[w], now)
                 ELSE IF s \in candidates THEN Inspected(s) ELSE ledgers[s]]
    BY <1>1, ReserveStep
  <2> QED
    BY <2>1 DEF LedgersAreTable
<1>2. ASSUME NEW c \in Calls, NEW tokens \in TokenRequests, NEW candidates \in SUBSET Scopes,
             Deny(c, tokens, candidates)
      PROVE  LedgersAreTable'
  BY <1>2 DEF Deny, AfterInspection, LedgersAreTable
<1>3. ASSUME NEW m \in outbox, recordProviderOutcome(m.call, m.outcome)
      PROVE  LedgersAreTable'
  <2>1. ledgers' = [ledgers EXCEPT ![calls[m.call].scope] =
                       Settled(@, m.call, m.outcome, Settings[calls[m.call].scope], now)]
    BY <1>3 DEF recordProviderOutcome
  <2> QED
    BY <2>1 DEF LedgersAreTable
<1>4. CASE UNCHANGED ledgers
  BY <1>4 DEF LedgersAreTable
<1> QED
  BY <1>1, <1>2, <1>3, <1>4 DEF Next, planAndReserve, Finalize, Crash, Tick, vars

(* What a step of a request may do to its attempt.                         *)
AttemptStep(r) ==
    \/ UNCHANGED vars
    \/ \E tokens \in TokenRequests, candidates \in SUBSET Scopes :
           /\ At(r, "plan")
           /\ Reserve(Attempt(r), tokens, candidates) \/ Deny(Attempt(r), tokens, candidates)
    \/ \E outcome \in Outcomes : Finalize(Attempt(r), outcome)
    \/ Crash(Attempt(r))

LEMMA EveryAttemptStep ==
    ASSUME NEW r \in Requests, Step(r)
    PROVE  AttemptStep(r)
<1>1. CASE \E tokens \in TokenRequests : admitRankedRoute(r, tokens)
  <2>1. Scopes \ excludedProviders(r) \in SUBSET Scopes
    OBVIOUS
  <2> QED
    BY <1>1, <2>1 DEF admitRankedRoute, PlanDenied, AttemptStep
<1>2. CASE reserveCaller(r) \/ leaseWorkflowCall(r)
  BY <1>2 DEF reserveCaller, leaseWorkflowCall, AttemptStep
<1>3. ASSUME NEW outcome \in Outcomes,
             \/ invokeFails(r, outcome) \/ complete(r, outcome)
             \/ observedStream(r, outcome) \/ unusable(r, outcome)
      PROVE  AttemptStep(r)
  BY <1>3 DEF invokeFails, complete, observedStream, unusable, Serve, attemptFailed, AttemptStep
<1>4. CASE \/ inspectWorkflow(r) \/ inspectCallerAdmission(r) \/ invokeAnswers(r)
           \/ releaseAfterRefusal(r) \/ cancelRejects(r) \/ invocationDies(r)
  BY <1>4 DEF inspectWorkflow, inspectCallerAdmission, invokeAnswers, releaseAfterRefusal,
              cancelRejects, invocationDies, AttemptStep
<1> QED
  BY <1>1, <1>2, <1>3, <1>4 DEF Step

(* An attempt is a call of the provider coordinator.                       *)
LEMMA AttemptIsCall ==
    ASSUME ExecTypeOK, NEW r \in Requests
    PROVE  Attempt(r) \in Calls
BY DEF ExecTypeOK, RequestType, Attempt

(* A request that plans with a fresh attempt takes a step of the provider  *)
(* coordinator or none; no candidate left to ask is none.                  *)
LEMMA StepIsProviders ==
    ASSUME TypeOK, ExecTypeOK, LedgersAreTable, NEW r \in Requests, Step(r),
           At(r, "plan") => calls[Attempt(r)].phase = "idle"
    PROVE  [Next]_vars
<1>1. Attempt(r) \in Calls /\ AttemptStep(r)
  BY AttemptIsCall, EveryAttemptStep
<1>2. ASSUME NEW tokens \in TokenRequests, NEW candidates \in SUBSET Scopes, candidates # {},
             At(r, "plan"),
             Reserve(Attempt(r), tokens, candidates) \/ Deny(Attempt(r), tokens, candidates)
      PROVE  [Next]_vars
  <2>1. planAndReserve(Attempt(r), tokens, candidates) /\ candidates \in (SUBSET Scopes) \ {{}}
    BY <1>2 DEF planAndReserve
  <2> QED
    BY <1>1, <2>1 DEF Next
<1>3. ASSUME NEW tokens \in TokenRequests, Reserve(Attempt(r), tokens, {})
      PROVE  FALSE
  BY <1>1, <1>3, ReserveStep
<1>4. ASSUME NEW tokens \in TokenRequests, Deny(Attempt(r), tokens, {})
      PROVE  UNCHANGED vars
  BY <1>4 DEF Deny, AfterInspection, LedgersAreTable, vars
<1>5. ASSUME NEW outcome \in Outcomes, Finalize(Attempt(r), outcome) PROVE Next
  BY <1>1, <1>5 DEF Next
<1>6. ASSUME Crash(Attempt(r)) PROVE Next
  BY <1>1, <1>6 DEF Next
<1> QED
  BY <1>1, <1>2, <1>3, <1>4, <1>5, <1>6 DEF AttemptStep

-----------------------------------------------------------------------------
(* The caller's part of a step.                                            *)

(* The caller's ledger changes by losing expired rows, by the reservation  *)
(* of a request that found room, or by a settlement.                       *)
CallerStep ==
    \/ callerLedger' = callerLedger
    \/ callerLedger' = CallerRows(now)
    \/ \E r \in Requests, tokens \in Nat :
           /\ At(r, "caller")
           /\ CallerQuote(tokens, now).allowed
           /\ callerLedger' = Reserved(CallerRows(now), r, tokens, CallerSettings, now)
    \/ \E m \in callerOutbox :
           callerLedger' = Settled(callerLedger, m.request, m.outcome, CallerSettings, now)

LEMMA EveryCallerStep ==
    ASSUME TypeOK, ExecTypeOK, [ExecNext]_execVars
    PROVE  CallerStep
<1>1. ASSUME NEW r \in Requests, Step(r)
      PROVE  CallerStep
  <2>1. CASE inspectCallerAdmission(r)
    BY <2>1 DEF inspectCallerAdmission, inspect, CallerStep
  <2>2. CASE reserveCaller(r)
    <3>1. calls[Attempt(r)].tokens \in Nat
      BY AttemptIsCall DEF TypeOK
    <3>2. PICK allowed \in BOOLEAN : reserve(r, calls[Attempt(r)].tokens, now, allowed)
      BY <2>2 DEF reserveCaller
    <3>3. At(r, "caller")
      BY <2>2 DEF reserveCaller
    <3> QED
      BY <3>1, <3>2, <3>3 DEF reserve, CallerStep
  <2>3. CASE UNCHANGED callerLedger
    BY <2>3 DEF CallerStep
  <2> QED
    BY <1>1, <2>1, <2>2, <2>3
       DEF Step, inspectWorkflow, admitRankedRoute, leaseWorkflowCall, releaseAfterRefusal,
           invokeFails, invokeAnswers, complete, observedStream, unusable, Serve,
           cancelRejects, invocationDies
<1>2. ASSUME NEW m \in callerOutbox, deliverCallerOutcome(m)
      PROVE  CallerStep
  BY <1>2 DEF deliverCallerOutcome, recordOutcome, CallerStep
<1>3. CASE UNCHANGED callerLedger
  BY <1>3 DEF CallerStep
<1> QED
  BY <1>1, <1>2, <1>3 DEF ExecNext, Deliver, ExecTick, deliverProviderOutcome, deliverFinish,
                          requestVars, execVars

LEMMA CallerSettingsType == SettingsType(CallerSettings)
BY DEF SettingsType

(* The preview of the caller's ledger.                                     *)
LEMMA CallerRowsOK ==
    ASSUME TypeOK, ExecTypeOK
    PROVE  /\ LedgerType(CallerRows(now))
           /\ DOMAIN CallerRows(now).rows =
                  {r \in DOMAIN callerLedger.rows :
                       callerLedger.rows[r].created_at >= now - CallerSettings.reservationTtlMs}
           /\ \A r \in DOMAIN CallerRows(now).rows :
                  CallerRows(now).rows[r] = callerLedger.rows[r]
<1>1. LedgerType(callerLedger) /\ now \in Nat /\ CallerSettings.reservationTtlMs \in Nat
  BY DEF TypeOK, ExecTypeOK
<1> QED
  BY <1>1, Releasing DEF CallerRows

(* What any step may do to the rows: drop some, or add that of a request   *)
(* that reserves, dated now and below the ceiling.                         *)
LEMMA CallerRowsStep ==
    ASSUME TypeOK, ExecTypeOK, CallerStep
    PROVE  /\ LedgerType(callerLedger')
           /\ \/ DOMAIN callerLedger'.rows \subseteq DOMAIN callerLedger.rows
              \/ \E r \in Requests :
                     /\ At(r, "caller")
                     /\ DOMAIN callerLedger'.rows = DOMAIN CallerRows(now).rows \cup {r}
                     /\ callerLedger'.rows[r].created_at = now
                     /\ CallerSettings.maxConcurrent > 0 =>
                            reservationCount(callerLedger') <= CallerSettings.maxConcurrent
<1>0. /\ LedgerType(callerLedger) /\ LedgerType(CallerRows(now)) /\ now \in Nat
      /\ SettingsType(CallerSettings)
      /\ DOMAIN CallerRows(now).rows \subseteq DOMAIN callerLedger.rows
  BY CallerRowsOK, CallerSettingsType DEF TypeOK, ExecTypeOK
<1>1. CASE callerLedger' = callerLedger \/ callerLedger' = CallerRows(now)
  BY <1>0, <1>1
<1>2. ASSUME NEW r \in Requests, NEW tokens \in Nat, At(r, "caller"),
             CallerQuote(tokens, now).allowed,
             callerLedger' = Reserved(CallerRows(now), r, tokens, CallerSettings, now)
      PROVE  /\ LedgerType(callerLedger')
             /\ At(r, "caller")
             /\ DOMAIN callerLedger'.rows = DOMAIN CallerRows(now).rows \cup {r}
             /\ callerLedger'.rows[r].created_at = now
             /\ CallerSettings.maxConcurrent > 0 =>
                    reservationCount(callerLedger') <= CallerSettings.maxConcurrent
  <2>1. /\ LedgerType(callerLedger')
        /\ DOMAIN callerLedger'.rows = DOMAIN CallerRows(now).rows \cup {r}
        /\ callerLedger'.rows[r].created_at = now
        /\ reservationCount(callerLedger') <= reservationCount(CallerRows(now)) + 1
    BY <1>0, <1>2, Reserving
  <2>2. ASSUME CallerSettings.maxConcurrent > 0
        PROVE  reservationCount(callerLedger') <= CallerSettings.maxConcurrent
    <3>1. ~AtConcurrencyLimit(CallerRows(now), CallerSettings)
      BY <1>2 DEF CallerQuote, Quote, denied
    <3>2. ~(reservationCount(CallerRows(now)) >= CallerSettings.maxConcurrent)
      BY <2>2, <3>1 DEF AtConcurrencyLimit
    <3>3. reservationCount(CallerRows(now)) \in Nat /\ reservationCount(callerLedger') \in Nat
      BY <1>0, <2>1, FS_CardinalityType DEF LedgerType, reservationCount
    <3> QED
      BY <2>1, <3>2, <3>3
  <2> QED
    BY <1>2, <2>1, <2>2
<1>3. ASSUME NEW m \in callerOutbox,
             callerLedger' = Settled(callerLedger, m.request, m.outcome, CallerSettings, now)
      PROVE  /\ LedgerType(callerLedger')
             /\ DOMAIN callerLedger'.rows \subseteq DOMAIN callerLedger.rows
  <2>1. OutcomeType(m.outcome)
    BY DEF ExecTypeOK
  <2> QED
    BY <1>0, <1>3, <2>1, Settling
<1> QED
  BY <1>1, <1>2, <1>3 DEF CallerStep

(* No step takes the caller above its ceiling.                             *)
LEMMA CallerCeilingStep ==
    ASSUME TypeOK, ExecTypeOK, CallerCeiling, [ExecNext]_execVars
    PROVE  CallerCeiling'
<1> SUFFICES ASSUME CallerSettings.maxConcurrent > 0
             PROVE  reservationCount(callerLedger') <= CallerSettings.maxConcurrent
  BY DEF CallerCeiling
<1>1. CallerStep
  BY EveryCallerStep
<1>2. CASE DOMAIN callerLedger'.rows \subseteq DOMAIN callerLedger.rows
  <2>1. IsFiniteSet(DOMAIN callerLedger.rows)
    BY DEF ExecTypeOK, LedgerType
  <2>2. /\ IsFiniteSet(DOMAIN callerLedger'.rows)
        /\ Cardinality(DOMAIN callerLedger'.rows) <= Cardinality(DOMAIN callerLedger.rows)
    BY <1>2, <2>1, FS_Subset
  <2>3. /\ Cardinality(DOMAIN callerLedger'.rows) \in Nat
        /\ Cardinality(DOMAIN callerLedger.rows) \in Nat
    BY <2>1, <2>2, FS_CardinalityType
  <2> QED
    BY <2>2, <2>3 DEF CallerCeiling, reservationCount
<1> QED
  BY <1>1, <1>2, CallerRowsStep

-----------------------------------------------------------------------------
(* The request's part of a step.                                           *)

Sent == <<leases, callerOutbox, finishes>>
Provider == <<calls, outbox>>

(* Attempt c holds its upstream call, or has ended it with or without an   *)
(* outcome; the other attempts stay as they are.                           *)
OthersStay(c) == \A d \in Calls \ {c} : calls'[d] = calls[d]
Begins(c) == calls'[c].phase = "inflight" /\ OthersStay(c) /\ UNCHANGED outbox
Settles(c, outcome) ==
    /\ calls[c].phase = "inflight" /\ calls'[c].phase = "ended" /\ OthersStay(c)
    /\ outbox' = outbox \cup {[call |-> c, outcome |-> outcome]}
Vanishes(c) ==
    /\ calls[c].phase = "inflight" /\ calls'[c].phase = "ended" /\ OthersStay(c)
    /\ UNCHANGED outbox

LEMMA CallEffects ==
    ASSUME TypeOK, NEW c \in Calls
    PROVE  /\ \A outcome \in Outcomes : Finalize(c, outcome) => Settles(c, outcome)
           /\ Crash(c) => Vanishes(c)
           /\ \A tokens \in TokenRequests, candidates \in SUBSET Scopes :
                  Reserve(c, tokens, candidates) => Begins(c)
<1>1. ASSUME NEW outcome \in Outcomes, Finalize(c, outcome) PROVE Settles(c, outcome)
  <2>1. calls' = [calls EXCEPT ![c] = [calls[c] EXCEPT !.phase = "ended"]]
    BY <1>1 DEF Finalize
  <2> QED
    BY <1>1, <2>1 DEF Finalize, Settles, OthersStay, TypeOK
<1>2. ASSUME Crash(c) PROVE Vanishes(c)
  <2>1. calls' = [calls EXCEPT ![c] = [calls[c] EXCEPT !.phase = "ended"]]
    BY <1>2 DEF Crash
  <2> QED
    BY <1>2, <2>1 DEF Crash, Vanishes, OthersStay, TypeOK
<1>3. ASSUME NEW tokens \in TokenRequests, NEW candidates \in SUBSET Scopes,
             Reserve(c, tokens, candidates)
      PROVE  Begins(c)
  <2>1. PICK w \in candidates, rank \in Nat :
          /\ calls' = [calls EXCEPT ![c] = [phase |-> "inflight", scope |-> w,
                                            tokens |-> tokens, at |-> now, rank |-> rank]]
          /\ UNCHANGED outbox
    BY <1>3, ReserveStep
  <2> QED
    BY <2>1 DEF Begins, OthersStay, TypeOK
<1> QED
  BY <1>1, <1>2, <1>3

(* The kinds of steps a request takes.                                     *)
Starts(r) ==
    /\ At(r, "new") /\ (MovesTo(r, "plan") \/ MovesTo(r, "ended"))
    /\ UNCHANGED Provider /\ UNCHANGED Sent
Admits(r) ==
    /\ At(r, "plan") /\ MovesTo(r, AfterPlan(r))
    /\ Begins(Attempt(r)) /\ UNCHANGED Sent
Waits(r) ==
    /\ At(r, "plan") /\ requests[r].attempt = 1
    /\ MovesTo(r, "plan") \/ MovesTo(r, "ended")
    /\ UNCHANGED Provider /\ UNCHANGED Sent
GivesUp(r) ==
    /\ \/ At(r, "plan") /\ requests[r].attempt > 1
       \/ At(r, "releasing")
    /\ MovesTo(r, "ended")
    /\ finalizeLogical(r, requests[r].totalActualTokens, requests[r].consumedProviderCapacity)
    /\ UNCHANGED Provider /\ UNCHANGED leases
HoldsCaller(r) ==
    /\ At(r, "caller")
    /\ Updates(r, LeaseOrInvoke(r), requests[r].attempt, TRUE, requests[r].totalActualTokens,
               requests[r].consumedProviderCapacity)
    /\ UNCHANGED Provider /\ UNCHANGED Sent
LosesCaller(r) ==
    /\ At(r, "caller") /\ MovesTo(r, "ended")
    /\ Settles(Attempt(r), Unspent) /\ UNCHANGED Sent
TakesLease(r) ==
    /\ At(r, "lease") /\ MovesTo(r, "invoke")
    /\ leases' = [leases EXCEPT ![r] = "open"]
    /\ UNCHANGED Provider /\ UNCHANGED <<callerOutbox, finishes>>
LosesLease(r) ==
    /\ At(r, "lease") /\ MovesTo(r, "releasing")
    /\ Settles(Attempt(r), Unspent) /\ UNCHANGED Sent
Answered(r, outcome) ==
    \/ At(r, "invoke") /\ ~outcome.quotaSuccess
    \/ At(r, "serving") /\ outcome.quotaSuccess
Retries(r, outcome) ==
    /\ Answered(r, outcome)
    /\ requests[r].attempt < MaxProviderAttempts
    /\ Updates(r, "plan", requests[r].attempt + 1, requests[r].callerHeld,
               TokensSoFar(r, outcome), requests[r].consumedProviderCapacity)
    /\ Settles(Attempt(r), outcome) /\ UNCHANGED Sent
Concludes(r, outcome) ==
    /\ Answered(r, outcome)
    /\ MovesTo(r, "ended")
    /\ finalizeLogical(r, TokensSoFar(r, outcome), requests[r].consumedProviderCapacity)
    /\ Settles(Attempt(r), outcome) /\ UNCHANGED leases
Answers(r) ==
    /\ At(r, "invoke")
    /\ Updates(r, "serving", requests[r].attempt, requests[r].callerHeld,
               requests[r].totalActualTokens, TRUE)
    /\ UNCHANGED Provider /\ UNCHANGED Sent
Dies(r) ==
    /\ requests[r].phase \notin {"new", "ended", "cancelled", "crashed"}
    /\ \/ MovesTo(r, "crashed")
       \/ MovesTo(r, "cancelled") /\ "cancel" \in Faults
    /\ Vanishes(Attempt(r)) \/ (UNCHANGED Provider /\ calls[Attempt(r)].phase # "inflight")
    /\ UNCHANGED Sent

RequestStep(r) ==
    \/ Starts(r) \/ Admits(r) \/ Waits(r) \/ GivesUp(r) \/ HoldsCaller(r) \/ LosesCaller(r)
    \/ TakesLease(r) \/ LosesLease(r) \/ Answers(r) \/ Dies(r)
    \/ \E outcome \in Outcomes : Retries(r, outcome) \/ Concludes(r, outcome)

(* What an outcome adds to the request's tokens.                           *)
LEMMA TokensGrow ==
    ASSUME ExecTypeOK, NEW r \in Requests, NEW outcome \in Outcomes
    PROVE  TokensSoFar(r, outcome) \in Nat
<1>1. requests[r].totalActualTokens \in Nat /\ outcome.actualTokens \in Nat \cup {Undefined}
  BY DEF ExecTypeOK, RequestType
<1> QED
  BY <1>1 DEF TokensSoFar, Undefined

(* Every step of a request is of one of these kinds.                       *)
LEMMA EveryRequestStep ==
    ASSUME TypeOK, ExecTypeOK, NEW r \in Requests, Step(r)
    PROVE  RequestStep(r)
<1>0. Attempt(r) \in Calls /\ RequestType(requests[r])
  BY AttemptIsCall DEF ExecTypeOK
<1>1. CASE inspectWorkflow(r)
  <2>1. MovesTo(r, "ended")
    BY <1>1, UpdateEffects DEF inspectWorkflow, Phases
  <2> QED
    BY <1>1, <2>1 DEF inspectWorkflow, vars, Starts, Provider, Sent, RequestStep
<1>2. CASE inspectCallerAdmission(r)
  <2>1. Goto(r, "plan") \/ Goto(r, "ended")
    BY <1>2 DEF inspectCallerAdmission
  <2>2. MovesTo(r, "plan") \/ MovesTo(r, "ended")
    BY <2>1, UpdateEffects DEF Phases
  <2> QED
    BY <1>2, <2>2 DEF inspectCallerAdmission, vars, Starts, Provider, Sent, RequestStep
<1>3. ASSUME NEW tokens \in TokenRequests, admitRankedRoute(r, tokens)
      PROVE  RequestStep(r)
  <2> DEFINE candidates == Scopes \ excludedProviders(r)
  <2>1. CASE /\ Reserve(Attempt(r), tokens, candidates)
             /\ Goto(r, AfterPlan(r))
             /\ UNCHANGED <<callerOutbox, finishes>>
    <3>1. AfterPlan(r) \in Phases
      BY DEF AfterPlan, LeaseOrInvoke, Phases
    <3>2. MovesTo(r, AfterPlan(r))
      BY <2>1, <3>1, UpdateEffects
    <3>3. candidates \in SUBSET Scopes
      OBVIOUS
    <3>4. Begins(Attempt(r))
      BY <1>0, <2>1, <3>3, CallEffects
    <3> QED
      BY <1>3, <2>1, <3>2, <3>4 DEF admitRankedRoute, Admits, Sent, RequestStep
  <2>2. CASE PlanDenied(r, tokens, candidates)
    <3>1. UNCHANGED Provider /\ At(r, "plan") /\ UNCHANGED leases
      BY <1>3, <2>2 DEF PlanDenied, Deny, Provider, admitRankedRoute
    <3>2. CASE requests[r].attempt > 1
      <4>1. /\ MovesTo(r, "ended")
            /\ finalizeLogical(r, requests[r].totalActualTokens,
                               requests[r].consumedProviderCapacity)
        BY <2>2, <3>2, UpdateEffects DEF PlanDenied, FinishAsIs, Finish, Phases
      <4> QED
        BY <3>1, <3>2, <4>1 DEF GivesUp, RequestStep
    <3>3. CASE ~(requests[r].attempt > 1)
      <4>1. requests[r].attempt = 1
        BY <1>0, <3>3 DEF RequestType
      <4>2. \/ requests' = [requests EXCEPT
                              ![r].resumeAt = now + earliestDenial(candidates, tokens)]
            \/ Goto(r, "ended")
        BY <2>2, <3>3 DEF PlanDenied
      <4>3. MovesTo(r, "plan") \/ MovesTo(r, "ended")
        <5>1. CASE requests' = [requests EXCEPT
                                  ![r].resumeAt = now + earliestDenial(candidates, tokens)]
          BY <3>1, <5>1, UpdateEffects DEF At
        <5>2. CASE Goto(r, "ended")
          BY <5>2, UpdateEffects DEF Phases
        <5> QED
          BY <4>2, <5>1, <5>2
      <4>4. UNCHANGED Sent
        BY <2>2, <3>1, <3>3 DEF PlanDenied, Sent
      <4> QED
        BY <3>1, <4>1, <4>3, <4>4 DEF Waits, RequestStep
    <3> QED
      BY <3>2, <3>3
  <2> QED
    BY <1>3, <2>1, <2>2 DEF admitRankedRoute
<1>4. CASE reserveCaller(r)
  <2>1. LeaseOrInvoke(r) \in Phases /\ "ended" \in Phases
    BY DEF LeaseOrInvoke, Phases
  <2>2. CASE /\ requests' = [requests EXCEPT ![r].callerHeld = TRUE,
                                             ![r].phase = LeaseOrInvoke(r)]
             /\ UNCHANGED vars
    <3>1. Updates(r, LeaseOrInvoke(r), requests[r].attempt, TRUE,
                  requests[r].totalActualTokens, requests[r].consumedProviderCapacity)
      BY <2>1, <2>2, UpdateEffects
    <3> QED
      BY <1>4, <2>2, <3>1 DEF reserveCaller, vars, HoldsCaller, Provider, Sent, RequestStep
  <2>3. CASE Finalize(Attempt(r), Unspent) /\ Goto(r, "ended")
    <3>1. MovesTo(r, "ended") /\ Settles(Attempt(r), Unspent)
      BY <1>0, <2>1, <2>3, UpdateEffects, CallEffects
    <3> QED
      BY <1>4, <3>1 DEF reserveCaller, LosesCaller, Sent, RequestStep
  <2> QED
    BY <1>4, <2>2, <2>3 DEF reserveCaller
<1>5. CASE leaseWorkflowCall(r)
  <2>0. "invoke" \in Phases /\ "releasing" \in Phases
    BY DEF Phases
  <2>1. CASE /\ leases' = [leases EXCEPT ![r] = "open"]
             /\ Goto(r, "invoke")
             /\ UNCHANGED vars
    <3>1. MovesTo(r, "invoke")
      BY <2>0, <2>1, UpdateEffects
    <3> QED
      BY <1>5, <2>1, <3>1 DEF leaseWorkflowCall, vars, TakesLease, Provider, RequestStep
  <2>2. CASE Finalize(Attempt(r), Unspent) /\ Goto(r, "releasing") /\ UNCHANGED leases
    <3>1. MovesTo(r, "releasing") /\ Settles(Attempt(r), Unspent)
      BY <1>0, <2>0, <2>2, UpdateEffects, CallEffects
    <3> QED
      BY <1>5, <2>2, <3>1 DEF leaseWorkflowCall, LosesLease, Sent, RequestStep
  <2> QED
    BY <1>5, <2>1, <2>2 DEF leaseWorkflowCall
<1>6. CASE releaseAfterRefusal(r)
  <2>1. MovesTo(r, "ended")
    BY <1>6, UpdateEffects DEF releaseAfterRefusal, FinishAsIs, Finish, Phases
  <2> QED
    BY <1>6, <2>1 DEF releaseAfterRefusal, FinishAsIs, Finish, vars, GivesUp, Provider,
                      RequestStep
<1>7. ASSUME NEW outcome \in Outcomes, attemptFailed(r, outcome), Answered(r, outcome),
             UNCHANGED leases
      PROVE  RequestStep(r)
  <2>1. Settles(Attempt(r), outcome) /\ TokensSoFar(r, outcome) \in Nat
    BY <1>0, <1>7, CallEffects, TokensGrow DEF attemptFailed
  <2>2. CASE requests[r].attempt < MaxProviderAttempts
    <3>1. /\ requests' = [requests EXCEPT ![r].phase = "plan", ![r].attempt = @ + 1,
                                         ![r].totalActualTokens = TokensSoFar(r, outcome)]
          /\ UNCHANGED <<callerOutbox, finishes>>
      BY <1>7, <2>2 DEF attemptFailed, NextAttempt
    <3>2. Updates(r, "plan", requests[r].attempt + 1, requests[r].callerHeld,
                  TokensSoFar(r, outcome), requests[r].consumedProviderCapacity)
      BY <2>1, <2>2, <3>1, UpdateEffects
    <3> QED
      BY <1>7, <2>1, <2>2, <3>1, <3>2 DEF Retries, Sent, RequestStep
  <2>3. CASE ~(requests[r].attempt < MaxProviderAttempts)
    <3>1. Finish(r, TokensSoFar(r, outcome), requests[r].consumedProviderCapacity)
      BY <1>7, <2>3 DEF attemptFailed, NextAttempt
    <3>2. MovesTo(r, "ended")
      BY <3>1, UpdateEffects DEF Finish, Phases
    <3> QED
      BY <1>7, <2>1, <3>1, <3>2 DEF Finish, Concludes, RequestStep
  <2> QED
    BY <2>2, <2>3
<1>8. ASSUME NEW outcome \in Outcomes, Serve(r, outcome)
      PROVE  RequestStep(r)
  <2>1. Settles(Attempt(r), outcome)
    BY <1>0, <1>8, CallEffects DEF Serve
  <2>2. MovesTo(r, "ended")
    BY <1>8, UpdateEffects DEF Serve, Finish, Phases
  <2> QED
    BY <1>8, <2>1, <2>2 DEF Serve, Finish, Answered, Concludes, RequestStep
<1>9. CASE invokeAnswers(r)
  <2>1. Updates(r, "serving", requests[r].attempt, requests[r].callerHeld,
                requests[r].totalActualTokens, TRUE)
    BY <1>9, UpdateEffects DEF invokeAnswers
  <2> QED
    BY <1>9, <2>1 DEF invokeAnswers, vars, Answers, Provider, Sent, RequestStep
<1>10. CASE cancelRejects(r)
  <2>1. MovesTo(r, "cancelled") /\ Vanishes(Attempt(r))
    BY <1>0, <1>10, UpdateEffects, CallEffects DEF cancelRejects, Phases
  <2> QED
    BY <1>10, <2>1 DEF cancelRejects, At, Dies, Sent, RequestStep
<1>11. CASE invocationDies(r)
  <2>1. MovesTo(r, "crashed")
    BY <1>11, UpdateEffects DEF invocationDies, Phases
  <2>2. Vanishes(Attempt(r)) \/ (UNCHANGED Provider /\ calls[Attempt(r)].phase # "inflight")
    BY <1>0, <1>11, CallEffects DEF invocationDies, vars, Provider
  <2> QED
    BY <1>11, <2>1, <2>2 DEF invocationDies, Dies, Sent, RequestStep
<1> QED
  BY <1>1, <1>2, <1>3, <1>4, <1>5, <1>6, <1>7, <1>8, <1>9, <1>10, <1>11
     DEF Step, invokeFails, complete, observedStream, unusable, Answered

(* What the end of a request sends.                                        *)
LEMMA LogicalEnd ==
    ASSUME ExecTypeOK, NEW r \in Requests, NEW total \in Nat, NEW capacity \in BOOLEAN,
           finalizeLogical(r, total, capacity)
    PROVE  /\ finishes' = IF leases[r] = "none" THEN finishes ELSE finishes \cup {r}
           /\ callerOutbox \subseteq callerOutbox'
           /\ ~requests[r].callerHeld => callerOutbox' = callerOutbox
           /\ requests[r].callerHeld => \E m \in callerOutbox' : m.request = r
           /\ \A m \in callerOutbox' \ callerOutbox :
                  /\ m.request = r /\ OutcomeType(m.outcome)
                  /\ m.outcome.quotaSuccess = capacity
                  /\ ChargedTokens(m.outcome, 0) = total
<1> DEFINE outcome == [quotaSuccess |-> capacity, cooldown |-> FALSE,
                       actualTokens |-> IF total = 0 THEN Undefined ELSE total,
                       retryAfterMs |-> Undefined]
           sent == [request |-> r, outcome |-> outcome]
<1>1. /\ outcome.quotaSuccess = capacity /\ outcome.cooldown = FALSE
      /\ outcome.actualTokens = (IF total = 0 THEN Undefined ELSE total)
      /\ outcome.retryAfterMs = Undefined
  OBVIOUS
<1>2. sent.request = r /\ sent.outcome = outcome
  OBVIOUS
<1>3. /\ finishes' = IF leases[r] = "none" THEN finishes ELSE finishes \cup {r}
      /\ callerOutbox' = IF ~requests[r].callerHeld THEN callerOutbox
                         ELSE callerOutbox \cup {sent}
  BY DEF finalizeLogical
<1> HIDE DEF outcome, sent
<1>4. OutcomeType(outcome)
  BY <1>1 DEF OutcomeType
<1>5. ChargedTokens(outcome, 0) = total
  BY <1>1 DEF ChargedTokens, Undefined, MaxOf
<1>6. requests[r].callerHeld \in BOOLEAN
  BY DEF ExecTypeOK, RequestType
<1> QED
  BY <1>1, <1>2, <1>3, <1>4, <1>5, <1>6

(* A request ends with a number of tokens that is one.                     *)
LEMMA LogicalArguments ==
    ASSUME ExecTypeOK, NEW r \in Requests
    PROVE  /\ requests[r].totalActualTokens \in Nat
           /\ requests[r].consumedProviderCapacity \in BOOLEAN
           /\ \A outcome \in Outcomes : TokensSoFar(r, outcome) \in Nat
BY TokensGrow DEF ExecTypeOK, RequestType

(* A step of one request leaves the others as they are.                    *)
LEMMA RequestFrame ==
    ASSUME TypeOK, ExecTypeOK, NEW r \in Requests, RequestStep(r)
    PROVE  /\ DOMAIN requests' = Requests
           /\ \A q \in Requests : RequestType(requests'[q])
           /\ \A q \in Requests \ {r} : requests'[q] = requests[q] /\ leases'[q] = leases[q]
           /\ leases' \in [Requests -> {"none", "open", "closed"}]
           /\ finishes' = finishes \/ finishes' = finishes \cup {r}
           /\ callerOutbox \subseteq callerOutbox'
           /\ \A m \in callerOutbox' \ callerOutbox : m.request = r /\ OutcomeType(m.outcome)
           /\ OthersStay(Attempt(r))
           /\ outbox \subseteq outbox'
           /\ \A m \in outbox' \ outbox : m.call = Attempt(r)
<1>1. /\ DOMAIN requests' = Requests
      /\ \A q \in Requests : RequestType(requests'[q])
      /\ \A q \in Requests \ {r} : requests'[q] = requests[q]
  BY DEF RequestStep, Starts, Admits, Waits, GivesUp, HoldsCaller, LosesCaller, TakesLease,
         LosesLease, Retries, Concludes, Answers, Dies, MovesTo, Updates
<1>2. /\ leases' \in [Requests -> {"none", "open", "closed"}]
      /\ \A q \in Requests \ {r} : leases'[q] = leases[q]
  <2>1. leases' = leases \/ leases' = [leases EXCEPT ![r] = "open"]
    BY DEF RequestStep, Starts, Admits, Waits, GivesUp, HoldsCaller, LosesCaller, TakesLease,
           LosesLease, Retries, Concludes, Answers, Dies, Sent
  <2> QED
    BY <2>1 DEF ExecTypeOK
<1>3. /\ finishes' = finishes \/ finishes' = finishes \cup {r}
      /\ callerOutbox \subseteq callerOutbox'
      /\ \A m \in callerOutbox' \ callerOutbox : m.request = r /\ OutcomeType(m.outcome)
  <2>1. ASSUME NEW total \in Nat, NEW capacity \in BOOLEAN, finalizeLogical(r, total, capacity)
        PROVE  /\ finishes' = finishes \/ finishes' = finishes \cup {r}
               /\ callerOutbox \subseteq callerOutbox'
               /\ \A m \in callerOutbox' \ callerOutbox :
                      m.request = r /\ OutcomeType(m.outcome)
    BY <2>1, LogicalEnd
  <2>2. CASE UNCHANGED <<callerOutbox, finishes>>
    BY <2>2
  <2>3. \/ UNCHANGED <<callerOutbox, finishes>>
        \/ finalizeLogical(r, requests[r].totalActualTokens,
                           requests[r].consumedProviderCapacity)
        \/ \E outcome \in Outcomes :
               finalizeLogical(r, TokensSoFar(r, outcome), requests[r].consumedProviderCapacity)
    BY DEF RequestStep, Starts, Admits, Waits, GivesUp, HoldsCaller, LosesCaller, TakesLease,
           LosesLease, Retries, Concludes, Answers, Dies, Sent
  <2> QED
    BY <2>1, <2>2, <2>3, LogicalArguments
<1>4. /\ OthersStay(Attempt(r))
      /\ outbox \subseteq outbox'
      /\ \A m \in outbox' \ outbox : m.call = Attempt(r)
  <2>1. ASSUME NEW outcome, Settles(Attempt(r), outcome)
        PROVE  /\ OthersStay(Attempt(r))
               /\ outbox \subseteq outbox'
               /\ \A m \in outbox' \ outbox : m.call = Attempt(r)
    BY <2>1 DEF Settles
  <2>2. CASE UNCHANGED Provider \/ Begins(Attempt(r)) \/ Vanishes(Attempt(r))
    BY <2>2 DEF Provider, OthersStay, Begins, Vanishes
  <2> QED
    BY <2>1, <2>2
       DEF RequestStep, Starts, Admits, Waits, GivesUp, HoldsCaller, LosesCaller, TakesLease,
           LosesLease, Retries, Concludes, Answers, Dies
<1> QED
  BY <1>1, <1>2, <1>3, <1>4

(* Every step keeps the types.                                             *)
LEMMA ExecTypeStep ==
    ASSUME TypeOK, ExecTypeOK, [ExecNext]_execVars
    PROVE  ExecTypeOK'
<1>1. LedgerType(callerLedger')
  BY EveryCallerStep, CallerRowsStep
<1>2. ASSUME NEW r \in Requests, Step(r)
      PROVE  ExecTypeOK'
  <2>1. /\ DOMAIN requests' = Requests
        /\ \A q \in Requests : RequestType(requests'[q])
        /\ leases' \in [Requests -> {"none", "open", "closed"}]
        /\ finishes' = finishes \/ finishes' = finishes \cup {r}
        /\ \A m \in callerOutbox' \ callerOutbox : m.request = r /\ OutcomeType(m.outcome)
    BY <1>2, EveryRequestStep, RequestFrame
  <2>2. \A q \in Requests : RequestType(requests[q])'
    BY <2>1 DEF RequestType
  <2>3. \A m \in callerOutbox' : m.request \in Requests /\ OutcomeType(m.outcome)
    BY <2>1 DEF ExecTypeOK
  <2> QED
    BY <1>1, <2>1, <2>2, <2>3 DEF ExecTypeOK, LedgerType, OutcomeType
<1>3. CASE UNCHANGED <<requests, callerOutbox>>
           /\ leases' \in [Requests -> {"none", "open", "closed"}] /\ finishes' \subseteq Requests
  BY <1>1, <1>3 DEF ExecTypeOK, RequestType, LedgerType, OutcomeType
<1>4. ASSUME NEW r \in finishes, deliverFinish(r)
      PROVE  leases' \in [Requests -> {"none", "open", "closed"}]
  BY <1>4 DEF deliverFinish, ExecTypeOK
<1>5. CASE Deliver \/ ExecTick \/ UNCHANGED execVars
  <2>1. /\ UNCHANGED <<requests, callerOutbox>> /\ finishes' \subseteq Requests
        /\ leases' \in [Requests -> {"none", "open", "closed"}]
    BY <1>4, <1>5 DEF Deliver, deliverProviderOutcome, deliverCallerOutcome, deliverFinish,
                      ExecTick, requestVars, execVars, ExecTypeOK
  <2> QED
    BY <1>3, <2>1
<1> QED
  BY <1>2, <1>5 DEF ExecNext

LEMMA ExecInitType == ExecInit => ExecTypeOK
<1> SUFFICES ASSUME ExecInit PROVE ExecTypeOK
  OBVIOUS
<1>1. LedgerType(callerLedger)
  BY CallerSettingsType, EmptyLedgerType DEF ExecInit, CallerInit
<1>2. RequestType(NewRequest)
  <2>1. "new" \in Phases /\ 1 \in 1 .. MaxProviderAttempts /\ 0 \in Nat
    BY DEF Phases
  <2> QED
    BY <2>1 DEF NewRequest, RequestType
<1>3. \A r \in Requests : requests[r] = NewRequest
  BY DEF ExecInit
<1> QED
  BY <1>1, <1>2, <1>3 DEF ExecInit, ExecTypeOK

-----------------------------------------------------------------------------
(* What a request holds in each phase.                                     *)

Underway == {"caller", "lease", "invoke", "serving"}
Over == {"ended", "cancelled", "crashed"}
Lost == {"cancelled", "crashed"}

(* A request has begun an attempt before: it is not its first plan.        *)
Resumed(r) == At(r, "plan") /\ requests[r].attempt > 1

(* Attempts before the current one have ended, later ones have not begun,  *)
(* and the current one holds its call exactly while the request is         *)
(* underway.                                                               *)
AttemptsInOrder(r) ==
    /\ \A n \in 1 .. MaxProviderAttempts :
           /\ n > requests[r].attempt => calls[<<r, n>>].phase = "idle"
           /\ n < requests[r].attempt => calls[<<r, n>>].phase = "ended"
    /\ requests[r].phase \in {"new", "plan"} => calls[Attempt(r)].phase = "idle"
    /\ requests[r].phase \in Underway <=> calls[Attempt(r)].phase = "inflight"
    /\ requests[r].phase = "new" => requests[r].attempt = 1

(* A limited request holds the caller's quota from its reservation on, and *)
(* only it has a row; the outcome is sent when it ends.                    *)
CallerInOrder(r) ==
    /\ r \in DOMAIN callerLedger.rows => requests[r].callerHeld
    /\ requests[r].callerHeld =>
           ~(requests[r].phase \in {"new", "caller"} \/ (At(r, "plan") /\ ~Resumed(r)))
    /\ requests[r].phase \in {"lease", "invoke", "serving"} \/ Resumed(r) =>
           (r \in Limited => requests[r].callerHeld)
    /\ \A m \in callerOutbox : m.request = r => At(r, "ended")
    /\ At(r, "ended") /\ requests[r].callerHeld => \E m \in callerOutbox : m.request = r

(* A member holds its lease from before it calls a provider until its end. *)
LeaseInOrder(r) ==
    /\ requests[r].phase \in {"new", "caller", "lease"} \/ (At(r, "plan") /\ ~Resumed(r)) =>
           leases[r] = "none"
    /\ requests[r].phase \in {"invoke", "serving"} \/ Resumed(r) =>
           (r \in Members => leases[r] = "open")
    /\ leases[r] = "closed" => r \in finishes
    /\ r \in finishes => At(r, "ended")
    /\ At(r, "ended") /\ leases[r] # "none" => r \in finishes

(* Unless the invocation was lost, every attempt that ended sent its       *)
(* outcome; without the fault none is lost to a cancellation.              *)
OutcomesInOrder(r) ==
    /\ requests[r].phase \notin Lost =>
           \A n \in 1 .. MaxProviderAttempts :
               calls[<<r, n>>].phase = "ended" => OwedOutcome(<<r, n>>)
    /\ At(r, "cancelled") => "cancel" \in Faults

RequestInOrder(r) ==
    AttemptsInOrder(r) /\ CallerInOrder(r) /\ LeaseInOrder(r) /\ OutcomesInOrder(r)

(* A request nobody steps keeps its order: its rows may only expire.       *)
LEMMA IdleInOrder ==
    ASSUME TypeOK, ExecTypeOK, NEW q \in Requests, RequestInOrder(q),
           requests'[q] = requests[q],
           leases'[q] = leases[q] \/ (leases'[q] = "closed" /\ q \in finishes),
           q \in finishes' <=> q \in finishes,
           q \in DOMAIN callerLedger'.rows => q \in DOMAIN callerLedger.rows,
           callerOutbox \subseteq callerOutbox',
           \A m \in callerOutbox' : m.request = q => m \in callerOutbox,
           outbox \subseteq outbox',
           \A n \in 1 .. MaxProviderAttempts : calls'[<<q, n>>].phase = calls[<<q, n>>].phase
    PROVE  RequestInOrder(q)'
<1>0. requests[q].attempt \in 1 .. MaxProviderAttempts
  BY DEF ExecTypeOK, RequestType
<1>1. AttemptsInOrder(q)'
  BY <1>0 DEF RequestInOrder, AttemptsInOrder, Attempt
<1>2. CallerInOrder(q)'
  BY DEF RequestInOrder, CallerInOrder, At, Resumed
<1>3. LeaseInOrder(q)'
  BY DEF RequestInOrder, LeaseInOrder, At, Resumed
<1>4. OutcomesInOrder(q)'
  BY DEF RequestInOrder, OutcomesInOrder, At, OwedOutcome
<1> QED
  BY <1>1, <1>2, <1>3, <1>4 DEF RequestInOrder

(* Only a request that now holds the caller's quota may have gained a row. *)
LEMMA RowsOfStep ==
    ASSUME TypeOK, ExecTypeOK, NEW r \in Requests, Step(r)
    PROVE  \A q \in DOMAIN callerLedger'.rows :
               q \in DOMAIN callerLedger.rows \/ (q = r /\ requests'[r].callerHeld)
<1>0. DOMAIN CallerRows(now).rows \subseteq DOMAIN callerLedger.rows /\ Attempt(r) \in Calls
  BY CallerRowsOK, AttemptIsCall
<1>1. CASE callerLedger' = CallerRows(now)
  BY <1>0, <1>1
<1>2. CASE UNCHANGED callerLedger
  BY <1>2
<1>3. CASE reserveCaller(r)
  <2>1. PICK allowed \in BOOLEAN :
          /\ reserve(r, calls[Attempt(r)].tokens, now, allowed)
          /\ allowed => requests' = [requests EXCEPT ![r].callerHeld = TRUE,
                                                     ![r].phase = LeaseOrInvoke(r)]
    BY <1>3 DEF reserveCaller
  <2>2. CASE ~allowed
    BY <1>1, <2>1, <2>2 DEF reserve
  <2>3. CASE allowed
    <3>1. callerLedger' = Reserved(CallerRows(now), r, calls[Attempt(r)].tokens,
                                   CallerSettings, now)
      BY <2>1, <2>3 DEF reserve
    <3>2. /\ LedgerType(CallerRows(now)) /\ SettingsType(CallerSettings) /\ now \in Nat
          /\ calls[Attempt(r)].tokens \in Nat
      BY <1>0, CallerRowsOK, CallerSettingsType DEF TypeOK
    <3>3. DOMAIN callerLedger'.rows = DOMAIN CallerRows(now).rows \cup {r}
      BY <3>1, <3>2, Reserving
    <3>4. LeaseOrInvoke(r) \in Phases
      BY DEF LeaseOrInvoke, Phases
    <3>5. requests'[r].callerHeld
      <4>1. Updates(r, LeaseOrInvoke(r), requests[r].attempt, TRUE,
                    requests[r].totalActualTokens, requests[r].consumedProviderCapacity)
        BY <2>1, <2>3, <3>4, UpdateEffects
      <4> QED
        BY <4>1 DEF Updates
    <3> QED
      BY <1>0, <3>3, <3>5
  <2> QED
    BY <2>2, <2>3
<1>4. CASE inspectCallerAdmission(r)
  BY <1>1, <1>2, <1>4 DEF inspectCallerAdmission, inspect
<1> QED
  BY <1>2, <1>3, <1>4
     DEF Step, inspectWorkflow, admitRankedRoute, leaseWorkflowCall, releaseAfterRefusal,
         invokeFails, invokeAnswers, complete, observedStream, unusable, Serve,
         cancelRejects, invocationDies

(* Which attempt of a request changes, and how, as a statement about its   *)
(* numbered attempts.                                                      *)
LEMMA AttemptsOf ==
    ASSUME ExecTypeOK, NEW r \in Requests
    PROVE  /\ requests[r].attempt \in 1 .. MaxProviderAttempts
           /\ Attempt(r) = <<r, requests[r].attempt>>
           /\ \A n \in 1 .. MaxProviderAttempts : <<r, n>> \in Calls
           /\ UNCHANGED calls \/ OthersStay(Attempt(r)) =>
                  /\ \A n \in 1 .. MaxProviderAttempts : n # requests[r].attempt =>
                         calls'[<<r, n>>] = calls[<<r, n>>]
                  /\ \A q \in Requests \ {r}, n \in 1 .. MaxProviderAttempts :
                         calls'[<<q, n>>] = calls[<<q, n>>]
BY DEF ExecTypeOK, RequestType, Attempt, OthersStay

(* The acting request's attempts stay in order.                            *)
LEMMA AttemptsStep ==
    ASSUME TypeOK, ExecTypeOK, NEW r \in Requests, RequestStep(r), AttemptsInOrder(r)
    PROVE  AttemptsInOrder(r)'
<1> DEFINE k == requests[r].attempt
<1>0. /\ k \in 1 .. MaxProviderAttempts /\ Attempt(r) = <<r, k>>
      /\ \A n \in 1 .. MaxProviderAttempts : n # k => calls'[<<r, n>>] = calls[<<r, n>>]
      /\ requests'[r].attempt \in 1 .. MaxProviderAttempts
      /\ Attempt(r)' = <<r, requests'[r].attempt>>
  BY AttemptsOf, RequestFrame DEF Attempt, RequestType
<1>1. /\ \A n \in 1 .. MaxProviderAttempts :
             /\ n > k => calls[<<r, n>>].phase = "idle"
             /\ n < k => calls[<<r, n>>].phase = "ended"
      /\ requests[r].phase \in {"new", "plan"} => calls[<<r, k>>].phase = "idle"
      /\ requests[r].phase \in Underway <=> calls[<<r, k>>].phase = "inflight"
      /\ requests[r].phase = "new" => k = 1
  BY <1>0 DEF AttemptsInOrder
<1>2. ASSUME requests'[r].attempt = k,
             requests'[r].phase \in {"new", "plan"} => calls'[<<r, k>>].phase = "idle",
             requests'[r].phase \in Underway <=> calls'[<<r, k>>].phase = "inflight",
             requests'[r].phase # "new"
      PROVE  AttemptsInOrder(r)'
  BY <1>0, <1>1, <1>2 DEF AttemptsInOrder
<1>3. CASE Starts(r) \/ Waits(r) \/ GivesUp(r) \/ HoldsCaller(r) \/ TakesLease(r) \/ Answers(r)
  BY <1>1, <1>2, <1>3
     DEF Starts, Waits, GivesUp, HoldsCaller, TakesLease, Answers, MovesTo, Updates, At,
         LeaseOrInvoke, Underway, Provider
<1>4. CASE Admits(r)
  BY <1>0, <1>1, <1>2, <1>4
     DEF Admits, MovesTo, Updates, AfterPlan, LeaseOrInvoke, Underway, Begins
<1>5. CASE LosesCaller(r) \/ LosesLease(r) \/ \E outcome \in Outcomes : Concludes(r, outcome)
  BY <1>0, <1>1, <1>2, <1>5
     DEF LosesCaller, LosesLease, Concludes, MovesTo, Updates, Underway, Settles
<1>6. CASE Dies(r)
  <2>1. calls'[<<r, k>>].phase # "inflight"
    BY <1>0, <1>6 DEF Dies, Vanishes, Provider
  <2>2. requests'[r].attempt = k /\ requests'[r].phase \in Lost
    BY <1>6 DEF Dies, MovesTo, Updates, Lost
  <2> QED
    BY <1>2, <2>1, <2>2 DEF Lost, Underway
<1>7. ASSUME NEW outcome \in Outcomes, Retries(r, outcome)
      PROVE  AttemptsInOrder(r)'
  <2>1. /\ requests'[r].attempt = k + 1 /\ requests'[r].phase = "plan"
        /\ calls'[<<r, k>>].phase = "ended"
        /\ k + 1 \in 1 .. MaxProviderAttempts
    BY <1>0, <1>7 DEF Retries, Updates, Settles
  <2>2. calls'[<<r, k + 1>>].phase = "idle"
    BY <1>0, <1>1, <2>1
  <2>3. \A n \in 1 .. MaxProviderAttempts :
           /\ n > k + 1 => calls'[<<r, n>>].phase = "idle"
           /\ n < k + 1 => calls'[<<r, n>>].phase = "ended"
    BY <1>0, <1>1, <2>1
  <2> QED
    BY <1>0, <2>1, <2>2, <2>3 DEF AttemptsInOrder, Underway
<1> QED
  BY <1>3, <1>4, <1>5, <1>6, <1>7 DEF RequestStep

(* The acting request's claim on the caller's quota stays in order.        *)
LEMMA CallerOrderStep ==
    ASSUME TypeOK, ExecTypeOK, NEW r \in Requests, RequestStep(r), CallerInOrder(r),
           r \in DOMAIN callerLedger'.rows =>
               r \in DOMAIN callerLedger.rows \/ requests'[r].callerHeld,
           AttemptsInOrder(r)
    PROVE  CallerInOrder(r)'
<1>0. /\ requests[r].attempt \in Nat \ {0} /\ requests[r].callerHeld \in BOOLEAN
      /\ \A m \in callerOutbox : m.request = r => At(r, "ended")
      /\ At(r, "new") => requests[r].attempt = 1
  BY AttemptsOf DEF CallerInOrder, AttemptsInOrder, At, ExecTypeOK, RequestType
<1>1. CASE Starts(r) \/ Waits(r) \/ Answers(r)
  BY <1>0, <1>1 DEF Starts, Waits, Answers, MovesTo, Updates, At, Resumed, CallerInOrder, Sent
<1>2. CASE Admits(r)
  BY <1>0, <1>2 DEF Admits, MovesTo, Updates, At, Resumed, CallerInOrder, Sent, AfterPlan,
                    LeaseOrInvoke
<1>3. CASE HoldsCaller(r)
  BY <1>0, <1>3 DEF HoldsCaller, Updates, At, Resumed, CallerInOrder, Sent, LeaseOrInvoke
<1>4. CASE LosesCaller(r) \/ LosesLease(r)
  BY <1>0, <1>4 DEF LosesCaller, LosesLease, MovesTo, Updates, At, Resumed, CallerInOrder, Sent
<1>5. CASE TakesLease(r)
  BY <1>0, <1>5 DEF TakesLease, MovesTo, Updates, At, Resumed, CallerInOrder
<1>6. CASE Dies(r)
  BY <1>0, <1>6 DEF Dies, MovesTo, Updates, At, Resumed, CallerInOrder, Sent
<1>7. ASSUME NEW outcome \in Outcomes, Retries(r, outcome)
      PROVE  CallerInOrder(r)'
  BY <1>0, <1>7 DEF Retries, Answered, Updates, At, Resumed, CallerInOrder, Sent
<1>8. ASSUME NEW total \in Nat, NEW capacity \in BOOLEAN, finalizeLogical(r, total, capacity),
             MovesTo(r, "ended")
      PROVE  CallerInOrder(r)'
  <2>1. requests[r].callerHeld => \E m \in callerOutbox' : m.request = r
    BY <1>8, LogicalEnd
  <2> QED
    BY <1>0, <1>8, <2>1 DEF MovesTo, Updates, At, Resumed, CallerInOrder
<1> QED
  BY <1>1, <1>2, <1>3, <1>4, <1>5, <1>6, <1>7, <1>8, LogicalArguments
     DEF RequestStep, GivesUp, Concludes

(* The acting request's lease stays in order.                              *)
LEMMA LeaseOrderStep ==
    ASSUME TypeOK, ExecTypeOK, NEW r \in Requests, RequestStep(r), LeaseInOrder(r),
           AttemptsInOrder(r), CallerInOrder(r)
    PROVE  LeaseInOrder(r)'
<1>0. /\ requests[r].attempt \in Nat \ {0}
      /\ leases[r] \in {"none", "open", "closed"}
      /\ requests[r].phase = "ended" \/ r \notin finishes
      /\ At(r, "new") => requests[r].attempt = 1
  BY AttemptsOf DEF LeaseInOrder, AttemptsInOrder, At, ExecTypeOK
<1>1. CASE Starts(r) \/ Waits(r) \/ Answers(r)
  BY <1>0, <1>1 DEF Starts, Waits, Answers, MovesTo, Updates, At, Resumed, LeaseInOrder, Sent
<1>2. CASE Admits(r)
  <2>1. /\ At(r, "plan") /\ UNCHANGED <<leases, finishes>> /\ r \notin finishes
        /\ leases[r] = "closed" => r \in finishes
        /\ ~Resumed(r) => leases[r] = "none"
        /\ Resumed(r) => (r \in Members => leases[r] = "open")
    BY <1>0, <1>2 DEF Admits, At, LeaseInOrder, Sent
  <2>2. /\ requests'[r].attempt = requests[r].attempt
        /\ requests'[r].phase = AfterPlan(r)
    BY <1>2 DEF Admits, MovesTo, Updates
  <2>3. Resumed(r) /\ r \in Limited => requests[r].callerHeld
    BY DEF CallerInOrder
  <2>4. AfterPlan(r) \in {"caller", "lease", "invoke"}
    BY DEF AfterPlan, LeaseOrInvoke
  <2>5. AfterPlan(r) \in {"caller", "lease"} => leases[r] = "none"
    BY <2>1, <2>3 DEF AfterPlan, LeaseOrInvoke
  <2>6. AfterPlan(r) = "invoke" => (r \in Members => leases[r] = "open")
    BY <1>0, <2>1 DEF AfterPlan, LeaseOrInvoke
  <2> QED
    BY <2>1, <2>2, <2>4, <2>5, <2>6 DEF At, Resumed, LeaseInOrder
<1>3. CASE HoldsCaller(r)
  BY <1>0, <1>3 DEF HoldsCaller, Updates, At, Resumed, LeaseInOrder, Sent, LeaseOrInvoke
<1>4. CASE LosesCaller(r) \/ LosesLease(r)
  BY <1>0, <1>4 DEF LosesCaller, LosesLease, MovesTo, Updates, At, Resumed, LeaseInOrder, Sent
<1>5. CASE TakesLease(r)
  <2>1. leases'[r] = "open"
    BY <1>5 DEF TakesLease, ExecTypeOK
  <2> QED
    BY <1>0, <1>5, <2>1 DEF TakesLease, MovesTo, Updates, At, Resumed, LeaseInOrder
<1>6. CASE Dies(r)
  BY <1>0, <1>6 DEF Dies, MovesTo, Updates, At, Resumed, LeaseInOrder, Sent
<1>7. ASSUME NEW outcome \in Outcomes, Retries(r, outcome)
      PROVE  LeaseInOrder(r)'
  BY <1>0, <1>7 DEF Retries, Answered, Updates, At, Resumed, LeaseInOrder, Sent
<1>8. ASSUME NEW total \in Nat, NEW capacity \in BOOLEAN, finalizeLogical(r, total, capacity),
             MovesTo(r, "ended"), UNCHANGED leases
      PROVE  LeaseInOrder(r)'
  <2>1. finishes' = IF leases[r] = "none" THEN finishes ELSE finishes \cup {r}
    BY <1>8, LogicalEnd
  <2> QED
    BY <1>0, <1>8, <2>1 DEF MovesTo, Updates, At, Resumed, LeaseInOrder
<1> QED
  BY <1>1, <1>2, <1>3, <1>4, <1>5, <1>6, <1>7, <1>8, LogicalArguments
     DEF RequestStep, GivesUp, Concludes

(* The acting request's outcomes stay in order.                            *)
LEMMA OutcomesOrderStep ==
    ASSUME TypeOK, ExecTypeOK, NEW r \in Requests, RequestStep(r), OutcomesInOrder(r)
    PROVE  OutcomesInOrder(r)'
<1> DEFINE k == requests[r].attempt
<1>0. /\ k \in 1 .. MaxProviderAttempts /\ Attempt(r) = <<r, k>>
      /\ \A n \in 1 .. MaxProviderAttempts : n # k => calls'[<<r, n>>] = calls[<<r, n>>]
      /\ outbox \subseteq outbox'
  BY AttemptsOf, RequestFrame
<1>1. requests[r].phase \in Lost => requests'[r].phase \in Lost
  BY DEF RequestStep, Starts, Admits, Waits, GivesUp, HoldsCaller, LosesCaller, TakesLease,
         LosesLease, Retries, Concludes, Answered, Answers, Dies, At, Lost
<1>2. requests'[r].phase \notin Lost =>
          \/ UNCHANGED Provider \/ Begins(Attempt(r))
          \/ \E outcome : Settles(Attempt(r), outcome)
  BY DEF RequestStep, Starts, Admits, Waits, GivesUp, HoldsCaller, LosesCaller, TakesLease,
         LosesLease, Retries, Concludes, Answers, Dies, Lost, MovesTo, Updates
<1>3. requests'[r].phase \notin Lost /\ calls'[<<r, k>>].phase = "ended" =>
          calls[<<r, k>>].phase = "ended" \/ (\E m \in outbox' : m.call = <<r, k>>)
  <2>1. ASSUME NEW outcome, Settles(Attempt(r), outcome)
        PROVE  \E m \in outbox' : m.call = <<r, k>>
    <3>1. [call |-> <<r, k>>, outcome |-> outcome] \in outbox'
      BY <1>0, <2>1 DEF Settles
    <3> QED
      BY <3>1
  <2> QED
    BY <1>0, <1>2, <2>1 DEF Provider, Begins
<1>4. ASSUME requests'[r].phase \notin Lost, NEW n \in 1 .. MaxProviderAttempts,
             calls'[<<r, n>>].phase = "ended"
      PROVE  \E m \in outbox' : m.call = <<r, n>>
  <2>1. calls[<<r, n>>].phase = "ended" => \E m \in outbox : m.call = <<r, n>>
    BY <1>1, <1>4 DEF OutcomesInOrder, OwedOutcome
  <2> QED
    BY <1>0, <1>3, <1>4, <2>1
<1>5. requests'[r].phase = "cancelled" => "cancel" \in Faults
  BY DEF RequestStep, Starts, Admits, Waits, GivesUp, HoldsCaller, LosesCaller, TakesLease,
         LosesLease, Retries, Concludes, Answered, Answers, Dies, At, MovesTo, Updates,
         AfterPlan, LeaseOrInvoke
<1> QED
  BY <1>4, <1>5 DEF OutcomesInOrder, OwedOutcome, At

(* Every request is in order, and the tables are typed.                    *)
ExecInv ==
    /\ TypeOK /\ LedgersAreTable /\ ExecTypeOK
    /\ \A r \in Requests : RequestInOrder(r)

LEMMA OrderStep ==
    ASSUME ExecInv, [ExecNext]_execVars
    PROVE  \A r \in Requests : RequestInOrder(r)'
<1>0. TypeOK /\ ExecTypeOK /\ \A r \in Requests : RequestInOrder(r)
  BY DEF ExecInv
<1>1. ASSUME NEW r \in Requests, Step(r), NEW q \in Requests
      PROVE  RequestInOrder(q)'
  <2>1. /\ RequestStep(r)
        /\ \A x \in DOMAIN callerLedger'.rows :
               x \in DOMAIN callerLedger.rows \/ (x = r /\ requests'[r].callerHeld)
    BY <1>0, <1>1, EveryRequestStep, RowsOfStep
  <2>2. CASE q = r
    <3>1. AttemptsInOrder(r) /\ CallerInOrder(r) /\ LeaseInOrder(r) /\ OutcomesInOrder(r)
      BY <1>0 DEF RequestInOrder
    <3>2. AttemptsInOrder(r)'
      BY <1>0, <2>1, <3>1, AttemptsStep
    <3>3. CallerInOrder(r)'
      BY <1>0, <2>1, <3>1, CallerOrderStep
    <3>4. LeaseInOrder(r)'
      BY <1>0, <2>1, <3>1, LeaseOrderStep
    <3>5. OutcomesInOrder(r)'
      BY <1>0, <2>1, <3>1, OutcomesOrderStep
    <3> QED
      BY <2>2, <3>2, <3>3, <3>4, <3>5 DEF RequestInOrder
  <2>3. CASE q # r
    <3>1. /\ requests'[q] = requests[q] /\ leases'[q] = leases[q]
          /\ finishes' = finishes \/ finishes' = finishes \cup {r}
          /\ callerOutbox \subseteq callerOutbox'
          /\ \A m \in callerOutbox' \ callerOutbox : m.request = r
          /\ OthersStay(Attempt(r))
          /\ outbox \subseteq outbox'
      BY <1>0, <2>1, <2>3, RequestFrame
    <3>2. \A n \in 1 .. MaxProviderAttempts : calls'[<<q, n>>].phase = calls[<<q, n>>].phase
      BY <1>0, <2>3, <3>1, AttemptsOf
    <3>3. q \in DOMAIN callerLedger'.rows => q \in DOMAIN callerLedger.rows
      BY <2>1, <2>3
    <3>4. q \in finishes' <=> q \in finishes
      BY <2>3, <3>1
    <3>5. \A m \in callerOutbox' : m.request = q => m \in callerOutbox
      BY <2>3, <3>1
    <3>6. RequestInOrder(q)
      BY <1>0
    <3> QED
      BY <1>0, <3>1, <3>2, <3>3, <3>4, <3>5, <3>6, IdleInOrder
  <2> QED
    BY <2>2, <2>3
<1>2. ASSUME NEW q \in Requests, UNCHANGED <<requests, finishes, callerOutbox, calls, outbox>>,
             leases'[q] = leases[q] \/ (leases'[q] = "closed" /\ q \in finishes),
             q \in DOMAIN callerLedger'.rows => q \in DOMAIN callerLedger.rows
      PROVE  RequestInOrder(q)'
  <2>1. RequestInOrder(q)
    BY <1>0
  <2> QED
    BY <1>0, <1>2, <2>1, IdleInOrder
<1>3. ASSUME NEW m \in callerOutbox, deliverCallerOutcome(m), NEW q \in Requests
      PROVE  RequestInOrder(q)'
  <2>1. OutcomeType(m.outcome) /\ now \in Nat /\ LedgerType(callerLedger)
        /\ SettingsType(CallerSettings)
    BY <1>0, CallerSettingsType DEF ExecTypeOK, TypeOK
  <2>2. callerLedger' = Settled(callerLedger, m.request, m.outcome, CallerSettings, now)
    BY <1>3 DEF deliverCallerOutcome, recordOutcome
  <2>3. DOMAIN callerLedger'.rows = DOMAIN callerLedger.rows \ {m.request}
    BY <2>1, <2>2, Settling
  <2> QED
    BY <1>2, <1>3, <2>3 DEF deliverCallerOutcome, vars
<1>4. ASSUME NEW r \in finishes, deliverFinish(r), NEW q \in Requests
      PROVE  RequestInOrder(q)'
  <2>1. leases'[q] = leases[q] \/ (leases'[q] = "closed" /\ q \in finishes)
    BY <1>0, <1>4 DEF deliverFinish, ExecTypeOK
  <2> QED
    BY <1>2, <1>4, <2>1 DEF deliverFinish, vars
<1>5. ASSUME NEW m \in outbox, deliverProviderOutcome(m), NEW q \in Requests
      PROVE  RequestInOrder(q)'
  BY <1>2, <1>5 DEF deliverProviderOutcome, recordProviderOutcome, requestVars
<1>6. ASSUME ExecTick \/ UNCHANGED execVars, NEW q \in Requests
      PROVE  RequestInOrder(q)'
  BY <1>2, <1>6 DEF ExecTick, Tick, requestVars, execVars, vars
<1> QED
  BY <1>1, <1>3, <1>4, <1>5, <1>6 DEF ExecNext, Deliver

(* A step of a request, a delivery or a tick is a step of the coordinator, *)
(* or leaves it alone.                                                     *)
LEMMA ExecStepIsProviders ==
    ASSUME ExecInv, [ExecNext]_execVars
    PROVE  [Next]_vars
<1>1. ASSUME NEW r \in Requests, Step(r) PROVE [Next]_vars
  <2>1. At(r, "plan") => calls[Attempt(r)].phase = "idle"
    BY DEF ExecInv, RequestInOrder, AttemptsInOrder, At
  <2> QED
    BY <1>1, <2>1, StepIsProviders DEF ExecInv
<1>2. ASSUME NEW m \in outbox, deliverProviderOutcome(m) PROVE Next
  BY <1>2 DEF deliverProviderOutcome, Next
<1>3. CASE ExecTick
  BY <1>3 DEF ExecTick, Next
<1>4. CASE UNCHANGED vars
  BY <1>4
<1> QED
  BY <1>1, <1>2, <1>3, <1>4 DEF ExecNext, Deliver, deliverCallerOutcome, deliverFinish, execVars

LEMMA ExecInvStep ==
    ASSUME ExecInv, [ExecNext]_execVars
    PROVE  ExecInv'
<1>1. TypeOK' /\ LedgersAreTable'
  BY ExecStepIsProviders, NextType, TableStep DEF ExecInv
<1>2. ExecTypeOK'
  BY ExecTypeStep DEF ExecInv
<1>3. \A r \in Requests : RequestInOrder(r)'
  BY OrderStep
<1> QED
  BY <1>1, <1>2, <1>3 DEF ExecInv

LEMMA ExecInvInit == ExecInit => ExecInv
<1> SUFFICES ASSUME ExecInit PROVE ExecInv
  OBVIOUS
<1>1. TypeOK /\ LedgersAreTable /\ ExecTypeOK
  BY InitType, ExecInitType DEF ExecInit, Init, LedgersAreTable
<1>2. ASSUME NEW r \in Requests PROVE RequestInOrder(r)
  <2>1. /\ requests[r].phase = "new" /\ requests[r].attempt = 1
        /\ requests[r].callerHeld = FALSE
    BY <1>2 DEF ExecInit, NewRequest
  <2>2. \A n \in 1 .. MaxProviderAttempts : calls[<<r, n>>].phase = "idle"
    BY DEF ExecInit, Init, IdleCall
  <2>3. Attempt(r) = <<r, 1>> /\ 1 \in 1 .. MaxProviderAttempts
    BY <2>1 DEF Attempt
  <2>4. AttemptsInOrder(r)
    BY <2>1, <2>2, <2>3 DEF AttemptsInOrder, Underway
  <2>5. DOMAIN callerLedger.rows = {}
    BY CallerSettingsType, EmptyLedgerType DEF ExecInit, CallerInit
  <2>6. CallerInOrder(r)
    BY <2>1, <2>5 DEF CallerInOrder, ExecInit, At, Resumed
  <2>7. LeaseInOrder(r)
    BY <2>1 DEF LeaseInOrder, ExecInit, At, Resumed
  <2>8. OutcomesInOrder(r)
    BY <2>1, <2>2 DEF OutcomesInOrder, At
  <2> QED
    BY <2>4, <2>6, <2>7, <2>8 DEF RequestInOrder
<1> QED
  BY <1>1, <1>2 DEF ExecInv

LEMMA ExecInvHolds == ExecSpec => []ExecInv
<1>1. ExecInit => ExecInv
  BY ExecInvInit
<1>2. ExecInv /\ [ExecNext]_execVars => ExecInv'
  BY ExecInvStep
<1> QED
  BY <1>1, <1>2, PTL DEF ExecSpec

-----------------------------------------------------------------------------
(* The theorems.                                                           *)

(* Every behaviour of the requests is one of the provider coordinator with *)
(* its attempts: a fallback never asks with an attempt that already holds  *)
(* a reservation, and an attempt is settled only while its call is open.   *)
(* So whatever is proved of RoutingCoordinator holds of Execution.         *)
THEOREM RequestsAreAttempts == ExecSpec => Spec
<1>1. ExecInit => Init
  BY DEF ExecInit
<1>2. ExecInv /\ [ExecNext]_execVars => [Next]_vars
  BY ExecStepIsProviders
<1> QED
  BY <1>1, <1>2, ExecInvHolds, PTL DEF ExecSpec, Spec

(* The caller never holds more reservations than its maxConcurrent, though *)
(* its preview and its reservation are separate calls.                     *)
THEOREM CallerWithinCeiling == ExecSpec => []CallerCeiling
<1>1. ExecInit => CallerCeiling
  <2> SUFFICES ASSUME ExecInit, CallerSettings.maxConcurrent > 0
               PROVE  reservationCount(callerLedger) <= CallerSettings.maxConcurrent
    BY DEF CallerCeiling
  <2>1. DOMAIN callerLedger.rows = {}
    BY CallerSettingsType, EmptyLedgerType DEF ExecInit, CallerInit
  <2> QED
    BY <2>1, FS_EmptySet DEF reservationCount
<1>2. ExecInv /\ CallerCeiling /\ [ExecNext]_execVars => CallerCeiling'
  BY CallerCeilingStep DEF ExecInv
<1> QED
  BY <1>1, <1>2, ExecInvHolds, PTL DEF ExecSpec

(* If no cancellation of an upstream body rejects, a request that has      *)
(* ended leaves no reservation and no lease without its settling message.  *)
THEOREM NothingIsAbandoned ==
    ASSUME "cancel" \notin Faults
    PROVE  ExecSpec => []NothingAbandoned
<1>1. ExecInv /\ RowsMatchCalls => NothingAbandoned
  <2> SUFFICES ASSUME ExecInv, RowsMatchCalls, NEW r \in Requests,
                      requests[r].phase \in {"ended", "cancelled"}
               PROVE  /\ \A n \in 1 .. MaxProviderAttempts, s \in Scopes :
                             <<r, n>> \in DOMAIN ledgers[s].rows => OwedOutcome(<<r, n>>)
                      /\ r \in DOMAIN callerLedger.rows => \E m \in callerOutbox : m.request = r
                      /\ leases[r] = "open" => r \in finishes
    BY DEF NothingAbandoned
  <2>1. AttemptsInOrder(r) /\ CallerInOrder(r) /\ LeaseInOrder(r) /\ OutcomesInOrder(r)
        /\ TypeOK /\ ExecTypeOK
    BY DEF ExecInv, RequestInOrder
  <2>2. At(r, "ended")
    BY <2>1 DEF OutcomesInOrder, At
  <2>3. ASSUME NEW n \in 1 .. MaxProviderAttempts, NEW s \in Scopes,
               <<r, n>> \in DOMAIN ledgers[s].rows
        PROVE  OwedOutcome(<<r, n>>)
    <3>1. calls[<<r, n>>].phase # "idle"
      BY <2>3 DEF RowsMatchCalls
    <3>2. calls[<<r, n>>].phase \in {"idle", "inflight", "ended"}
      BY <2>1, AttemptsOf DEF TypeOK
    <3>3. calls[Attempt(r)].phase # "inflight"
      BY <2>1, <2>2 DEF AttemptsInOrder, Underway, At
    <3>4. calls[<<r, n>>].phase = "ended"
      <4>1. /\ requests[r].attempt \in 1 .. MaxProviderAttempts
            /\ Attempt(r) = <<r, requests[r].attempt>>
        BY <2>1, AttemptsOf
      <4>2. n = requests[r].attempt \/ n > requests[r].attempt \/ n < requests[r].attempt
        BY <4>1
      <4> QED
        BY <2>1, <3>1, <3>2, <3>3, <4>1, <4>2 DEF AttemptsInOrder
    <3> QED
      BY <2>1, <2>2, <3>4 DEF OutcomesInOrder, At, Lost
  <2>4. r \in DOMAIN callerLedger.rows => \E m \in callerOutbox : m.request = r
    BY <2>1, <2>2 DEF CallerInOrder
  <2>5. leases[r] = "open" => r \in finishes
    BY <2>1, <2>2 DEF LeaseInOrder
  <2> QED
    BY <2>3, <2>4, <2>5
<1> QED
  BY <1>1, ExecInvHolds, RequestsAreAttempts, RowsMatch, PTL

-----------------------------------------------------------------------------
(* What is held while the provider is called.                              *)

(* A request that holds the caller's quota ends before the time to live of *)
(* that reservation.                                                       *)
CallersInTime ==
    \A r \in Requests :
        r \in DOMAIN callerLedger.rows /\ requests[r].phase \notin Over =>
            now - callerLedger.rows[r].created_at <= CallerSettings.reservationTtlMs

(* Then its row is there until it ends.                                    *)
CallerRowsStay ==
    \A r \in Requests :
        requests[r].callerHeld /\ requests[r].phase \notin Over =>
            r \in DOMAIN callerLedger.rows

(* The step that gives a request the caller's quota gives it a row.        *)
LEMMA HeldGetsRow ==
    ASSUME TypeOK, ExecTypeOK, NEW r \in Requests, Step(r),
           ~requests[r].callerHeld, requests'[r].callerHeld
    PROVE  r \in DOMAIN callerLedger'.rows
<1>1. RequestStep(r)
  BY EveryRequestStep
<1>2. HoldsCaller(r)
  BY <1>1 DEF RequestStep, Starts, Admits, Waits, GivesUp, LosesCaller, TakesLease,
              LosesLease, Retries, Concludes, Answers, Dies, MovesTo, Updates
<1>3. /\ requests[r].phase = "caller" /\ requests'[r].phase \in {"lease", "invoke"}
  BY <1>2 DEF HoldsCaller, Updates, At, LeaseOrInvoke
<1>4. CASE reserveCaller(r)
  <2>1. PICK allowed \in BOOLEAN :
          /\ reserve(r, calls[Attempt(r)].tokens, now, allowed)
          /\ ~allowed => Goto(r, "ended")
    BY <1>4 DEF reserveCaller
  <2>2. allowed
    <3>1. "ended" \in Phases
      BY DEF Phases
    <3> QED
      BY <1>3, <2>1, <3>1, UpdateEffects DEF MovesTo, Updates
  <2>3. callerLedger' = Reserved(CallerRows(now), r, calls[Attempt(r)].tokens,
                                 CallerSettings, now)
    BY <2>1, <2>2 DEF reserve
  <2>4. /\ LedgerType(CallerRows(now)) /\ SettingsType(CallerSettings) /\ now \in Nat
        /\ calls[Attempt(r)].tokens \in Nat
    BY CallerRowsOK, CallerSettingsType, AttemptIsCall DEF TypeOK
  <2> QED
    BY <2>3, <2>4, Reserving
<1>5. CASE invocationDies(r)
  <2>1. MovesTo(r, "crashed")
    BY <1>5, UpdateEffects DEF invocationDies, Phases
  <2> QED
    BY <1>3, <2>1 DEF MovesTo, Updates
<1> QED
  BY <1>3, <1>4, <1>5
     DEF Step, inspectWorkflow, inspectCallerAdmission, admitRankedRoute, leaseWorkflowCall,
         releaseAfterRefusal, invokeFails, invokeAnswers, complete, observedStream, unusable,
         Serve, cancelRejects, At

(* A row younger than its time to live, of a request that is not over,     *)
(* survives every step.                                                    *)
LEMMA RowSurvives ==
    ASSUME ExecInv, CallersInTime, CallerStep, NEW q \in Requests,
           q \in DOMAIN callerLedger.rows, requests[q].phase \notin Over
    PROVE  q \in DOMAIN callerLedger'.rows
<1>0. /\ LedgerType(callerLedger) /\ LedgerType(CallerRows(now)) /\ now \in Nat
      /\ SettingsType(CallerSettings) /\ CallerSettings.reservationTtlMs \in Nat
  BY CallerRowsOK, CallerSettingsType DEF ExecInv, TypeOK, ExecTypeOK
<1>1. q \in DOMAIN CallerRows(now).rows
  <2>1. now - callerLedger.rows[q].created_at <= CallerSettings.reservationTtlMs
    BY DEF CallersInTime
  <2>2. callerLedger.rows[q].created_at \in Nat
    BY <1>0 DEF LedgerType
  <2>3. callerLedger.rows[q].created_at >= now - CallerSettings.reservationTtlMs
    BY <1>0, <2>1, <2>2
  <2> QED
    BY <2>3, CallerRowsOK DEF ExecInv
<1>2. ASSUME NEW r \in Requests, NEW tokens \in Nat,
             callerLedger' = Reserved(CallerRows(now), r, tokens, CallerSettings, now)
      PROVE  q \in DOMAIN callerLedger'.rows
  <2>1. DOMAIN callerLedger'.rows = DOMAIN CallerRows(now).rows \cup {r}
    BY <1>0, <1>2, Reserving
  <2> QED
    BY <1>1, <2>1
<1>3. ASSUME NEW m \in callerOutbox,
             callerLedger' = Settled(callerLedger, m.request, m.outcome, CallerSettings, now)
      PROVE  q \in DOMAIN callerLedger'.rows
  <2>1. OutcomeType(m.outcome)
    BY DEF ExecInv, ExecTypeOK
  <2>2. DOMAIN callerLedger'.rows = DOMAIN callerLedger.rows \ {m.request}
    BY <1>0, <1>3, <2>1, Settling
  <2>3. q # m.request
    BY DEF ExecInv, RequestInOrder, CallerInOrder, At, Over
  <2> QED
    BY <2>2, <2>3
<1> QED
  BY <1>1, <1>2, <1>3 DEF CallerStep

LEMMA CallerRowsStayStep ==
    ASSUME ExecInv, CallersInTime, CallerRowsStay, [ExecNext]_execVars
    PROVE  CallerRowsStay'
<1> SUFFICES ASSUME NEW q \in Requests, requests'[q].callerHeld, requests'[q].phase \notin Over
             PROVE  q \in DOMAIN callerLedger'.rows
  BY DEF CallerRowsStay
<1>0. TypeOK /\ ExecTypeOK /\ CallerStep
  BY EveryCallerStep DEF ExecInv
<1>1. ASSUME requests[q].callerHeld, requests[q].phase \notin Over
      PROVE  q \in DOMAIN callerLedger'.rows
  BY <1>0, <1>1, RowSurvives DEF CallerRowsStay
<1>2. ASSUME NEW r \in Requests, Step(r)
      PROVE  q \in DOMAIN callerLedger'.rows
  <2>1. RequestStep(r)
    BY <1>0, <1>2, EveryRequestStep
  <2>2. CASE q # r
    <3>1. requests'[q] = requests[q]
      BY <1>0, <2>1, <2>2, RequestFrame
    <3> QED
      BY <1>1, <3>1
  <2>3. CASE q = r
    <3>1. requests[r].phase \notin Over
      BY <2>1, <2>3
         DEF RequestStep, Starts, Admits, Waits, GivesUp, HoldsCaller, LosesCaller, TakesLease,
             LosesLease, Retries, Concludes, Answered, Answers, Dies, At, Over
    <3>2. CASE requests[r].callerHeld
      BY <1>1, <2>3, <3>1, <3>2
    <3>3. CASE ~requests[r].callerHeld
      BY <1>0, <1>2, <2>3, <3>3, HeldGetsRow
    <3> QED
      BY <3>2, <3>3
  <2> QED
    BY <2>2, <2>3
<1>3. CASE UNCHANGED requests
  BY <1>1, <1>3
<1> QED
  BY <1>2, <1>3 DEF ExecNext, Deliver, deliverProviderOutcome, deliverCallerOutcome,
                    deliverFinish, ExecTick, requestVars, execVars

(* The provider is called only under a provider reservation, the caller's  *)
(* reservation and the workflow's lease, on a fallback too: provided that  *)
(* no call outlives the provider's reservation and no request the          *)
(* caller's.                                                               *)
THEOREM UpstreamHoldsAll ==
    ASSUME \A s \in Scopes : MaxCallTime <= Settings[s].reservationTtlMs
    PROVE  ExecSpec /\ []CallersInTime => []UpstreamIsAdmitted
<1>1. ExecInit => CallerRowsStay
  BY DEF ExecInit, NewRequest, CallerRowsStay
<1>2. ExecInv /\ CallersInTime /\ CallerRowsStay /\ [ExecNext]_execVars => CallerRowsStay'
  BY CallerRowsStayStep
<1>3. ExecSpec => []RowsCoverCalls
  <2>1. Spec => []RowsCoverCalls
    BY RowsCover
  <2> QED
    BY <2>1, RequestsAreAttempts, PTL
<1>4. ExecInv /\ CallerRowsStay /\ RowsCoverCalls => UpstreamIsAdmitted
  <2> SUFFICES ASSUME ExecInv, CallerRowsStay, RowsCoverCalls, NEW r \in Requests,
                      requests[r].phase \in {"invoke", "serving"}
               PROVE  /\ Attempt(r) \in DOMAIN ledgers[calls[Attempt(r)].scope].rows
                      /\ r \in Limited => r \in DOMAIN callerLedger.rows
                      /\ r \in Members => leases[r] = "open"
    BY DEF UpstreamIsAdmitted
  <2>1. AttemptsInOrder(r) /\ CallerInOrder(r) /\ LeaseInOrder(r) /\ Attempt(r) \in Calls
    BY AttemptIsCall DEF ExecInv, RequestInOrder
  <2>2. calls[Attempt(r)].phase = "inflight"
    BY <2>1 DEF AttemptsInOrder, Underway
  <2>3. Attempt(r) \in DOMAIN ledgers[calls[Attempt(r)].scope].rows
    BY <2>1, <2>2 DEF RowsCoverCalls
  <2>4. r \in Limited => r \in DOMAIN callerLedger.rows
    BY <2>1 DEF CallerInOrder, CallerRowsStay, Over
  <2>5. r \in Members => leases[r] = "open"
    BY <2>1 DEF LeaseInOrder
  <2> QED
    BY <2>3, <2>4, <2>5
<1> QED
  BY <1>1, <1>2, <1>3, <1>4, ExecInvHolds, PTL DEF ExecSpec

-----------------------------------------------------------------------------
(* What the caller pays.                                                   *)

(* An attempt that failed to answer reports no tokens: it is settled with  *)
(* its status and Retry-After only.                                        *)
FailuresReportNothing ==
    \A outcome \in Outcomes : ~outcome.quotaSuccess => outcome.actualTokens = Undefined

Reported(messages) == \A a \in messages : a.outcome.actualTokens # Undefined
Usage(messages) == SumFunctionOnSet([a \in messages |-> a.outcome.actualTokens], messages)

(* What a request knows, while it runs, of its served attempts, and what   *)
(* it told the caller's coordinator in the end.                            *)
CountsServed(r) ==
    requests[r].phase \notin Over =>
        /\ requests[r].consumedProviderCapacity
               = (ServedAttempts(r) # {} \/ requests[r].phase = "serving")
        /\ Reported(ServedAttempts(r)) =>
               requests[r].totalActualTokens = Usage(ServedAttempts(r))
PaysServed(r) ==
    \A m \in callerOutbox :
        m.request = r /\ Reported(ServedAttempts(r)) =>
            /\ m.outcome.quotaSuccess = (ServedAttempts(r) # {})
            /\ ChargedTokens(m.outcome, 0) = Usage(ServedAttempts(r))
Pays(r) == CountsServed(r) /\ PaysServed(r)

(* One more reported attempt adds its tokens.                              *)
LEMMA UsageGrows ==
    ASSUME NEW messages, IsFiniteSet(messages), NEW a, a \notin messages,
           \A m \in messages \cup {a} : m.outcome.actualTokens \in Int
    PROVE  Usage(messages \cup {a}) = Usage(messages) + a.outcome.actualTokens
<1> DEFINE more == messages \cup {a}
           f == [m \in messages |-> m.outcome.actualTokens]
           g == [m \in more |-> m.outcome.actualTokens]
<1>1. SumFunctionOnSet(g, more) = g[a] + SumFunctionOnSet(g, messages)
  <2>1. \A m \in messages \cup {a} : g[m] \in Int
    OBVIOUS
  <2> HIDE DEF g
  <2> QED
    BY <2>1, SumAdd
<1>2. SumFunctionOnSet(g, messages) = SumFunctionOnSet(f, messages)
  <2>1. \A m \in messages : g[m] = f[m]
    OBVIOUS
  <2> HIDE DEF g, f
  <2> QED
    BY <2>1, SumAgree
<1>3. SumFunctionOnSet(f, messages) \in Int
  <2>1. \A m \in messages : f[m] \in Int
    OBVIOUS
  <2> HIDE DEF f
  <2> QED
    BY <2>1, SumType
<1>4. g[a] = a.outcome.actualTokens /\ a.outcome.actualTokens \in Int
  OBVIOUS
<1>5. Usage(more) = SumFunctionOnSet(g, more) /\ Usage(messages) = SumFunctionOnSet(f, messages)
  BY DEF Usage
<1> HIDE DEF f, g, more
<1>6. Usage(more) = Usage(messages) + a.outcome.actualTokens
  BY <1>1, <1>2, <1>3, <1>4, <1>5
<1> QED
  BY <1>6 DEF more

(* What a settled attempt changes in the served attempts of a request.     *)
LEMMA ServedAfter ==
    ASSUME FailuresReportNothing, TypeOK, ExecTypeOK, OutboxOK, NEW r \in Requests,
           NEW outcome \in Outcomes, Settles(Attempt(r), outcome)
    PROVE  /\ ~outcome.quotaSuccess =>
                  /\ ServedAttempts(r)' = ServedAttempts(r)
                  /\ TokensSoFar(r, outcome) = requests[r].totalActualTokens
           /\ outcome.quotaSuccess =>
                  /\ ServedAttempts(r)' # {}
                  /\ Reported(ServedAttempts(r)') =>
                         /\ Reported(ServedAttempts(r))
                         /\ requests[r].totalActualTokens = Usage(ServedAttempts(r)) =>
                                TokensSoFar(r, outcome) = Usage(ServedAttempts(r)')
<1> DEFINE sent == [call |-> Attempt(r), outcome |-> outcome]
           served == ServedAttempts(r)
           total == requests[r].totalActualTokens
<1>1. sent.call = Attempt(r) /\ sent.outcome = outcome /\ sent.call[1] = r
  BY DEF Attempt
<1>2. outbox' = outbox \cup {sent}
  BY DEF Settles
<1>3. sent \notin outbox
  BY <1>1 DEF OutboxOK, Settles
<1> HIDE DEF sent
<1>4. total \in Nat /\ outcome.actualTokens \in Nat \cup {Undefined}
  BY DEF ExecTypeOK, RequestType
<1>5. CASE ~outcome.quotaSuccess
  <2>1. ServedAttempts(r)' = ServedAttempts(r)
    BY <1>1, <1>2, <1>5 DEF ServedAttempts
  <2>2. outcome.actualTokens = Undefined
    BY <1>5 DEF FailuresReportNothing
  <2>3. TokensSoFar(r, outcome) = total
    BY <1>4, <2>2 DEF TokensSoFar
  <2> QED
    BY <1>5, <2>1, <2>3
<1>6. CASE outcome.quotaSuccess
  <2>1. ServedAttempts(r)' = served \cup {sent}
    BY <1>1, <1>2, <1>6 DEF ServedAttempts
  <2>2. ASSUME Reported(served \cup {sent})
        PROVE  /\ Reported(served)
               /\ total = Usage(served) => TokensSoFar(r, outcome) = Usage(served \cup {sent})
    <3>1. Reported(served) /\ outcome.actualTokens # Undefined
      BY <1>1, <2>2 DEF Reported
    <3>2. IsFiniteSet(served) /\ sent \notin served
      BY <1>3, FS_Subset DEF ServedAttempts, OutboxOK
    <3>3. \A m \in served \cup {sent} : m.outcome.actualTokens \in Int
      <4>1. \A m \in served : m.outcome \in Outcomes
        BY DEF ServedAttempts, TypeOK
      <4>2. \A o \in Outcomes : o.actualTokens \in Int
        BY DEF Undefined
      <4> QED
        BY <1>1, <4>1, <4>2
    <3> HIDE DEF served
    <3>4. Usage(served \cup {sent}) = Usage(served) + sent.outcome.actualTokens
      BY <3>2, <3>3, UsageGrows
    <3>5. TokensSoFar(r, outcome) = total + outcome.actualTokens
      BY <3>1 DEF TokensSoFar
    <3> QED
      BY <1>1, <3>1, <3>4, <3>5
  <2> QED
    BY <1>6, <2>1, <2>2
<1> QED
  BY <1>5, <1>6

(* The acting request goes on counting, or tells the caller the count.     *)
LEMMA PaysStep ==
    ASSUME FailuresReportNothing, TypeOK, ExecTypeOK, OutboxOK, NEW r \in Requests,
           RequestStep(r), CallerInOrder(r), Pays(r)
    PROVE  Pays(r)'
<1> DEFINE total == requests[r].totalActualTokens
           consumed == requests[r].consumedProviderCapacity
<1>0. /\ consumed \in BOOLEAN /\ total \in Nat
      /\ \A m \in callerOutbox : m.request = r => At(r, "ended")
      /\ At(r, "ended") => requests[r].phase \in Over
  BY DEF CallerInOrder, ExecTypeOK, RequestType, At, Over
<1>1. requests[r].phase \notin Over
  BY DEF RequestStep, Starts, Admits, Waits, GivesUp, HoldsCaller, LosesCaller, TakesLease,
         LosesLease, Retries, Concludes, Answered, Answers, Dies, At, Over
<1>2. /\ consumed = (ServedAttempts(r) # {} \/ requests[r].phase = "serving")
      /\ Reported(ServedAttempts(r)) => total = Usage(ServedAttempts(r))
      /\ \A m \in callerOutbox : m.request # r
  BY <1>0, <1>1 DEF Pays, CountsServed
<1>3. ASSUME UNCHANGED outbox, UNCHANGED callerOutbox, requests[r].phase # "serving",
             requests'[r].totalActualTokens = total,
             \/ requests'[r].phase \in Over
             \/ /\ requests'[r].phase # "serving"
                /\ requests'[r].consumedProviderCapacity = consumed
             \/ /\ requests'[r].phase = "serving"
                /\ requests'[r].consumedProviderCapacity = TRUE
      PROVE  Pays(r)'
  <2>1. ServedAttempts(r)' = ServedAttempts(r)
    BY <1>3 DEF ServedAttempts
  <2>2. CountsServed(r)'
    BY <1>2, <1>3, <2>1 DEF CountsServed
  <2>3. PaysServed(r)'
    BY <1>2, <1>3 DEF PaysServed
  <2> QED
    BY <2>2, <2>3 DEF Pays
<1>4. CASE Starts(r) \/ Admits(r) \/ Waits(r) \/ HoldsCaller(r) \/ TakesLease(r) \/ Answers(r)
  BY <1>3, <1>4
     DEF Starts, Admits, Waits, HoldsCaller, TakesLease, Answers, MovesTo, Updates, At,
         Provider, Sent, Begins, AfterPlan, LeaseOrInvoke, Over
<1>5. CASE LosesCaller(r) \/ LosesLease(r)
  <2>1. Settles(Attempt(r), Unspent) /\ ~Unspent.quotaSuccess
    BY <1>5 DEF LosesCaller, LosesLease, Unspent
  <2>2. ServedAttempts(r)' = ServedAttempts(r)
    BY <2>1, ServedAfter
  <2>3. /\ requests'[r].totalActualTokens = total /\ UNCHANGED callerOutbox
        /\ requests'[r].consumedProviderCapacity = consumed
        /\ requests[r].phase # "serving" /\ requests'[r].phase # "serving"
    BY <1>5 DEF LosesCaller, LosesLease, MovesTo, Updates, At, Sent
  <2>4. CountsServed(r)'
    BY <1>2, <2>2, <2>3 DEF CountsServed
  <2>5. PaysServed(r)'
    BY <1>2, <2>3 DEF PaysServed
  <2> QED
    BY <2>4, <2>5 DEF Pays
<1>6. CASE Dies(r)
  <2>1. requests'[r].phase \in Over /\ UNCHANGED callerOutbox
    BY <1>6 DEF Dies, MovesTo, Updates, Sent, Over
  <2>2. PaysServed(r)'
    BY <1>2, <2>1 DEF PaysServed
  <2> QED
    BY <2>1, <2>2 DEF Pays, CountsServed
<1>7. ASSUME NEW sum \in Nat, finalizeLogical(r, sum, consumed), MovesTo(r, "ended"),
             consumed = (ServedAttempts(r)' # {}),
             Reported(ServedAttempts(r)') => sum = Usage(ServedAttempts(r)')
      PROVE  Pays(r)'
  <2>1. \A m \in callerOutbox' \ callerOutbox :
            m.outcome.quotaSuccess = consumed /\ ChargedTokens(m.outcome, 0) = sum
    <3>1. consumed \in BOOLEAN /\ finalizeLogical(r, sum, consumed) /\ sum \in Nat
      BY <1>0, <1>7
    <3> HIDE DEF consumed
    <3> QED
      BY <3>1, LogicalEnd
  <2>2. PaysServed(r)'
    BY <1>2, <1>7, <2>1 DEF PaysServed
  <2>3. requests'[r].phase \in Over
    BY <1>7 DEF MovesTo, Updates, Over
  <2> QED
    BY <2>2, <2>3 DEF Pays, CountsServed
<1>8. CASE GivesUp(r)
  <2>1. ServedAttempts(r)' = ServedAttempts(r)
    BY <1>8 DEF GivesUp, Provider, ServedAttempts
  <2>2. requests[r].phase # "serving"
    BY <1>8 DEF GivesUp, At
  <2> QED
    BY <1>0, <1>2, <1>7, <1>8, <2>1, <2>2 DEF GivesUp
<1>9. ASSUME NEW outcome \in Outcomes, Answered(r, outcome), Settles(Attempt(r), outcome)
      PROVE  /\ consumed = (ServedAttempts(r)' # {})
             /\ Reported(ServedAttempts(r)') =>
                    TokensSoFar(r, outcome) = Usage(ServedAttempts(r)')
  <2>1. CASE requests[r].phase = "invoke" /\ ~outcome.quotaSuccess
    BY <1>2, <1>9, <2>1, ServedAfter
  <2>2. CASE requests[r].phase = "serving" /\ outcome.quotaSuccess
    BY <1>2, <1>9, <2>2, ServedAfter
  <2> QED
    BY <1>9, <2>1, <2>2 DEF Answered, At
<1>10. ASSUME NEW outcome \in Outcomes, Concludes(r, outcome)
       PROVE  Pays(r)'
  <2>1. TokensSoFar(r, outcome) \in Nat
    BY TokensGrow
  <2> QED
    BY <1>7, <1>9, <1>10, <2>1 DEF Concludes
<1>11. ASSUME NEW outcome \in Outcomes, Retries(r, outcome)
       PROVE  Pays(r)'
  <2>1. /\ requests'[r].phase = "plan" /\ UNCHANGED callerOutbox
        /\ requests'[r].totalActualTokens = TokensSoFar(r, outcome)
        /\ requests'[r].consumedProviderCapacity = consumed
    BY <1>11 DEF Retries, Updates, Sent
  <2>2. /\ consumed = (ServedAttempts(r)' # {})
        /\ Reported(ServedAttempts(r)') =>
               TokensSoFar(r, outcome) = Usage(ServedAttempts(r)')
    BY <1>9, <1>11 DEF Retries
  <2>3. CountsServed(r)'
    BY <2>1, <2>2 DEF CountsServed
  <2>4. PaysServed(r)'
    BY <1>2, <2>1 DEF PaysServed
  <2> QED
    BY <2>3, <2>4 DEF Pays
<1> QED
  BY <1>4, <1>5, <1>6, <1>8, <1>10, <1>11 DEF RequestStep

LEMMA AllPayStep ==
    ASSUME FailuresReportNothing, ExecInv, OutboxOK, \A r \in Requests : Pays(r),
           [ExecNext]_execVars
    PROVE  \A r \in Requests : Pays(r)'
<1>0. TypeOK /\ ExecTypeOK
  BY DEF ExecInv
<1>1. ASSUME NEW q \in Requests, ServedAttempts(q)' = ServedAttempts(q),
             requests'[q] = requests[q],
             \A m \in callerOutbox' : m.request = q => m \in callerOutbox
      PROVE  Pays(q)'
  BY <1>1 DEF Pays, CountsServed, PaysServed
<1>2. ASSUME NEW r \in Requests, Step(r), NEW q \in Requests
      PROVE  Pays(q)'
  <2>1. RequestStep(r)
    BY <1>0, <1>2, EveryRequestStep
  <2>2. CASE q = r
    BY <1>0, <2>1, <2>2, PaysStep DEF ExecInv, RequestInOrder
  <2>3. CASE q # r
    <3>1. /\ requests'[q] = requests[q]
          /\ \A m \in callerOutbox' \ callerOutbox : m.request = r
          /\ outbox \subseteq outbox'
          /\ \A m \in outbox' \ outbox : m.call = Attempt(r)
      BY <1>0, <2>1, <2>3, RequestFrame
    <3>2. Attempt(r)[1] = r
      BY DEF Attempt
    <3>3. ServedAttempts(q)' = ServedAttempts(q)
      BY <2>3, <3>1, <3>2 DEF ServedAttempts
    <3> QED
      BY <1>1, <2>3, <3>1, <3>3
  <2> QED
    BY <2>2, <2>3
<1>3. ASSUME NEW q \in Requests, UNCHANGED <<requests, callerOutbox, outbox>>
      PROVE  Pays(q)'
  BY <1>1, <1>3 DEF ServedAttempts
<1>4. CASE Deliver \/ ExecTick \/ UNCHANGED execVars
  <2>1. UNCHANGED <<requests, callerOutbox, outbox>>
    BY <1>4 DEF Deliver, deliverProviderOutcome, recordProviderOutcome, deliverCallerOutcome,
                deliverFinish, ExecTick, Tick, requestVars, execVars, vars
  <2> QED
    BY <1>3, <2>1
<1> QED
  BY <1>2, <1>4 DEF ExecNext

(* The caller is charged for the tokens of every attempt that was served,  *)
(* the unusable ones included, and for no other; if each reported them.    *)
THEOREM CallerPaysForItsAttempts ==
    ASSUME FailuresReportNothing
    PROVE  ExecSpec => []CallerPaysForEveryAttempt
<1> DEFINE AllPay == \A r \in Requests : Pays(r)
<1>1. ExecInit => AllPay
  <2> SUFFICES ASSUME ExecInit, NEW r \in Requests PROVE Pays(r)
    OBVIOUS
  <2>1. /\ requests[r].phase = "new" /\ requests[r].totalActualTokens = 0
        /\ requests[r].consumedProviderCapacity = FALSE
        /\ callerOutbox = {} /\ outbox = {}
    BY DEF ExecInit, Init, NewRequest
  <2>2. ServedAttempts(r) = {}
    BY <2>1 DEF ServedAttempts
  <2>3. Usage({}) = 0
    BY SumEmpty DEF Usage
  <2> QED
    BY <2>1, <2>2, <2>3 DEF Pays, CountsServed, PaysServed
<1>2. ExecInv /\ OutboxOK /\ AllPay /\ [ExecNext]_execVars => AllPay'
  BY AllPayStep
<1>3. ExecSpec => []OutboxOK
  <2>1. Spec => []OutboxOK
    BY OutboxIsOK
  <2> QED
    BY <2>1, RequestsAreAttempts, PTL
<1>4. ExecInv /\ AllPay => CallerPaysForEveryAttempt
  <2> SUFFICES ASSUME ExecInv, AllPay, NEW m \in callerOutbox,
                      \A a \in ServedAttempts(m.request) : a.outcome.actualTokens # Undefined
               PROVE  /\ m.outcome.quotaSuccess = (ServedAttempts(m.request) # {})
                      /\ ChargedTokens(m.outcome, 0)
                             = SumFunctionOnSet([a \in ServedAttempts(m.request) |->
                                                     a.outcome.actualTokens],
                                                ServedAttempts(m.request))
    BY DEF CallerPaysForEveryAttempt
  <2>1. m.request \in Requests
    BY DEF ExecInv, ExecTypeOK
  <2>2. Reported(ServedAttempts(m.request))
    BY DEF Reported
  <2>3. PaysServed(m.request)
    BY <2>1 DEF Pays
  <2> QED
    BY <2>2, <2>3 DEF PaysServed, Usage
<1> QED
  BY <1>1, <1>2, <1>3, <1>4, ExecInvHolds, PTL DEF ExecSpec
=============================================================================
