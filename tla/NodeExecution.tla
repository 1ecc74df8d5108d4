--------------------------- MODULE NodeExecution ---------------------------
(***************************************************************************)
(* executeLocalGeneration, the Node runtime: a request walks its candidates*)
(* in order, and for each one inspects the provider's scope, reserves the  *)
(* caller (once), reserves the provider, calls it under a deadline and     *)
(* settles.  Each of these is one SQLite transaction, and any of them may  *)
(* find the database busy and throw.  Time is in seconds.                  *)
(***************************************************************************)
EXTENDS SqliteState, Sequences

CONSTANTS
    Requests,
    Streaming,          \* requests with stream: true
    Sticky,             \* requests with the affinity key
    Scopes,             \* provider credentials, each with one model that fits
    ByScarcity,         \* the scopes, the tightest request bucket first
    Settings,           \* scope -> its rateLimits
    CallerSettings,     \* the caller's rateLimits
    TokenRequests,      \* reservedTokens of a request
    UsageReports,       \* total_tokens of an answer, or Undefined
    RetryAfters,        \* Retry-After of a 429 or 5xx, or Undefined
    UpstreamTimeout,    \* options.upstreamTimeoutMs
    Margin,             \* the 1_000 of the deadline
    TransportCooldown,  \* the 5_000 of a failed transport
    TimerLag,           \* how late a timer may fire
    MaxStreamTime,      \* scope -> the age up to which chunks extend a stream
    StartTime, LastStart, MaxTime,
    Faults              \* "busy": a transaction throws

ASSUME NodeAssumption ==
    /\ Streaming \subseteq Requests /\ Sticky \subseteq Requests
    /\ IsFiniteSet(Scopes) /\ ByScarcity \in Seq(Scopes) \ {<<>>}
    /\ UpstreamTimeout \in Nat \ {0} /\ Margin \in Nat \ {0} /\ TransportCooldown \in Nat
    /\ TimerLag \in Nat /\ StartTime \in Nat \ {0} /\ LastStart \in Nat /\ MaxTime \in Nat
    /\ TokenRequests \subseteq Nat \ {0}
    /\ UsageReports \subseteq Nat \cup {Undefined} /\ RetryAfters \subseteq Nat \cup {Undefined}
    /\ MaxStreamTime \in [Scopes -> Nat]
    /\ Faults \subseteq {"busy"}
ASSUME NodeSettingsAssumption ==
    \A settings \in {Settings[s] : s \in Scopes} \cup {CallerSettings} :
        /\ settings.maxConcurrent \in Nat /\ settings.dailySafetyBudgetTokens \in Nat
        /\ settings.reservationTtlMs \in Nat \ {0} /\ settings.cooldownMs \in Nat
        /\ settings.requests.limit \in Nat /\ settings.requests.windowMs \in Nat
        /\ settings.tokens.limit \in Nat   /\ settings.tokens.windowMs \in Nat

VARIABLES now, stores, callerStore, affinity, requests

nodeVars == <<now, stores, callerStore, affinity, requests>>

NewRequest == [phase |-> "new", order |-> <<>>, at |-> 1, tokens |-> 0, callerHeld |-> FALSE,
               since |-> 0, deadline |-> Undefined, served |-> FALSE, actualTokens |-> Undefined]

NodeInit ==
    /\ now = StartTime
    /\ stores = [s \in Scopes |-> EmptyLedger(Settings[s])]
    /\ callerStore = EmptyLedger(CallerSettings)
    /\ affinity = "none"
    /\ requests = [r \in Requests |-> NewRequest]

(* A request that is over keeps no local variables.                        *)
Over(r, phase) == [requests EXCEPT ![r] = [NewRequest EXCEPT !.phase = phase]]

At(r, phase) == requests[r].phase = phase
Selection(r) == requests[r].order[requests[r].at]
Row(r) == <<r, requests[r].at>>

-----------------------------------------------------------------------------
(* Admission.                                                              *)

(* The order is by scarcity, with the account that last served this        *)
(* affinity key moved to the front, unless its entry has expired.          *)
Ordered(sticky) ==
    LET first == CHOOSE i \in DOMAIN ByScarcity : ByScarcity[i] = sticky IN
    [i \in DOMAIN ByScarcity |->
        IF sticky \notin Range(ByScarcity) \/ i > first THEN ByScarcity[i]
        ELSE IF i = 1 THEN sticky ELSE ByScarcity[i - 1]]

begin(r) ==
    /\ At(r, "new") /\ now <= LastStart
    /\ \E tokens \in TokenRequests,
          sticky \in (IF r \in Sticky THEN {affinity, "none"} ELSE {"none"}) :
           requests' = [requests EXCEPT ![r].phase = "inspect", ![r].tokens = tokens,
                                        ![r].order = Ordered(sticky)]
    /\ UNCHANGED <<now, stores, callerStore, affinity>>

(* The next candidate, or settleCaller(false) and the end.                 *)
NextCandidate(r) ==
    IF requests[r].at < Len(requests[r].order)
    THEN [requests EXCEPT ![r].phase = "inspect", ![r].at = @ + 1,
                          ![r].since = 0, ![r].deadline = Undefined]
    ELSE [requests EXCEPT ![r].phase = "closing", ![r].since = 0, ![r].deadline = Undefined]

inspectProvider(r) ==
    LET s == Selection(r) IN
    /\ At(r, "inspect")
    /\ stores' = [stores EXCEPT ![s] = Pruned(@, Settings[s], now)]
    /\ requests' = IF admission(stores[s], requests[r].tokens, Settings[s], now)
                   THEN [requests EXCEPT ![r].phase = IF requests[r].callerHeld
                                                      THEN "reserve" ELSE "caller"]
                   ELSE NextCandidate(r)
    /\ UNCHANGED <<now, callerStore, affinity>>

(* The caller is reserved once, before the first provider is; a refusal    *)
(* ends the request.                                                       *)
reserveCaller(r) ==
    /\ At(r, "caller")
    /\ callerStore' = reserve(callerStore, r, requests[r].tokens, CallerSettings, now)
    /\ requests' = IF admission(callerStore, requests[r].tokens, CallerSettings, now)
                   THEN [requests EXCEPT ![r].callerHeld = TRUE, ![r].phase = "reserve"]
                   ELSE Over(r, "ended")
    /\ UNCHANGED <<now, stores, affinity>>

(* Mutated form: the deadline ignores the reservation.                     *)
deadlineUnclamped(s) == UpstreamTimeout

deadlineMs(s) ==
    MaxOf(Margin, MinOf(UpstreamTimeout, Settings[s].reservationTtlMs - Margin))

reserveProvider(r) ==
    LET s == Selection(r) IN
    /\ At(r, "reserve")
    /\ stores' = [stores EXCEPT ![s] = reserve(@, Row(r), requests[r].tokens, Settings[s], now)]
    /\ requests' = IF admission(stores[s], requests[r].tokens, Settings[s], now)
                   THEN [requests EXCEPT ![r].phase = "invoke", ![r].since = now,
                                         ![r].deadline = now + deadlineMs(s)]
                   ELSE NextCandidate(r)
    /\ UNCHANGED <<now, callerStore, affinity>>

-----------------------------------------------------------------------------
(* The provider's answer.                                                  *)

SettleProvider(r, outcome) ==
    LET s == Selection(r) IN
    stores' = [stores EXCEPT ![s] = settle(@, Row(r), outcome, Settings[s], now)]

(* finalize settles the provider; settleCaller follows in "closing".  The  *)
(* tokens of a failure are passed on too, but settle ignores them.         *)
finalize(r, served, actualTokens) ==
    /\ SettleProvider(r, IF served THEN Success(actualTokens) ELSE Failure)
    /\ requests' = [requests EXCEPT ![r].phase = "closing",
                                    ![r].since = 0, ![r].deadline = Undefined,
                                    ![r].served = served, ![r].actualTokens = actualTokens]

CoolDownAndMoveOn(r, retryAfterMs) ==
    /\ SettleProvider(r, Cooldown(retryAfterMs))
    /\ requests' = NextCandidate(r)

(* Both attempts of the transport fail, or the deadline aborts them.       *)
transportFails(r) ==
    /\ At(r, "invoke")
    /\ CoolDownAndMoveOn(r, TransportCooldown)
    /\ UNCHANGED <<now, callerStore, affinity>>

(* A 429 without Retry-After waits for the credential's own cooldown, a    *)
(* 5xx for the transport's.                                                *)
overloaded(r) ==
    /\ At(r, "invoke")
    /\ \E delay \in RetryAfters, status \in {429, 500} :
           CoolDownAndMoveOn(r, IF status = 500 /\ delay = Undefined
                                THEN TransportCooldown ELSE delay)
    /\ UNCHANGED <<now, callerStore, affinity>>

(* Mutated form: the caller is not settled when the provider refuses.      *)
refusesCallerKept(r) ==
    /\ At(r, "invoke")
    /\ SettleProvider(r, Failure)
    /\ requests' = Over(r, "ended")
    /\ UNCHANGED <<now, callerStore, affinity>>

(* Any other error status is passed on to the client.                      *)
refuses(r) ==
    /\ At(r, "invoke")
    /\ finalize(r, FALSE, Undefined)
    /\ UNCHANGED <<now, callerStore, affinity>>

completes(r) ==
    /\ At(r, "invoke") /\ r \notin Streaming
    /\ \E actualTokens \in UsageReports : finalize(r, TRUE, actualTokens)
    /\ UNCHANGED <<now, callerStore, affinity>>

(* An unusable completion is settled as a failure, whatever it cost.       *)
unusable(r) ==
    /\ At(r, "invoke") /\ r \notin Streaming
    /\ SettleProvider(r, Failure)
    /\ requests' = NextCandidate(r)
    /\ UNCHANGED <<now, callerStore, affinity>>

-----------------------------------------------------------------------------
(* Streams.                                                                *)

armStreamDeadline(r) ==
    [requests EXCEPT ![r].phase = "stream", ![r].deadline = now + deadlineMs(Selection(r))]

StillTalking(r) ==
    now + deadlineMs(Selection(r)) <= requests[r].since + MaxStreamTime[Selection(r)]

(* The headers clear the request's deadline and arm the stream's.          *)
streamBegins(r) ==
    /\ At(r, "invoke") /\ r \in Streaming /\ StillTalking(r)
    /\ requests' = armStreamDeadline(r)
    /\ UNCHANGED <<now, stores, callerStore, affinity>>

(* Every chunk arms it again.                                              *)
chunk(r) ==
    /\ At(r, "stream") /\ StillTalking(r)
    /\ requests' = armStreamDeadline(r)
    /\ UNCHANGED <<now, stores, callerStore, affinity>>

(* The stream ends (usable or not), breaks, or is cancelled by the client; *)
(* a stream without a body fails at once.                                  *)
streamFinishes(r) ==
    /\ At(r, "stream") \/ (At(r, "invoke") /\ r \in Streaming)
    /\ \/ At(r, "stream") /\ \E actualTokens \in UsageReports : finalize(r, TRUE, actualTokens)
       \/ finalize(r, FALSE, Undefined)
    /\ UNCHANGED <<now, callerStore, affinity>>

-----------------------------------------------------------------------------
(* Deadlines, settlement, failures and time.                               *)

(* What is armed when the modelled time ends fires then.                   *)
Due(r) ==
    requests[r].deadline # Undefined /\ (now >= requests[r].deadline \/ now = MaxTime)

(* Mutated form: only the fetch is aborted, not the reader of its body.    *)
deadlineAbortsFetch(r) ==
    /\ Due(r) /\ At(r, "invoke")
    /\ CoolDownAndMoveOn(r, TransportCooldown)
    /\ UNCHANGED <<now, callerStore, affinity>>

(* The deadline of a call aborts the fetch (or cuts off its body, which    *)
(* makes it unusable); that of a stream ends it.                           *)
deadlineFires(r) ==
    /\ Due(r)
    /\ IF At(r, "invoke") THEN CoolDownAndMoveOn(r, TransportCooldown)
       ELSE finalize(r, FALSE, Undefined)
    /\ UNCHANGED <<now, callerStore, affinity>>

(* Mutated form: the caller is charged what was reserved.                  *)
CallerOutcomeReserved(r) == IF requests[r].served THEN Success(Undefined) ELSE Failure

CallerOutcome(r) == IF requests[r].served THEN Success(requests[r].actualTokens) ELSE Failure

(* Only a served answer becomes future affinity.                           *)
settleCaller(r) ==
    /\ At(r, "closing")
    /\ callerStore' = IF requests[r].callerHeld
                      THEN settle(callerStore, r, CallerOutcome(r), CallerSettings, now)
                      ELSE callerStore
    /\ affinity' = IF requests[r].served /\ r \in Sticky THEN Selection(r) ELSE affinity
    /\ requests' = Over(r, "ended")
    /\ UNCHANGED <<now, stores>>

Working == {"inspect", "caller", "reserve", "invoke", "stream", "closing"}

(* The transaction a request needs next throws: the request fails with     *)
(* what it holds.                                                          *)
busy(r) ==
    /\ "busy" \in Faults
    /\ requests[r].phase \in Working
    /\ requests' = Over(r, "failed")
    /\ UNCHANGED <<now, stores, callerStore, affinity>>

(* Timers are late by at most TimerLag.                                    *)
Tick ==
    /\ now < MaxTime
    /\ \A r \in Requests :
           requests[r].deadline # Undefined => now < requests[r].deadline + TimerLag
    /\ now' = now + 1
    /\ UNCHANGED <<stores, callerStore, affinity, requests>>

Transaction(r) ==
    inspectProvider(r) \/ reserveCaller(r) \/ reserveProvider(r) \/ settleCaller(r)

Upstream(r) ==
    \/ transportFails(r) \/ overloaded(r) \/ refuses(r) \/ completes(r) \/ unusable(r)
    \/ streamBegins(r) \/ chunk(r) \/ streamFinishes(r)

NodeNext ==
    \/ \E r \in Requests :
           begin(r) \/ Transaction(r) \/ Upstream(r) \/ deadlineFires(r) \/ busy(r)
    \/ Tick

NodeSpec == NodeInit /\ [][NodeNext]_nodeVars

(* The event loop runs what is ready and fires what is due; nothing makes  *)
(* an upstream answer.                                                     *)
NodeFairSpec ==
    /\ NodeSpec
    /\ \A r \in Requests : WF_nodeVars(Transaction(r)) /\ WF_nodeVars(deadlineFires(r))
    /\ WF_nodeVars(Tick)

-----------------------------------------------------------------------------
(* Properties.                                                             *)

LiveOn(s) == {r \in Requests : requests[r].phase \in {"invoke", "stream"} /\ Selection(r) = s}

(* The deadline "keeps a hung request from being reclaimed as stale and    *)
(* violating the credential's concurrency ceiling".                        *)
UpstreamCeiling ==
    \A s \in Scopes :
        Settings[s].maxConcurrent > 0 => Cardinality(LiveOn(s)) <= Settings[s].maxConcurrent

(* No day ends above its budget: a reservation taken before midnight is    *)
(* held against the day it will be charged to.                             *)
NoOverdraft ==
    \A s \in Scopes : Settings[s].dailySafetyBudgetTokens > 0 =>
        \A day \in DOMAIN stores[s].spent :
            stores[s].spent[day] <= Settings[s].dailySafetyBudgetTokens

(* A request that returned or threw a routing error left no reservation,   *)
(* however many candidates it went through.                                *)
EndedHoldsNothing ==
    \A r \in Requests : requests[r].phase = "ended" =>
        /\ r \notin DOMAIN callerStore.rows
        /\ \A s \in Scopes, n \in 1 .. Len(ByScarcity) : <<r, n>> \notin DOMAIN stores[s].rows

TotalSpent(ledger) == SumFunctionOnSet(ledger.spent, DOMAIN ledger.spent)

(* The caller is charged what its providers were: no request settles one   *)
(* side only or with another number, as long as no transaction failed.     *)
LedgersAgree ==
    (\A r \in Requests : requests[r].phase \in {"new", "ended"}) =>
        TotalSpent(callerStore)
            = SumFunctionOnSet([s \in Scopes |-> TotalSpent(stores[s])], Scopes)

(* "Some upstreams resolve fetch headers but never finish their SSE body": *)
(* every request that begins ends, although upstreams may fall silent.     *)
SilentUpstreamsEnd ==
    \A r \in Requests : (requests[r].phase # "new") ~> (requests[r].phase \in {"ended", "failed"})
=============================================================================
