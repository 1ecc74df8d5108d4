------------------------- MODULE RoutingCoordinator -------------------------
(***************************************************************************)
(* The Durable Object that owns every provider credential of a routing     *)
(* environment: planAndReserve inspects all candidates, ranks those that   *)
(* can admit and reserves the winner in one transaction;                   *)
(* recordProviderOutcome settles the reservation and trains the policy.    *)
(*                                                                         *)
(* Around it stand the Worker attempts that use it.  An attempt holds its  *)
(* upstream call while it is "inflight"; when the call ends the attempt    *)
(* sends one outcome through waitUntil.  Sent outcomes stay in outbox:     *)
(* delivery may happen late, twice, in any order, or never.                *)
(***************************************************************************)
EXTENDS QuotaRules, SequencesExt

CONSTANTS
    Calls,          \* provider attempts; each names its decision and its reservation
    Scopes,         \* credential scopes, providerKey(providerId, credentialScope)
    Settings,       \* rateLimits of each scope
    TokenRequests,  \* sizes of reservedTokens a selection may carry
    Outcomes,       \* outcomes an attempt may report
    StartTime,      \* Date.now() when the object is created
    MaxTime,        \* bound of the model: the clock stops there
    MaxCallTime     \* longest an upstream call stays open

ASSUME TimeAssumption ==
    /\ StartTime \in Nat \ {0}
    /\ MaxTime \in Nat
    /\ MaxCallTime \in Nat
ASSUME SettingsAssumption ==
    \A s \in Scopes :
        /\ Settings[s].maxConcurrent \in Nat
        /\ Settings[s].dailySafetyBudgetTokens \in Nat
        /\ Settings[s].reservationTtlMs \in Nat \ {0}
        /\ Settings[s].cooldownMs \in Nat
        /\ Settings[s].requests.limit \in Nat /\ Settings[s].requests.windowMs \in Nat
        /\ Settings[s].tokens.limit \in Nat   /\ Settings[s].tokens.windowMs \in Nat
ASSUME TokensAssumption == TokenRequests \subseteq Nat \ {0}
ASSUME OutcomesAssumption ==
    \A o \in Outcomes :
        /\ o.quotaSuccess \in BOOLEAN /\ o.cooldown \in BOOLEAN /\ o.learning \in BOOLEAN
        /\ o.actualTokens \in Nat \cup {Undefined}
        /\ o.retryAfterMs \in Nat \cup {Undefined}
ASSUME NoScopeAssumption == "none" \notin Scopes

VARIABLES
    now,        \* Date.now()
    ledgers,    \* reservations and quota_state rows, per scope
    learned,    \* learned_call_outcomes: decisions already trained on
    observed,   \* observations of the global row of policy_stats, per scope
    calls,      \* the attempts: phase, and what planAndReserve answered
    outbox      \* outcomes sent through waitUntil

vars == <<now, ledgers, learned, observed, calls, outbox>>

IdleCall == [phase |-> "idle", scope |-> "none", tokens |-> 0, at |-> 0, rank |-> 0]

Init ==
    /\ now = StartTime
    /\ ledgers = [s \in Scopes |-> EmptyLedger(Settings[s])]
    /\ learned = {}
    /\ observed = [s \in Scopes |-> 0]
    /\ calls = [c \in Calls |-> IdleCall]
    /\ outbox = {}

-----------------------------------------------------------------------------
(* planAndReserve                                                          *)

(* inspect() on one scope: expired rows are gone before the verdict.       *)
Inspected(s) == releaseExpiredReservations(ledgers[s], Settings[s].reservationTtlMs, now)

QuoteNow(s, tokens) == Quote(Inspected(s), tokens, Settings[s], now)

(* Inspecting rewrites every candidate's ledger, admitted or not.          *)
AfterInspection(candidates) ==
    [s \in Scopes |-> IF s \in candidates THEN Inspected(s) ELSE ledgers[s]]

Available(candidates, tokens) == {s \in candidates : QuoteNow(s, tokens).allowed}

(* decidePolicy orders the available candidates; which order, is its own   *)
(* business, so every order is explored.                                   *)
Rankings(available) == SetToSeqs(available)

(* reserve() inspects again: the ranks it would admit.                     *)
AdmittingRanks(ranked, tokens) ==
    {i \in DOMAIN ranked : QuoteNow(ranked[i], tokens).allowed}

(* The attempt c asks for tokens on any of candidates; the first ranked    *)
(* scope that still admits is reserved.                                    *)
Reserve(c, tokens, candidates) ==
    \E ranked \in Rankings(Available(candidates, tokens)) :
        \E rank \in AdmittingRanks(ranked, tokens) :
            LET winner == ranked[rank] IN
            /\ \A i \in AdmittingRanks(ranked, tokens) : rank <= i
            /\ ledgers' = [AfterInspection(candidates) EXCEPT
                              ![winner] = Reserved(@, c, tokens, Settings[winner], now)]
            /\ calls' = [calls EXCEPT
                            ![c] = [phase |-> "inflight", scope |-> winner,
                                    tokens |-> tokens, at |-> now, rank |-> rank]]
            /\ UNCHANGED <<now, learned, observed, outbox>>

(* Nothing admits: the answer is earliestDenial and only the expired rows  *)
(* are gone.  The attempt may ask again.                                   *)
Deny(c, tokens, candidates) ==
    /\ \A ranked \in Rankings(Available(candidates, tokens)) :
           AdmittingRanks(ranked, tokens) = {}
    /\ ledgers' = AfterInspection(candidates)
    /\ UNCHANGED <<now, learned, observed, calls, outbox>>

planAndReserve(c, tokens, candidates) ==
    /\ calls[c].phase = "idle"
    /\ Reserve(c, tokens, candidates) \/ Deny(c, tokens, candidates)

(* The wait quoted to the caller of a denied plan.                         *)
earliestDenial(candidates, tokens) ==
    Min({QuoteNow(s, tokens).retryAfterMs : s \in candidates})

-----------------------------------------------------------------------------
(* The attempt's side of the protocol.                                     *)

(* The upstream call ends and the attempt sends its outcome.               *)
Finalize(c, outcome) ==
    /\ calls[c].phase = "inflight"
    /\ calls' = [calls EXCEPT ![c].phase = "ended"]
    /\ outbox' = outbox \cup {[call |-> c, outcome |-> outcome]}
    /\ UNCHANGED <<now, ledgers, learned, observed>>

(* The Worker invocation dies: the call ends and no outcome is ever sent.  *)
Crash(c) ==
    /\ calls[c].phase = "inflight"
    /\ calls' = [calls EXCEPT ![c].phase = "ended"]
    /\ UNCHANGED <<now, ledgers, learned, observed, outbox>>

-----------------------------------------------------------------------------
(* INSERT OR IGNORE into learned_call_outcomes, then one more observation. *)
recordLearningOutcome(c) ==
    IF c \in learned THEN UNCHANGED <<learned, observed>>
    ELSE /\ learned' = learned \cup {c}
         /\ observed' = [observed EXCEPT ![calls[c].scope] = @ + 1]

(* recordProviderOutcome: settle the reservation if its row is still there,*)
(* then train once per decision.                                           *)
recordProviderOutcome(c, outcome) ==
    LET s == calls[c].scope IN
    /\ ledgers' = [ledgers EXCEPT ![s] = Settled(@, c, outcome, Settings[s], now)]
    /\ IF outcome.learning THEN recordLearningOutcome(c) ELSE UNCHANGED <<learned, observed>>
    /\ UNCHANGED <<now, calls, outbox>>

(* An upstream call never outlives MaxCallTime.                            *)
Tick ==
    /\ now < MaxTime
    /\ \A c \in Calls : calls[c].phase = "inflight" => now + 1 - calls[c].at <= MaxCallTime
    /\ now' = now + 1
    /\ UNCHANGED <<ledgers, learned, observed, calls, outbox>>

Next ==
    \/ \E c \in Calls, tokens \in TokenRequests, candidates \in (SUBSET Scopes) \ {{}} :
           planAndReserve(c, tokens, candidates)
    \/ \E c \in Calls, outcome \in Outcomes : Finalize(c, outcome)
    \/ \E c \in Calls : Crash(c)
    \/ \E m \in outbox : recordProviderOutcome(m.call, m.outcome)
    \/ Tick

Spec == Init /\ [][Next]_vars

-----------------------------------------------------------------------------
(* Properties                                                              *)

LedgerOK(ledger) ==
    /\ DOMAIN ledger = {"rows", "spent", "cooldown_until", "requests", "tokens"}
    /\ IsFiniteSet(DOMAIN ledger.rows) /\ IsFiniteSet(DOMAIN ledger.spent)
    /\ \A c \in DOMAIN ledger.rows :
           /\ c \in Calls
           /\ ledger.rows[c].tokens \in Nat
           /\ ledger.rows[c].created_at \in Nat
    /\ \A day \in DOMAIN ledger.spent : day \in Nat /\ ledger.spent[day] \in Nat
    /\ ledger.cooldown_until \in Nat
    /\ ledger.requests.available \in Nat /\ ledger.requests.refilled_at \in Nat
    /\ ledger.tokens.available \in Nat   /\ ledger.tokens.refilled_at \in Nat

(* The type invariant of the coordinator's tables and of the attempts      *)
(* around it (the CREATE TABLE statements of the constructor).             *)
TypeOK ==
    /\ now \in Nat
    /\ DOMAIN ledgers = Scopes
    /\ \A s \in Scopes : LedgerOK(ledgers[s])
    /\ learned \subseteq Calls
    /\ observed \in [Scopes -> Nat]
    /\ calls \in [Calls -> [phase : {"idle", "inflight", "ended"},
                            scope : Scopes \cup {"none"}, tokens : Nat, at : Nat, rank : Nat]]
    /\ outbox \subseteq [call : Calls, outcome : Outcomes]

(* planAndReserve never lets a credential hold more reservations than its  *)
(* maxConcurrent, whatever calls, settlements and expiries interleave.     *)
ConcurrencyCeiling ==
    \A s \in Scopes :
        Settings[s].maxConcurrent > 0 =>
            reservationCount(ledgers[s]) <= Settings[s].maxConcurrent

(* The permits of a credential are its rows, and its silence is its        *)
(* cooldown.                                                               *)
Pool == INSTANCE CapacityPool WITH
    Holders    <- Calls,
    Pools      <- Scopes,
    Ceiling    <- [s \in Scopes |-> Settings[s].maxConcurrent],
    held       <- [s \in Scopes |-> DOMAIN ledgers[s].rows],
    silentTill <- [s \in Scopes |-> ledgers[s].cooldown_until],
    clock      <- now

(* Whatever expires, fails or is delivered late, twice or never, the       *)
(* coordinator is a pool of permits: planAndReserve admits one attempt on  *)
(* one credential that is not cooling down and not full, and               *)
(* recordProviderOutcome sets a cooldown only for an attempt whose         *)
(* reservation is still there, and never shortens one.                     *)
ImplementsPool == Pool!Spec

OpenCalls(s) == {c \in Calls : calls[c].phase = "inflight" /\ calls[c].scope = s}

(* The provider never sees more than maxConcurrent simultaneous upstream   *)
(* calls on one credential.  The rows only stand for the calls as long as  *)
(* none outlives reservationTtlMs.                                         *)
LiveCallsWithinCeiling ==
    \A s \in Scopes :
        Settings[s].maxConcurrent > 0 =>
            Cardinality(OpenCalls(s)) <= Settings[s].maxConcurrent

CommittedToday(s) == SpentOn(ledgers[s], utcDay(now)) + reservedTokensForDay(ledgers[s], now)

(* What was charged today plus what is reserved today stays within the     *)
(* daily budget: the "local hard ceiling" of the configuration table.      *)
BudgetKept ==
    \A s \in Scopes :
        Settings[s].dailySafetyBudgetTokens > 0 =>
            CommittedToday(s) <= Settings[s].dailySafetyBudgetTokens

(* Reservations made before midnight are charged to the day they settle    *)
(* in, and are not counted against it until then; the overdraft this       *)
(* allows is at most one more budget.                                      *)
OverdraftBounded ==
    \A s \in Scopes :
        Settings[s].dailySafetyBudgetTokens > 0 =>
            CommittedToday(s) <= 2 * Settings[s].dailySafetyBudgetTokens

(* What the outcomes delivered so far amount to on one credential.         *)
Charge(m) == ChargedTokens(m.outcome, calls[m.call].tokens)

DeliveredCharges(s) ==
    SumFunctionOnSet([m \in outbox |-> Charge(m)],
                     {m \in outbox : /\ m.call \in learned
                                     /\ calls[m.call].scope = s
                                     /\ m.outcome.quotaSuccess})

TotalSpent(s) == SumFunctionOnSet(ledgers[s].spent, DOMAIN ledgers[s].spent)

(* An outcome delivered twice, late or out of order never charges a call   *)
(* twice (recordProviderOutcome reads and deletes the row it charges for). *)
NoDoubleCharge == \A s \in Scopes : TotalSpent(s) <= DeliveredCharges(s)

(* Every delivered outcome of a served call is charged to the budget.      *)
EveryServedCallCharged == \A s \in Scopes : TotalSpent(s) = DeliveredCharges(s)

(* No step shortens a cooldown: outcomes of parallel calls may arrive in   *)
(* any order, the longest Retry-After wins.                                *)
CooldownNeverShortened ==
    [][\A s \in Scopes : ledgers'[s].cooldown_until >= ledgers[s].cooldown_until]_vars

AdmittedDuring(s, first, length) ==
    {c \in Calls : calls[c].scope = s /\ calls[c].at \in first .. (first + length - 1)}

(* Any window of windowMs admits fewer requests than twice the limit: a    *)
(* full bucket plus what refills while the window lasts.                   *)
BurstWithinTwiceLimit ==
    \A s \in Scopes : LET limit == Settings[s].requests IN
        Enforced(limit) =>
            \A first \in StartTime .. now :
                Cardinality(AdmittedDuring(s, first, limit.windowMs)) < 2 * limit.limit

QuoteAt(s, tokens, time) ==
    Quote(releaseExpiredReservations(ledgers[s], Settings[s].reservationTtlMs, time),
          tokens, Settings[s], time)

(* The quoted wait is long enough: when it is over, and nobody used the    *)
(* credential in between, the objection it was quoted for is gone.  For    *)
(* the concurrency limit that takes one more millisecond, because a row    *)
(* that is exactly reservationTtlMs old is kept.                           *)
RetryHintSuffices ==
    \A s \in Scopes, tokens \in TokenRequests :
        LET quote == QuoteNow(s, tokens)
            slack == IF quote.reason = "concurrency_limit" THEN 1 ELSE 0
        IN  ~quote.allowed =>
                QuoteAt(s, tokens, now + quote.retryAfterMs + slack).reason # quote.reason
=============================================================================
