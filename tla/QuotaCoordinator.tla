-------------------------- MODULE QuotaCoordinator --------------------------
(***************************************************************************)
(* The Durable Object of one caller's quota.  It applies the same rules as *)
(* the provider coordinator to a single ledger, but a caller is inspected  *)
(* and reserved in two calls, with the provider plan in between.           *)
(***************************************************************************)
EXTENDS QuotaRules

CONSTANT CallerSettings     \* the caller's rateLimits

ASSUME CallerSettingsAssumption ==
    /\ CallerSettings.maxConcurrent \in Nat
    /\ CallerSettings.dailySafetyBudgetTokens \in Nat
    /\ CallerSettings.reservationTtlMs \in Nat \ {0}
    /\ CallerSettings.cooldownMs \in Nat
    /\ CallerSettings.requests.limit \in Nat /\ CallerSettings.requests.windowMs \in Nat
    /\ CallerSettings.tokens.limit \in Nat   /\ CallerSettings.tokens.windowMs \in Nat

VARIABLE callerLedger       \* reservations and quota_state of the object

CallerInit == callerLedger = EmptyLedger(CallerSettings)

CallerRows(time) ==
    releaseExpiredReservations(callerLedger, CallerSettings.reservationTtlMs, time)

CallerQuote(tokens, time) == Quote(CallerRows(time), tokens, CallerSettings, time)

(* The preview: it reserves nothing, but expired rows are gone after it.   *)
inspect(tokens, time, allowed) ==
    /\ allowed = CallerQuote(tokens, time).allowed
    /\ callerLedger' = CallerRows(time)

(* Mutated form: the verdict of the preview is trusted.                    *)
reserveUnchecked(id, tokens, time, allowed) ==
    /\ allowed
    /\ callerLedger' = Reserved(CallerRows(time), id, tokens, CallerSettings, time)

reserve(id, tokens, time, allowed) ==
    /\ allowed = CallerQuote(tokens, time).allowed
    /\ callerLedger' = IF allowed
                       THEN Reserved(CallerRows(time), id, tokens, CallerSettings, time)
                       ELSE CallerRows(time)

recordOutcome(id, outcome, time) ==
    callerLedger' = Settled(callerLedger, id, outcome, CallerSettings, time)
=============================================================================
