---------------------------- MODULE SqliteState ----------------------------
(***************************************************************************)
(* The SQLite state of the Node runtime: one ledger per scope, a scope     *)
(* being a provider credential or a caller.  The rows, the buckets and the *)
(* settlement follow QuotaRules; the admission differs from the Durable    *)
(* Objects in the daily budget, which counts every open reservation of the *)
(* scope, whatever day it was taken on.                                    *)
(***************************************************************************)
EXTENDS QuotaRules

reservedTotal(ledger) == TokensOf(ledger.rows, DOMAIN ledger.rows)

(* Mutated form: only the reservations taken today count.                  *)
BudgetExceededToday(ledger, tokens, settings, now) ==
    OverBudget(ledger, tokens, settings, now)

BudgetExceeded(ledger, tokens, settings, now) ==
    /\ settings.dailySafetyBudgetTokens > 0
    /\ SpentOn(ledger, utcDay(now)) + reservedTotal(ledger) + tokens
         > settings.dailySafetyBudgetTokens

(* Every admission first deletes the rows that outlived their time.        *)
Pruned(ledger, settings, now) ==
    releaseExpiredReservations(ledger, settings.reservationTtlMs, now)

admission(ledger, tokens, settings, now) ==
    LET live == Pruned(ledger, settings, now) IN
    /\ ~CoolingDown(live, now)
    /\ ~BudgetExceeded(live, tokens, settings, now)
    /\ ~BucketShort(live.requests, settings.requests, 1, now)
    /\ ~BucketShort(live.tokens, settings.tokens, tokens, now)
    /\ ~AtConcurrencyLimit(live, settings)

reserve(ledger, id, tokens, settings, now) ==
    LET live == Pruned(ledger, settings, now) IN
    IF admission(ledger, tokens, settings, now)
    THEN Reserved(live, id, tokens, settings, now)
    ELSE live

(* What settle is told: a success with the tokens it cost, a failure that  *)
(* asks for quiet, or a failure.                                           *)
Success(actualTokens) == [quotaSuccess |-> TRUE, cooldown |-> FALSE,
                          actualTokens |-> actualTokens, retryAfterMs |-> Undefined]
Cooldown(retryAfterMs) == [quotaSuccess |-> FALSE, cooldown |-> TRUE,
                           actualTokens |-> Undefined, retryAfterMs |-> retryAfterMs]
Failure == [quotaSuccess |-> FALSE, cooldown |-> FALSE,
            actualTokens |-> Undefined, retryAfterMs |-> Undefined]

settle(ledger, id, outcome, settings, now) == Settled(ledger, id, outcome, settings, now)
=============================================================================
