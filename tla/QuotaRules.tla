----------------------------- MODULE QuotaRules -----------------------------
(***************************************************************************)
(* The admission arithmetic that the provider coordinator and the caller   *)
(* coordinator share, as operators on one credential's ledger: the rows of *)
(* the reservations table, the daily spend, the cooldown and the two token *)
(* buckets.  Time is the millisecond clock of Date.now().                  *)
(*                                                                         *)
(* A ledger is a record                                                    *)
(*   rows           reservation id -> [tokens, created_at]                 *)
(*   spent          UTC day -> tokens charged (the spent_<day> rows)       *)
(*   cooldown_until 0 when no row was written                              *)
(*   requests, tokens   the two buckets, [available, refilled_at], with    *)
(*                  available in thousandths                               *)
(* Settings are a provider's rateLimits record.  maxConcurrent = 0 and     *)
(* dailySafetyBudgetTokens = 0 switch the check off, as in the code.       *)
(***************************************************************************)
EXTENDS Integers, FiniteSets, Functions, FiniteSetsExt

CONSTANT DayLength      \* milliseconds in a UTC day
ASSUME DayLengthAssumption == DayLength \in Nat \ {0}

Thousandths == 1000
Undefined == -1         \* an optional number that was not supplied

MaxOf(a, b) == IF a >= b THEN a ELSE b
MinOf(a, b) == IF a <= b THEN a ELSE b
CeilDiv(a, b) == (a + b - 1) \div b

utcDay(t) == t \div DayLength
msUntilNextUtcDay(t) == (utcDay(t) + 1) * DayLength - t

-----------------------------------------------------------------------------
(* Token buckets.  A bucket row that was never written reads as a full     *)
(* bucket; the full bucket refilled at time 0 stands for it.               *)

Enforced(limit) == limit.limit > 0 /\ limit.windowMs > 0

FullBucket(limit) == [available |-> limit.limit * Thousandths, refilled_at |-> 0]

refilledBucket(bucket, limit, now) ==
    MinOf(limit.limit * Thousandths,
          bucket.available
            + (MaxOf(0, now - bucket.refilled_at) * limit.limit * Thousandths)
                  \div limit.windowMs)

BucketShort(bucket, limit, amount, now) ==
    /\ Enforced(limit)
    /\ refilledBucket(bucket, limit, now) < amount * Thousandths

(* Mutated form: the wait is rounded down.                                 *)
BucketWaitRoundedDown(bucket, limit, amount, now) ==
    ((amount * Thousandths - refilledBucket(bucket, limit, now)) * limit.windowMs)
        \div (limit.limit * Thousandths)

BucketWait(bucket, limit, amount, now) ==
    CeilDiv((amount * Thousandths - refilledBucket(bucket, limit, now)) * limit.windowMs,
            limit.limit * Thousandths)

(* Mutated form: the refill is kept without moving refilled_at.            *)
spendBucketTwice(bucket, limit, amount, now) ==
    IF ~Enforced(limit) THEN bucket
    ELSE [bucket EXCEPT !.available = MaxOf(0, refilledBucket(bucket, limit, now)
                                                   - amount * Thousandths)]

spendBucket(bucket, limit, amount, now) ==
    IF ~Enforced(limit) THEN bucket
    ELSE [available   |-> MaxOf(0, refilledBucket(bucket, limit, now) - amount * Thousandths),
          refilled_at |-> now]

-----------------------------------------------------------------------------
(* Reservations and the daily spend.                                       *)

EmptyLedger(settings) ==
    [rows           |-> [id \in {} |-> [tokens |-> 0, created_at |-> 0]],
     spent          |-> [day \in {} |-> 0],
     cooldown_until |-> 0,
     requests       |-> FullBucket(settings.requests),
     tokens         |-> FullBucket(settings.tokens)]

(* Mutated form: a row goes the moment it reaches its time to live.        *)
releaseReservationsEarly(ledger, ttlMs, now) ==
    LET live == {id \in DOMAIN ledger.rows : ledger.rows[id].created_at > now - ttlMs}
    IN  [ledger EXCEPT !.rows = Restrict(ledger.rows, live)]

(* Only rows strictly older than the time to live go.                      *)
releaseExpiredReservations(ledger, ttlMs, now) ==
    LET live == {id \in DOMAIN ledger.rows : ~(ledger.rows[id].created_at < now - ttlMs)}
    IN  [ledger EXCEPT !.rows = Restrict(ledger.rows, live)]

reservationCount(ledger) == Cardinality(DOMAIN ledger.rows)

SpentOn(ledger, day) == IF day \in DOMAIN ledger.spent THEN ledger.spent[day] ELSE 0

(* SUM(tokens) over some of the rows.                                      *)
TokensOf(rows, ids) == SumFunctionOnSet([id \in DOMAIN rows |-> rows[id].tokens], ids)

reservedTokensForDay(ledger, now) ==
    TokensOf(ledger.rows, {id \in DOMAIN ledger.rows :
                               ledger.rows[id].created_at >= utcDay(now) * DayLength})

retryAfterForConcurrency(ledger, ttlMs, now) ==
    IF DOMAIN ledger.rows = {} THEN ttlMs
    ELSE MaxOf(1, Min({ledger.rows[id].created_at : id \in DOMAIN ledger.rows}) + ttlMs - now)

-----------------------------------------------------------------------------
(* The verdict on one more reservation.                                    *)

denied(reason, retryAfterMs) ==
    [allowed |-> FALSE, reason |-> reason, retryAfterMs |-> MaxOf(1, retryAfterMs)]

Granted == [allowed |-> TRUE, reason |-> "none", retryAfterMs |-> 0]

(* Mutated form: the credential comes back one tick early.                 *)
CoolingDownShort(ledger, now) == ledger.cooldown_until > now + 1

CoolingDown(ledger, now) == ledger.cooldown_until > now

(* Mutated form: the reservations still open are forgotten.                *)
OverBudgetSpentOnly(ledger, tokens, settings, now) ==
    /\ settings.dailySafetyBudgetTokens > 0
    /\ SpentOn(ledger, utcDay(now)) + tokens > settings.dailySafetyBudgetTokens

OverBudget(ledger, tokens, settings, now) ==
    /\ settings.dailySafetyBudgetTokens > 0
    /\ SpentOn(ledger, utcDay(now)) + reservedTokensForDay(ledger, now) + tokens
         > settings.dailySafetyBudgetTokens

AtConcurrencyLimit(ledger, settings) ==
    settings.maxConcurrent > 0 /\ reservationCount(ledger) >= settings.maxConcurrent

(* The checks in the order the code makes them; expired rows are already   *)
(* released.                                                               *)
Quote(ledger, tokens, settings, now) ==
    IF CoolingDown(ledger, now)
    THEN denied("cooldown", ledger.cooldown_until - now)
    ELSE IF OverBudget(ledger, tokens, settings, now)
    THEN denied("safety_budget", msUntilNextUtcDay(now))
    ELSE IF BucketShort(ledger.requests, settings.requests, 1, now)
    THEN denied("request_rate_limit", BucketWait(ledger.requests, settings.requests, 1, now))
    ELSE IF BucketShort(ledger.tokens, settings.tokens, tokens, now)
    THEN denied("token_rate_limit", BucketWait(ledger.tokens, settings.tokens, tokens, now))
    ELSE IF AtConcurrencyLimit(ledger, settings)
    THEN denied("concurrency_limit",
                retryAfterForConcurrency(ledger, settings.reservationTtlMs, now))
    ELSE Granted

(* The ledger once the reservation is inserted and both buckets are spent. *)
Reserved(ledger, id, tokens, settings, now) ==
    [ledger EXCEPT
        !.rows     = [row \in DOMAIN ledger.rows \cup {id} |->
                         IF row = id THEN [tokens |-> tokens, created_at |-> now]
                                     ELSE ledger.rows[row]],
        !.requests = spendBucket(ledger.requests, settings.requests, 1, now),
        !.tokens   = spendBucket(ledger.tokens, settings.tokens, tokens, now)]

-----------------------------------------------------------------------------
(* Settling a reservation with what the provider did.  An outcome is       *)
(*   [quotaSuccess, cooldown, actualTokens, retryAfterMs]                  *)
(* with Undefined for a number the provider did not report.                *)

ChargedTokens(outcome, reservedTokens) ==
    IF outcome.actualTokens = Undefined THEN reservedTokens ELSE MaxOf(0, outcome.actualTokens)

Backoff(outcome, settings, now) ==
    now + (IF outcome.retryAfterMs = Undefined THEN settings.cooldownMs ELSE outcome.retryAfterMs)

(* Mutated form: the day's spend is overwritten.                           *)
SpentAfterOverwriting(ledger, tokens, today) ==
    [day \in DOMAIN ledger.spent \cup {today} |-> IF day = today THEN tokens ELSE ledger.spent[day]]

SpentAfter(ledger, tokens, today) ==
    [day \in DOMAIN ledger.spent \cup {today} |->
        IF day = today THEN SpentOn(ledger, today) + tokens ELSE ledger.spent[day]]

CooldownAfter(ledger, outcome, settings, now) ==
    MaxOf(ledger.cooldown_until, Backoff(outcome, settings, now))

(* Mutated form: the row is left in place.                                 *)
RowsWithoutDeleting(ledger, id) == ledger.rows

RowsWithout(ledger, id) == Restrict(ledger.rows, DOMAIN ledger.rows \ {id})

(* An outcome whose row is gone changes nothing.                           *)
Settled(ledger, id, outcome, settings, now) ==
    LET left == RowsWithout(ledger, id) IN
    IF id \notin DOMAIN ledger.rows THEN ledger
    ELSE IF outcome.quotaSuccess
    THEN [ledger EXCEPT
            !.rows  = left,
            !.spent = SpentAfter(ledger, ChargedTokens(outcome, ledger.rows[id].tokens), utcDay(now))]
    ELSE IF outcome.cooldown
    THEN [ledger EXCEPT !.rows = left,
                        !.cooldown_until = CooldownAfter(ledger, outcome, settings, now)]
    ELSE [ledger EXCEPT !.rows = left]
=============================================================================
