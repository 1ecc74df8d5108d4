---------------------------- MODULE MCExecution ----------------------------
(* Small instances of Execution for TLC.                                   *)
EXTENDS Execution

CONSTANTS r1, r2, r3, s1, s2

NoLimit == [limit |-> 0, windowMs |-> 0]

Limits(maxConcurrent, ttl) ==
    [maxConcurrent |-> maxConcurrent, dailySafetyBudgetTokens |-> 0,
     requests |-> NoLimit, tokens |-> NoLimit, reservationTtlMs |-> ttl, cooldownMs |-> 1]

Served(actual) == [quotaSuccess |-> TRUE, cooldown |-> FALSE, learning |-> TRUE,
                   actualTokens |-> actual, retryAfterMs |-> Undefined]
Throttled == [quotaSuccess |-> FALSE, cooldown |-> TRUE, learning |-> TRUE,
              actualTokens |-> Undefined, retryAfterMs |-> Undefined]

(* Two credentials, one for a single call, and reservations that outlive   *)
(* the run; a caller and a workflow with one slot less than requests.      *)
PoolSettings == (s1 :> Limits(1, 100)) @@ (s2 :> Limits(2, 100))
OneAtATime == Limits(1, 100)
PoolOutcomes == {Served(1), Throttled, Unspent}
TwoAttempts == Requests \X (1 .. MaxProviderAttempts)
=============================================================================
