------------------------ MODULE MCRoutingCoordinator ------------------------
(* Small instances of RoutingCoordinator for TLC.                          *)
EXTENDS RoutingCoordinator

CONSTANTS c1, c2, c3, c4, s1, s2

NoLimit == [limit |-> 0, windowMs |-> 0]

Provider(maxConcurrent, budget, requests, tokens, ttl) ==
    [maxConcurrent |-> maxConcurrent, dailySafetyBudgetTokens |-> budget,
     requests |-> requests, tokens |-> tokens, reservationTtlMs |-> ttl, cooldownMs |-> 2]

Served(actual) == [quotaSuccess |-> TRUE, cooldown |-> FALSE, learning |-> TRUE,
                   actualTokens |-> actual, retryAfterMs |-> Undefined]
Throttled(retry) == [quotaSuccess |-> FALSE, cooldown |-> TRUE, learning |-> TRUE,
                     actualTokens |-> Undefined, retryAfterMs |-> retry]
Unused == [quotaSuccess |-> FALSE, cooldown |-> FALSE, learning |-> FALSE,
           actualTokens |-> Undefined, retryAfterMs |-> Undefined]

(* Two credentials.  The first takes two calls at once, and its            *)
(* reservations expire after one tick; the second has a daily budget of    *)
(* two tokens and reservations that expire after two.                      *)
PoolScopes == {s1, s2}
PoolSettings == (s1 :> Provider(2, 0, NoLimit, NoLimit, 1))
             @@ (s2 :> Provider(0, 2, NoLimit, NoLimit, 2))
PoolOutcomes == {Served(Undefined), Served(1), Throttled(2)}

(* One credential with every limit, whose reservations outlive the run:    *)
(* two requests every three ticks, three tokens every two.                 *)
OneScope == {s1}
LedgerSettings == (s1 :> Provider(2, 4, [limit |-> 2, windowMs |-> 3],
                                        [limit |-> 3, windowMs |-> 2], 100))
LedgerOutcomes == {Served(Undefined), Served(1), Throttled(1), Throttled(Undefined), Unused}

CallSymmetry == Permutations(Calls)
=============================================================================
