-------------------------- MODULE MCNodeExecution --------------------------
(* Small instances of NodeExecution for TLC.                               *)
EXTENDS NodeExecution

CONSTANTS r1, r2, s1, s2

NoLimit == [limit |-> 0, windowMs |-> 0]

Limits(maxConcurrent, budget, ttl) ==
    [maxConcurrent |-> maxConcurrent, dailySafetyBudgetTokens |-> budget,
     requests |-> NoLimit, tokens |-> NoLimit, reservationTtlMs |-> ttl, cooldownMs |-> 1]

(* The first account takes one call, whose deadline its reservation        *)
(* clamps; the second has a budget of two tokens and a reservation that    *)
(* outlives the upstream timeout.  The caller's outlives the run.          *)
TwoAccounts == <<s1, s2>>
AccountSettings == [s \in Scopes |-> IF s = s1 THEN Limits(1, 0, 2) ELSE Limits(0, 2, 4)]
UnlimitedCaller == Limits(0, 0, 100)
SilentInTime == [s \in Scopes |-> IF s = s1 THEN 1 ELSE 3]

(* One account for one call, whose streams may talk for longer than their  *)
(* reservation lives.                                                      *)
OneAccount == <<s1>>
ShortSettings == [s \in Scopes |-> Limits(1, 0, 3)]
Talkative == [s \in Scopes |-> 100]
NoRetry == {Undefined}
Retries == {Undefined, 1}
Usage == {Undefined, 1}
=============================================================================
