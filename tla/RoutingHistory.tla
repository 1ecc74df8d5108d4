--------------------------- MODULE RoutingHistory ---------------------------
(***************************************************************************)
(* RoutingCoordinator with a history variable: until when the outcomes     *)
(* delivered so far asked each credential to stay quiet.  The variable     *)
(* watches the steps and restricts none.                                   *)
(***************************************************************************)
EXTENDS RoutingCoordinator

VARIABLE quietUntil

(* Backoffs asked for by the outcomes of scope s first delivered in this   *)
(* step.                                                                   *)
NewBackoffs(s) ==
    {Backoff(m.outcome, Settings[s], now) :
        m \in {x \in outbox : /\ x.call \in learned' \ learned
                              /\ calls[x.call].scope = s
                              /\ x.outcome.cooldown /\ ~x.outcome.quotaSuccess}}

HistoryInit == Init /\ quietUntil = [s \in Scopes |-> 0]

HistoryNext ==
    /\ Next
    /\ quietUntil' = [s \in Scopes |-> Max(NewBackoffs(s) \cup {quietUntil[s]})]

HistorySpec == HistoryInit /\ [][HistoryNext]_<<vars, quietUntil>>

(* While a delivered 429 or 5xx asks a credential to stay quiet, the       *)
(* coordinator admits nothing on it ("429s still create cooldowns").       *)
CooldownHonoured ==
    [][\A c \in Calls :
          calls[c].phase = "idle" /\ calls'[c].phase = "inflight"
              => quietUntil[calls'[c].scope] <= now]_<<vars, quietUntil>>
=============================================================================
