---------------------- MODULE RoutingCoordinatorProofs ----------------------
(***************************************************************************)
(* Theorems about RoutingCoordinator, for any calls, scopes, settings and  *)
(* clock bound: types, the concurrency ceiling on reservations and on live *)
(* upstream calls, cooldowns that never shrink and are honoured, the books *)
(* of a day's tokens, the bursts a bucket admits, and the wait a denied    *)
(* request is told.                                                        *)
(***************************************************************************)
EXTENDS RoutingHistory, QuotaRulesProofs

USE DayLengthAssumption, TimeAssumption, SettingsAssumption, TokensAssumption,
    OutcomesAssumption, NoScopeAssumption

-----------------------------------------------------------------------------
(* The operations on a ledger keep its type.                               *)

(* A ledger of the coordinator is a ledger whose rows are attempts'.       *)
LEMMA LedgerOKMeans ==
    ASSUME NEW ledger
    PROVE  LedgerOK(ledger) <=> LedgerType(ledger) /\ DOMAIN ledger.rows \subseteq Calls
BY DEF LedgerOK, LedgerType

(* The constants have the types of their columns.                          *)
LEMMA ConstantTypes ==
    /\ \A s \in Scopes : SettingsType(Settings[s])
    /\ \A outcome \in Outcomes : OutcomeType(outcome)
BY DEF SettingsType, OutcomeType

(* Releasing expired rows only removes rows.                               *)
LEMMA ReleaseOK ==
    ASSUME NEW ledger, LedgerOK(ledger), NEW ttlMs \in Nat, NEW time \in Nat
    PROVE  LET after == releaseExpiredReservations(ledger, ttlMs, time) IN
           /\ LedgerOK(after)
           /\ DOMAIN after.rows \subseteq DOMAIN ledger.rows
           /\ \A id \in DOMAIN after.rows : after.rows[id] = ledger.rows[id]
           /\ \A id \in DOMAIN ledger.rows :
                  ledger.rows[id].created_at >= time - ttlMs => id \in DOMAIN after.rows
           /\ after.cooldown_until = ledger.cooldown_until
<1> DEFINE after == releaseExpiredReservations(ledger, ttlMs, time)
<1>1. LedgerType(ledger) /\ DOMAIN ledger.rows \subseteq Calls
  BY LedgerOKMeans
<1>2. /\ LedgerType(after)
      /\ DOMAIN after.rows = {id \in DOMAIN ledger.rows :
                                 ledger.rows[id].created_at >= time - ttlMs}
      /\ \A id \in DOMAIN after.rows : after.rows[id] = ledger.rows[id]
      /\ after.cooldown_until = ledger.cooldown_until
  BY <1>1, Releasing
<1> HIDE DEF after
<1>3. LedgerOK(after)
  BY <1>1, <1>2, LedgerOKMeans
<1> QED
  BY <1>2, <1>3 DEF after

(* A reservation adds the row of id and nothing else to the rows.          *)
LEMMA ReservedOK ==
    ASSUME NEW ledger, LedgerOK(ledger), NEW id \in Calls, NEW tokens \in Nat,
           NEW s \in Scopes, NEW time \in Nat
    PROVE  LET after == Reserved(ledger, id, tokens, Settings[s], time) IN
           /\ LedgerOK(after)
           /\ DOMAIN after.rows = DOMAIN ledger.rows \cup {id}
           /\ after.rows[id].tokens = tokens /\ after.rows[id].created_at = time
           /\ \A row \in DOMAIN ledger.rows \ {id} : after.rows[row] = ledger.rows[row]
           /\ reservationCount(after) <= reservationCount(ledger) + 1
           /\ after.cooldown_until = ledger.cooldown_until
<1> DEFINE after == Reserved(ledger, id, tokens, Settings[s], time)
<1>1. LedgerType(ledger) /\ SettingsType(Settings[s]) /\ DOMAIN ledger.rows \subseteq Calls
  BY LedgerOKMeans, ConstantTypes
<1>2. /\ LedgerType(after)
      /\ DOMAIN after.rows = DOMAIN ledger.rows \cup {id}
      /\ after.rows[id].tokens = tokens /\ after.rows[id].created_at = time
      /\ \A row \in DOMAIN ledger.rows \ {id} : after.rows[row] = ledger.rows[row]
      /\ reservationCount(after) <= reservationCount(ledger) + 1
      /\ after.cooldown_until = ledger.cooldown_until
  BY <1>1, Reserving
<1> HIDE DEF after
<1>3. LedgerOK(after)
  BY <1>1, <1>2, LedgerOKMeans
<1> QED
  BY <1>2, <1>3 DEF after

(* Settling removes at most the row it is for, and never shortens a        *)
(* cooldown.                                                               *)
LEMMA SettledOK ==
    ASSUME NEW ledger, LedgerOK(ledger), NEW id \in Calls, NEW outcome \in Outcomes,
           NEW s \in Scopes, NEW time \in Nat
    PROVE  LET after == Settled(ledger, id, outcome, Settings[s], time) IN
           /\ LedgerOK(after)
           /\ DOMAIN after.rows \subseteq DOMAIN ledger.rows
           /\ \A row \in DOMAIN ledger.rows \ {id} :
                  row \in DOMAIN after.rows /\ after.rows[row] = ledger.rows[row]
           /\ after.cooldown_until >= ledger.cooldown_until
<1> DEFINE after == Settled(ledger, id, outcome, Settings[s], time)
<1>1. /\ LedgerType(ledger) /\ SettingsType(Settings[s]) /\ OutcomeType(outcome)
      /\ DOMAIN ledger.rows \subseteq Calls
  BY LedgerOKMeans, ConstantTypes
<1>2. /\ LedgerType(after)
      /\ DOMAIN after.rows = DOMAIN ledger.rows \ {id}
      /\ \A row \in DOMAIN ledger.rows \ {id} : after.rows[row] = ledger.rows[row]
      /\ after.cooldown_until >= ledger.cooldown_until
  BY <1>1, Settling
<1> HIDE DEF after
<1>3. LedgerOK(after)
  BY <1>1, <1>2, LedgerOKMeans
<1> QED
  BY <1>2, <1>3 DEF after

(* A quote that admits found room below the concurrency ceiling.           *)
LEMMA QuoteHasRoom ==
    ASSUME NEW ledger, LedgerOK(ledger), NEW tokens \in Nat, NEW s \in Scopes,
           NEW time \in Nat, Quote(ledger, tokens, Settings[s], time).allowed,
           Settings[s].maxConcurrent > 0
    PROVE  reservationCount(ledger) < Settings[s].maxConcurrent
<1>1. ~(reservationCount(ledger) >= Settings[s].maxConcurrent)
  BY DEF Quote, AtConcurrencyLimit, denied
<1>2. reservationCount(ledger) \in Nat
  BY FS_CardinalityType DEF LedgerOK, reservationCount
<1> QED
  BY <1>1, <1>2

-----------------------------------------------------------------------------
(* What each kind of step does to the ledgers.                             *)

(* The ledger of an inspected scope is well formed and lost rows only.     *)
LEMMA InspectedOK ==
    ASSUME TypeOK, NEW s \in Scopes
    PROVE  /\ LedgerOK(Inspected(s))
           /\ DOMAIN Inspected(s).rows \subseteq DOMAIN ledgers[s].rows
           /\ \A c \in DOMAIN Inspected(s).rows :
                  Inspected(s).rows[c] = ledgers[s].rows[c]
           /\ \A c \in DOMAIN ledgers[s].rows :
                  ledgers[s].rows[c].created_at >= now - Settings[s].reservationTtlMs
                      => c \in DOMAIN Inspected(s).rows
           /\ Inspected(s).cooldown_until = ledgers[s].cooldown_until
<1>1. LedgerOK(ledgers[s]) /\ now \in Nat
  BY DEF TypeOK
<1>2. Settings[s].reservationTtlMs \in Nat
  BY SettingsAssumption
<1> DEFINE after == releaseExpiredReservations(ledgers[s], Settings[s].reservationTtlMs, now)
<1>3. LedgerOK(after)
  BY ONLY <1>1, <1>2, ReleaseOK
<1>4. DOMAIN after.rows \subseteq DOMAIN ledgers[s].rows
  BY ONLY <1>1, <1>2, ReleaseOK
<1>5. \A c \in DOMAIN after.rows : after.rows[c] = ledgers[s].rows[c]
  BY ONLY <1>1, <1>2, ReleaseOK
<1>6. \A c \in DOMAIN ledgers[s].rows :
          ledgers[s].rows[c].created_at >= now - Settings[s].reservationTtlMs
              => c \in DOMAIN after.rows
  BY ONLY <1>1, <1>2, ReleaseOK
<1>7. after.cooldown_until = ledgers[s].cooldown_until
  BY ONLY <1>1, <1>2, ReleaseOK
<1> QED
  BY <1>3, <1>4, <1>5, <1>6, <1>7 DEF Inspected

(* An admitted plan reserves one winner among the inspected candidates.    *)
LEMMA ReserveStep ==
    ASSUME TypeOK, NEW c \in Calls, NEW tokens \in TokenRequests,
           NEW candidates \in SUBSET Scopes, Reserve(c, tokens, candidates)
    PROVE  \E w \in candidates, r \in Nat :
               /\ QuoteNow(w, tokens).allowed
               /\ ledgers' = [s \in Scopes |->
                      IF s = w THEN Reserved(Inspected(w), c, tokens, Settings[w], now)
                      ELSE IF s \in candidates THEN Inspected(s) ELSE ledgers[s]]
               /\ calls' = [calls EXCEPT ![c] = [phase |-> "inflight", scope |-> w,
                                                 tokens |-> tokens, at |-> now, rank |-> r]]
               /\ UNCHANGED <<now, learned, observed, outbox>>
<1> DEFINE available == Available(candidates, tokens)
<1>1. PICK ranked \in Rankings(available) :
        \E rank \in AdmittingRanks(ranked, tokens) :
            LET winner == ranked[rank] IN
            /\ \A i \in AdmittingRanks(ranked, tokens) : rank <= i
            /\ ledgers' = [AfterInspection(candidates) EXCEPT
                              ![winner] = Reserved(@, c, tokens, Settings[winner], now)]
            /\ calls' = [calls EXCEPT
                            ![c] = [phase |-> "inflight", scope |-> winner,
                                    tokens |-> tokens, at |-> now, rank |-> rank]]
            /\ UNCHANGED <<now, learned, observed, outbox>>
  BY DEF Reserve
<1>2. PICK rank \in AdmittingRanks(ranked, tokens) :
        LET winner == ranked[rank] IN
            /\ ledgers' = [AfterInspection(candidates) EXCEPT
                              ![winner] = Reserved(@, c, tokens, Settings[winner], now)]
            /\ calls' = [calls EXCEPT
                            ![c] = [phase |-> "inflight", scope |-> winner,
                                    tokens |-> tokens, at |-> now, rank |-> rank]]
            /\ UNCHANGED <<now, learned, observed, outbox>>
  BY <1>1
<1>3. ranked \in [1..Cardinality(available) -> available]
  BY DEF Rankings, SetToSeqs
<1>4. rank \in 1..Cardinality(available) /\ QuoteNow(ranked[rank], tokens).allowed
  BY <1>3 DEF AdmittingRanks
<1>5. rank \in Nat /\ ranked[rank] \in available
  BY <1>3, <1>4
<1>6. ranked[rank] \in candidates
  BY <1>5 DEF Available
<1> DEFINE w == ranked[rank]
<1>7. ledgers' = [s \in Scopes |->
                    IF s = w THEN Reserved(Inspected(w), c, tokens, Settings[w], now)
                    ELSE IF s \in candidates THEN Inspected(s) ELSE ledgers[s]]
  BY <1>2, <1>6 DEF AfterInspection
<1> QED
  BY <1>2, <1>4, <1>5, <1>6, <1>7

-----------------------------------------------------------------------------
(* Type correctness.                                                       *)

(* The tables start empty and well formed.                                 *)
LEMMA InitType == Init => TypeOK
<1> SUFFICES ASSUME Init PROVE TypeOK
  OBVIOUS
<1>1. ASSUME NEW s \in Scopes PROVE LedgerOK(ledgers[s])
  <2>1. ledgers[s] = EmptyLedger(Settings[s])
    BY DEF Init
  <2>2. DOMAIN EmptyLedger(Settings[s]).rows = {} /\ DOMAIN EmptyLedger(Settings[s]).spent = {}
    BY DEF EmptyLedger
  <2>3. IsFiniteSet({})
    BY FS_EmptySet
  <2>4. /\ FullBucket(Settings[s].requests).available \in Nat
        /\ FullBucket(Settings[s].requests).refilled_at \in Nat
        /\ FullBucket(Settings[s].tokens).available \in Nat
        /\ FullBucket(Settings[s].tokens).refilled_at \in Nat
    BY DEF FullBucket, Thousandths
  <2>5. /\ DOMAIN EmptyLedger(Settings[s])
             = {"rows", "spent", "cooldown_until", "requests", "tokens"}
        /\ EmptyLedger(Settings[s]).cooldown_until = 0
        /\ EmptyLedger(Settings[s]).requests = FullBucket(Settings[s].requests)
        /\ EmptyLedger(Settings[s]).tokens = FullBucket(Settings[s].tokens)
    BY DEF EmptyLedger
  <2> QED
    BY <2>1, <2>2, <2>3, <2>4, <2>5 DEF LedgerOK
<1>2. calls \in [Calls -> [phase : {"idle", "inflight", "ended"},
                           scope : Scopes \cup {"none"}, tokens : Nat, at : Nat, rank : Nat]]
  BY DEF Init, IdleCall
<1> QED
  BY <1>1, <1>2 DEF Init, TypeOK

(* Every step keeps the types.                                             *)
LEMMA NextType == TypeOK /\ [Next]_vars => TypeOK'
<1> SUFFICES ASSUME TypeOK, [Next]_vars PROVE TypeOK'
  OBVIOUS
<1>1. ASSUME NEW c \in Calls, NEW tokens \in TokenRequests, NEW candidates \in SUBSET Scopes,
             Reserve(c, tokens, candidates)
      PROVE  TypeOK'
  <2>1. PICK w \in candidates, r \in Nat :
          /\ ledgers' = [s \in Scopes |->
                 IF s = w THEN Reserved(Inspected(w), c, tokens, Settings[w], now)
                 ELSE IF s \in candidates THEN Inspected(s) ELSE ledgers[s]]
          /\ calls' = [calls EXCEPT ![c] = [phase |-> "inflight", scope |-> w,
                                            tokens |-> tokens, at |-> now, rank |-> r]]
          /\ UNCHANGED <<now, learned, observed, outbox>>
    BY <1>1, ReserveStep
  <2>2. ASSUME NEW s \in Scopes PROVE LedgerOK(ledgers'[s])
    <3>1. LedgerOK(Inspected(s)) /\ LedgerOK(ledgers[s]) /\ now \in Nat
      BY InspectedOK DEF TypeOK
    <3>2. LedgerOK(Reserved(Inspected(s), c, tokens, Settings[s], now))
      BY <3>1, ReservedOK
    <3> QED
      BY <2>1, <3>1, <3>2
  <2>3. calls' \in [Calls -> [phase : {"idle", "inflight", "ended"},
                              scope : Scopes \cup {"none"}, tokens : Nat, at : Nat, rank : Nat]]
    BY <2>1 DEF TypeOK
  <2> QED
    BY <2>1, <2>2, <2>3 DEF TypeOK, LedgerOK
<1>2. ASSUME NEW c \in Calls, NEW tokens \in TokenRequests, NEW candidates \in SUBSET Scopes,
             Deny(c, tokens, candidates)
      PROVE  TypeOK'
  <2>1. ASSUME NEW s \in Scopes PROVE LedgerOK(ledgers'[s])
    <3>1. LedgerOK(Inspected(s)) /\ LedgerOK(ledgers[s])
      BY InspectedOK DEF TypeOK
    <3> QED
      BY <1>2, <3>1 DEF Deny, AfterInspection
  <2> QED
    BY <1>2, <2>1 DEF TypeOK, Deny, AfterInspection, LedgerOK
<1>3. ASSUME NEW c \in Calls, NEW outcome \in Outcomes, Finalize(c, outcome)
      PROVE  TypeOK'
  <2>1. calls' = [calls EXCEPT ![c] = [calls[c] EXCEPT !.phase = "ended"]]
    BY <1>3 DEF Finalize
  <2>2. calls' \in [Calls -> [phase : {"idle", "inflight", "ended"},
                              scope : Scopes \cup {"none"}, tokens : Nat, at : Nat, rank : Nat]]
    BY <2>1 DEF TypeOK
  <2> QED
    BY <1>3, <2>2 DEF TypeOK, Finalize, LedgerOK
<1>4. ASSUME NEW c \in Calls, Crash(c)
      PROVE  TypeOK'
  <2>1. calls' = [calls EXCEPT ![c] = [calls[c] EXCEPT !.phase = "ended"]]
    BY <1>4 DEF Crash
  <2>2. calls' \in [Calls -> [phase : {"idle", "inflight", "ended"},
                              scope : Scopes \cup {"none"}, tokens : Nat, at : Nat, rank : Nat]]
    BY <2>1 DEF TypeOK
  <2> QED
    BY <1>4, <2>2 DEF TypeOK, Crash, LedgerOK
<1>5. ASSUME NEW m \in outbox, recordProviderOutcome(m.call, m.outcome)
      PROVE  TypeOK'
  <2>1. m.call \in Calls /\ m.outcome \in Outcomes
    BY DEF TypeOK
  <2> DEFINE scope == calls[m.call].scope
  <2>2. ledgers' = [ledgers EXCEPT
                     ![scope] = Settled(@, m.call, m.outcome, Settings[scope], now)]
    BY <1>5 DEF recordProviderOutcome
  <2>3. ASSUME NEW s \in Scopes PROVE LedgerOK(ledgers'[s])
    <3>1. LedgerOK(ledgers[s]) /\ now \in Nat
      BY DEF TypeOK
    <3>2. LedgerOK(Settled(ledgers[s], m.call, m.outcome, Settings[s], now))
      BY <2>1, <3>1, SettledOK
    <3>3. ledgers'[s] \in {ledgers[s], Settled(ledgers[s], m.call, m.outcome, Settings[s], now)}
      BY <2>2 DEF TypeOK
    <3> QED
      BY <3>1, <3>2, <3>3
  <2>4. learned' \subseteq Calls /\ observed' \in [Scopes -> Nat]
    <3>1. CASE UNCHANGED <<learned, observed>>
      BY <3>1 DEF TypeOK
    <3>2. CASE /\ learned' = learned \cup {m.call}
               /\ observed' = [observed EXCEPT ![scope] = @ + 1]
      <4>1. observed' = [s \in Scopes |-> IF s = scope THEN observed[s] + 1 ELSE observed[s]]
        BY <3>2 DEF TypeOK
      <4>2. \A s \in Scopes : observed[s] \in Nat
        BY DEF TypeOK
      <4>3. observed' \in [Scopes -> Nat]
        BY <4>1, <4>2
      <4> QED
        BY <2>1, <3>2, <4>3 DEF TypeOK
    <3> QED
      BY <1>5, <3>1, <3>2 DEF recordProviderOutcome, recordLearningOutcome
  <2>5. UNCHANGED <<now, calls, outbox>>
    BY <1>5 DEF recordProviderOutcome
  <2>6. DOMAIN ledgers' = Scopes
    BY <2>2 DEF TypeOK
  <2> QED
    BY <2>3, <2>4, <2>5, <2>6 DEF TypeOK, LedgerOK
<1>6. CASE Tick
  BY <1>6 DEF TypeOK, Tick, LedgerOK
<1>7. CASE UNCHANGED vars
  BY <1>7 DEF TypeOK, vars, LedgerOK
<1> QED
  BY <1>1, <1>2, <1>3, <1>4, <1>5, <1>6, <1>7 DEF Next, planAndReserve

(* Every table row and every attempt keeps its type.                       *)
THEOREM TypeCorrect == Spec => []TypeOK
<1>1. Init => TypeOK
  BY InitType
<1>2. TypeOK /\ [Next]_vars => TypeOK'
  BY NextType
<1> QED
  BY <1>1, <1>2, PTL DEF Spec

-----------------------------------------------------------------------------
(* The ledgers after any step, seen from one scope.                        *)

(* A ledger changes in one of four ways: not at all, by losing expired     *)
(* rows, by a reservation of an idle attempt that found room, or by a      *)
(* settlement.                                                             *)
LedgerStep(s) ==
    \/ ledgers'[s] = ledgers[s]
    \/ ledgers'[s] = Inspected(s)
    \/ \E c \in Calls, tokens \in TokenRequests :
           /\ calls[c].phase = "idle"
           /\ QuoteNow(s, tokens).allowed
           /\ ledgers'[s] = Reserved(Inspected(s), c, tokens, Settings[s], now)
    \/ \E c \in Calls, outcome \in Outcomes :
           ledgers'[s] = Settled(ledgers[s], c, outcome, Settings[s], now)

(* Every step changes every ledger in one of these ways.                   *)
LEMMA EveryLedgerStep ==
    ASSUME TypeOK, [Next]_vars, NEW s \in Scopes
    PROVE  LedgerStep(s)
<1>1. ASSUME NEW c \in Calls, NEW tokens \in TokenRequests, NEW candidates \in SUBSET Scopes,
             calls[c].phase = "idle", Reserve(c, tokens, candidates)
      PROVE  LedgerStep(s)
  <2>1. PICK w \in candidates :
          /\ QuoteNow(w, tokens).allowed
          /\ ledgers' = [x \in Scopes |->
                 IF x = w THEN Reserved(Inspected(w), c, tokens, Settings[w], now)
                 ELSE IF x \in candidates THEN Inspected(x) ELSE ledgers[x]]
    BY <1>1, ReserveStep
  <2> QED
    BY <1>1, <2>1 DEF LedgerStep
<1>2. ASSUME NEW c \in Calls, NEW tokens \in TokenRequests, NEW candidates \in SUBSET Scopes,
             Deny(c, tokens, candidates)
      PROVE  LedgerStep(s)
  BY <1>2 DEF LedgerStep, Deny, AfterInspection
<1>3. ASSUME NEW m \in outbox, recordProviderOutcome(m.call, m.outcome)
      PROVE  LedgerStep(s)
  <2>1. m.call \in Calls /\ m.outcome \in Outcomes
    BY DEF TypeOK
  <2>2. ledgers'[s] \in {ledgers[s], Settled(ledgers[s], m.call, m.outcome, Settings[s], now)}
    BY <1>3 DEF recordProviderOutcome, TypeOK
  <2> QED
    BY <2>1, <2>2 DEF LedgerStep
<1>4. CASE UNCHANGED ledgers
  BY <1>4 DEF LedgerStep
<1> QED
  BY <1>1, <1>2, <1>3, <1>4 DEF Next, planAndReserve, Finalize, Crash, Tick, vars

-----------------------------------------------------------------------------
(* The concurrency ceiling.                                                *)

(* No step takes a credential above its ceiling.                           *)
LEMMA CeilingStep ==
    ASSUME TypeOK, ConcurrencyCeiling, [Next]_vars
    PROVE  ConcurrencyCeiling'
<1> SUFFICES ASSUME NEW s \in Scopes, Settings[s].maxConcurrent > 0
             PROVE  reservationCount(ledgers'[s]) <= Settings[s].maxConcurrent
  BY DEF ConcurrencyCeiling
<1> DEFINE before == ledgers[s]
           ceiling == Settings[s].maxConcurrent
<1>1. /\ LedgerOK(before) /\ now \in Nat
      /\ reservationCount(before) <= ceiling
  BY DEF TypeOK, ConcurrencyCeiling
<1>2. ASSUME NEW after, DOMAIN after.rows \subseteq DOMAIN before.rows
      PROVE  reservationCount(after) <= ceiling
  <2>1. /\ IsFiniteSet(DOMAIN before.rows)
        /\ IsFiniteSet(DOMAIN after.rows)
        /\ Cardinality(DOMAIN after.rows) <= Cardinality(DOMAIN before.rows)
    BY <1>1, <1>2, FS_Subset DEF LedgerOK
  <2>2. Cardinality(DOMAIN after.rows) \in Nat /\ Cardinality(DOMAIN before.rows) \in Nat
    BY <2>1, FS_CardinalityType
  <2> QED
    BY <1>1, <2>1, <2>2 DEF reservationCount
<1>3. CASE ledgers'[s] = before
  BY <1>1, <1>3
<1>4. CASE ledgers'[s] = Inspected(s)
  BY <1>2, <1>4, InspectedOK
<1>5. ASSUME NEW c \in Calls, NEW tokens \in TokenRequests, QuoteNow(s, tokens).allowed,
             ledgers'[s] = Reserved(Inspected(s), c, tokens, Settings[s], now)
      PROVE  reservationCount(ledgers'[s]) <= ceiling
  <2>1. LedgerOK(Inspected(s)) /\ tokens \in Nat
    BY InspectedOK
  <2>2. reservationCount(Inspected(s)) < ceiling
    BY <1>1, <1>5, <2>1, QuoteHasRoom DEF QuoteNow
  <2>3. LedgerOK(ledgers'[s])
        /\ reservationCount(ledgers'[s]) <= reservationCount(Inspected(s)) + 1
    BY <1>1, <1>5, <2>1, ReservedOK
  <2>4. reservationCount(Inspected(s)) \in Nat /\ reservationCount(ledgers'[s]) \in Nat
    BY <2>1, <2>3, FS_CardinalityType DEF LedgerOK, reservationCount
  <2> QED
    BY <2>2, <2>3, <2>4
<1>6. ASSUME NEW c \in Calls, NEW outcome \in Outcomes,
             ledgers'[s] = Settled(before, c, outcome, Settings[s], now)
      PROVE  reservationCount(ledgers'[s]) <= ceiling
  <2>1. DOMAIN Settled(before, c, outcome, Settings[s], now).rows \subseteq DOMAIN before.rows
    BY <1>1, SettledOK
  <2> QED
    BY <1>2, <1>6, <2>1
<1> QED
  BY <1>3, <1>4, <1>5, <1>6, EveryLedgerStep DEF LedgerStep

(* planAndReserve never holds more reservations on a credential than       *)
(* maxConcurrent, for any number of parallel attempts.                     *)
THEOREM ReservationsWithinCeiling == Spec => []ConcurrencyCeiling
<1>1. Init => ConcurrencyCeiling
  <2> SUFFICES ASSUME Init, NEW s \in Scopes, Settings[s].maxConcurrent > 0
               PROVE  reservationCount(ledgers[s]) <= Settings[s].maxConcurrent
    BY DEF ConcurrencyCeiling
  <2>1. DOMAIN ledgers[s].rows = {}
    BY DEF Init, EmptyLedger
  <2> QED
    BY <2>1, FS_EmptySet DEF reservationCount
<1>2. TypeOK /\ ConcurrencyCeiling /\ [Next]_vars => ConcurrencyCeiling'
  BY CeilingStep
<1> QED
  BY <1>1, <1>2, TypeCorrect, PTL DEF Spec

-----------------------------------------------------------------------------
(* Cooldowns.                                                              *)

(* No step shortens a cooldown.                                            *)
LEMMA CooldownStep ==
    ASSUME TypeOK, [Next]_vars, NEW s \in Scopes
    PROVE  ledgers'[s].cooldown_until >= ledgers[s].cooldown_until
<1>1. /\ LedgerOK(ledgers[s]) /\ LedgerOK(Inspected(s)) /\ now \in Nat
      /\ Inspected(s).cooldown_until = ledgers[s].cooldown_until
  BY InspectedOK DEF TypeOK
<1>2. ledgers[s].cooldown_until \in Nat
  BY <1>1 DEF LedgerOK
<1>3. ASSUME NEW c \in Calls, NEW tokens \in TokenRequests
      PROVE  Reserved(Inspected(s), c, tokens, Settings[s], now).cooldown_until
               = ledgers[s].cooldown_until
  <2> DEFINE seen == Inspected(s)
  <2>1. LedgerOK(seen) /\ seen.cooldown_until = ledgers[s].cooldown_until
    BY <1>1
  <2>2. tokens \in Nat /\ now \in Nat
    BY <1>1
  <2> HIDE DEF seen
  <2>3. Reserved(seen, c, tokens, Settings[s], now).cooldown_until = seen.cooldown_until
    BY <2>1, <2>2, ReservedOK
  <2> QED
    BY <2>1, <2>3 DEF seen
<1>4. ASSUME NEW c \in Calls, NEW outcome \in Outcomes
      PROVE  Settled(ledgers[s], c, outcome, Settings[s], now).cooldown_until
               >= ledgers[s].cooldown_until
  BY <1>1, SettledOK
<1>5. LedgerStep(s)
  BY EveryLedgerStep
<1>6. CASE ledgers'[s] = ledgers[s]
  BY <1>2, <1>6
<1>7. CASE ledgers'[s] = Inspected(s)
  BY <1>1, <1>2, <1>7
<1>8. ASSUME NEW c \in Calls, NEW tokens \in TokenRequests,
             ledgers'[s] = Reserved(Inspected(s), c, tokens, Settings[s], now)
      PROVE  ledgers'[s].cooldown_until >= ledgers[s].cooldown_until
  BY <1>2, <1>3, <1>8
<1>9. ASSUME NEW c \in Calls, NEW outcome \in Outcomes,
             ledgers'[s] = Settled(ledgers[s], c, outcome, Settings[s], now)
      PROVE  ledgers'[s].cooldown_until >= ledgers[s].cooldown_until
  BY <1>4, <1>9
<1> QED
  BY <1>5, <1>6, <1>7, <1>8, <1>9 DEF LedgerStep

(* Outcomes delivered in any order never shorten a cooldown.               *)
THEOREM CooldownsOnlyGrow == Spec => CooldownNeverShortened
<1>1. TypeOK /\ [Next]_vars
        => [\A s \in Scopes : ledgers'[s].cooldown_until >= ledgers[s].cooldown_until]_vars
  BY CooldownStep
<1> QED
  BY <1>1, TypeCorrect, PTL DEF Spec, CooldownNeverShortened

-----------------------------------------------------------------------------
(* Live upstream calls.                                                    *)

(* While a call is open its row exists, dated when the call began; an      *)
(* outcome is sent only by a call that has ended.                          *)
RowsCoverCalls ==
    /\ \A c \in Calls : calls[c].phase = "inflight" =>
           /\ calls[c].scope \in Scopes
           /\ c \in DOMAIN ledgers[calls[c].scope].rows
           /\ ledgers[calls[c].scope].rows[c].created_at = calls[c].at
           /\ now - calls[c].at <= MaxCallTime
    /\ \A m \in outbox : calls[m.call].phase = "ended"

(* If no call outlives the time to live of its reservation, the rows cover *)
(* the open calls in every step.                                           *)
LEMMA CoverStep ==
    ASSUME \A s \in Scopes : MaxCallTime <= Settings[s].reservationTtlMs,
           TypeOK, RowsCoverCalls, [Next]_vars
    PROVE  RowsCoverCalls'
<1>0. ASSUME NEW d \in Calls, calls[d].phase = "inflight"
      PROVE  /\ calls[d].scope \in Scopes
             /\ d \in DOMAIN Inspected(calls[d].scope).rows
             /\ Inspected(calls[d].scope).rows[d].created_at = calls[d].at
  <2> DEFINE s == calls[d].scope
  <2>1. /\ s \in Scopes
        /\ d \in DOMAIN ledgers[s].rows
        /\ ledgers[s].rows[d].created_at = calls[d].at
        /\ now - calls[d].at <= MaxCallTime
    BY <1>0 DEF RowsCoverCalls
  <2>2. calls[d].at \in Nat /\ now \in Nat
    BY DEF TypeOK
  <2>3. MaxCallTime <= Settings[s].reservationTtlMs
    BY <2>1
  <2>4. ledgers[s].rows[d].created_at >= now - Settings[s].reservationTtlMs
    BY <2>1, <2>2, <2>3
  <2> QED
    BY <2>1, <2>4, InspectedOK
<1>1. ASSUME NEW c \in Calls, NEW tokens \in TokenRequests, NEW candidates \in SUBSET Scopes,
             calls[c].phase = "idle", Reserve(c, tokens, candidates)
      PROVE  RowsCoverCalls'
  <2>1. PICK w \in candidates, r \in Nat :
          /\ ledgers' = [s \in Scopes |->
                 IF s = w THEN Reserved(Inspected(w), c, tokens, Settings[w], now)
                 ELSE IF s \in candidates THEN Inspected(s) ELSE ledgers[s]]
          /\ calls' = [calls EXCEPT ![c] = [phase |-> "inflight", scope |-> w,
                                            tokens |-> tokens, at |-> now, rank |-> r]]
          /\ UNCHANGED <<now, learned, observed, outbox>>
    BY <1>1, ReserveStep
  <2>2. LedgerOK(Inspected(w)) /\ now \in Nat /\ tokens \in Nat
    BY InspectedOK DEF TypeOK
  <2>3. /\ DOMAIN ledgers'[w].rows = DOMAIN Inspected(w).rows \cup {c}
        /\ ledgers'[w].rows[c].created_at = now
        /\ \A row \in DOMAIN Inspected(w).rows \ {c} :
               ledgers'[w].rows[row] = Inspected(w).rows[row]
    BY <2>1, <2>2, ReservedOK
  <2>4. ASSUME NEW d \in Calls, calls'[d].phase = "inflight"
        PROVE  /\ calls'[d].scope \in Scopes
               /\ d \in DOMAIN ledgers'[calls'[d].scope].rows
               /\ ledgers'[calls'[d].scope].rows[d].created_at = calls'[d].at
               /\ now' - calls'[d].at <= MaxCallTime
    <3>1. CASE d = c
      <4>1. calls'[d].scope = w /\ calls'[d].at = now
        BY <2>1, <3>1 DEF TypeOK
      <4>2. w \in Scopes
        OBVIOUS
      <4>3. now' - calls'[d].at <= MaxCallTime
        BY <2>1, <2>2, <4>1
      <4>4. c \in DOMAIN ledgers'[w].rows
        BY <2>3
      <4> QED
        BY <2>3, <3>1, <4>1, <4>2, <4>3, <4>4
    <3>2. CASE d # c
      <4>1. calls'[d] = calls[d]
        BY <2>1, <3>2 DEF TypeOK
      <4> DEFINE s == calls[d].scope
      <4>2. /\ s \in Scopes
            /\ d \in DOMAIN Inspected(s).rows
            /\ Inspected(s).rows[d].created_at = calls[d].at
        BY <1>0, <2>4, <4>1
      <4>3. /\ d \in DOMAIN ledgers[s].rows
            /\ ledgers[s].rows[d].created_at = calls[d].at
            /\ now - calls[d].at <= MaxCallTime
        BY <2>4, <4>1 DEF RowsCoverCalls
      <4>4. /\ d \in DOMAIN ledgers'[s].rows
            /\ ledgers'[s].rows[d].created_at = calls[d].at
        <5>1. CASE s = w
          BY <2>3, <3>2, <4>2, <5>1
        <5>2. CASE s # w /\ s \in candidates
          <6>1. ledgers'[s] = Inspected(s)
            BY <2>1, <4>2, <5>2
          <6> QED
            BY <4>2, <6>1
        <5>3. CASE s # w /\ s \notin candidates
          <6>1. ledgers'[s] = ledgers[s]
            BY <2>1, <4>2, <5>3
          <6> QED
            BY <4>3, <6>1
        <5> QED
          BY <5>1, <5>2, <5>3
      <4> QED
        BY <2>1, <4>1, <4>2, <4>3, <4>4
    <3> QED
      BY <3>1, <3>2
  <2>5. ASSUME NEW m \in outbox'
        PROVE  calls'[m.call].phase = "ended"
    BY <1>1, <2>1 DEF RowsCoverCalls, TypeOK
  <2> QED
    BY <2>4, <2>5 DEF RowsCoverCalls
<1>2. ASSUME NEW c \in Calls, NEW tokens \in TokenRequests, NEW candidates \in SUBSET Scopes,
             Deny(c, tokens, candidates)
      PROVE  RowsCoverCalls'
  <2>1. /\ ledgers' = AfterInspection(candidates)
        /\ UNCHANGED <<now, learned, observed, calls, outbox>>
    BY <1>2 DEF Deny
  <2>2. ASSUME NEW d \in Calls, calls[d].phase = "inflight"
        PROVE  /\ d \in DOMAIN ledgers'[calls[d].scope].rows
               /\ ledgers'[calls[d].scope].rows[d].created_at = calls[d].at
    BY <1>0, <2>1, <2>2 DEF RowsCoverCalls, AfterInspection
  <2> QED
    BY <2>1, <2>2 DEF RowsCoverCalls
<1>3. ASSUME NEW c \in Calls, NEW outcome \in Outcomes, Finalize(c, outcome)
      PROVE  RowsCoverCalls'
  <2>1. /\ calls' = [calls EXCEPT ![c] = [calls[c] EXCEPT !.phase = "ended"]]
        /\ outbox' = outbox \cup {[call |-> c, outcome |-> outcome]}
        /\ UNCHANGED <<now, ledgers>>
    BY <1>3 DEF Finalize
  <2>2. calls'[c].phase = "ended" /\ \A d \in Calls \ {c} : calls'[d] = calls[d]
    BY <2>1 DEF TypeOK
  <2> QED
    BY <2>1, <2>2 DEF RowsCoverCalls, TypeOK
<1>4. ASSUME NEW c \in Calls, Crash(c)
      PROVE  RowsCoverCalls'
  <2>1. /\ calls' = [calls EXCEPT ![c] = [calls[c] EXCEPT !.phase = "ended"]]
        /\ UNCHANGED <<now, ledgers, outbox>>
    BY <1>4 DEF Crash
  <2>2. calls'[c].phase = "ended" /\ \A d \in Calls \ {c} : calls'[d] = calls[d]
    BY <2>1 DEF TypeOK
  <2> QED
    BY <2>1, <2>2 DEF RowsCoverCalls, TypeOK
<1>5. ASSUME NEW m \in outbox, recordProviderOutcome(m.call, m.outcome)
      PROVE  RowsCoverCalls'
  <2>1. /\ m.call \in Calls /\ m.outcome \in Outcomes /\ now \in Nat
        /\ calls[m.call].phase = "ended"
    BY DEF TypeOK, RowsCoverCalls
  <2>2. UNCHANGED <<now, calls, outbox>>
    BY <1>5 DEF recordProviderOutcome
  <2>3. ASSUME NEW d \in Calls, calls[d].phase = "inflight"
        PROVE  /\ d \in DOMAIN ledgers'[calls[d].scope].rows
               /\ ledgers'[calls[d].scope].rows[d] = ledgers[calls[d].scope].rows[d]
    <3> DEFINE s == calls[d].scope
    <3>1. s \in Scopes /\ d \in DOMAIN ledgers[s].rows /\ d # m.call
      BY <2>1, <2>3 DEF RowsCoverCalls
    <3>2. LedgerOK(ledgers[s])
      BY <3>1 DEF TypeOK
    <3>3. \A row \in DOMAIN ledgers[s].rows \ {m.call} :
              /\ row \in DOMAIN Settled(ledgers[s], m.call, m.outcome, Settings[s], now).rows
              /\ Settled(ledgers[s], m.call, m.outcome, Settings[s], now).rows[row]
                   = ledgers[s].rows[row]
      BY <2>1, <3>1, <3>2, SettledOK
    <3>4. ledgers'[s] \in {ledgers[s],
                           Settled(ledgers[s], m.call, m.outcome, Settings[s], now)}
      BY <1>5, <3>1 DEF recordProviderOutcome, TypeOK
    <3> QED
      BY <3>1, <3>3, <3>4
  <2> QED
    BY <2>2, <2>3 DEF RowsCoverCalls
<1>6. CASE Tick
  <2>1. /\ ledgers' = ledgers /\ calls' = calls /\ outbox' = outbox /\ now' = now + 1
        /\ \A c \in Calls : calls[c].phase = "inflight" => now + 1 - calls[c].at <= MaxCallTime
    BY <1>6 DEF Tick
  <2>2. ASSUME NEW d \in Calls, calls'[d].phase = "inflight"
        PROVE  /\ calls'[d].scope \in Scopes
               /\ d \in DOMAIN ledgers'[calls'[d].scope].rows
               /\ ledgers'[calls'[d].scope].rows[d].created_at = calls'[d].at
               /\ now' - calls'[d].at <= MaxCallTime
    <3>1. calls[d].phase = "inflight" /\ now' - calls'[d].at <= MaxCallTime
      <4>1. calls[d].phase = "inflight" /\ calls'[d] = calls[d]
        BY <2>1, <2>2
      <4>2. calls[d].at \in Nat /\ now \in Nat
        BY DEF TypeOK
      <4>3. now + 1 - calls[d].at <= MaxCallTime
        BY <2>1, <4>1
      <4> QED
        BY <2>1, <4>1, <4>2, <4>3
    <3>2. /\ calls[d].scope \in Scopes
          /\ d \in DOMAIN ledgers[calls[d].scope].rows
          /\ ledgers[calls[d].scope].rows[d].created_at = calls[d].at
      BY <3>1 DEF RowsCoverCalls
    <3>3. ledgers' = ledgers /\ calls'[d] = calls[d]
      BY <2>1
    <3>4. now' - calls'[d].at <= MaxCallTime
      BY <3>1
    <3> QED
      BY <3>2, <3>3, <3>4, Zenon
  <2>3. \A m \in outbox' : calls'[m.call].phase = "ended"
    BY <2>1 DEF RowsCoverCalls
  <2> QED
    BY <2>2, <2>3 DEF RowsCoverCalls
<1>7. CASE UNCHANGED vars
  BY <1>7 DEF vars, RowsCoverCalls
<1> QED
  BY <1>1, <1>2, <1>3, <1>4, <1>5, <1>6, <1>7 DEF Next, planAndReserve

(* So they do in every state.                                              *)
LEMMA RowsCover ==
    ASSUME \A s \in Scopes : MaxCallTime <= Settings[s].reservationTtlMs
    PROVE  Spec => []RowsCoverCalls
<1>1. Init => RowsCoverCalls
  BY DEF Init, RowsCoverCalls, IdleCall
<1>2. TypeOK /\ RowsCoverCalls /\ [Next]_vars => RowsCoverCalls'
  BY CoverStep
<1> QED
  BY <1>1, <1>2, TypeCorrect, PTL DEF Spec

(* If no upstream call outlives the time to live of its reservation, the   *)
(* provider never sees more than maxConcurrent calls at once.              *)
THEOREM LiveCallsCeiling ==
    ASSUME \A s \in Scopes : MaxCallTime <= Settings[s].reservationTtlMs
    PROVE  Spec => []LiveCallsWithinCeiling
<1>1. Spec => []RowsCoverCalls
  BY RowsCover
<1>2. TypeOK /\ RowsCoverCalls /\ ConcurrencyCeiling => LiveCallsWithinCeiling
  <2> SUFFICES ASSUME TypeOK, RowsCoverCalls, ConcurrencyCeiling,
                      NEW s \in Scopes, Settings[s].maxConcurrent > 0
               PROVE  Cardinality(OpenCalls(s)) <= Settings[s].maxConcurrent
    BY DEF LiveCallsWithinCeiling
  <2>1. OpenCalls(s) \subseteq DOMAIN ledgers[s].rows
    BY DEF OpenCalls, RowsCoverCalls
  <2>2. IsFiniteSet(DOMAIN ledgers[s].rows)
    BY DEF TypeOK, LedgerOK
  <2>3. /\ IsFiniteSet(OpenCalls(s))
        /\ Cardinality(OpenCalls(s)) <= Cardinality(DOMAIN ledgers[s].rows)
    BY <2>1, <2>2, FS_Subset
  <2>4. Cardinality(OpenCalls(s)) \in Nat /\ Cardinality(DOMAIN ledgers[s].rows) \in Nat
    BY <2>2, <2>3, FS_CardinalityType
  <2>5. Cardinality(DOMAIN ledgers[s].rows) <= Settings[s].maxConcurrent
    BY DEF ConcurrencyCeiling, reservationCount
  <2> QED
    BY <2>3, <2>4, <2>5
<1> QED
  BY <1>1, <1>2, TypeCorrect, ReservationsWithinCeiling, PTL

-----------------------------------------------------------------------------
(* The coordinator as a pool of permits.                                   *)

(* A row is the reservation its attempt was admitted with.                 *)
RowsMatchCalls ==
    \A s \in Scopes : \A c \in DOMAIN ledgers[s].rows :
        /\ calls[c].phase # "idle" /\ calls[c].scope = s
        /\ calls[c].tokens \in TokenRequests
        /\ ledgers[s].rows[c].tokens = calls[c].tokens
        /\ ledgers[s].rows[c].created_at = calls[c].at

(* So an attempt that was not admitted has none.                           *)
LEMMA IdleHoldsNothing ==
    ASSUME RowsMatchCalls, NEW c \in Calls, calls[c].phase = "idle"
    PROVE  \A s \in Scopes : c \notin DOMAIN ledgers[s].rows
BY DEF RowsMatchCalls

(* What a settlement does to the rows and the cooldown, exactly.           *)
LEMMA SettledExactly ==
    ASSUME NEW ledger, LedgerOK(ledger), NEW id \in Calls, NEW outcome \in Outcomes,
           NEW s \in Scopes, NEW time \in Nat
    PROVE  LET after == Settled(ledger, id, outcome, Settings[s], time) IN
           /\ DOMAIN after.rows = DOMAIN ledger.rows \ {id}
           /\ id \notin DOMAIN ledger.rows => after = ledger
<1>1. LedgerType(ledger) /\ SettingsType(Settings[s]) /\ OutcomeType(outcome)
  BY LedgerOKMeans, ConstantTypes
<1> QED
  BY <1>1, Settling

(* Every step leaves each row with the attempt it was taken for.           *)
LEMMA MatchStep ==
    ASSUME TypeOK, RowsMatchCalls, [Next]_vars
    PROVE  RowsMatchCalls'
<1>0. ASSUME NEW s \in Scopes
      PROVE  /\ LedgerOK(Inspected(s)) /\ LedgerOK(ledgers[s]) /\ now \in Nat
             /\ DOMAIN Inspected(s).rows \subseteq DOMAIN ledgers[s].rows
             /\ \A c \in DOMAIN Inspected(s).rows : Inspected(s).rows[c] = ledgers[s].rows[c]
  BY InspectedOK DEF TypeOK
<1>1. ASSUME \A s \in Scopes : \A d \in DOMAIN ledgers'[s].rows :
                 d \in DOMAIN ledgers[s].rows /\ ledgers'[s].rows[d] = ledgers[s].rows[d],
             \A d \in Calls : /\ calls[d].phase # "idle" => calls'[d].phase # "idle"
                              /\ calls'[d].scope = calls[d].scope
                              /\ calls'[d].tokens = calls[d].tokens
                              /\ calls'[d].at = calls[d].at
      PROVE  RowsMatchCalls'
  <2>1. \A s \in Scopes : DOMAIN ledgers[s].rows \subseteq Calls
    BY <1>0 DEF LedgerOK
  <2>2. ASSUME NEW s \in Scopes, NEW d \in DOMAIN ledgers'[s].rows
        PROVE  /\ calls'[d].phase # "idle" /\ calls'[d].scope = s
               /\ calls'[d].tokens \in TokenRequests
               /\ ledgers'[s].rows[d].tokens = calls'[d].tokens
               /\ ledgers'[s].rows[d].created_at = calls'[d].at
    <3>1. /\ d \in DOMAIN ledgers[s].rows /\ d \in Calls
          /\ ledgers'[s].rows[d] = ledgers[s].rows[d]
      BY <1>1, <2>1
    <3>2. /\ calls[d].phase # "idle" /\ calls[d].scope = s
          /\ calls[d].tokens \in TokenRequests
          /\ ledgers[s].rows[d].tokens = calls[d].tokens
          /\ ledgers[s].rows[d].created_at = calls[d].at
      BY <3>1 DEF RowsMatchCalls
    <3> QED
      BY <1>1, <3>1, <3>2
  <2> QED
    BY <2>2 DEF RowsMatchCalls
<1>2. ASSUME NEW c \in Calls, NEW tokens \in TokenRequests, NEW candidates \in SUBSET Scopes,
             calls[c].phase = "idle", Reserve(c, tokens, candidates)
      PROVE  RowsMatchCalls'
  <2>1. PICK w \in candidates, r \in Nat :
          /\ ledgers' = [s \in Scopes |->
                 IF s = w THEN Reserved(Inspected(w), c, tokens, Settings[w], now)
                 ELSE IF s \in candidates THEN Inspected(s) ELSE ledgers[s]]
          /\ calls' = [calls EXCEPT ![c] = [phase |-> "inflight", scope |-> w,
                                            tokens |-> tokens, at |-> now, rank |-> r]]
    BY <1>2, ReserveStep
  <2>2. /\ DOMAIN Reserved(Inspected(w), c, tokens, Settings[w], now).rows
             = DOMAIN Inspected(w).rows \cup {c}
        /\ Reserved(Inspected(w), c, tokens, Settings[w], now).rows[c].tokens = tokens
        /\ Reserved(Inspected(w), c, tokens, Settings[w], now).rows[c].created_at = now
        /\ \A row \in DOMAIN Inspected(w).rows \ {c} :
               Reserved(Inspected(w), c, tokens, Settings[w], now).rows[row]
                   = Inspected(w).rows[row]
    <3>1. LedgerOK(Inspected(w)) /\ now \in Nat /\ tokens \in Nat /\ w \in Scopes
      BY <1>0
    <3> QED
      BY <3>1, ReservedOK
  <2>3. \A s \in Scopes : c \notin DOMAIN ledgers[s].rows /\ c \notin DOMAIN Inspected(s).rows
    BY <1>0, <1>2, IdleHoldsNothing
  <2>4. /\ calls'[c].phase = "inflight" /\ calls'[c].scope = w
        /\ calls'[c].tokens = tokens /\ calls'[c].at = now
        /\ \A d \in Calls \ {c} : calls'[d] = calls[d]
    BY <2>1 DEF TypeOK
  <2>5. \A s \in Scopes : DOMAIN ledgers[s].rows \subseteq Calls
    BY <1>0 DEF LedgerOK
  <2>6. ASSUME NEW s \in Scopes, NEW d \in DOMAIN ledgers'[s].rows
        PROVE  /\ calls'[d].phase # "idle" /\ calls'[d].scope = s
               /\ calls'[d].tokens \in TokenRequests
               /\ ledgers'[s].rows[d].tokens = calls'[d].tokens
               /\ ledgers'[s].rows[d].created_at = calls'[d].at
    <3>1. CASE s = w /\ d = c
      <4>1. /\ ledgers'[w].rows[c].tokens = tokens
            /\ ledgers'[w].rows[c].created_at = now
        BY <2>1, <2>2
      <4> QED
        BY <2>4, <3>1, <4>1
    <3>2. CASE s # w \/ d # c
      <4>1. /\ d \in DOMAIN ledgers[s].rows /\ d # c
            /\ ledgers'[s].rows[d] = ledgers[s].rows[d]
        <5>1. CASE s = w
          BY <1>0, <2>1, <2>2, <2>6, <3>2, <5>1
        <5>2. CASE s # w
          BY <1>0, <2>1, <2>3, <2>6, <5>2
        <5> QED
          BY <5>1, <5>2
      <4>2. calls'[d] = calls[d]
        BY <2>4, <2>5, <4>1
      <4>3. /\ calls[d].phase # "idle" /\ calls[d].scope = s
            /\ calls[d].tokens \in TokenRequests
            /\ ledgers[s].rows[d].tokens = calls[d].tokens
            /\ ledgers[s].rows[d].created_at = calls[d].at
        BY <4>1 DEF RowsMatchCalls
      <4> QED
        BY <4>1, <4>2, <4>3
    <3> QED
      BY <3>1, <3>2
  <2> QED
    BY <2>6 DEF RowsMatchCalls
<1>3. ASSUME NEW c \in Calls, NEW tokens \in TokenRequests, NEW candidates \in SUBSET Scopes,
             Deny(c, tokens, candidates)
      PROVE  RowsMatchCalls'
  <2>1. ASSUME NEW s \in Scopes, NEW d \in DOMAIN ledgers'[s].rows
        PROVE  d \in DOMAIN ledgers[s].rows /\ ledgers'[s].rows[d] = ledgers[s].rows[d]
    BY <1>0, <1>3, <2>1 DEF Deny, AfterInspection
  <2> QED
    BY <1>1, <1>3, <2>1 DEF Deny
<1>4. ASSUME NEW c \in Calls, UNCHANGED ledgers,
             calls' = [calls EXCEPT ![c] = [calls[c] EXCEPT !.phase = "ended"]]
      PROVE  RowsMatchCalls'
  <2>1. \A d \in Calls : /\ calls[d].phase # "idle" => calls'[d].phase # "idle"
                         /\ calls'[d].scope = calls[d].scope
                         /\ calls'[d].tokens = calls[d].tokens
                         /\ calls'[d].at = calls[d].at
    BY <1>4 DEF TypeOK
  <2> QED
    BY <1>1, <1>4, <2>1
<1>5. ASSUME NEW m \in outbox, recordProviderOutcome(m.call, m.outcome)
      PROVE  RowsMatchCalls'
  <2>1. m.call \in Calls /\ m.outcome \in Outcomes
    BY DEF TypeOK
  <2>2. ASSUME NEW s \in Scopes, NEW d \in DOMAIN ledgers'[s].rows
        PROVE  d \in DOMAIN ledgers[s].rows /\ ledgers'[s].rows[d] = ledgers[s].rows[d]
    <3> DEFINE after == Settled(ledgers[s], m.call, m.outcome, Settings[s], now)
    <3>1. LedgerType(ledgers[s]) /\ SettingsType(Settings[s]) /\ OutcomeType(m.outcome)
          /\ now \in Nat
      BY <1>0, <2>1, LedgerOKMeans, ConstantTypes
    <3>2. /\ DOMAIN after.rows = DOMAIN ledgers[s].rows \ {m.call}
          /\ \A row \in DOMAIN ledgers[s].rows \ {m.call} : after.rows[row] = ledgers[s].rows[row]
      BY <3>1, Settling
    <3> HIDE DEF after
    <3>3. ledgers'[s] \in {ledgers[s], after}
      BY <1>5 DEF recordProviderOutcome, TypeOK, after
    <3> QED
      BY <2>2, <3>2, <3>3
  <2>3. UNCHANGED calls
    BY <1>5 DEF recordProviderOutcome
  <2> QED
    BY <1>1, <2>2, <2>3
<1>6. CASE UNCHANGED <<ledgers, calls>>
  BY <1>1, <1>6
<1> QED
  BY <1>2, <1>3, <1>4, <1>5, <1>6 DEF Next, planAndReserve, Finalize, Crash, Tick, vars

(* Every row is the reservation of the attempt that holds it.              *)
LEMMA RowsMatch == Spec => []RowsMatchCalls
<1>1. Init => RowsMatchCalls
  BY DEF Init, EmptyLedger, RowsMatchCalls
<1>2. TypeOK /\ RowsMatchCalls /\ [Next]_vars => RowsMatchCalls'
  BY MatchStep
<1> QED
  BY <1>1, <1>2, TypeCorrect, PTL DEF Spec

-----------------------------------------------------------------------------
(* The outbox.                                                             *)

(* Every attempt that sent an outcome has ended, and sent one.             *)
OutboxOK ==
    /\ IsFiniteSet(outbox)
    /\ \A m \in outbox : calls[m.call].phase = "ended"
    /\ \A m, n \in outbox : m.call = n.call => m = n

(* Every step keeps it so.                                                 *)
LEMMA OutboxStep ==
    ASSUME TypeOK, OutboxOK, [Next]_vars
    PROVE  OutboxOK'
<1>1. ASSUME NEW c \in Calls, calls[c].phase = "idle", UNCHANGED outbox,
             NEW x, calls' = [calls EXCEPT ![c] = x]
      PROVE  OutboxOK'
  BY <1>1 DEF OutboxOK, TypeOK
<1>2. ASSUME NEW c \in Calls, NEW outcome \in Outcomes, Finalize(c, outcome)
      PROVE  OutboxOK'
  <2> DEFINE sent == [call |-> c, outcome |-> outcome]
  <2>1. /\ calls[c].phase = "inflight" /\ outbox' = outbox \cup {sent}
        /\ calls' = [calls EXCEPT ![c] = [calls[c] EXCEPT !.phase = "ended"]]
    BY <1>2 DEF Finalize
  <2>2. \A m \in outbox : m.call # c /\ m.call \in Calls
    BY <2>1 DEF OutboxOK, TypeOK
  <2>3. calls'[c].phase = "ended" /\ \A d \in Calls \ {c} : calls'[d] = calls[d]
    BY <2>1 DEF TypeOK
  <2>4. IsFiniteSet(outbox') /\ sent.call = c
    BY <2>1, FS_AddElement DEF OutboxOK
  <2> HIDE DEF sent
  <2> QED
    BY <2>1, <2>2, <2>3, <2>4 DEF OutboxOK
<1>3. ASSUME NEW c \in Calls, Crash(c)
      PROVE  OutboxOK'
  <2>1. /\ UNCHANGED outbox
        /\ calls' = [calls EXCEPT ![c] = [calls[c] EXCEPT !.phase = "ended"]]
    BY <1>3 DEF Crash
  <2>2. calls'[c].phase = "ended" /\ \A d \in Calls \ {c} : calls'[d] = calls[d]
    BY <2>1 DEF TypeOK
  <2> QED
    BY <2>1, <2>2 DEF OutboxOK, TypeOK
<1>4. CASE UNCHANGED <<calls, outbox>>
  BY <1>4 DEF OutboxOK
<1>5. ASSUME NEW c \in Calls, NEW tokens \in TokenRequests, NEW candidates \in SUBSET Scopes,
             calls[c].phase = "idle", Reserve(c, tokens, candidates)
      PROVE  OutboxOK'
  <2>1. PICK w \in candidates, r \in Nat :
          /\ calls' = [calls EXCEPT ![c] = [phase |-> "inflight", scope |-> w,
                                            tokens |-> tokens, at |-> now, rank |-> r]]
          /\ UNCHANGED outbox
    BY <1>5, ReserveStep
  <2> QED
    BY <1>1, <1>5, <2>1
<1> QED
  BY <1>2, <1>3, <1>4, <1>5
     DEF Next, planAndReserve, Deny, recordProviderOutcome, Tick, vars

(* One outcome for an attempt, sent when it ends.                          *)
LEMMA OutboxIsOK == Spec => []OutboxOK
<1>1. Init => OutboxOK
  BY FS_EmptySet DEF Init, OutboxOK
<1>2. TypeOK /\ OutboxOK /\ [Next]_vars => OutboxOK'
  BY OutboxStep
<1> QED
  BY <1>1, <1>2, TypeCorrect, PTL DEF Spec

-----------------------------------------------------------------------------
(* Each kind of step, as a step of the pool.                               *)

(* An admitted plan is an admission of the attempt on the winner.          *)
LEMMA ReserveAdmits ==
    ASSUME TypeOK, RowsMatchCalls, ConcurrencyCeiling',
           NEW c \in Calls, NEW tokens \in TokenRequests, NEW candidates \in SUBSET Scopes,
           calls[c].phase = "idle", Reserve(c, tokens, candidates)
    PROVE  \E w \in Scopes : Pool!Admit(c, w)
<1>1. PICK w \in candidates, r \in Nat :
        /\ QuoteNow(w, tokens).allowed
        /\ ledgers' = [s \in Scopes |->
               IF s = w THEN Reserved(Inspected(w), c, tokens, Settings[w], now)
               ELSE IF s \in candidates THEN Inspected(s) ELSE ledgers[s]]
        /\ calls' = [calls EXCEPT ![c] = [phase |-> "inflight", scope |-> w,
                                          tokens |-> tokens, at |-> now, rank |-> r]]
        /\ UNCHANGED <<now, learned, observed, outbox>>
  BY ReserveStep
<1>2. ASSUME NEW s \in Scopes
      PROVE  /\ LedgerOK(ledgers[s]) /\ LedgerOK(Inspected(s)) /\ now \in Nat
             /\ DOMAIN Inspected(s).rows \subseteq DOMAIN ledgers[s].rows
             /\ Inspected(s).cooldown_until = ledgers[s].cooldown_until
  BY InspectedOK DEF TypeOK
<1>3. /\ DOMAIN ledgers'[w].rows = DOMAIN Inspected(w).rows \cup {c}
      /\ ledgers'[w].cooldown_until = Inspected(w).cooldown_until
  <2>1. /\ DOMAIN Reserved(Inspected(w), c, tokens, Settings[w], now).rows
             = DOMAIN Inspected(w).rows \cup {c}
        /\ Reserved(Inspected(w), c, tokens, Settings[w], now).cooldown_until
             = Inspected(w).cooldown_until
    <3>1. LedgerOK(Inspected(w)) /\ now \in Nat /\ tokens \in Nat /\ w \in Scopes
      BY <1>2
    <3> QED
      BY <3>1, ReservedOK
  <2> QED
    BY <1>1, <2>1
<1>4. \A s \in Scopes : c \notin DOMAIN ledgers[s].rows
  BY IdleHoldsNothing
<1>5. now >= ledgers[w].cooldown_until
  <2>1. ~(Inspected(w).cooldown_until > now)
    BY <1>1 DEF QuoteNow, Quote, CoolingDown, denied
  <2> QED
    BY <1>2, <2>1 DEF LedgerOK
<1>6. \A s \in Scopes \ {w} :
          /\ DOMAIN ledgers'[s].rows \subseteq DOMAIN ledgers[s].rows
          /\ ledgers'[s].cooldown_until = ledgers[s].cooldown_until
  BY <1>1, <1>2
<1>7. DOMAIN ledgers'[w].rows \subseteq DOMAIN ledgers[w].rows \cup {c}
  BY <1>2, <1>3
<1>8. Settings[w].maxConcurrent > 0
        => Cardinality(DOMAIN ledgers'[w].rows) <= Settings[w].maxConcurrent
  BY DEF ConcurrencyCeiling, reservationCount
<1>9. \A s \in Scopes : ledgers'[s].cooldown_until = ledgers[s].cooldown_until
  BY <1>2, <1>3, <1>6
<1>10. UNCHANGED now
  BY <1>1
<1>11. Pool!Cardinality(DOMAIN ledgers'[w].rows) = Cardinality(DOMAIN ledgers'[w].rows)
  BY Zenon DEF Pool!Cardinality, Cardinality
<1>12. Pool!OnlyLapses(Scopes \ {w})
  BY <1>6 DEF Pool!OnlyLapses
<1>13. [s \in Scopes |-> ledgers'[s].cooldown_until] = [s \in Scopes |-> ledgers[s].cooldown_until]
  BY <1>9
<1>14. Pool!Admit(c, w)
  BY <1>3, <1>4, <1>5, <1>7, <1>8, <1>10, <1>11, <1>12, <1>13 DEF Pool!Admit
<1> QED
  BY <1>14

(* A denied plan only lets expired permits lapse.                          *)
LEMMA DenyLapses ==
    ASSUME TypeOK, NEW c \in Calls, NEW tokens \in TokenRequests,
           NEW candidates \in SUBSET Scopes, Deny(c, tokens, candidates)
    PROVE  Pool!Lapse
<1>1. ASSUME NEW s \in Scopes
      PROVE  /\ DOMAIN ledgers'[s].rows \subseteq DOMAIN ledgers[s].rows
             /\ ledgers'[s].cooldown_until = ledgers[s].cooldown_until
  BY InspectedOK DEF Deny, AfterInspection
<1>2. UNCHANGED now
  BY DEF Deny
<1> QED
  BY <1>1, <1>2 DEF Pool!Lapse, Pool!OnlyLapses

(* A settled attempt gives its permit back; an outcome without a row       *)
(* changes nothing.                                                        *)
LEMMA SettlementGivesBack ==
    ASSUME TypeOK, NEW m \in outbox, recordProviderOutcome(m.call, m.outcome)
    PROVE  (\E p \in Scopes : Pool!GiveBack(m.call, p)) \/ UNCHANGED Pool!poolVars
<1> DEFINE p == calls[m.call].scope
           after == Settled(ledgers[p], m.call, m.outcome, Settings[p], now)
<1>1. /\ m.call \in Calls /\ m.outcome \in Outcomes /\ now \in Nat
      /\ ledgers' = [ledgers EXCEPT ![p] = after]
      /\ UNCHANGED now
  BY DEF TypeOK, recordProviderOutcome
<1>2. CASE p \notin Scopes
  BY <1>1, <1>2 DEF TypeOK, Pool!poolVars
<1>3. CASE p \in Scopes /\ m.call \notin DOMAIN ledgers[p].rows
  <2>1. after = ledgers[p]
    BY <1>1, <1>3, SettledExactly DEF TypeOK
  <2> HIDE DEF after
  <2>2. \A s \in Scopes : ledgers'[s] = ledgers[s]
    BY <1>1, <2>1 DEF TypeOK
  <2> QED
    BY <1>1, <2>2 DEF Pool!poolVars
<1>4. CASE p \in Scopes /\ m.call \in DOMAIN ledgers[p].rows
  <2>0. PICK q \in Scopes : q = p
    BY <1>4
  <2>1. LedgerOK(ledgers[q])
    BY DEF TypeOK
  <2>2. DOMAIN after.rows = DOMAIN ledgers[q].rows \ {m.call}
    BY <1>1, <2>0, <2>1, SettledExactly
  <2>3. after.cooldown_until >= ledgers[q].cooldown_until
    BY <1>1, <2>0, <2>1, SettledOK
  <2>4. ledgers'[q] = after /\ \A s \in Scopes \ {q} : ledgers'[s] = ledgers[s]
    BY <1>1, <2>0 DEF TypeOK
  <2> HIDE DEF after
  <2>5. m.call \in DOMAIN ledgers[q].rows /\ UNCHANGED now
    BY <1>1, <1>4, <2>0
  <2> HIDE DEF p
  <2>6. Pool!GiveBack(m.call, q)
    BY <2>2, <2>3, <2>4, <2>5 DEF Pool!GiveBack
  <2> QED
    BY <2>6
<1> QED
  BY <1>2, <1>3, <1>4

(* Every step of the coordinator and its Workers is a step of the pool.    *)
LEMMA StepRefines ==
    ASSUME TypeOK, RowsMatchCalls, ConcurrencyCeiling', [Next]_vars
    PROVE  [Pool!Next]_(Pool!poolVars)
<1>1. ASSUME NEW c \in Calls, NEW tokens \in TokenRequests, NEW candidates \in SUBSET Scopes,
             planAndReserve(c, tokens, candidates)
      PROVE  Pool!Next
  BY <1>1, ReserveAdmits, DenyLapses DEF planAndReserve, Pool!Next
<1>2. ASSUME NEW m \in outbox, recordProviderOutcome(m.call, m.outcome)
      PROVE  [Pool!Next]_(Pool!poolVars)
  <2>1. m.call \in Calls
    BY DEF TypeOK
  <2> QED
    BY <1>2, <2>1, SettlementGivesBack DEF Pool!Next
<1>3. CASE Tick
  <2>1. now' > now
    BY <1>3 DEF Tick, TypeOK
  <2>2. Pool!Advance
    BY <1>3, <2>1 DEF Tick, Pool!Advance
  <2> QED
    BY <2>2 DEF Pool!Next
<1>4. CASE UNCHANGED <<now, ledgers>>
  BY <1>4 DEF Pool!poolVars
<1> QED
  BY <1>1, <1>2, <1>3, <1>4 DEF Next, Finalize, Crash, vars

(* The coordinator is a pool of permits per credential: no attempt gets    *)
(* more than one, none is given beyond maxConcurrent or during a cooldown, *)
(* and only the outcome of an attempt that still holds its reservation     *)
(* sets a cooldown.                                                        *)
THEOREM CoordinatorIsPool == Spec => ImplementsPool
<1>1. Init => Pool!Init
  <2> SUFFICES ASSUME Init PROVE Pool!Init
    OBVIOUS
  <2>1. ASSUME NEW s \in Scopes
        PROVE  DOMAIN ledgers[s].rows = {} /\ ledgers[s].cooldown_until = 0
    BY DEF Init, EmptyLedger
  <2>2. now \in Nat
    BY DEF Init
  <2> QED
    BY <2>1, <2>2 DEF Pool!Init
<1>2. Spec => []RowsMatchCalls
  BY RowsMatch
<1>3. TypeOK /\ RowsMatchCalls /\ ConcurrencyCeiling' /\ [Next]_vars
        => [Pool!Next]_(Pool!poolVars)
  BY StepRefines
<1> QED
  BY <1>1, <1>2, <1>3, TypeCorrect, ReservationsWithinCeiling, PTL
     DEF Spec, ImplementsPool, Pool!Spec

-----------------------------------------------------------------------------
(* The daily budget.                                                       *)

(* A provider reports no more tokens than were reserved for the call.      *)
UsageWithinReservation ==
    \A outcome \in Outcomes, tokens \in TokenRequests : ChargedTokens(outcome, tokens) <= tokens

(* No reservation counts for longer than a day.                            *)
RowsLiveADay == \A s \in Scopes : Settings[s].reservationTtlMs <= DayLength

(* No reservation is open over midnight.                                   *)
NoneCarriedOver ==
    \A s \in Scopes : \A c \in DOMAIN ledgers[s].rows :
        utcDay(ledgers[s].rows[c].created_at) = utcDay(now)

(* What a scope may spend in a day.                                        *)
Budget(s) == Settings[s].dailySafetyBudgetTokens

(* The books of a scope with a budget, when carried tokens of other days   *)
(* may be open.                                                            *)
BooksFit(s, carried) ==
    /\ NotAhead(ledgers[s], now)
    /\ DaysFit(ledgers[s], Budget(s))
    /\ AllFit(ledgers[s], Budget(s) + carried, now)

(* The reservations that inspection leaves and that are not today's.       *)
CarriedOver(s) ==
    TokensOf(Inspected(s).rows,
             DOMAIN Inspected(s).rows \ RowsOfDay(Inspected(s).rows, utcDay(now)))

(* A quote that admits found the budget kept.                              *)
LEMMA QuoteKeepsBudget ==
    ASSUME NEW s, NEW tokens, QuoteNow(s, tokens).allowed
    PROVE  ~OverBudget(Inspected(s), tokens, Settings[s], now)
BY DEF QuoteNow, Quote, denied

(* Every step keeps the books of a scope.                                  *)
LEMMA BooksStep ==
    ASSUME TypeOK, RowsMatchCalls, [Next]_vars, UsageWithinReservation,
           NEW s \in Scopes, NEW carried \in Nat,
           Budget(s) > 0, CarriedOver(s) <= carried, BooksFit(s, carried)
    PROVE  BooksFit(s, carried)'
<1> DEFINE before == ledgers[s]
           budget == Budget(s)
<1>1. /\ LedgerType(before) /\ SettingsType(Settings[s]) /\ now \in Nat /\ budget \in Nat
      /\ Settings[s].reservationTtlMs \in Nat /\ budget + carried \in Nat
  BY LedgerOKMeans, ConstantTypes DEF TypeOK, Budget
<1>2. NotAhead(before, now) /\ DaysFit(before, budget) /\ AllFit(before, budget + carried, now)
  BY DEF BooksFit
<1>3. /\ LedgerType(Inspected(s))
      /\ NotAhead(Inspected(s), now) /\ DaysFit(Inspected(s), budget)
      /\ AllFit(Inspected(s), budget + carried, now)
  <2>1. LedgerType(Inspected(s))
    BY InspectedOK, LedgerOKMeans
  <2> HIDE DEF budget
  <2> QED
    BY <1>1, <1>2, <2>1, ReleasingFits DEF Inspected
<1>4. CASE now' = now
  <2> SUFFICES /\ NotAhead(ledgers'[s], now)
               /\ DaysFit(ledgers'[s], budget)
               /\ AllFit(ledgers'[s], budget + carried, now)
    BY <1>4 DEF BooksFit, Budget
  <2>1. CASE ledgers'[s] = before
    BY <1>2, <2>1
  <2>2. CASE ledgers'[s] = Inspected(s)
    BY <1>3, <2>2
  <2>3. ASSUME NEW c \in Calls, NEW tokens \in TokenRequests, calls[c].phase = "idle",
               QuoteNow(s, tokens).allowed,
               ledgers'[s] = Reserved(Inspected(s), c, tokens, Settings[s], now)
        PROVE  /\ NotAhead(ledgers'[s], now)
               /\ DaysFit(ledgers'[s], budget)
               /\ AllFit(ledgers'[s], budget + carried, now)
    <3>1. c \notin DOMAIN Inspected(s).rows
      BY <2>3, IdleHoldsNothing, InspectedOK
    <3>2. ~OverBudget(Inspected(s), tokens, Settings[s], now)
      BY <2>3, QuoteKeepsBudget
    <3>3. tokens \in Nat /\ Settings[s].dailySafetyBudgetTokens > 0
      BY DEF Budget
    <3>4. TokensOf(Inspected(s).rows,
                   DOMAIN Inspected(s).rows \ RowsOfDay(Inspected(s).rows, utcDay(now)))
            <= carried
      BY DEF CarriedOver
    <3>5. DaysFit(Inspected(s), Settings[s].dailySafetyBudgetTokens)
      BY <1>3 DEF Budget
    <3> DEFINE after == Reserved(Inspected(s), c, tokens, Settings[s], now)
    <3>6. /\ NotAhead(after, now)
          /\ DaysFit(after, Settings[s].dailySafetyBudgetTokens)
          /\ AllFit(after, Settings[s].dailySafetyBudgetTokens + carried, now)
      BY <1>1, <1>3, <3>1, <3>2, <3>3, <3>4, <3>5, ReservingFits
    <3> QED
      BY <2>3, <3>6 DEF Budget
  <2>4. ASSUME NEW c \in Calls, NEW outcome \in Outcomes,
               ledgers'[s] = Settled(before, c, outcome, Settings[s], now)
        PROVE  /\ NotAhead(ledgers'[s], now)
               /\ DaysFit(ledgers'[s], budget)
               /\ AllFit(ledgers'[s], budget + carried, now)
    <3>1. OutcomeType(outcome)
      BY ConstantTypes
    <3>2. c \in DOMAIN before.rows =>
              ChargedTokens(outcome, before.rows[c].tokens) <= before.rows[c].tokens
      <4>1. c \in DOMAIN before.rows => before.rows[c].tokens \in TokenRequests
        BY DEF RowsMatchCalls
      <4> HIDE DEF before
      <4> QED
        BY <4>1 DEF UsageWithinReservation
    <3> DEFINE after == Settled(before, c, outcome, Settings[s], now)
               bound == budget + carried
    <3>3. /\ bound \in Nat /\ AllFit(before, bound, now)
      BY <1>1, <1>2
    <3> HIDE DEF before, budget, bound
    <3>4. /\ NotAhead(after, now) /\ DaysFit(after, budget) /\ AllFit(after, bound, now)
      BY <1>1, <1>2, <3>1, <3>2, <3>3, SettlingFits
    <3> QED
      BY <2>4, <3>4 DEF bound
  <2> QED
    BY <2>1, <2>2, <2>3, <2>4, EveryLedgerStep DEF LedgerStep
<1>5. CASE Tick
  <2>1. ledgers' = ledgers /\ now' = now + 1 /\ now' \in Nat /\ now <= now'
    BY <1>1, <1>5 DEF Tick
  <2>2. /\ utcDay(now) \in Nat /\ utcDay(now') \in Nat /\ utcDay(now) <= utcDay(now')
    BY <1>1, <2>1, DayOf, DaysInOrder
  <2>3. NotAhead(before, now')
    <3>1. /\ \A id \in DOMAIN before.rows : before.rows[id].created_at \in Nat
          /\ \A day \in DOMAIN before.spent : day \in Nat
      BY <1>1 DEF LedgerType
    <3>2. /\ \A id \in DOMAIN before.rows : before.rows[id].created_at <= now
          /\ \A day \in DOMAIN before.spent : day <= utcDay(now)
      BY <1>2 DEF NotAhead
    <3> DEFINE d == utcDay(now)  e == utcDay(now')  t == now'
    <3>3. d \in Nat /\ e \in Nat /\ d <= e /\ t \in Nat /\ now <= t
      BY <2>1, <2>2
    <3>4. \A day \in DOMAIN before.spent : day <= d
      BY <3>2
    <3> HIDE DEF d, e, t, before
    <3>5. /\ \A id \in DOMAIN before.rows : before.rows[id].created_at <= t
          /\ \A day \in DOMAIN before.spent : day <= e
      BY <1>1, <3>1, <3>2, <3>3, <3>4
    <3> QED
      BY <3>5 DEF NotAhead, e, t
  <2>4. AllFit(before, budget + carried, now')
    <3> DEFINE open == TokensOf(before.rows, DOMAIN before.rows)
               d == utcDay(now)  e == utcDay(now')
    <3>1. open \in Nat
      <4>1. RowsType(before.rows) /\ DOMAIN before.rows \in SUBSET DOMAIN before.rows
        BY <1>1 DEF RowsType, LedgerType
      <4> QED
        BY <4>1, TokensType
    <3>2. SpentOn(before, d) + open <= budget + carried
      BY <1>2 DEF AllFit
    <3>3. /\ SpentOn(before, d) \in Nat
          /\ SpentOn(before, e) = SpentOn(before, d) \/ SpentOn(before, e) = 0
      <4>1. CASE e = d
        BY <1>1, <4>1 DEF SpentOn, LedgerType
      <4>2. CASE e # d
        <5>1. e \notin DOMAIN before.spent
          <6>1. \A day \in DOMAIN before.spent : day <= d
            BY <1>2 DEF NotAhead
          <6>2. d \in Nat /\ e \in Nat /\ d <= e
            BY <2>2
          <6> HIDE DEF d, e
          <6> QED
            BY <4>2, <6>1, <6>2
        <5> QED
          BY <1>1, <5>1 DEF SpentOn, LedgerType
      <4> QED
        BY <4>1, <4>2
    <3> HIDE DEF open, d, e, budget, before
    <3>4. SpentOn(before, e) + open <= budget + carried
      BY <1>1, <3>1, <3>2, <3>3
    <3> QED
      BY <3>4 DEF AllFit, open, e
  <2> QED
    BY <1>2, <2>1, <2>3, <2>4 DEF BooksFit, Budget
<1>6. now' = now \/ Tick
  BY DEF Next, planAndReserve, Reserve, Deny, Finalize, Crash, recordProviderOutcome, vars
<1> QED
  BY <1>4, <1>5, <1>6

(* The books are empty to begin with.                                      *)
LEMMA BooksInit ==
    ASSUME Init, NEW s \in Scopes, NEW carried \in Nat
    PROVE  BooksFit(s, carried)
<1>1. /\ DOMAIN ledgers[s].rows = {} /\ DOMAIN ledgers[s].spent = {}
      /\ Budget(s) \in Nat
  <2>1. ledgers[s] = EmptyLedger(Settings[s]) /\ SettingsType(Settings[s])
    BY ConstantTypes DEF Init
  <2> QED
    BY <2>1, EmptyLedgerType DEF Budget, SettingsType
<1>2. NotAhead(ledgers[s], now)
  BY <1>1 DEF NotAhead
<1>3. DaysFit(ledgers[s], Budget(s))
  <2>1. \A day \in Int : RowsOfDay(ledgers[s].rows, day) = {}
    BY <1>1 DEF RowsOfDay
  <2> QED
    BY <1>1, <2>1, TokensNone DEF DaysFit
<1>4. AllFit(ledgers[s], Budget(s) + carried, now)
  <2>1. SpentOn(ledgers[s], utcDay(now)) = 0
    BY <1>1 DEF SpentOn
  <2>2. TokensOf(ledgers[s].rows, DOMAIN ledgers[s].rows) = 0
    BY <1>1, TokensNone
  <2> QED
    BY <1>1, <2>1, <2>2 DEF AllFit
<1> QED
  BY <1>2, <1>3, <1>4 DEF BooksFit

(* What the books say of today.                                            *)
LEMMA BooksOfToday ==
    ASSUME TypeOK, NEW s \in Scopes, NEW carried \in Nat, BooksFit(s, carried)
    PROVE  CommittedToday(s) <= Budget(s) + carried
<1> DEFINE rows == ledgers[s].rows
           mine == {id \in DOMAIN rows : rows[id].created_at >= utcDay(now) * DayLength}
<1>1. LedgerType(ledgers[s]) /\ now \in Nat /\ Budget(s) \in Nat
  BY LedgerOKMeans, ConstantTypes DEF TypeOK, Budget, SettingsType
<1>2. SpentOn(ledgers[s], utcDay(now)) \in Nat
  BY <1>1 DEF SpentOn, LedgerType
<1>3. /\ TokensOf(rows, mine) <= TokensOf(rows, DOMAIN rows)
      /\ TokensOf(rows, mine) \in Nat /\ TokensOf(rows, DOMAIN rows) \in Nat
  <2>1. RowsType(rows) /\ mine \in SUBSET DOMAIN rows /\ DOMAIN rows \in SUBSET DOMAIN rows
    BY <1>1 DEF RowsType, LedgerType
  <2> HIDE DEF mine, rows
  <2> QED
    BY <2>1, TokensType
<1>4. SpentOn(ledgers[s], utcDay(now)) + TokensOf(rows, DOMAIN rows) <= Budget(s) + carried
  BY DEF BooksFit, AllFit
<1>5. CommittedToday(s) = SpentOn(ledgers[s], utcDay(now)) + TokensOf(rows, mine)
  BY DEF CommittedToday, reservedTokensForDay
<1> HIDE DEF mine, rows
<1> QED
  BY <1>1, <1>2, <1>3, <1>4, <1>5

(* Rows that live a day at most are of today or of yesterday, and each day *)
(* fits the budget.                                                        *)
LEMMA CarriedWithinBudget ==
    ASSUME TypeOK, RowsLiveADay, NEW s \in Scopes, NEW carried \in Nat, BooksFit(s, carried)
    PROVE  CarriedOver(s) <= Budget(s)
<1> DEFINE after == Inspected(s)
           today == utcDay(now)
           ttl   == Settings[s].reservationTtlMs
           old   == DOMAIN after.rows \ RowsOfDay(after.rows, today)
           yesterday == RowsOfDay(after.rows, today - 1)
<1>1. /\ LedgerType(ledgers[s]) /\ now \in Nat /\ Budget(s) \in Nat
      /\ ttl \in Nat /\ ttl <= DayLength
      /\ NotAhead(ledgers[s], now) /\ DaysFit(ledgers[s], Budget(s))
  BY LedgerOKMeans, ConstantTypes DEF TypeOK, Budget, SettingsType, RowsLiveADay, BooksFit
<1>2. /\ LedgerType(after)
      /\ DOMAIN after.rows = {id \in DOMAIN ledgers[s].rows :
                                 ledgers[s].rows[id].created_at >= now - ttl}
      /\ \A id \in DOMAIN after.rows : after.rows[id] = ledgers[s].rows[id]
  BY <1>1, Releasing DEF Inspected
<1>3. DaysFit(after, Budget(s))
  <2>1. DOMAIN after.rows \subseteq DOMAIN ledgers[s].rows
    BY <1>2
  <2> HIDE DEF after
  <2> QED
    BY <1>1, <1>2, <2>1, FewerRowsFit
<1>4. today \in Nat
  BY <1>1, DayOf
<1>5. old \subseteq yesterday
  <2>1. ASSUME NEW id \in DOMAIN after.rows, utcDay(after.rows[id].created_at) # today
        PROVE  utcDay(after.rows[id].created_at) = today - 1
    <3> DEFINE at == after.rows[id].created_at
    <3>1. at \in Nat /\ at <= now /\ at >= now - ttl
      BY <1>1, <1>2, <2>1 DEF NotAhead, LedgerType
    <3> HIDE DEF at, ttl
    <3>2. at >= now - DayLength
      BY <1>1, <3>1
    <3>3. utcDay(at) <= today /\ utcDay(at) >= today - 1 /\ utcDay(at) \in Nat
      BY <1>1, <3>1, <3>2, DaysInOrder, DayOf
    <3>4. utcDay(at) # today
      BY <2>1 DEF at
    <3> HIDE DEF today
    <3>5. utcDay(at) = today - 1
      BY <1>4, <3>3, <3>4
    <3> QED
      BY <3>5 DEF at
  <2> HIDE DEF after, today
  <2> QED
    BY <2>1 DEF RowsOfDay
<1>6. TokensOf(after.rows, yesterday) <= Budget(s)
  <2>1. today - 1 \in Int
    BY <1>4
  <2> HIDE DEF today, after
  <2> QED
    BY <1>3, <2>1 DEF DaysFit
<1>7. /\ TokensOf(after.rows, old) <= TokensOf(after.rows, yesterday)
      /\ TokensOf(after.rows, old) \in Nat /\ TokensOf(after.rows, yesterday) \in Nat
  <2>1. /\ RowsType(after.rows) /\ yesterday \in SUBSET DOMAIN after.rows
        /\ old \in SUBSET yesterday /\ old \in SUBSET DOMAIN after.rows
    BY <1>2, <1>5 DEF RowsType, LedgerType, RowsOfDay
  <2> HIDE DEF old, yesterday, after
  <2> QED
    BY <2>1, TokensType
<1>8. CarriedOver(s) = TokensOf(after.rows, old)
  BY DEF CarriedOver
<1> HIDE DEF old, yesterday, after
<1> QED
  BY <1>1, <1>6, <1>7, <1>8

(* If no provider charges more than was reserved and reservations are      *)
(* cleaned up within a day, the reservations carried over midnight         *)
(* overdraw a day by at most one more budget.                              *)
THEOREM OverdraftIsOneBudget ==
    ASSUME UsageWithinReservation, RowsLiveADay
    PROVE  Spec => []OverdraftBounded
<1> DEFINE Fits == \A s \in Scopes : Budget(s) > 0 => BooksFit(s, Budget(s))
<1>0. \A s \in Scopes : Budget(s) \in Nat
  BY DEF Budget
<1>1. Init => Fits
  BY <1>0, BooksInit
<1>2. TypeOK /\ RowsMatchCalls /\ Fits /\ [Next]_vars => Fits'
  <2> SUFFICES ASSUME TypeOK, RowsMatchCalls, Fits, [Next]_vars,
                      NEW s \in Scopes, Budget(s) > 0
               PROVE  BooksFit(s, Budget(s))'
    BY DEF Budget
  <2>1. BooksFit(s, Budget(s)) /\ Budget(s) \in Nat
    BY <1>0
  <2>2. CarriedOver(s) <= Budget(s)
    BY <2>1, CarriedWithinBudget
  <2> QED
    BY <2>1, <2>2, BooksStep DEF Budget
<1>3. TypeOK /\ Fits => OverdraftBounded
  <2> SUFFICES ASSUME TypeOK, Fits, NEW s \in Scopes, Budget(s) > 0
               PROVE  CommittedToday(s) <= 2 * Budget(s)
    BY DEF OverdraftBounded, Budget
  <2>1. BooksFit(s, Budget(s)) /\ Budget(s) \in Nat
    BY <1>0
  <2>2. CommittedToday(s) <= Budget(s) + Budget(s)
    BY <2>1, BooksOfToday
  <2> QED
    BY <2>1, <2>2
<1> HIDE DEF Fits
<1> QED
  BY <1>1, <1>2, <1>3, TypeCorrect, RowsMatch, PTL DEF Spec

(* As long as no reservation is carried over midnight either, what is      *)
(* charged and reserved on a day stays within its budget.                  *)
THEOREM BudgetIsKept ==
    ASSUME UsageWithinReservation
    PROVE  Spec /\ []NoneCarriedOver => []BudgetKept
<1> DEFINE Fits == \A s \in Scopes : Budget(s) > 0 => BooksFit(s, 0)
<1>0. \A s \in Scopes : Budget(s) \in Nat
  BY DEF Budget
<1>1. Init => Fits
  BY BooksInit
<1>2. TypeOK /\ RowsMatchCalls /\ NoneCarriedOver /\ Fits /\ [Next]_vars => Fits'
  <2> SUFFICES ASSUME TypeOK, RowsMatchCalls, NoneCarriedOver, Fits, [Next]_vars,
                      NEW s \in Scopes, Budget(s) > 0
               PROVE  BooksFit(s, 0)'
    BY DEF Budget
  <2>1. DOMAIN Inspected(s).rows \ RowsOfDay(Inspected(s).rows, utcDay(now)) = {}
    <3>1. /\ DOMAIN Inspected(s).rows \subseteq DOMAIN ledgers[s].rows
          /\ \A c \in DOMAIN Inspected(s).rows : Inspected(s).rows[c] = ledgers[s].rows[c]
      BY InspectedOK
    <3> QED
      BY <3>1 DEF NoneCarriedOver, RowsOfDay
  <2>2. CarriedOver(s) = 0
    BY <2>1, TokensNone DEF CarriedOver
  <2> QED
    BY <2>2, BooksStep
<1>3. TypeOK /\ Fits => BudgetKept
  <2> SUFFICES ASSUME TypeOK, Fits, NEW s \in Scopes, Budget(s) > 0
               PROVE  CommittedToday(s) <= Budget(s)
    BY DEF BudgetKept, Budget
  <2>1. CommittedToday(s) <= Budget(s) + 0
    BY BooksOfToday
  <2> QED
    BY <1>0, <2>1
<1> HIDE DEF Fits
<1> QED
  BY <1>1, <1>2, <1>3, TypeCorrect, RowsMatch, PTL DEF Spec

-----------------------------------------------------------------------------
(* What the outcomes amount to.                                            *)

(* The charges of some messages, given the outbox and the attempts.        *)
Charges(box, attempts, messages) ==
    SumFunctionOnSet([m \in box |-> ChargedTokens(m.outcome, attempts[m.call].tokens)], messages)

(* An outbox of outcomes that can be charged.                              *)
BoxType(box, attempts) ==
    IsFiniteSet(box) /\ \A m \in box : ChargedTokens(m.outcome, attempts[m.call].tokens) \in Nat

(* The charges of some messages stay what they are as the outbox grows.    *)
LEMMA ChargesKept ==
    ASSUME NEW box, NEW attempts, NEW box2, NEW attempts2,
           BoxType(box, attempts), BoxType(box2, attempts2), box \subseteq box2,
           \A m \in box : attempts2[m.call].tokens = attempts[m.call].tokens,
           NEW part \in SUBSET box
    PROVE  /\ Charges(box2, attempts2, part) = Charges(box, attempts, part)
           /\ Charges(box, attempts, part) \in Nat
<1> DEFINE f == [m \in box |-> ChargedTokens(m.outcome, attempts[m.call].tokens)]
           g == [m \in box2 |-> ChargedTokens(m.outcome, attempts2[m.call].tokens)]
<1>1. /\ \A m \in part : f[m] \in Nat /\ f[m] \in Int
      /\ \A m \in part : g[m] = f[m]
  BY DEF BoxType
<1>2. IsFiniteSet(part)
  BY FS_Subset DEF BoxType
<1>3. /\ Charges(box2, attempts2, part) = SumFunctionOnSet(g, part)
      /\ Charges(box, attempts, part) = SumFunctionOnSet(f, part)
  BY DEF Charges
<1> HIDE DEF f, g
<1>4. SumFunctionOnSet(g, part) = SumFunctionOnSet(f, part)
  BY <1>1, <1>2, SumAgree
<1>5. SumFunctionOnSet(f, part) \in Nat
  BY <1>1, <1>2, SumType
<1> QED
  BY <1>3, <1>4, <1>5

(* More messages amount to more, and one message to its own charge.        *)
LEMMA ChargesGrow ==
    ASSUME NEW box, NEW attempts, BoxType(box, attempts), NEW whole \in SUBSET box
    PROVE  /\ Charges(box, attempts, whole) \in Nat
           /\ \A part \in SUBSET whole :
                  Charges(box, attempts, part) <= Charges(box, attempts, whole)
           /\ \A m \in whole :
                  Charges(box, attempts, whole)
                      = ChargedTokens(m.outcome, attempts[m.call].tokens)
                          + Charges(box, attempts, whole \ {m})
<1> DEFINE f == [m \in box |-> ChargedTokens(m.outcome, attempts[m.call].tokens)]
<1>1. /\ \A m \in whole : f[m] \in Nat
      /\ \A m \in whole : f[m] \in Int
      /\ \A m \in whole : f[m] = ChargedTokens(m.outcome, attempts[m.call].tokens)
  BY DEF BoxType
<1>2. IsFiniteSet(whole)
  BY FS_Subset DEF BoxType
<1>3. \A part \in SUBSET box : Charges(box, attempts, part) = SumFunctionOnSet(f, part)
  BY DEF Charges
<1> HIDE DEF f
<1>4. SumFunctionOnSet(f, whole) \in Nat
  BY <1>1, <1>2, SumType
<1>5. \A part \in SUBSET whole : SumFunctionOnSet(f, part) <= SumFunctionOnSet(f, whole)
  BY <1>1, <1>2, SumOfPart
<1>6. \A m \in whole : SumFunctionOnSet(f, whole) = f[m] + SumFunctionOnSet(f, whole \ {m})
  BY <1>1, <1>2, SumRemove
<1>7. \A part \in SUBSET whole : part \in SUBSET box
  OBVIOUS
<1>8. \A m \in whole : whole \ {m} \in SUBSET box
  OBVIOUS
<1> QED
  BY <1>1, <1>3, <1>4, <1>5, <1>6, <1>7, <1>8

-----------------------------------------------------------------------------
(* The outbox has charges.                                                 *)
LEMMA OutboxCharges ==
    ASSUME TypeOK, OutboxOK
    PROVE  BoxType(outbox, calls)
<1>1. ASSUME NEW m \in outbox
      PROVE  ChargedTokens(m.outcome, calls[m.call].tokens) \in Nat
  <2>1. calls[m.call].tokens \in Nat /\ OutcomeType(m.outcome)
    BY ConstantTypes DEF TypeOK
  <2> QED
    BY <2>1 DEF ChargedTokens, MaxOf, OutcomeType, Undefined
<1> QED
  BY <1>1 DEF BoxType, OutboxOK

(* A step that charges nothing and takes no row for an attempt that has    *)
(* sent its outcome.                                                       *)
ChargesNothing ==
    /\ learned' = learned /\ outbox \subseteq outbox'
    /\ \A m \in outbox : /\ calls'[m.call].scope = calls[m.call].scope
                         /\ calls'[m.call].tokens = calls[m.call].tokens
    /\ \A s \in Scopes :
           /\ ledgers'[s].spent = ledgers[s].spent
           /\ \A m \in outbox : m.call \in DOMAIN ledgers'[s].rows
                                   => m.call \in DOMAIN ledgers[s].rows

(* Only a delivery charges.                                                *)
LEMMA OnlyDeliveriesCharge ==
    ASSUME TypeOK, OutboxOK, [Next]_vars
    PROVE  ChargesNothing \/ \E m \in outbox : recordProviderOutcome(m.call, m.outcome)
<1>0. /\ \A m \in outbox : m.call \in Calls /\ calls[m.call].phase = "ended"
      /\ now \in Nat
  BY DEF TypeOK, OutboxOK
<1>1. ASSUME NEW s \in Scopes
      PROVE  /\ LedgerType(Inspected(s))
             /\ DOMAIN Inspected(s).rows \subseteq DOMAIN ledgers[s].rows
             /\ Inspected(s).spent = ledgers[s].spent
  <2>1. LedgerType(ledgers[s]) /\ Settings[s].reservationTtlMs \in Nat
    BY LedgerOKMeans DEF TypeOK
  <2> QED
    BY <1>0, <2>1, Releasing DEF Inspected
<1>2. ASSUME NEW c \in Calls, NEW tokens \in TokenRequests, NEW candidates \in SUBSET Scopes,
             calls[c].phase = "idle", Reserve(c, tokens, candidates)
      PROVE  ChargesNothing
  <2>1. PICK w \in candidates, r \in Nat :
          /\ ledgers' = [s \in Scopes |->
                 IF s = w THEN Reserved(Inspected(w), c, tokens, Settings[w], now)
                 ELSE IF s \in candidates THEN Inspected(s) ELSE ledgers[s]]
          /\ calls' = [calls EXCEPT ![c] = [phase |-> "inflight", scope |-> w,
                                            tokens |-> tokens, at |-> now, rank |-> r]]
          /\ UNCHANGED <<now, learned, observed, outbox>>
    BY <1>2, ReserveStep
  <2> DEFINE after == Reserved(Inspected(w), c, tokens, Settings[w], now)
  <2>2. /\ DOMAIN after.rows = DOMAIN Inspected(w).rows \cup {c}
        /\ after.spent = Inspected(w).spent
    <3>1. tokens \in Nat /\ w \in Scopes /\ SettingsType(Settings[w])
      BY ConstantTypes
    <3> QED
      BY <1>0, <1>1, <3>1, Reserving
  <2> HIDE DEF after
  <2>3. \A m \in outbox : m.call # c
    BY <1>0, <1>2
  <2>4. ASSUME NEW s \in Scopes
        PROVE  /\ ledgers'[s].spent = ledgers[s].spent
               /\ \A m \in outbox : m.call \in DOMAIN ledgers'[s].rows
                                        => m.call \in DOMAIN ledgers[s].rows
    <3>1. CASE s = w
      <4>1. ledgers'[w] = after
        BY <2>1 DEF after
      <4> QED
        BY <1>1, <2>2, <2>3, <3>1, <4>1
    <3>2. CASE s # w
      <4>1. ledgers'[s] \in {Inspected(s), ledgers[s]}
        BY <2>1, <3>2
      <4> QED
        BY <1>1, <4>1
    <3> QED
      BY <3>1, <3>2
  <2>5. \A m \in outbox : calls'[m.call] = calls[m.call]
    BY <1>0, <2>1, <2>3 DEF TypeOK
  <2> QED
    BY <2>1, <2>4, <2>5 DEF ChargesNothing
<1>3. ASSUME NEW c \in Calls, NEW tokens \in TokenRequests, NEW candidates \in SUBSET Scopes,
             Deny(c, tokens, candidates)
      PROVE  ChargesNothing
  <2>1. /\ UNCHANGED <<learned, calls, outbox>>
        /\ \A s \in Scopes : ledgers'[s] \in {Inspected(s), ledgers[s]}
    BY <1>3 DEF Deny, AfterInspection
  <2>2. \A s \in Scopes : /\ ledgers'[s].spent = ledgers[s].spent
                          /\ DOMAIN ledgers'[s].rows \subseteq DOMAIN ledgers[s].rows
    BY <1>1, <2>1
  <2> QED
    BY <2>1, <2>2 DEF ChargesNothing
<1>4. ASSUME NEW c \in Calls, UNCHANGED <<ledgers, learned>>, outbox \subseteq outbox',
             calls' = [calls EXCEPT ![c] = [calls[c] EXCEPT !.phase = "ended"]]
      PROVE  ChargesNothing
  <2>1. \A d \in Calls : calls'[d].scope = calls[d].scope /\ calls'[d].tokens = calls[d].tokens
    BY <1>4 DEF TypeOK
  <2> QED
    BY <1>0, <1>4, <2>1 DEF ChargesNothing
<1>5. CASE UNCHANGED <<ledgers, learned, calls, outbox>>
  BY <1>5 DEF ChargesNothing
<1>6. ASSUME NEW c \in Calls, NEW outcome \in Outcomes, Finalize(c, outcome)
      PROVE  ChargesNothing
  BY <1>4, <1>6 DEF Finalize
<1>7. ASSUME NEW c \in Calls, Crash(c)
      PROVE  ChargesNothing
  BY <1>4, <1>7 DEF Crash
<1> QED
  BY <1>2, <1>3, <1>5, <1>6, <1>7 DEF Next, planAndReserve, Tick, vars

(* What a delivery does: it trains on the attempt, and a row it finds is   *)
(* gone and, after a success, charged.                                     *)
LEMMA DeliveryStep ==
    ASSUME TypeOK, OutboxOK, RowsMatchCalls, NEW m \in outbox,
           recordProviderOutcome(m.call, m.outcome)
    PROVE  /\ UNCHANGED <<now, calls, outbox>>
           /\ learned' = IF m.outcome.learning THEN learned \cup {m.call} ELSE learned
           /\ \A s \in Scopes :
                  /\ DOMAIN ledgers'[s].rows = DOMAIN ledgers[s].rows \ {m.call}
                  /\ \A c \in DOMAIN ledgers'[s].rows : ledgers'[s].rows[c] = ledgers[s].rows[c]
                  /\ TotalSpent(s) \in Nat
                  /\ TotalSpent(s)'
                       = TotalSpent(s)
                           + IF m.call \in DOMAIN ledgers[s].rows /\ m.outcome.quotaSuccess
                             THEN Charge(m) ELSE 0
<1> DEFINE p == calls[m.call].scope
<1>1. /\ m.call \in Calls /\ OutcomeType(m.outcome) /\ m.outcome \in Outcomes
      /\ now \in Nat /\ utcDay(now) \in Nat
      /\ Charge(m) = ChargedTokens(m.outcome, calls[m.call].tokens) /\ Charge(m) \in Nat
  <2>1. BoxType(outbox, calls) /\ now \in Nat
    BY OutboxCharges DEF TypeOK
  <2> QED
    BY <2>1, ConstantTypes, DayOf DEF TypeOK, BoxType, Charge
<1>2. UNCHANGED <<now, calls, outbox>>
  BY DEF recordProviderOutcome
<1>3. learned' = IF m.outcome.learning THEN learned \cup {m.call} ELSE learned
  BY DEF recordProviderOutcome, recordLearningOutcome
<1>4. ASSUME NEW s \in Scopes
      PROVE  /\ DOMAIN ledgers'[s].rows = DOMAIN ledgers[s].rows \ {m.call}
             /\ \A c \in DOMAIN ledgers'[s].rows : ledgers'[s].rows[c] = ledgers[s].rows[c]
             /\ TotalSpent(s) \in Nat
             /\ TotalSpent(s)'
                  = TotalSpent(s)
                      + IF m.call \in DOMAIN ledgers[s].rows /\ m.outcome.quotaSuccess
                        THEN Charge(m) ELSE 0
  <2> DEFINE after == Settled(ledgers[s], m.call, m.outcome, Settings[s], now)
  <2>1. LedgerType(ledgers[s]) /\ SettingsType(Settings[s])
    BY LedgerOKMeans, ConstantTypes DEF TypeOK
  <2>2. /\ TotalSpent(s) = SpentTotal(ledgers[s].spent)
        /\ TotalSpent(s)' = SpentTotal(ledgers'[s].spent)
        /\ SpentTotal(ledgers[s].spent) \in Nat
        /\ SpentTotal(SpentAfter(ledgers[s], Charge(m), utcDay(now)))
             = SpentTotal(ledgers[s].spent) + Charge(m)
    <3>1. /\ SpentTotal(ledgers[s].spent) \in Nat
          /\ SpentTotal(SpentAfter(ledgers[s], Charge(m), utcDay(now)))
               = SpentTotal(ledgers[s].spent) + Charge(m)
      BY <1>1, <2>1, TotalAfterCharge
    <3> QED
      BY <3>1 DEF TotalSpent, SpentTotal
  <2>3. CASE s # p
    <3>1. ledgers'[s] = ledgers[s]
      BY <2>3 DEF recordProviderOutcome, TypeOK
    <3>2. m.call \notin DOMAIN ledgers[s].rows
      BY <2>3 DEF RowsMatchCalls
    <3> QED
      BY <2>2, <3>1, <3>2
  <2>4. CASE s = p
    <3>1. ledgers'[s] = after
      BY <2>4 DEF recordProviderOutcome, TypeOK
    <3>2. /\ DOMAIN after.rows = DOMAIN ledgers[s].rows \ {m.call}
          /\ \A c \in DOMAIN ledgers[s].rows \ {m.call} : after.rows[c] = ledgers[s].rows[c]
          /\ after.spent = IF m.call \in DOMAIN ledgers[s].rows /\ m.outcome.quotaSuccess
                           THEN SpentAfter(ledgers[s],
                                           ChargedTokens(m.outcome, ledgers[s].rows[m.call].tokens),
                                           utcDay(now))
                           ELSE ledgers[s].spent
      BY <1>1, <2>1, Settling
    <3> HIDE DEF after
    <3>3. m.call \in DOMAIN ledgers[s].rows
            => ChargedTokens(m.outcome, ledgers[s].rows[m.call].tokens) = Charge(m)
      BY <1>1 DEF RowsMatchCalls
    <3>4. SpentTotal(after.spent)
            = SpentTotal(ledgers[s].spent)
                + IF m.call \in DOMAIN ledgers[s].rows /\ m.outcome.quotaSuccess
                  THEN Charge(m) ELSE 0
      BY <2>2, <3>2, <3>3
    <3> QED
      BY <2>2, <3>1, <3>2, <3>4
  <2> QED
    BY <2>3, <2>4
<1> QED
  BY <1>2, <1>3, <1>4

-----------------------------------------------------------------------------
(* No outcome is charged twice.                                            *)

(* What the provider charged is trained on.                                *)
SuccessesTeach == \A outcome \in Outcomes : outcome.quotaSuccess => outcome.learning

(* The delivered successes of a scope, and those whose row is gone.        *)
Delivered(s) ==
    {m \in outbox : m.call \in learned /\ calls[m.call].scope = s /\ m.outcome.quotaSuccess}
DeliveredAndSettled(s) == {m \in Delivered(s) : m.call \notin DOMAIN ledgers[s].rows}

(* A charge was made for a delivered success whose row is gone.            *)
ChargesWereDelivered ==
    \A s \in Scopes : TotalSpent(s) <= Charges(outbox, calls, DeliveredAndSettled(s))

(* Every step keeps it so.                                                 *)
LEMMA ChargesStep ==
    ASSUME SuccessesTeach, TypeOK, TypeOK', OutboxOK, OutboxOK', RowsMatchCalls,
           ChargesWereDelivered, [Next]_vars
    PROVE  ChargesWereDelivered'
<1> SUFFICES ASSUME NEW s \in Scopes
             PROVE  TotalSpent(s)' <= Charges(outbox', calls', DeliveredAndSettled(s)')
  BY DEF ChargesWereDelivered
<1> DEFINE part  == DeliveredAndSettled(s)
           whole == DeliveredAndSettled(s)'
<1>1. BoxType(outbox, calls) /\ BoxType(outbox', calls')
  <2>1. BoxType(outbox, calls)
    BY OutboxCharges
  <2>2. BoxType(outbox', calls')
    <3>1. ASSUME NEW m \in outbox'
          PROVE  ChargedTokens(m.outcome, calls'[m.call].tokens) \in Nat
      <4>1. calls'[m.call].tokens \in Nat /\ OutcomeType(m.outcome)
        BY ConstantTypes DEF TypeOK
      <4> QED
        BY <4>1 DEF ChargedTokens, MaxOf, OutcomeType, Undefined
    <3> QED
      BY <3>1 DEF BoxType, OutboxOK
  <2> QED
    BY <2>1, <2>2
<1>2. TotalSpent(s) <= Charges(outbox, calls, part)
  BY DEF ChargesWereDelivered
<1>3. TotalSpent(s) \in Nat
  <2>1. LedgerType(ledgers[s])
    BY LedgerOKMeans DEF TypeOK
  <2>2. SpentTotal(ledgers[s].spent) \in Nat
    BY <2>1, TotalType
  <2> QED
    BY <2>2 DEF TotalSpent, SpentTotal
<1>4. part \in SUBSET outbox /\ whole \in SUBSET outbox'
  BY DEF DeliveredAndSettled, Delivered
<1>5. CASE ChargesNothing
  <2>1. TotalSpent(s)' = TotalSpent(s)
    BY <1>5 DEF ChargesNothing, TotalSpent
  <2>2. part \in SUBSET whole
    BY <1>5 DEF ChargesNothing, DeliveredAndSettled, Delivered
  <2>3. outbox \subseteq outbox' /\ \A m \in outbox : calls'[m.call].tokens = calls[m.call].tokens
    BY <1>5 DEF ChargesNothing
  <2> HIDE DEF part, whole
  <2>4. /\ Charges(outbox', calls', part) = Charges(outbox, calls, part)
        /\ Charges(outbox, calls, part) \in Nat
    BY <1>1, <1>4, <2>3, ChargesKept
  <2>5. /\ Charges(outbox', calls', whole) \in Nat
        /\ Charges(outbox', calls', part) <= Charges(outbox', calls', whole)
    BY <1>1, <1>4, <2>2, ChargesGrow
  <2>6. TotalSpent(s)' <= Charges(outbox', calls', whole)
    BY <1>2, <1>3, <2>1, <2>4, <2>5
  <2> QED
    BY <2>6 DEF whole
<1>6. ASSUME NEW m \in outbox, recordProviderOutcome(m.call, m.outcome)
      PROVE  TotalSpent(s)' <= Charges(outbox', calls', DeliveredAndSettled(s)')
  <2>1. /\ UNCHANGED <<calls, outbox>>
        /\ learned' = IF m.outcome.learning THEN learned \cup {m.call} ELSE learned
        /\ DOMAIN ledgers'[s].rows = DOMAIN ledgers[s].rows \ {m.call}
        /\ TotalSpent(s)'
             = TotalSpent(s) + IF m.call \in DOMAIN ledgers[s].rows /\ m.outcome.quotaSuccess
                               THEN Charge(m) ELSE 0
    BY <1>6, DeliveryStep
  <2>2. part \in SUBSET whole
    BY <2>1 DEF DeliveredAndSettled, Delivered
  <2>3. /\ Charges(outbox, calls, whole) \in Nat /\ Charges(outbox, calls, part) \in Nat
        /\ Charges(outbox, calls, part) <= Charges(outbox, calls, whole)
        /\ \A x \in whole : Charges(outbox, calls, whole)
                              = Charge(x) + Charges(outbox, calls, whole \ {x})
    <3> HIDE DEF part, whole
    <3>1. whole \in SUBSET outbox
      BY <1>4, <2>1
    <3> QED
      BY <1>1, <1>4, <2>2, <3>1, ChargesGrow DEF Charge
  <2>4. CASE m.call \in DOMAIN ledgers[s].rows /\ m.outcome.quotaSuccess
    <3>1. calls[m.call].scope = s
      BY <2>4 DEF RowsMatchCalls
    <3>2. m.call \in learned'
      BY <2>1, <2>4 DEF SuccessesTeach, TypeOK
    <3>3. m \in whole /\ m \notin part
      BY <2>1, <2>4, <3>1, <3>2 DEF DeliveredAndSettled, Delivered
    <3> DEFINE others == whole \ {m}
    <3>4. part \in SUBSET others /\ others \in SUBSET outbox
      BY <1>4, <2>1, <2>2, <3>3
    <3> HIDE DEF part, whole, others
    <3>5. /\ Charges(outbox, calls, others) \in Nat
          /\ Charges(outbox, calls, part) <= Charges(outbox, calls, others)
      BY <1>1, <3>4, ChargesGrow
    <3>6. Charges(outbox, calls, whole) = Charge(m) + Charges(outbox, calls, others)
      BY <2>3, <3>3 DEF others
    <3>7. Charge(m) \in Nat
      BY <1>1 DEF BoxType, Charge
    <3>8. TotalSpent(s)' = TotalSpent(s) + Charge(m)
      BY <2>1, <2>4
    <3>9. TotalSpent(s)' <= Charges(outbox, calls, whole)
      BY <1>2, <1>3, <2>3, <3>5, <3>6, <3>7, <3>8
    <3> QED
      BY <2>1, <3>9 DEF whole
  <2>5. CASE ~(m.call \in DOMAIN ledgers[s].rows /\ m.outcome.quotaSuccess)
    <3>1. TotalSpent(s)' = TotalSpent(s)
      BY <1>3, <2>1, <2>5
    <3> HIDE DEF part, whole
    <3>2. TotalSpent(s)' <= Charges(outbox, calls, whole)
      BY <1>2, <1>3, <2>3, <3>1
    <3> QED
      BY <2>1, <3>2 DEF whole
  <2> QED
    BY <2>4, <2>5
<1>7. CASE \E m \in outbox : recordProviderOutcome(m.call, m.outcome)
  <2>1. PICK m \in outbox : recordProviderOutcome(m.call, m.outcome)
    BY <1>7
  <2> QED
    BY <1>6, <2>1
<1>8. ChargesNothing \/ \E m \in outbox : recordProviderOutcome(m.call, m.outcome)
  BY OnlyDeliveriesCharge
<1> QED
  BY <1>5, <1>7, <1>8

(* An outcome delivered twice, late or out of order never charges a call   *)
(* twice: settling reads and deletes the row it charges for.               *)
THEOREM NothingIsChargedTwice ==
    ASSUME SuccessesTeach
    PROVE  Spec => []NoDoubleCharge
<1>1. Init => ChargesWereDelivered
  <2> SUFFICES ASSUME Init, NEW s \in Scopes
               PROVE  TotalSpent(s) <= Charges(outbox, calls, DeliveredAndSettled(s))
    BY DEF ChargesWereDelivered
  <2>1. DOMAIN ledgers[s].spent = {} /\ DeliveredAndSettled(s) = {}
    BY DEF Init, EmptyLedger, DeliveredAndSettled, Delivered
  <2> QED
    BY <2>1, SumEmpty DEF TotalSpent, Charges
<1>2. TypeOK /\ TypeOK' /\ OutboxOK /\ OutboxOK' /\ RowsMatchCalls /\ ChargesWereDelivered
        /\ [Next]_vars => ChargesWereDelivered'
  BY ChargesStep
<1>3. TypeOK /\ OutboxOK /\ ChargesWereDelivered => NoDoubleCharge
  <2> SUFFICES ASSUME TypeOK, OutboxOK, ChargesWereDelivered, NEW s \in Scopes
               PROVE  TotalSpent(s) <= DeliveredCharges(s)
    BY DEF NoDoubleCharge
  <2> DEFINE part == DeliveredAndSettled(s)  whole == Delivered(s)
  <2>1. part \in SUBSET whole /\ whole \in SUBSET outbox /\ part \in SUBSET outbox
    BY DEF DeliveredAndSettled, Delivered
  <2>2. BoxType(outbox, calls)
    BY OutboxCharges
  <2>3. DeliveredCharges(s) = Charges(outbox, calls, whole)
    BY DEF DeliveredCharges, Charges, Charge, Delivered
  <2>4. TotalSpent(s) <= Charges(outbox, calls, part)
    BY DEF ChargesWereDelivered
  <2>5. TotalSpent(s) \in Nat
    <3>1. LedgerType(ledgers[s])
      BY LedgerOKMeans DEF TypeOK
    <3>2. SpentTotal(ledgers[s].spent) \in Nat
      BY <3>1, TotalType
    <3> QED
      BY <3>2 DEF TotalSpent, SpentTotal
  <2> HIDE DEF part, whole
  <2>6. /\ Charges(outbox, calls, whole) \in Nat /\ Charges(outbox, calls, part) \in Nat
        /\ Charges(outbox, calls, part) <= Charges(outbox, calls, whole)
    BY <2>1, <2>2, ChargesGrow
  <2> QED
    BY <2>3, <2>4, <2>5, <2>6
<1> QED
  BY <1>1, <1>2, <1>3, TypeCorrect, OutboxIsOK, RowsMatch, PTL DEF Spec

-----------------------------------------------------------------------------
(* Every success that arrives in time is charged.                          *)

(* An outcome of the attempt c that is one of kinds may still be delivered.*)
Awaited(c, kinds) ==
    \/ calls[c].phase = "inflight"
    \/ c \notin learned /\ \E m \in outbox : m.call = c /\ m.outcome \in kinds

(* An attempt ends, and its outcome is delivered if it is one of kinds,    *)
(* before its reservation's time to live is over.                          *)
ArriveInTime(kinds) ==
    \A c \in Calls : Awaited(c, kinds)
        => now - calls[c].at <= Settings[calls[c].scope].reservationTtlMs

(* An outcome underway has its row, a delivered one has none.              *)
RowsAwait(kinds) ==
    /\ \A c \in Calls : Awaited(c, kinds) =>
           calls[c].scope \in Scopes /\ c \in DOMAIN ledgers[calls[c].scope].rows
    /\ \A c \in Calls : calls[c].phase = "inflight" => c \notin learned
    /\ \A c \in learned : /\ calls[c].phase = "ended"
                          /\ \A s \in Scopes : c \notin DOMAIN ledgers[s].rows

(* What the provider charged, and that it is heard of in time.             *)
Successes == {outcome \in Outcomes : outcome.quotaSuccess}
SuccessesArriveInTime == ArriveInTime(Successes)

(* The spend is what was delivered of the successes, whose rows await the  *)
(* others.                                                                 *)
BooksComplete ==
    /\ RowsAwait(Successes)
    /\ \A s \in Scopes : TotalSpent(s) = Charges(outbox, calls, Delivered(s))

(* Inspection keeps the row of a success that is in time.                  *)
LEMMA UnderwayIsKept ==
    ASSUME NEW kinds, TypeOK, RowsMatchCalls, ArriveInTime(kinds), RowsAwait(kinds),
           NEW c \in Calls, Awaited(c, kinds)
    PROVE  /\ calls[c].scope \in Scopes
           /\ c \in DOMAIN ledgers[calls[c].scope].rows
           /\ c \in DOMAIN Inspected(calls[c].scope).rows
<1>1. PICK s \in Scopes : s = calls[c].scope
  BY DEF RowsAwait
<1>2. c \in DOMAIN ledgers[s].rows /\ now - calls[c].at <= Settings[s].reservationTtlMs
  BY <1>1 DEF RowsAwait, ArriveInTime
<1>3. ledgers[s].rows[c].created_at = calls[c].at
  BY <1>2 DEF RowsMatchCalls
<1>4. calls[c].at \in Nat /\ now \in Nat /\ Settings[s].reservationTtlMs \in Nat
  BY DEF TypeOK
<1>5. ledgers[s].rows[c].created_at >= now - Settings[s].reservationTtlMs
  BY <1>2, <1>3, <1>4
<1>6. c \in DOMAIN Inspected(s).rows
  BY <1>2, <1>5, InspectedOK
<1> QED
  BY <1>1, <1>2, <1>6

(* A step that delivers nothing keeps the rows of the successes underway,  *)
(* and starts one with a row.                                              *)
LEMMA UnderwayStep ==
    ASSUME NEW kinds, TypeOK, RowsMatchCalls, OutboxOK, ArriveInTime(kinds), RowsAwait(kinds),
           [Next]_vars, ~ \E m \in outbox : recordProviderOutcome(m.call, m.outcome)
    PROVE  /\ \A c \in Calls : Awaited(c, kinds)' =>
                  calls'[c].scope \in Scopes /\ c \in DOMAIN ledgers'[calls'[c].scope].rows
           /\ \A c \in Calls : calls'[c].phase = "inflight" => c \notin learned'
           /\ \A c \in learned' : /\ calls'[c].phase = "ended"
                                  /\ \A s \in Scopes : c \notin DOMAIN ledgers'[s].rows
<1> DEFINE Goal ==
      /\ \A c \in Calls : Awaited(c, kinds)' =>
             calls'[c].scope \in Scopes /\ c \in DOMAIN ledgers'[calls'[c].scope].rows
      /\ \A c \in Calls : calls'[c].phase = "inflight" => c \notin learned'
      /\ \A c \in learned' : /\ calls'[c].phase = "ended"
                             /\ \A s \in Scopes : c \notin DOMAIN ledgers'[s].rows
<1> SUFFICES Goal
  OBVIOUS
<1>0. /\ \A s \in Scopes : /\ LedgerOK(Inspected(s)) /\ now \in Nat
                           /\ DOMAIN Inspected(s).rows \subseteq DOMAIN ledgers[s].rows
      /\ learned \subseteq Calls
      /\ \A m \in outbox : m.call \in Calls /\ calls[m.call].phase = "ended"
  BY InspectedOK DEF TypeOK, OutboxOK
<1>1. ASSUME NEW c \in Calls, NEW tokens \in TokenRequests, NEW candidates \in SUBSET Scopes,
             calls[c].phase = "idle", Reserve(c, tokens, candidates)
      PROVE  Goal
  <2>1. PICK w \in candidates, r \in Nat :
          /\ ledgers' = [s \in Scopes |->
                 IF s = w THEN Reserved(Inspected(w), c, tokens, Settings[w], now)
                 ELSE IF s \in candidates THEN Inspected(s) ELSE ledgers[s]]
          /\ calls' = [calls EXCEPT ![c] = [phase |-> "inflight", scope |-> w,
                                            tokens |-> tokens, at |-> now, rank |-> r]]
          /\ UNCHANGED <<now, learned, observed, outbox>>
    BY <1>1, ReserveStep
  <2> DEFINE after == Reserved(Inspected(w), c, tokens, Settings[w], now)
  <2>2. DOMAIN after.rows = DOMAIN Inspected(w).rows \cup {c}
    <3>1. tokens \in Nat /\ w \in Scopes /\ LedgerOK(Inspected(w)) /\ now \in Nat
      BY <1>0
    <3> QED
      BY <3>1, ReservedOK
  <2>3. ledgers'[w] = after
    BY <2>1
  <2> HIDE DEF after
  <2>4. ASSUME NEW s \in Scopes
        PROVE  /\ DOMAIN Inspected(s).rows \subseteq DOMAIN ledgers'[s].rows
               /\ DOMAIN ledgers'[s].rows \subseteq DOMAIN ledgers[s].rows \cup {c}
    <3>1. CASE s = w
      BY <1>0, <2>2, <2>3, <3>1
    <3>2. CASE s # w
      BY <1>0, <2>1, <3>2
    <3> QED
      BY <3>1, <3>2
  <2>5. /\ calls'[c].phase = "inflight" /\ calls'[c].scope = w
        /\ \A d \in Calls \ {c} : calls'[d] = calls[d]
    BY <2>1 DEF TypeOK
  <2>6. c \notin learned
    BY <1>1 DEF RowsAwait
  <2>7. ASSUME NEW d \in Calls, Awaited(d, kinds)'
        PROVE  calls'[d].scope \in Scopes /\ d \in DOMAIN ledgers'[calls'[d].scope].rows
    <3>1. CASE d = c
      BY <2>2, <2>3, <2>5, <3>1
    <3>2. CASE d # c
      <4>1. calls'[d] = calls[d] /\ Awaited(d, kinds)
        BY <2>1, <2>5, <2>7, <3>2 DEF Awaited
      <4> QED
        BY <2>4, <4>1, UnderwayIsKept
    <3> QED
      BY <3>1, <3>2
  <2>8. \A d \in Calls : calls'[d].phase = "inflight" => d \notin learned'
    BY <2>1, <2>5, <2>6 DEF RowsAwait
  <2>9. \A d \in learned' : /\ calls'[d].phase = "ended"
                            /\ \A s \in Scopes : d \notin DOMAIN ledgers'[s].rows
    BY <1>0, <2>1, <2>4, <2>5, <2>6 DEF RowsAwait
  <2> QED
    BY <2>7, <2>8, <2>9
<1>2. ASSUME UNCHANGED <<learned, calls, outbox>>,
             \A s \in Scopes : ledgers'[s] \in {Inspected(s), ledgers[s]}
      PROVE  Goal
  <2>1. ASSUME NEW s \in Scopes
        PROVE  /\ DOMAIN Inspected(s).rows \subseteq DOMAIN ledgers'[s].rows
               /\ DOMAIN ledgers'[s].rows \subseteq DOMAIN ledgers[s].rows
    BY <1>0, <1>2
  <2>2. ASSUME NEW d \in Calls, Awaited(d, kinds)'
        PROVE  calls'[d].scope \in Scopes /\ d \in DOMAIN ledgers'[calls'[d].scope].rows
    <3>1. Awaited(d, kinds) /\ calls' = calls
      BY <1>2, <2>2 DEF Awaited
    <3> QED
      BY <2>1, <3>1, UnderwayIsKept
  <2>3. \A d \in learned' : /\ calls'[d].phase = "ended"
                            /\ \A s \in Scopes : d \notin DOMAIN ledgers'[s].rows
    BY <1>2, <2>1 DEF RowsAwait
  <2>4. \A d \in Calls : calls'[d].phase = "inflight" => d \notin learned'
    BY <1>2 DEF RowsAwait
  <2> QED
    BY <2>2, <2>3, <2>4
<1>3. ASSUME NEW c \in Calls, calls[c].phase = "inflight", UNCHANGED <<ledgers, learned>>,
             calls' = [calls EXCEPT ![c] = [calls[c] EXCEPT !.phase = "ended"]],
             \A m \in outbox' : m \in outbox \/ m.call = c
      PROVE  Goal
  <2>1. /\ calls'[c].phase = "ended" /\ calls'[c].scope = calls[c].scope
        /\ \A d \in Calls \ {c} : calls'[d] = calls[d]
    BY <1>3 DEF TypeOK
  <2>2. ASSUME NEW d \in Calls, Awaited(d, kinds)'
        PROVE  calls'[d].scope \in Scopes /\ d \in DOMAIN ledgers'[calls'[d].scope].rows
    <3>1. calls'[d].scope = calls[d].scope /\ Awaited(d, kinds)
      BY <1>3, <2>1, <2>2 DEF Awaited
    <3> QED
      BY <1>3, <3>1 DEF RowsAwait
  <2>3. \A d \in Calls : calls'[d].phase = "inflight" => d \notin learned'
    BY <1>3, <2>1 DEF RowsAwait
  <2>4. \A d \in learned' : /\ calls'[d].phase = "ended"
                            /\ \A s \in Scopes : d \notin DOMAIN ledgers'[s].rows
    BY <1>0, <1>3, <2>1 DEF RowsAwait
  <2> QED
    BY <2>2, <2>3, <2>4
<1>4. ASSUME NEW c \in Calls, NEW tokens \in TokenRequests, NEW candidates \in SUBSET Scopes,
             Deny(c, tokens, candidates)
      PROVE  Goal
  BY <1>2, <1>4 DEF Deny, AfterInspection
<1>5. ASSUME NEW c \in Calls, NEW outcome \in Outcomes, Finalize(c, outcome)
      PROVE  Goal
  <2>1. \A m \in outbox' : m \in outbox \/ m.call = c
    BY <1>5 DEF Finalize
  <2> QED
    BY <1>3, <1>5, <2>1 DEF Finalize
<1>6. ASSUME NEW c \in Calls, Crash(c)
      PROVE  Goal
  BY <1>3, <1>6 DEF Crash
<1>7. CASE UNCHANGED <<ledgers, learned, calls, outbox>>
  BY <1>2, <1>7
<1> QED
  BY <1>1, <1>4, <1>5, <1>6, <1>7 DEF Next, planAndReserve, Tick, vars

(* So does a delivery, which takes the row of its own attempt alone.       *)
LEMMA DeliveryUnderway ==
    ASSUME NEW kinds, \A outcome \in kinds : outcome.learning, TypeOK, RowsMatchCalls, OutboxOK, RowsAwait(kinds),
           NEW m \in outbox, recordProviderOutcome(m.call, m.outcome)
    PROVE  /\ \A c \in Calls : Awaited(c, kinds)' =>
                  calls'[c].scope \in Scopes /\ c \in DOMAIN ledgers'[calls'[c].scope].rows
           /\ \A c \in Calls : calls'[c].phase = "inflight" => c \notin learned'
           /\ \A c \in learned' : /\ calls'[c].phase = "ended"
                                  /\ \A s \in Scopes : c \notin DOMAIN ledgers'[s].rows
<1>1. /\ UNCHANGED <<calls, outbox>>
      /\ learned' = IF m.outcome.learning THEN learned \cup {m.call} ELSE learned
      /\ \A s \in Scopes : DOMAIN ledgers'[s].rows = DOMAIN ledgers[s].rows \ {m.call}
  BY DeliveryStep
<1>2. /\ calls[m.call].phase = "ended" /\ m.call \in Calls
      /\ m.outcome \in kinds => m.outcome.learning
      /\ \A n \in outbox : n.call = m.call => n = m
  BY DEF OutboxOK, TypeOK
<1>3. ASSUME NEW c \in Calls, Awaited(c, kinds)'
      PROVE  calls'[c].scope \in Scopes /\ c \in DOMAIN ledgers'[calls'[c].scope].rows
  <2>1. c # m.call
    BY <1>1, <1>2, <1>3 DEF Awaited
  <2>2. Awaited(c, kinds)
    BY <1>1, <1>3 DEF Awaited
  <2>3. calls[c].scope \in Scopes /\ c \in DOMAIN ledgers[calls[c].scope].rows
    BY <2>2 DEF RowsAwait
  <2> QED
    BY <1>1, <2>1, <2>3
<1>4. \A c \in Calls : calls'[c].phase = "inflight" => c \notin learned'
  BY <1>1, <1>2 DEF RowsAwait
<1>5. \A c \in learned' : /\ calls'[c].phase = "ended"
                          /\ \A s \in Scopes : c \notin DOMAIN ledgers'[s].rows
  BY <1>1, <1>2 DEF RowsAwait
<1> QED
  BY <1>3, <1>4, <1>5

(* Every step charges just what it delivers.                               *)
LEMMA SpendStep ==
    ASSUME SuccessesTeach, TypeOK, TypeOK', RowsMatchCalls, OutboxOK, OutboxOK',
           BooksComplete, [Next]_vars, NEW s \in Scopes
    PROVE  TotalSpent(s)' = Charges(outbox', calls', Delivered(s)')
<1> DEFINE part  == Delivered(s)
           whole == Delivered(s)'
<1>1. BoxType(outbox, calls) /\ BoxType(outbox', calls')
  <2>1. BoxType(outbox, calls)
    BY OutboxCharges
  <2>2. ASSUME NEW m \in outbox'
        PROVE  ChargedTokens(m.outcome, calls'[m.call].tokens) \in Nat
    <3>1. calls'[m.call].tokens \in Nat /\ OutcomeType(m.outcome)
      BY ConstantTypes DEF TypeOK
    <3> QED
      BY <3>1 DEF ChargedTokens, MaxOf, OutcomeType, Undefined
  <2> QED
    BY <2>1, <2>2 DEF BoxType, OutboxOK
<1>2. TotalSpent(s) = Charges(outbox, calls, part)
  BY DEF BooksComplete
<1>3. part \in SUBSET outbox /\ whole \in SUBSET outbox'
  BY DEF Delivered
<1>4. CASE ChargesNothing
  <2>1. TotalSpent(s)' = TotalSpent(s)
    BY <1>4 DEF ChargesNothing, TotalSpent
  <2>2. whole = part
    <3>1. \A m \in outbox' \ outbox : m.call \notin learned
      <4>1. ASSUME NEW m \in outbox' \ outbox
            PROVE  m.call \notin learned
        <5>1. PICK c \in Calls, outcome \in Outcomes : Finalize(c, outcome)
          BY <4>1 DEF Next, planAndReserve, Reserve, Deny, Crash, recordProviderOutcome,
                      Tick, vars
        <5>2. m.call = c /\ calls[c].phase = "inflight"
          BY <4>1, <5>1 DEF Finalize
        <5> QED
          BY <5>2 DEF BooksComplete, RowsAwait
      <4> QED
        BY <4>1
    <3> QED
      BY <1>4, <3>1 DEF ChargesNothing, Delivered
  <2>3. outbox \subseteq outbox' /\ \A m \in outbox : calls'[m.call].tokens = calls[m.call].tokens
    BY <1>4 DEF ChargesNothing
  <2> HIDE DEF part, whole
  <2>4. Charges(outbox', calls', part) = Charges(outbox, calls, part)
    BY <1>1, <1>3, <2>3, ChargesKept
  <2>5. TotalSpent(s)' = Charges(outbox', calls', whole)
    BY <1>2, <2>1, <2>2, <2>4
  <2> QED
    BY <2>5 DEF whole
<1>5. CASE \E m \in outbox : recordProviderOutcome(m.call, m.outcome)
  <2>0. PICK m \in outbox : recordProviderOutcome(m.call, m.outcome)
    BY <1>5
  <2>1. /\ UNCHANGED <<calls, outbox>>
        /\ learned' = IF m.outcome.learning THEN learned \cup {m.call} ELSE learned
        /\ TotalSpent(s) \in Nat
        /\ TotalSpent(s)'
             = TotalSpent(s) + IF m.call \in DOMAIN ledgers[s].rows /\ m.outcome.quotaSuccess
                               THEN Charge(m) ELSE 0
    BY <2>0, DeliveryStep
  <2>2. \A n \in outbox : n.call = m.call => n = m
    BY DEF OutboxOK
  <2>3. CASE m.call \in DOMAIN ledgers[s].rows /\ m.outcome.quotaSuccess
    <3>1. calls[m.call].scope = s /\ m.call \notin learned
      BY <2>3 DEF RowsMatchCalls, BooksComplete, RowsAwait
    <3>2. m.call \in learned'
      BY <2>1, <2>3 DEF SuccessesTeach, TypeOK
    <3>3. m \in whole /\ part = whole \ {m}
      BY <2>1, <2>2, <2>3, <3>1, <3>2 DEF Delivered
    <3> HIDE DEF part, whole
    <3>4. whole \in SUBSET outbox
      BY <1>3, <2>1
    <3>5. Charges(outbox, calls, whole) = Charge(m) + Charges(outbox, calls, part)
      BY <1>1, <3>3, <3>4, ChargesGrow DEF Charge
    <3>6. Charge(m) \in Nat
      BY <1>1 DEF BoxType, Charge
    <3>7. TotalSpent(s)' = Charges(outbox, calls, whole)
      BY <1>2, <2>1, <2>3, <3>5, <3>6
    <3> QED
      BY <2>1, <3>7 DEF whole
  <2>4. CASE ~(m.call \in DOMAIN ledgers[s].rows /\ m.outcome.quotaSuccess)
    <3>1. TotalSpent(s)' = TotalSpent(s)
      BY <2>1, <2>4
    <3>2. ASSUME m.outcome.quotaSuccess, calls[m.call].scope = s
          PROVE  m.call \in learned
      <4>1. m.call \notin DOMAIN ledgers[s].rows /\ m.call \in Calls
        BY <2>4, <3>2 DEF TypeOK
      <4> QED
        BY <3>2, <4>1 DEF BooksComplete, RowsAwait, Awaited, Successes, TypeOK
    <3>3. whole = part
      BY <2>1, <2>2, <3>2 DEF Delivered
    <3> HIDE DEF part, whole
    <3>4. TotalSpent(s)' = Charges(outbox, calls, whole)
      BY <1>2, <3>1, <3>3
    <3> QED
      BY <2>1, <3>4 DEF whole
  <2> QED
    BY <2>3, <2>4
<1> QED
  BY <1>4, <1>5, OnlyDeliveriesCharge

(* If every success is delivered before its reservation expires, each is   *)
(* charged, once, and nothing else is: the spend of a credential is what   *)
(* its delivered successes cost.                                           *)
THEOREM EverySuccessIsCharged ==
    ASSUME SuccessesTeach
    PROVE  Spec /\ []SuccessesArriveInTime => []EveryServedCallCharged
<1>1. Init => BooksComplete
  <2> SUFFICES ASSUME Init PROVE BooksComplete
    OBVIOUS
  <2>1. \A c \in Calls : ~Awaited(c, Successes) /\ calls[c].phase # "inflight"
    BY DEF Init, IdleCall, Awaited
  <2>2. ASSUME NEW s \in Scopes
        PROVE  TotalSpent(s) = Charges(outbox, calls, Delivered(s))
    <3>1. DOMAIN ledgers[s].spent = {} /\ Delivered(s) = {}
      BY DEF Init, EmptyLedger, Delivered
    <3> QED
      BY <3>1, SumEmpty DEF TotalSpent, Charges
  <2> QED
    BY <2>1, <2>2 DEF BooksComplete, RowsAwait, Init
<1>2. TypeOK /\ TypeOK' /\ OutboxOK /\ OutboxOK' /\ RowsMatchCalls /\ SuccessesArriveInTime
        /\ BooksComplete /\ [Next]_vars => BooksComplete'
  <2> SUFFICES ASSUME TypeOK, TypeOK', OutboxOK, OutboxOK', RowsMatchCalls,
                      SuccessesArriveInTime, BooksComplete, [Next]_vars
               PROVE  BooksComplete'
    OBVIOUS
  <2>1. \A s \in Scopes : TotalSpent(s)' = Charges(outbox', calls', Delivered(s)')
    BY SpendStep
  <2>2. CASE \E m \in outbox : recordProviderOutcome(m.call, m.outcome)
    <3>1. PICK m \in outbox : recordProviderOutcome(m.call, m.outcome)
      BY <2>2
    <3> QED
      BY <2>1, <3>1, DeliveryUnderway DEF BooksComplete, RowsAwait, SuccessesTeach, Successes
  <2>3. CASE ~ \E m \in outbox : recordProviderOutcome(m.call, m.outcome)
    BY <2>1, <2>3, UnderwayStep DEF BooksComplete, RowsAwait, SuccessesArriveInTime
  <2> QED
    BY <2>2, <2>3
<1>3. BooksComplete => EveryServedCallCharged
  BY DEF BooksComplete, EveryServedCallCharged, DeliveredCharges, Charges, Charge, Delivered
<1> QED
  BY <1>1, <1>2, <1>3, TypeCorrect, OutboxIsOK, RowsMatch, PTL DEF Spec

-----------------------------------------------------------------------------
(* The quoted waits.                                                       *)

(* Nothing in a ledger is dated after the clock.                           *)
AllDated == \A s \in Scopes : Dated(ledgers[s], now)

(* No step dates anything after its own time.                              *)
LEMMA DatedStep ==
    ASSUME TypeOK, AllDated, [Next]_vars
    PROVE  AllDated'
<1> SUFFICES ASSUME NEW s \in Scopes PROVE Dated(ledgers[s], now)'
  BY DEF AllDated
<1>1. /\ LedgerType(ledgers[s]) /\ SettingsType(Settings[s]) /\ now \in Nat
      /\ Settings[s].reservationTtlMs \in Nat
      /\ Dated(ledgers[s], now)
  BY LedgerOKMeans, ConstantTypes DEF TypeOK, AllDated
<1>2. /\ LedgerType(Inspected(s)) /\ Dated(Inspected(s), now)
  <2>1. LedgerType(Inspected(s))
    BY InspectedOK, LedgerOKMeans
  <2> QED
    BY <1>1, <2>1, OperationsDated DEF Inspected
<1>3. CASE now' = now
  <2>1. ASSUME NEW c, NEW tokens \in TokenRequests
        PROVE  Dated(Reserved(Inspected(s), c, tokens, Settings[s], now), now)
    BY <1>1, <1>2, OperationsDated
  <2>2. ASSUME NEW c, NEW outcome \in Outcomes
        PROVE  Dated(Settled(ledgers[s], c, outcome, Settings[s], now), now)
    BY <1>1, OperationsDated, ConstantTypes
  <2>3. Dated(ledgers'[s], now)
    BY <1>1, <1>2, <2>1, <2>2, EveryLedgerStep DEF LedgerStep
  <2> QED
    BY <1>3, <2>3
<1>4. CASE Tick
  <2>1. ledgers' = ledgers /\ now' \in Nat /\ now <= now'
    BY <1>1, <1>4 DEF Tick
  <2>2. Dated(ledgers[s], now')
    BY <1>1, <2>1, LaterDated
  <2> QED
    BY <2>1, <2>2
<1> QED
  BY <1>3, <1>4 DEF Next, planAndReserve, Reserve, Deny, Finalize, Crash, recordProviderOutcome, vars

(* A ledger never dates anything after the clock.                          *)
LEMMA LedgersAreDated == Spec => []AllDated
<1>1. Init => AllDated
  <2> SUFFICES ASSUME Init, NEW s \in Scopes PROVE Dated(ledgers[s], now)
    BY DEF AllDated
  <2>1. /\ DOMAIN ledgers[s].rows = {} /\ DOMAIN ledgers[s].spent = {}
        /\ ledgers[s].requests.refilled_at = 0 /\ ledgers[s].tokens.refilled_at = 0
        /\ now \in Nat
    BY DEF Init, EmptyLedger, FullBucket
  <2> QED
    BY <2>1 DEF Dated, NotAhead, BucketsNotAhead
<1>2. TypeOK /\ AllDated /\ [Next]_vars => AllDated'
  BY DatedStep
<1> QED
  BY <1>1, <1>2, TypeCorrect, PTL DEF Spec

(* Every request fits the budget and the tokens limit of every credential. *)
RequestsFit == \A s \in Scopes, tokens \in TokenRequests : FitsLimits(tokens, Settings[s])

(* RetryHintSuffices: who comes back when the quoted wait is over is not   *)
(* denied for the same reason again, as long as nothing else moved and the *)
(* request fits the limits at all.  (One that does not fit is denied for   *)
(* ever, with a finite wait: routing-coordinator.ts:283.)  The argument is *)
(* the lemma QuotedWaitSuffices about one ledger; it needs that nothing in *)
(* the ledger is dated after the clock, which every step keeps.            *)
THEOREM RetryHintsSuffice ==
    ASSUME RequestsFit
    PROVE  Spec => []RetryHintSuffices
<1>1. TypeOK /\ AllDated /\ ConcurrencyCeiling => RetryHintSuffices
  <2> SUFFICES ASSUME TypeOK, AllDated, ConcurrencyCeiling,
                      NEW s \in Scopes, NEW tokens \in TokenRequests,
                      ~QuoteNow(s, tokens).allowed
               PROVE  LET quote == QuoteNow(s, tokens)
                          slack == IF quote.reason = "concurrency_limit" THEN 1 ELSE 0
                      IN  QuoteAt(s, tokens, now + quote.retryAfterMs + slack).reason # quote.reason
    BY DEF RetryHintSuffices
  <2>1. /\ LedgerType(ledgers[s]) /\ SettingsType(Settings[s]) /\ now \in Nat /\ tokens \in Nat
        /\ FitsLimits(tokens, Settings[s])
        /\ NotAhead(ledgers[s], now) /\ BucketsNotAhead(ledgers[s], now)
        /\ Settings[s].maxConcurrent > 0
             => reservationCount(ledgers[s]) <= Settings[s].maxConcurrent
    BY LedgerOKMeans, ConstantTypes DEF TypeOK, AllDated, Dated, ConcurrencyCeiling, RequestsFit
  <2>2. /\ QuoteNow(s, tokens) = QuoteOn(ledgers[s], tokens, Settings[s], now)
        /\ \A time : QuoteAt(s, tokens, time) = QuoteOn(ledgers[s], tokens, Settings[s], time)
    BY DEF QuoteNow, Inspected, QuoteAt, QuoteOn
  <2>3. HintSuffices(ledgers[s], tokens, Settings[s], now)
    BY <2>1, <2>2, QuotedWaitSuffices
  <2> QED
    BY <2>2, <2>3 DEF HintSuffices
<1> QED
  BY <1>1, TypeCorrect, LedgersAreDated, ReservationsWithinCeiling, PTL

-----------------------------------------------------------------------------
(* Bursts.                                                                 *)

(* The requests of a scope admitted from a time on.                        *)
Since(s, first) == {c \in Calls : calls[c].scope = s /\ calls[c].at >= first}

(* What a bucket may hand out in a while: what it holds when full, and     *)
(* what refills.  All are thousandths, times the window.                   *)
Supply(limit, length) == limit.limit * Thousandths * limit.windowMs
                           + length * (limit.limit * Thousandths)

(* The requests admitted since a time, and what the bucket still holds,    *)
(* came from a full bucket and from the refills since; so did those of any *)
(* closed interval.                                                        *)
BurstKept(s) ==
    LET limit == Settings[s].requests  bucket == ledgers[s].requests IN
    /\ \A c \in Calls : calls[c].scope = s => calls[c].at <= bucket.refilled_at
    /\ \A first \in Nat :
           /\ IsFiniteSet(Since(s, first))
           /\ Since(s, first) # {} =>
                  (Cardinality(Since(s, first)) * Thousandths + bucket.available) * limit.windowMs
                      <= Supply(limit, bucket.refilled_at - first)
    /\ \A first, length \in Nat :
           AdmittedDuring(s, first, length) # {} =>
               Cardinality(AdmittedDuring(s, first, length)) * Thousandths * limit.windowMs
                   <= Supply(limit, length - 1)

(* A larger product of larger factors, and of sums.                        *)
LEMMA Scale ==
    ASSUME NEW a \in Int, NEW b \in Int, NEW w \in Nat, a <= b
    PROVE  a * w <= b * w
<1>1. PICK k \in Nat : b = a + k
  <2>1. b - a \in Nat /\ b = a + (b - a)
    OBVIOUS
  <2> QED BY <2>1
<1>2. b * w = a * w + k * w /\ a * w \in Int /\ k * w \in Nat
  BY <1>1
<1> QED BY <1>2

(* The supply is an integer and grows with the time.                       *)
LEMMA SupplyGrows ==
    ASSUME NEW s \in Scopes, NEW m \in Int, NEW n \in Int
    PROVE  LET limit == Settings[s].requests  full == limit.limit * Thousandths IN
           /\ Supply(limit, m) \in Int
           /\ Supply(limit, m) = full * limit.windowMs + m * full
           /\ m <= n => Supply(limit, m) <= Supply(limit, n)
<1> DEFINE limit == Settings[s].requests  full == limit.limit * Thousandths
           W == limit.windowMs
<1>1. full \in Nat /\ W \in Nat
  BY DEF Thousandths
<1>2. Supply(limit, m) = full * W + m * full /\ Supply(limit, n) = full * W + n * full
  BY DEF Supply
<1> HIDE DEF full, W
<1>3. full * W \in Int /\ m * full \in Int /\ n * full \in Int
  BY <1>1
<1>4. m <= n => m * full <= n * full
  BY <1>1, Scale
<1> QED BY <1>2, <1>3, <1>4 DEF full, W

(* Fewer calls are admitted when none is added.                            *)
LEMMA NoneAdded ==
    ASSUME TypeOK, NEW s \in Scopes, BurstKept(s),
           ledgers'[s].requests = ledgers[s].requests,
           \A c \in Calls : calls'[c].scope = s =>
               calls[c].scope = s /\ calls'[c].at = calls[c].at
    PROVE  BurstKept(s)'
<1> DEFINE limit == Settings[s].requests  bucket == ledgers[s].requests
           W == limit.windowMs
<1>0. W \in Nat /\ bucket.available \in Nat /\ bucket.refilled_at \in Nat
  BY DEF TypeOK, LedgerOK
<1>1. \A c \in Calls : calls'[c].scope = s => calls'[c].at <= bucket.refilled_at
  BY DEF BurstKept
<1>2. ASSUME NEW old, NEW new, IsFiniteSet(old), new \subseteq old, new # {}
      PROVE  /\ IsFiniteSet(new) /\ old # {}
             /\ Cardinality(new) \in Nat /\ Cardinality(old) \in Nat
             /\ Cardinality(new) <= Cardinality(old)
  BY <1>2, FS_Subset, FS_CardinalityType
<1>3. ASSUME NEW first \in Nat
      PROVE  /\ IsFiniteSet(Since(s, first)')
             /\ Since(s, first)' # {} =>
                  (Cardinality(Since(s, first)') * Thousandths + bucket.available) * W
                      <= Supply(limit, bucket.refilled_at - first)
  <2> DEFINE old == Since(s, first)  new == Since(s, first)'
             n == Cardinality(new) * Thousandths + bucket.available
             k == Cardinality(old) * Thousandths + bucket.available
  <2>1. new \subseteq old
    BY DEF Since
  <2>2. IsFiniteSet(old) /\ (old # {} => k * W <= Supply(limit, bucket.refilled_at - first))
    BY <1>3 DEF BurstKept
  <2>3. IsFiniteSet(new)
    BY <2>1, <2>2, FS_Subset
  <2>4. new # {} => n * W <= Supply(limit, bucket.refilled_at - first)
    <3> SUFFICES ASSUME new # {} PROVE n * W <= Supply(limit, bucket.refilled_at - first)
      OBVIOUS
    <3> HIDE DEF new, old
    <3>1. n \in Nat /\ k \in Nat /\ n <= k /\ old # {}
      BY <1>0, <1>2, <2>1, <2>2 DEF Thousandths
    <3>2. Supply(limit, bucket.refilled_at - first) \in Int
      <4> DEFINE m == bucket.refilled_at - first
      <4>1. m \in Int
        BY <1>0, <1>3
      <4> HIDE DEF m
      <4>2. Supply(limit, m) \in Int
        BY <4>1, SupplyGrows
      <4> QED
        BY <4>2 DEF m
    <3> HIDE DEF n, k, W, limit, bucket
    <3>3. n * W <= k * W /\ n * W \in Int /\ k * W \in Int
      BY <1>0, <3>1, Scale
    <3> QED BY <2>2, <3>1, <3>2, <3>3
  <2> QED BY <2>3, <2>4
<1>4. ASSUME NEW first \in Nat, NEW length \in Nat, AdmittedDuring(s, first, length)' # {}
      PROVE  Cardinality(AdmittedDuring(s, first, length)') * Thousandths * W
                 <= Supply(limit, length - 1)
  <2> DEFINE old == AdmittedDuring(s, first, length)  new == AdmittedDuring(s, first, length)'
             n == Cardinality(new) * Thousandths
             k == Cardinality(old) * Thousandths
  <2>1. new \subseteq old
    BY DEF AdmittedDuring
  <2>2. IsFiniteSet(old)
    <3>1. IsFiniteSet(Since(s, first))
      BY <1>4 DEF BurstKept
    <3>2. old \subseteq Since(s, first)
      BY <1>4 DEF AdmittedDuring, Since, TypeOK
    <3> QED BY <3>1, <3>2, FS_Subset
  <2>3. old # {} => k * W <= Supply(limit, length - 1)
    BY <1>4 DEF BurstKept
  <2> HIDE DEF new, old
  <2>4. n \in Nat /\ k \in Nat /\ n <= k /\ old # {}
    BY <1>2, <1>4, <2>1, <2>2 DEF Thousandths, new
  <2>5. Supply(limit, length - 1) \in Int
    BY <1>4, SupplyGrows
  <2> HIDE DEF n, k, W, limit
  <2>6. n * W <= k * W /\ n * W \in Int /\ k * W \in Int
    BY <1>0, <2>4, Scale
  <2>7. n * W <= Supply(limit, length - 1)
    BY <2>3, <2>4, <2>5, <2>6
  <2> QED BY <2>7 DEF n, new
<1> HIDE DEF W, limit
<1>5. ledgers'[s].requests = bucket
  OBVIOUS
<1> HIDE DEF bucket
<1> QED
  BY <1>1, <1>3, <1>4, <1>5 DEF BurstKept, limit, W

(* An admission spends a request that the bucket holds.                    *)
LEMMA OneAdded ==
    ASSUME TypeOK, AllDated, NEW s \in Scopes, Enforced(Settings[s].requests), BurstKept(s),
           NEW c \in Calls, NEW tokens \in TokenRequests, QuoteNow(s, tokens).allowed,
           ledgers'[s] = Reserved(Inspected(s), c, tokens, Settings[s], now),
           calls'[c].scope = s, calls'[c].at = now,
           \A d \in Calls \ {c} : calls'[d] = calls[d]
    PROVE  BurstKept(s)'
<1> DEFINE limit == Settings[s].requests  bucket == ledgers[s].requests
           after == ledgers'[s].requests
           W == limit.windowMs  full == limit.limit * Thousandths
           r == bucket.refilled_at
<1>0. /\ W \in Nat \ {0} /\ full \in Nat
      /\ bucket.available \in Nat /\ r \in Nat /\ r <= now /\ now \in Nat
  BY DEF TypeOK, LedgerOK, Enforced, Thousandths, AllDated, Dated, BucketsNotAhead
<1>1. after = spendBucket(bucket, limit, 1, now) /\ ~BucketShort(bucket, limit, 1, now)
  <2>1. LedgerType(ledgers[s]) /\ LedgerType(Inspected(s))
    BY InspectedOK, LedgerOKMeans DEF TypeOK
  <2>2. Inspected(s).requests = bucket
    BY <2>1, ReleaseKeepsBuckets DEF Inspected
  <2>3. after = spendBucket(Inspected(s).requests, limit, 1, now)
    BY <2>1 DEF Reserved, LedgerType
  <2>4. ~BucketShort(Inspected(s).requests, limit, 1, now)
    BY DEF QuoteNow, Quote, denied
  <2> QED
    BY <2>2, <2>3, <2>4
<1>2. /\ after.refilled_at = now /\ after.available \in Nat
      /\ (1 * Thousandths + after.available) * W <= full * W
      /\ (1 * Thousandths + after.available) * W
            <= bucket.available * W + (now - r) * full
  <2>1. limit.limit \in Nat /\ limit.windowMs \in Nat /\ Enforced(limit)
    OBVIOUS
  <2> HIDE DEF bucket, limit, after
  <2> QED
    BY <1>0, <1>1, <2>1, SpendingAccounts
<1>3. \A d \in Calls : calls'[d].scope = s => calls'[d].at <= now /\ calls'[d].at \in Nat
  <2>1. \A d \in Calls : calls[d].scope = s => calls[d].at <= r /\ calls[d].at \in Nat
    BY DEF BurstKept, TypeOK
  <2>2. ASSUME NEW d \in Calls, calls'[d].scope = s
        PROVE  calls'[d].at <= now /\ calls'[d].at \in Nat
    <3>1. CASE d = c
      <4> HIDE DEF r
      <4> QED BY <1>0, <3>1
    <3>2. CASE d # c
      <4>1. calls[d].at <= r /\ calls[d].at \in Nat /\ calls'[d].at = calls[d].at
        BY <2>1, <2>2, <3>2
      <4> HIDE DEF r
      <4> QED BY <1>0, <4>1
    <3> QED BY <3>1, <3>2
  <2> QED BY <2>2
<1>4. ASSUME NEW first \in Nat
      PROVE  /\ IsFiniteSet(Since(s, first)')
             /\ Since(s, first)' # {} =>
                  /\ first <= now
                  /\ (Cardinality(Since(s, first)') * Thousandths + after.available) * W
                      <= Supply(limit, now - first)
  <2> DEFINE old == Since(s, first)  new == Since(s, first)'
             n == Cardinality(new)  k == Cardinality(old)
             cap == Supply(limit, now - first)
             kept == (1 * Thousandths + after.available) * W
  <2>1. new \subseteq old \cup {c}
    BY DEF Since
  <2>2. /\ IsFiniteSet(old)
        /\ old # {} => (k * Thousandths + bucket.available) * W <= Supply(limit, r - first)
    BY <1>4 DEF BurstKept
  <2>3. /\ IsFiniteSet(old \cup {c}) /\ Cardinality(old \cup {c}) <= k + 1
        /\ k \in Nat /\ Cardinality(old \cup {c}) \in Nat
    <3> HIDE DEF old
    <3>1. /\ IsFiniteSet(old \cup {c}) /\ k \in Nat
          /\ Cardinality(old \cup {c}) = IF c \in old THEN k ELSE k + 1
      BY <2>2, FS_AddElement, FS_CardinalityType
    <3> HIDE DEF k
    <3> QED BY <3>1
  <2>4. IsFiniteSet(new) /\ n <= k + 1 /\ n \in Nat
    <3> HIDE DEF old, new
    <3>1. IsFiniteSet(new) /\ n <= Cardinality(old \cup {c})
      BY <2>1, <2>3, FS_Subset
    <3>2. n \in Nat
      BY <3>1, FS_CardinalityType
    <3> DEFINE most == Cardinality(old \cup {c})
    <3>3. n <= most /\ most <= k + 1 /\ most \in Nat /\ k \in Nat
      BY <2>3, <3>1
    <3> HIDE DEF n, most, k
    <3>4. n <= k + 1
      BY <3>2, <3>3
    <3> QED BY <3>1, <3>2, <3>4
  <2>5. ASSUME new # {} PROVE first <= now /\ (n * Thousandths + after.available) * W <= cap
    <3>1. first <= now
      <4>1. PICK d \in Calls : calls'[d].scope = s /\ calls'[d].at >= first
        BY <2>5 DEF Since
      <4> QED BY <1>0, <1>3, <1>4, <4>1
    <3>2. /\ cap = full * W + (now - first) * full /\ cap \in Int
          /\ Supply(limit, r - first) = full * W + (r - first) * full
      <4> DEFINE m == now - first  b == r - first
      <4>1. m \in Int /\ b \in Int
        BY <1>0, <1>4
      <4> HIDE DEF m, b
      <4>2. /\ Supply(limit, m) = full * W + m * full /\ Supply(limit, m) \in Int
            /\ Supply(limit, b) = full * W + b * full
        BY <4>1, SupplyGrows
      <4> QED BY <4>2 DEF m, b
    <3>3. (now - first) * full \in Nat
      <4>1. now - first \in Nat
        BY <1>0, <1>4, <3>1
      <4> HIDE DEF full
      <4> QED BY <1>0, <4>1
    <3>4. CASE old = {}
      <4>1. n <= 1
        <5>1. Cardinality(old) = 0
          BY <3>4, FS_EmptySet
        <5> HIDE DEF n, old
        <5> QED BY <2>4, <5>1
      <4>2. n * Thousandths + after.available <= 1 * Thousandths + after.available
        <5> HIDE DEF n, after
        <5> QED BY <1>2, <2>4, <4>1 DEF Thousandths
      <4>3. (n * Thousandths + after.available) * W <= kept
        <5> HIDE DEF n, after, W
        <5>1. n * Thousandths + after.available \in Int /\ 1 * Thousandths + after.available \in Int
          BY <1>2, <2>4 DEF Thousandths
        <5> QED BY <1>0, <4>2, <5>1, Scale
      <4> DEFINE mine == (n * Thousandths + after.available) * W
      <4>4. mine \in Int /\ kept \in Int /\ full * W \in Int
        <5> HIDE DEF n, after, W, full
        <5> QED BY <1>0, <1>2, <2>4 DEF Thousandths
      <4>5. kept <= full * W
        BY <1>2
      <4> HIDE DEF mine, kept, cap, n, after, W, full
      <4>6. mine <= cap
        BY <3>2, <3>3, <4>3, <4>4, <4>5 DEF mine
      <4> QED BY <3>1, <4>6 DEF mine
    <3>5. CASE old # {}
      <4> DEFINE mine == (n * Thousandths + after.available) * W
                 before == (k * Thousandths + bucket.available) * W
      <4>1. mine <= before - bucket.available * W + kept
            /\ mine \in Int /\ before \in Int /\ kept \in Int /\ bucket.available * W \in Int
        <5> HIDE DEF n, k, after, bucket, W
        <5>1. n * Thousandths + after.available
                <= k * Thousandths + (1 * Thousandths + after.available)
          BY <1>2, <2>3, <2>4 DEF Thousandths
        <5>2. /\ n * Thousandths + after.available \in Int
              /\ k * Thousandths + (1 * Thousandths + after.available) \in Int
              /\ k * Thousandths \in Int /\ 1 * Thousandths + after.available \in Int
          BY <1>2, <2>3, <2>4 DEF Thousandths
        <5>3. mine <= (k * Thousandths + (1 * Thousandths + after.available)) * W
          BY <1>0, <5>1, <5>2, Scale
        <5> DEFINE x == k * Thousandths  y == 1 * Thousandths + after.available
        <5>4. x \in Int /\ y \in Int /\ mine <= (x + y) * W
              /\ before = (x + bucket.available) * W /\ kept = y * W
          BY <5>2, <5>3
        <5>5. mine \in Int
          BY <1>0, <5>2
        <5> HIDE DEF x, y, mine, before, kept
        <5>6. /\ (x + y) * W = x * W + y * W
              /\ (x + bucket.available) * W = x * W + bucket.available * W
              /\ x * W \in Int /\ y * W \in Int /\ bucket.available * W \in Int
          BY <1>0, <5>4
        <5> QED BY <5>4, <5>5, <5>6
      <4>2. before <= full * W + (r - first) * full
        BY <2>2, <3>2, <3>5
      <4>3. kept <= bucket.available * W + (now - r) * full
        BY <1>2
      <4>4. /\ (r - first) * full + (now - r) * full = (now - first) * full
            /\ (r - first) * full \in Int /\ (now - r) * full \in Int /\ full * W \in Int
        <5> HIDE DEF r, full, W
        <5> QED BY <1>0, <1>4
      <4> HIDE DEF mine, before, kept, cap, n, k, after, W, full, r, bucket
      <4>5. mine <= cap
        BY <3>2, <3>3, <4>1, <4>2, <4>3, <4>4
      <4> QED BY <3>1, <4>5 DEF mine
    <3> QED BY <3>4, <3>5
  <2> QED BY <2>4, <2>5
<1>5. ASSUME NEW first \in Nat, NEW length \in Nat, AdmittedDuring(s, first, length)' # {}
      PROVE  Cardinality(AdmittedDuring(s, first, length)') * Thousandths * W
                 <= Supply(limit, length - 1)
  <2> DEFINE new == AdmittedDuring(s, first, length)'
             n == Cardinality(new)
  <2>1. Supply(limit, length - 1) \in Int
    BY <1>5, SupplyGrows
  <2>2. CASE first + length - 1 < now
    <3> DEFINE old == AdmittedDuring(s, first, length)  k == Cardinality(old)
    <3>1. new \subseteq old
      BY <1>0, <1>5, <2>2 DEF AdmittedDuring
    <3>2. IsFiniteSet(old)
      <4>1. IsFiniteSet(Since(s, first))
        BY <1>5 DEF BurstKept
      <4>2. old \subseteq Since(s, first)
        BY <1>5 DEF AdmittedDuring, Since, TypeOK
      <4> QED BY <4>1, <4>2, FS_Subset
    <3>3. old # {} => k * Thousandths * W <= Supply(limit, length - 1)
      BY <1>5 DEF BurstKept
    <3>4. n \in Nat /\ k \in Nat /\ n <= k /\ old # {}
      <4>1. old # {}
        BY <1>5, <3>1
      <4> HIDE DEF new, old
      <4>2. IsFiniteSet(new) /\ n <= k
        BY <3>1, <3>2, FS_Subset
      <4> QED BY <3>2, <4>1, <4>2, FS_CardinalityType
    <3> DEFINE x == n * Thousandths  y == k * Thousandths
    <3>5. x \in Int /\ y \in Int /\ x <= y
      <4> HIDE DEF n, k
      <4> QED BY <3>4 DEF Thousandths
    <3>6. y * W <= Supply(limit, length - 1)
      BY <3>3, <3>4
    <3> HIDE DEF x, y, W, limit
    <3>7. x * W <= y * W /\ x * W \in Int /\ y * W \in Int
      BY <1>0, <3>5, Scale
    <3>8. x * W <= Supply(limit, length - 1)
      BY <2>1, <3>6, <3>7
    <3> QED BY <3>8 DEF x
  <2>3. CASE ~(first + length - 1 < now)
    <3> DEFINE all == Since(s, first)'  k == Cardinality(all)
    <3>1. new \subseteq all
      BY <1>3, <1>5 DEF AdmittedDuring, Since
    <3>2. all # {} /\ IsFiniteSet(all)
          /\ (k * Thousandths + after.available) * W <= Supply(limit, now - first)
      BY <1>4, <1>5, <3>1
    <3>3. n \in Nat /\ k \in Nat /\ n <= k
      <4> HIDE DEF new, all
      <4>2. IsFiniteSet(new) /\ n <= k
        BY <3>1, <3>2, FS_Subset
      <4> QED BY <3>2, <4>2, FS_CardinalityType
    <3>4. Supply(limit, now - first) <= Supply(limit, length - 1)
          /\ Supply(limit, now - first) \in Int
      <4>1. now - first \in Int /\ length - 1 \in Int /\ now - first <= length - 1
        BY <1>0, <1>5, <2>3
      <4> QED BY <4>1, SupplyGrows
    <3> DEFINE x == n * Thousandths  y == k * Thousandths + after.available
    <3>5. x \in Int /\ y \in Int /\ x <= y
      <4> HIDE DEF n, k, after
      <4> QED BY <1>2, <3>3 DEF Thousandths
    <3>6. y * W <= Supply(limit, now - first)
      BY <3>2
    <3> HIDE DEF x, y, W, limit
    <3>7. x * W <= y * W /\ x * W \in Int /\ y * W \in Int
      BY <1>0, <3>5, Scale
    <3>8. x * W <= Supply(limit, length - 1)
      BY <2>1, <3>4, <3>6, <3>7
    <3> QED BY <3>8 DEF x
  <2> QED BY <2>2, <2>3
<1> HIDE DEF W, limit
<1>6. \A d \in Calls : calls'[d].scope = s => calls'[d].at <= after.refilled_at
  BY <1>2, <1>3
<1>7. \A first \in Nat :
          /\ IsFiniteSet(Since(s, first)')
          /\ Since(s, first)' # {} =>
                 (Cardinality(Since(s, first)') * Thousandths + after.available) * W
                     <= Supply(limit, after.refilled_at - first)
  <2> HIDE DEF after
  <2> QED BY <1>2, <1>4
<1>8. ledgers'[s].requests = after
  OBVIOUS
<1> HIDE DEF after
<1> QED
  BY <1>5, <1>6, <1>7, <1>8 DEF BurstKept, limit, W

(* Every step keeps the account of a scope.                                *)
LEMMA BurstStep ==
    ASSUME TypeOK, AllDated, NEW s \in Scopes, Enforced(Settings[s].requests), BurstKept(s),
           [Next]_vars
    PROVE  BurstKept(s)'
<1>0. /\ LedgerType(ledgers[s]) /\ LedgerType(Inspected(s))
      /\ Inspected(s).requests = ledgers[s].requests
  <2>1. LedgerType(ledgers[s]) /\ LedgerType(Inspected(s))
    BY InspectedOK, LedgerOKMeans DEF TypeOK
  <2> QED
    BY <2>1, ReleaseKeepsBuckets DEF Inspected
<1>1. ASSUME NEW c \in Calls, NEW tokens \in TokenRequests, NEW candidates \in SUBSET Scopes,
             Reserve(c, tokens, candidates)
      PROVE  BurstKept(s)'
  <2>1. PICK w \in candidates, r \in Nat :
          /\ QuoteNow(w, tokens).allowed
          /\ ledgers' = [t \in Scopes |->
                 IF t = w THEN Reserved(Inspected(w), c, tokens, Settings[w], now)
                 ELSE IF t \in candidates THEN Inspected(t) ELSE ledgers[t]]
          /\ calls' = [calls EXCEPT ![c] = [phase |-> "inflight", scope |-> w,
                                            tokens |-> tokens, at |-> now, rank |-> r]]
    BY <1>1, ReserveStep
  <2>2. /\ calls'[c].scope = w /\ calls'[c].at = now
        /\ \A d \in Calls \ {c} : calls'[d] = calls[d]
    BY <2>1 DEF TypeOK
  <2>3. CASE w = s
    <3>1. ledgers'[s] = Reserved(Inspected(s), c, tokens, Settings[s], now)
          /\ QuoteNow(s, tokens).allowed
      BY <2>1, <2>3
    <3> QED
      BY <2>2, <2>3, <3>1, OneAdded
  <2>4. CASE w # s
    <3>1. ledgers'[s].requests = ledgers[s].requests
      BY <1>0, <2>1, <2>4
    <3>2. \A d \in Calls : calls'[d].scope = s =>
              calls[d].scope = s /\ calls'[d].at = calls[d].at
      BY <2>2, <2>4
    <3> QED
      BY <3>1, <3>2, NoneAdded
  <2> QED
    BY <2>3, <2>4
<1>2. ASSUME NEW c \in Calls, NEW tokens \in TokenRequests, NEW candidates \in SUBSET Scopes,
             Deny(c, tokens, candidates)
      PROVE  BurstKept(s)'
  <2>1. UNCHANGED calls /\ ledgers'[s] \in {ledgers[s], Inspected(s)}
    BY <1>2 DEF Deny, AfterInspection
  <2>2. ledgers'[s].requests = ledgers[s].requests
    BY <1>0, <2>1
  <2> QED
    BY <2>1, <2>2, NoneAdded
<1>3. ASSUME NEW c \in Calls, UNCHANGED ledgers,
             calls' = [calls EXCEPT ![c] = [calls[c] EXCEPT !.phase = "ended"]]
      PROVE  BurstKept(s)'
  <2>1. \A d \in Calls : calls'[d].scope = calls[d].scope /\ calls'[d].at = calls[d].at
    BY <1>3 DEF TypeOK
  <2> QED
    BY <1>3, <2>1, NoneAdded
<1>4. ASSUME NEW m \in outbox, recordProviderOutcome(m.call, m.outcome)
      PROVE  BurstKept(s)'
  <2> DEFINE after == Settled(ledgers[s], m.call, m.outcome, Settings[s], now)
  <2>1. UNCHANGED calls /\ ledgers'[s] \in {ledgers[s], after}
    BY <1>4 DEF recordProviderOutcome, TypeOK
  <2>2. after.requests = ledgers[s].requests
    BY <1>0, SettleKeepsBuckets
  <2> HIDE DEF after
  <2>3. ledgers'[s].requests = ledgers[s].requests
    BY <2>1, <2>2
  <2> QED
    BY <2>1, <2>3, NoneAdded
<1>5. CASE UNCHANGED <<ledgers, calls>>
  BY <1>5, NoneAdded
<1> QED
  BY <1>1, <1>2, <1>3, <1>4, <1>5 DEF Next, planAndReserve, Finalize, Crash, Tick, vars

(* Nothing is admitted to begin with.                                      *)
LEMMA BurstInit ==
    ASSUME Init, NEW s \in Scopes
    PROVE  BurstKept(s)
<1>1. \A c \in Calls : calls[c].scope # s
  BY DEF Init, IdleCall
<1>2. \A first : Since(s, first) = {}
  BY <1>1 DEF Since
<1>3. \A first, length : AdmittedDuring(s, first, length) = {}
  BY <1>1 DEF AdmittedDuring
<1> QED
  BY <1>1, <1>2, <1>3, FS_EmptySet DEF BurstKept

(* A window's worth of the supply is less than twice the limit.            *)
LEMMA WindowWithinTwice ==
    ASSUME NEW n \in Nat, NEW most \in Nat \ {0}, NEW W \in Nat \ {0},
           LET full == most * Thousandths IN
               n * Thousandths * W <= full * W + (W - 1) * full
    PROVE  n < 2 * most
<1> DEFINE full == most * Thousandths  x == n * Thousandths  y == 2 * full
<1>1. full \in Nat \ {0} /\ x \in Nat /\ y \in Nat
  BY DEF Thousandths
<1>2. x * W <= full * W + (W - 1) * full
  OBVIOUS
<1>3. x < y
  <2>1. SUFFICES ASSUME y <= x PROVE FALSE
    <3> HIDE DEF x, y
    <3> QED BY <1>1
  <2>2. y * W <= x * W
    <3> HIDE DEF x, y
    <3> QED BY <1>1, <2>1, Scale
  <2> HIDE DEF full, x
  <2>3. y * W = full * W + full * W
    BY <1>1
  <2>4. (W - 1) * full = full * W - full
    BY <1>1
  <2>5. full * W \in Int /\ x * W \in Int
    BY <1>1
  <2> HIDE DEF y
  <2> QED BY <1>1, <1>2, <2>2, <2>3, <2>4, <2>5
<1> QED
  BY <1>3 DEF Thousandths

(* Any window of windowMs admits fewer requests than twice the limit.      *)
THEOREM BurstsBounded == Spec => []BurstWithinTwiceLimit
<1> DEFINE Kept == \A s \in Scopes : Enforced(Settings[s].requests) => BurstKept(s)
<1>1. Init => Kept
  BY BurstInit
<1>2. TypeOK /\ AllDated /\ Kept /\ [Next]_vars => Kept'
  <2> SUFFICES ASSUME TypeOK, AllDated, Kept, [Next]_vars,
                      NEW s \in Scopes, Enforced(Settings[s].requests)
               PROVE  BurstKept(s)'
    OBVIOUS
  <2> QED
    BY BurstStep
<1>3. TypeOK /\ Kept => BurstWithinTwiceLimit
  <2> SUFFICES ASSUME TypeOK, Kept, NEW s \in Scopes, Enforced(Settings[s].requests),
                      NEW first \in StartTime .. now
               PROVE  LET limit == Settings[s].requests IN
                      Cardinality(AdmittedDuring(s, first, limit.windowMs)) < 2 * limit.limit
    BY DEF BurstWithinTwiceLimit
  <2> DEFINE limit == Settings[s].requests  W == limit.windowMs
             admitted == AdmittedDuring(s, first, W)
             n == Cardinality(admitted)
  <2>1. first \in Nat /\ now \in Nat /\ W \in Nat \ {0} /\ limit.limit \in Nat \ {0}
    BY DEF TypeOK, Enforced
  <2>2. BurstKept(s)
    OBVIOUS
  <2>3. CASE admitted = {}
    <3>1. n = 0
      BY <2>3, FS_EmptySet
    <3> HIDE DEF n, admitted
    <3>2. n < 2 * limit.limit
      BY <2>1, <3>1
    <3> QED BY <3>2 DEF n, admitted
  <2>4. CASE admitted # {}
    <3>1. n * Thousandths * W <= Supply(limit, W - 1)
      BY <2>1, <2>2, <2>4 DEF BurstKept
    <3>2. IsFiniteSet(Since(s, first))
      BY <2>1, <2>2 DEF BurstKept
    <3>3. admitted \subseteq Since(s, first)
      BY <2>1 DEF AdmittedDuring, Since, TypeOK
    <3>4. n \in Nat
      BY <3>2, <3>3, FS_Subset, FS_CardinalityType
    <3>5. n * Thousandths * W <= limit.limit * Thousandths * W + (W - 1) * (limit.limit * Thousandths)
      BY <3>1 DEF Supply
    <3> HIDE DEF n, W, limit, admitted
    <3>6. n < 2 * limit.limit
      BY <2>1, <3>4, <3>5, WindowWithinTwice
    <3> QED BY <3>6 DEF n, W, limit, admitted
  <2> QED BY <2>3, <2>4
<1> HIDE DEF Kept
<1> QED
  BY <1>1, <1>2, <1>3, TypeCorrect, LedgersAreDated, PTL DEF Spec

-----------------------------------------------------------------------------
(* The credential is left alone as long as delivered outcomes asked for.   *)

(* What a replica learns from, and that it is heard of in time.            *)
Lessons == {outcome \in Outcomes : outcome.learning}
LessonsArriveInTime == ArriveInTime(Lessons)

(* The history variable watches and restricts nothing.                     *)
LEMMA HistoryWatches == HistorySpec => Spec
<1>1. HistoryInit => Init
  BY DEF HistoryInit
<1>2. [HistoryNext]_<<vars, quietUntil>> => [Next]_vars
  BY DEF HistoryNext
<1> QED
  BY <1>1, <1>2, PTL DEF HistorySpec, Spec

(* As long as they arrive in time, every lesson finds its row.             *)
LEMMA LessonsAwaited == Spec /\ []LessonsArriveInTime => []RowsAwait(Lessons)
<1>1. Init => RowsAwait(Lessons)
  BY DEF Init, IdleCall, Awaited, RowsAwait
<1>2. TypeOK /\ OutboxOK /\ RowsMatchCalls /\ LessonsArriveInTime /\ RowsAwait(Lessons)
        /\ [Next]_vars => RowsAwait(Lessons)'
  <2> SUFFICES ASSUME TypeOK, OutboxOK, RowsMatchCalls, LessonsArriveInTime,
                      RowsAwait(Lessons), [Next]_vars
               PROVE  RowsAwait(Lessons)'
    OBVIOUS
  <2>1. CASE \E m \in outbox : recordProviderOutcome(m.call, m.outcome)
    <3>1. PICK m \in outbox : recordProviderOutcome(m.call, m.outcome)
      BY <2>1
    <3>2. \A outcome \in Lessons : outcome.learning
      BY DEF Lessons
    <3> QED
      BY <3>1, <3>2, DeliveryUnderway DEF RowsAwait, Lessons
  <2>2. CASE ~ \E m \in outbox : recordProviderOutcome(m.call, m.outcome)
    BY <2>2, UnderwayStep DEF RowsAwait, LessonsArriveInTime, Lessons
  <2> QED
    BY <2>1, <2>2
<1> QED
  BY <1>1, <1>2, TypeCorrect, OutboxIsOK, RowsMatch, PTL DEF Spec

(* No credential is asked to stay quiet beyond its cooldown.               *)
QuietIsCooldown ==
    /\ quietUntil \in [Scopes -> Nat]
    /\ \A s \in Scopes : quietUntil[s] <= ledgers[s].cooldown_until

(* The later of two times, or the only one.                                *)
LEMMA LatestOf ==
    ASSUME NEW b \in Nat, NEW q \in Nat, NEW B \in SUBSET {b}
    PROVE  /\ Max(B \cup {q}) \in Nat
           /\ Max(B \cup {q}) = q \/ (B = {b} /\ Max(B \cup {q}) = b)
<1> DEFINE S == B \cup {q}
<1>1. \E x \in S : \A y \in S : x >= y
  <2>1. CASE B = {} \/ b <= q
    BY <2>1
  <2>2. CASE B = {b} /\ q <= b
    BY <2>2
  <2> QED
    BY <2>1, <2>2
<1>2. Max(S) \in S
  BY <1>1 DEF Max
<1> DEFINE latest == Max(S)
<1>3. latest \in B \cup {q} /\ (B = {} \/ B = {b})
  BY <1>2
<1> HIDE DEF latest
<1>4. latest \in Nat /\ (latest = q \/ (B = {b} /\ latest = b))
  BY <1>3
<1> QED
  BY <1>4 DEF latest

(* Every step keeps it so: an outcome that asks for quiet finds its row,   *)
(* and sets the cooldown.                                                  *)
LEMMA QuietStep ==
    ASSUME TypeOK, TypeOK', OutboxOK, RowsAwait(Lessons), QuietIsCooldown,
           [HistoryNext]_<<vars, quietUntil>>
    PROVE  QuietIsCooldown'
<1> SUFFICES ASSUME HistoryNext PROVE QuietIsCooldown'
  BY DEF QuietIsCooldown, vars
<1>1. ASSUME NEW s \in Scopes
      PROVE  /\ quietUntil[s] \in Nat /\ quietUntil[s] <= ledgers[s].cooldown_until
             /\ ledgers[s].cooldown_until \in Nat /\ ledgers'[s].cooldown_until \in Nat
             /\ ledgers[s].cooldown_until <= ledgers'[s].cooldown_until
             /\ quietUntil[s] <= ledgers'[s].cooldown_until
  <2>1. quietUntil[s] \in Nat /\ quietUntil[s] <= ledgers[s].cooldown_until
    BY DEF QuietIsCooldown
  <2>2. ledgers[s].cooldown_until \in Nat /\ ledgers'[s].cooldown_until \in Nat
    BY DEF TypeOK, LedgerOK
  <2>3. ledgers'[s].cooldown_until >= ledgers[s].cooldown_until
    BY CooldownStep DEF HistoryNext
  <2> QED
    BY <2>1, <2>2, <2>3
<1>2. ASSUME NEW s \in Scopes
      PROVE  /\ Max(NewBackoffs(s) \cup {quietUntil[s]}) \in Nat
             /\ Max(NewBackoffs(s) \cup {quietUntil[s]}) <= ledgers'[s].cooldown_until
  <2> DEFINE Asking == {x \in outbox : /\ x.call \in learned' \ learned
                                       /\ calls[x.call].scope = s
                                       /\ x.outcome.cooldown /\ ~x.outcome.quotaSuccess}
  <2>1. CASE Asking = {}
    <3>1. NewBackoffs(s) = {}
      BY <2>1 DEF NewBackoffs
    <3> DEFINE none == NewBackoffs(s)  q == quietUntil[s]
    <3>2. none \in SUBSET {0} /\ none # {0} /\ 0 \in Nat /\ q \in Nat
      BY <1>1, <3>1
    <3> HIDE DEF none, q
    <3>3. Max(none \cup {q}) = q
      BY <3>2, LatestOf
    <3> QED
      BY <1>1, <3>3 DEF none, q
  <2>2. CASE Asking # {}
    <3>1. PICK x \in Asking : TRUE
      BY <2>2
    <3>2. PICK m \in outbox : recordProviderOutcome(m.call, m.outcome)
      BY <3>1 DEF HistoryNext, Next, planAndReserve, Reserve, Deny, Finalize, Crash, Tick
    <3>3. m.call \in Calls /\ m.outcome \in Outcomes /\ now \in Nat
      BY DEF TypeOK
    <3>4. /\ learned' = IF m.outcome.learning THEN learned \cup {m.call} ELSE learned
          /\ ledgers' = [ledgers EXCEPT ![calls[m.call].scope]
                            = Settled(@, m.call, m.outcome, Settings[calls[m.call].scope], now)]
      BY <3>2 DEF recordProviderOutcome, recordLearningOutcome
    <3>5. /\ x.call = m.call /\ m.outcome.learning /\ m.call \notin learned
          /\ Asking \subseteq {m}
      BY <3>1, <3>4 DEF OutboxOK
    <3>6. /\ calls[m.call].scope = s /\ m.outcome.cooldown /\ ~m.outcome.quotaSuccess
          /\ Asking = {m}
      BY <3>1, <3>5
    <3>7. m.call \in DOMAIN ledgers[s].rows
      BY <3>3, <3>5, <3>6 DEF RowsAwait, Awaited, Lessons
    <3> DEFINE asked == Backoff(m.outcome, Settings[s], now)
               after == Settled(ledgers[s], m.call, m.outcome, Settings[s], now)
    <3>8. NewBackoffs(s) = {asked}
      BY <3>6 DEF NewBackoffs
    <3>9. asked \in Nat
      <4>1. OutcomeType(m.outcome)
        BY <3>3, ConstantTypes
      <4> QED
        BY <3>3, <4>1 DEF Backoff, Undefined, OutcomeType
    <3>10. after.cooldown_until = MaxOf(ledgers[s].cooldown_until, asked)
      <4>1. LedgerType(ledgers[s]) /\ SettingsType(Settings[s]) /\ OutcomeType(m.outcome)
        BY <3>3, LedgerOKMeans, ConstantTypes DEF TypeOK
      <4> QED
        BY <3>6, <3>7, <4>1 DEF Settled, CooldownAfter, LedgerType
    <3>11. ledgers'[s] = after
      BY <3>4, <3>6 DEF TypeOK
    <3> HIDE DEF asked, after, Asking
    <3>12. asked <= ledgers'[s].cooldown_until
      BY <1>1, <3>9, <3>10, <3>11 DEF MaxOf
    <3>13. NewBackoffs(s) \in SUBSET {asked}
      BY <3>8
    <3>14. /\ Max(NewBackoffs(s) \cup {quietUntil[s]}) \in Nat
           /\ Max(NewBackoffs(s) \cup {quietUntil[s]}) \in {quietUntil[s], asked}
      BY <1>1, <3>9, <3>13, LatestOf
    <3> QED
      BY <1>1, <3>12, <3>14
  <2> QED
    BY <2>1, <2>2
<1>3. quietUntil' = [s \in Scopes |-> Max(NewBackoffs(s) \cup {quietUntil[s]})]
  BY DEF HistoryNext
<1> QED
  BY <1>2, <1>3 DEF QuietIsCooldown

(* While a delivered 429 or 5xx asks a credential to stay quiet, nothing   *)
(* is admitted on it, if every attempt ends and its outcome is delivered   *)
(* before its reservation expires.                                         *)
THEOREM CooldownsAreHonoured == HistorySpec /\ []LessonsArriveInTime => CooldownHonoured
<1>1. HistoryInit => QuietIsCooldown
  BY DEF HistoryInit, Init, EmptyLedger, QuietIsCooldown
<1>2. TypeOK /\ TypeOK' /\ OutboxOK /\ RowsAwait(Lessons) /\ QuietIsCooldown
        /\ [HistoryNext]_<<vars, quietUntil>> => QuietIsCooldown'
  BY QuietStep
<1>3. TypeOK /\ QuietIsCooldown /\ [HistoryNext]_<<vars, quietUntil>>
        => [\A c \in Calls :
               calls[c].phase = "idle" /\ calls'[c].phase = "inflight"
                   => quietUntil[calls'[c].scope] <= now]_<<vars, quietUntil>>
  <2> SUFFICES ASSUME TypeOK, QuietIsCooldown, HistoryNext, NEW c \in Calls,
                      calls[c].phase = "idle", calls'[c].phase = "inflight"
               PROVE  quietUntil[calls'[c].scope] <= now
    BY DEF HistoryNext
  <2>1. PICK d \in Calls, tokens \in TokenRequests, candidates \in (SUBSET Scopes) \ {{}} :
          Reserve(d, tokens, candidates)
    <3>1. \A d \in Calls : calls' # [calls EXCEPT ![d] = [calls[d] EXCEPT !.phase = "ended"]]
      BY DEF TypeOK
    <3>2. calls' # calls
      OBVIOUS
    <3> QED
      BY <3>1, <3>2 DEF HistoryNext, Next, planAndReserve, Deny, Finalize, Crash,
                        recordProviderOutcome, Tick
  <2>2. PICK w \in candidates, r \in Nat :
          /\ QuoteNow(w, tokens).allowed
          /\ calls' = [calls EXCEPT ![d] = [phase |-> "inflight", scope |-> w,
                                            tokens |-> tokens, at |-> now, rank |-> r]]
    BY <2>1, ReserveStep
  <2>3. w \in Scopes /\ calls'[c].scope = w
    BY <2>1, <2>2 DEF TypeOK
  <2>4. ~(ledgers[w].cooldown_until > now)
    <3>1. ~(Inspected(w).cooldown_until > now)
      BY <2>2 DEF QuoteNow, Quote, CoolingDown, denied
    <3> QED
      BY <2>3, <3>1, InspectedOK
  <2>5. /\ quietUntil[w] <= ledgers[w].cooldown_until /\ quietUntil[w] \in Nat
        /\ ledgers[w].cooldown_until \in Nat /\ now \in Nat
    BY <2>3 DEF QuietIsCooldown, TypeOK, LedgerOK
  <2> QED
    BY <2>3, <2>4, <2>5
<1> QED
  BY <1>1, <1>2, <1>3, HistoryWatches, LessonsAwaited, TypeCorrect, OutboxIsOK, PTL
     DEF HistorySpec, CooldownHonoured
=============================================================================
