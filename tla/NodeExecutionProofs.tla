------------------------ MODULE NodeExecutionProofs ------------------------
(***************************************************************************)
(* Theorems about the Node runtime, for any number of requests, accounts   *)
(* and candidates: what a request that ended has left behind, the          *)
(* concurrency ceiling as the upstream sees it, the daily budget, and that *)
(* the caller's books agree with the providers'.                           *)
(***************************************************************************)
EXTENDS NodeExecution, QuotaRulesProofs, SequenceTheorems

USE DayLengthAssumption, NodeAssumption, NodeSettingsAssumption

-----------------------------------------------------------------------------
(* Types.                                                                  *)

Phases == {"new", "inspect", "caller", "reserve", "invoke", "stream", "closing",
           "ended", "failed"}

Candidates == 1 .. Len(ByScarcity)

(* The local variables of a call of executeLocalGeneration: the caller's   *)
(* reservation is taken before the first provider's, and only what is      *)
(* being closed was served.                                                *)
RequestType(q) ==
    /\ DOMAIN q = {"phase", "order", "at", "tokens", "callerHeld", "since", "deadline",
                   "served", "actualTokens"}
    /\ q.phase \in Phases
    /\ q.callerHeld \in BOOLEAN /\ q.served \in BOOLEAN /\ q.at \in Candidates
    /\ q.phase \in Working => /\ q.order \in Seq(Scopes) /\ Len(q.order) = Len(ByScarcity)
                              /\ q.tokens \in TokenRequests
    /\ q.phase \in {"new", "caller", "ended", "failed"} => ~q.callerHeld
    /\ q.phase \in {"reserve", "invoke", "stream"} => q.callerHeld
    /\ q.phase \in {"invoke", "stream"} => q.since \in Nat /\ q.deadline \in Nat
    /\ q.phase \notin {"invoke", "stream"} => q.deadline = Undefined
    /\ q.phase = "stream" => Streaming # {}
    /\ q.served => q.phase = "closing" /\ q.callerHeld /\ q.actualTokens \in UsageReports

NodeTypeOK ==
    /\ now \in Nat
    /\ DOMAIN stores = Scopes /\ \A s \in Scopes : LedgerType(stores[s])
    /\ LedgerType(callerStore)
    /\ DOMAIN requests = Requests /\ \A r \in Requests : RequestType(requests[r])

-----------------------------------------------------------------------------
(* Who holds which row.                                                    *)

(* A provider's row is that of the call being made, or was left behind by  *)
(* a request whose transaction failed.                                     *)
HeldBy(r, n, s) ==
    \/ requests[r].phase = "failed"
    \/ /\ requests[r].phase \in {"invoke", "stream"}
       /\ requests[r].at = n /\ Selection(r) = s
       /\ stores[s].rows[<<r, n>>].tokens = requests[r].tokens
       /\ stores[s].rows[<<r, n>>].created_at = requests[r].since

RowsAreHeld ==
    \A s \in Scopes : \A id \in DOMAIN stores[s].rows :
        \E r \in Requests, n \in Candidates : id = <<r, n>> /\ HeldBy(r, n, s)

CallerRowsAreHeld ==
    \A r \in DOMAIN callerStore.rows :
        /\ r \in Requests
        /\ \/ requests[r].phase = "failed"
           \/ requests[r].callerHeld /\ callerStore.rows[r].tokens = requests[r].tokens

-----------------------------------------------------------------------------
(* The row of a call outlives the call.                                    *)

(* The timers keep the deadlines inside the reservations: the deadline of  *)
(* a call leaves Margin, which covers the timer, and a stream falls silent *)
(* before its reservation expires.                                         *)
DeadlinesFit ==
    \A s \in Scopes :
        /\ TimerLag <= Margin /\ Margin + TimerLag <= Settings[s].reservationTtlMs
        /\ Streaming # {} => MaxStreamTime[s] + TimerLag <= Settings[s].reservationTtlMs

CallInTime(r) ==
    requests[r].phase \in {"invoke", "stream"} =>
        /\ Row(r) \in DOMAIN stores[Selection(r)].rows
        /\ now <= requests[r].deadline + TimerLag
        /\ requests[r].deadline + TimerLag
             <= requests[r].since + Settings[Selection(r)].reservationTtlMs

NodeCeiling ==
    \A s \in Scopes :
        Settings[s].maxConcurrent > 0 => reservationCount(stores[s]) <= Settings[s].maxConcurrent

-----------------------------------------------------------------------------
(* The daily budget.                                                       *)

UsageWithinReservation ==
    \A actualTokens \in UsageReports, tokens \in TokenRequests : actualTokens <= tokens

-----------------------------------------------------------------------------
(* Both sides of the books.                                                *)

(* The caller's reservation is still there when it is settled.             *)
CallerRowsLive ==
    \A r \in Requests : requests[r].phase = "closing" /\ requests[r].callerHeld
                            => r \in DOMAIN callerStore.rows

Owing == {r \in Requests : requests[r].served}
CallerCharge(r) == ChargedTokens(CallerOutcome(r), requests[r].tokens)
Owed == SumFunctionOnSet([r \in Requests |-> CallerCharge(r)], Owing)
ProvidersSpent == SumFunctionOnSet([s \in Scopes |-> TotalSpent(stores[s])], Scopes)

(* What the providers charged is what the caller was charged and will be.  *)
BooksAgree ==
    (\A r \in Requests : requests[r].phase # "failed") =>
        TotalSpent(callerStore) + Owed = ProvidersSpent

-----------------------------------------------------------------------------
(* The kinds of step.                                                      *)

(* One request moves on to well-formed values, the others stay.            *)
Moves(r) ==
    /\ DOMAIN requests' = Requests
    /\ \A q \in Requests \ {r} : requests'[q] = requests[q]
    /\ RequestType(requests'[r])

KeepsCaller(r) ==
    /\ requests'[r].callerHeld = requests[r].callerHeld
    /\ requests'[r].tokens = requests[r].tokens

KeepsPlace(r) ==
    requests'[r].order = requests[r].order /\ requests'[r].at = requests[r].at

LedgerOf(s, ledger) == stores' = [stores EXCEPT ![s] = ledger]

Begins(r) ==
    /\ At(r, "new") /\ Moves(r) /\ requests'[r].phase = "inspect"
    /\ ~requests'[r].callerHeld /\ ~requests'[r].served
    /\ UNCHANGED <<now, stores, callerStore>>

(* The candidate is looked at, and taken or passed over.                   *)
Looks(r) ==
    /\ requests[r].phase \in {"inspect", "reserve"} /\ Moves(r) /\ KeepsCaller(r)
    /\ requests'[r].phase \in {"inspect", "caller", "reserve", "closing"}
    /\ ~requests'[r].served
    /\ LedgerOf(Selection(r), Pruned(stores[Selection(r)], Settings[Selection(r)], now))
    /\ UNCHANGED <<now, callerStore>>

HoldsCaller(r) ==
    /\ At(r, "caller") /\ Moves(r) /\ requests'[r].phase = "reserve"
    /\ requests'[r].callerHeld /\ requests'[r].tokens = requests[r].tokens
    /\ ~requests'[r].served
    /\ callerStore' = Reserved(Pruned(callerStore, CallerSettings, now), r,
                               requests[r].tokens, CallerSettings, now)
    /\ UNCHANGED <<now, stores>>

CallerRefused(r) ==
    /\ At(r, "caller") /\ Moves(r) /\ requests'[r].phase = "ended" /\ ~requests'[r].served
    /\ callerStore' = Pruned(callerStore, CallerSettings, now)
    /\ UNCHANGED <<now, stores>>

HoldsProvider(r) ==
    LET s == Selection(r) IN
    /\ At(r, "reserve") /\ Moves(r) /\ KeepsCaller(r) /\ KeepsPlace(r)
    /\ requests'[r].phase = "invoke" /\ ~requests'[r].served
    /\ requests'[r].since = now /\ requests'[r].deadline = now + deadlineMs(s)
    /\ admission(stores[s], requests[r].tokens, Settings[s], now)
    /\ LedgerOf(s, Reserved(Pruned(stores[s], Settings[s], now), Row(r), requests[r].tokens,
                            Settings[s], now))
    /\ UNCHANGED <<now, callerStore>>

(* The call is over, whatever it brought.                                  *)
Settles(r) ==
    LET s == Selection(r) IN
    /\ requests[r].phase \in {"invoke", "stream"} /\ Moves(r) /\ KeepsCaller(r)
    /\ requests'[r].phase \in {"inspect", "closing"}
    /\ \E outcome :
           /\ OutcomeType(outcome)
           /\ requests'[r].served = outcome.quotaSuccess
           /\ outcome.quotaSuccess =>
                  /\ outcome = Success(requests'[r].actualTokens)
                  /\ requests'[r].actualTokens \in UsageReports
           /\ ~outcome.quotaSuccess => outcome.actualTokens = Undefined
           /\ LedgerOf(s, Settled(stores[s], Row(r), outcome, Settings[s], now))
    /\ UNCHANGED <<now, callerStore>>

Streams(r) ==
    /\ requests[r].phase \in {"invoke", "stream"} /\ Moves(r) /\ KeepsCaller(r)
    /\ KeepsPlace(r) /\ requests'[r].phase = "stream" /\ ~requests'[r].served
    /\ requests'[r].since = requests[r].since
    /\ requests'[r].deadline = now + deadlineMs(Selection(r)) /\ StillTalking(r)
    /\ UNCHANGED <<now, stores, callerStore>>

Closes(r) ==
    /\ At(r, "closing") /\ Moves(r) /\ requests'[r].phase = "ended" /\ ~requests'[r].served
    /\ callerStore' = IF requests[r].callerHeld
                      THEN Settled(callerStore, r, CallerOutcome(r), CallerSettings, now)
                      ELSE callerStore
    /\ UNCHANGED <<now, stores>>

Fails(r) ==
    /\ requests[r].phase \in Working /\ Moves(r) /\ requests'[r].phase = "failed"
    /\ ~requests'[r].served
    /\ UNCHANGED <<now, stores, callerStore>>

NodeStepKind(r) ==
    \/ Begins(r) \/ Looks(r) \/ HoldsCaller(r) \/ CallerRefused(r) \/ HoldsProvider(r)
    \/ Settles(r) \/ Streams(r) \/ Closes(r) \/ Fails(r)

(* Moving the affinity account forward leaves a list of candidates.        *)
LEMMA OrderedType ==
    ASSUME NEW sticky
    PROVE  Ordered(sticky) \in Seq(Scopes) /\ Len(Ordered(sticky)) = Len(ByScarcity)
<1>1. /\ ByScarcity \in Seq(Scopes) /\ Len(ByScarcity) \in Nat
      /\ DOMAIN ByScarcity = 1 .. Len(ByScarcity)
      /\ \A i \in 1 .. Len(ByScarcity) : ByScarcity[i] \in Scopes
  OBVIOUS
<1>2. sticky \in Range(ByScarcity) => sticky \in Scopes
  BY <1>1 DEF Range
<1>3. ASSUME NEW i \in 1 .. Len(ByScarcity) PROVE Ordered(sticky)[i] \in Scopes
  <2> DEFINE first == CHOOSE j \in DOMAIN ByScarcity : ByScarcity[j] = sticky
  <2>1. Ordered(sticky)[i] = IF sticky \notin Range(ByScarcity) \/ i > first THEN ByScarcity[i]
                             ELSE IF i = 1 THEN sticky ELSE ByScarcity[i - 1]
    BY <1>1 DEF Ordered
  <2>2. i # 1 => i - 1 \in 1 .. Len(ByScarcity)
    BY <1>1
  <2> HIDE DEF first
  <2> QED
    BY <1>1, <1>2, <2>1, <2>2
<1>4. DOMAIN Ordered(sticky) = 1 .. Len(ByScarcity)
  BY <1>1 DEF Ordered
<1>5. Ordered(sticky) = [i \in 1 .. Len(ByScarcity) |-> Ordered(sticky)[i]]
  BY <1>1 DEF Ordered
<1> QED
  BY <1>1, <1>3, <1>4, <1>5, SeqDef

(* A request that is at work has a candidate.                              *)
LEMMA SelectionType ==
    ASSUME NodeTypeOK, NEW r \in Requests, requests[r].phase \in Working
    PROVE  /\ Selection(r) \in Scopes
           /\ SettingsType(Settings[Selection(r)]) /\ SettingsType(CallerSettings)
           /\ requests[r].at \in Candidates
           /\ requests[r].tokens \in Nat /\ requests[r].tokens \in TokenRequests
<1>1. /\ requests[r].order \in Seq(Scopes) /\ Len(requests[r].order) = Len(ByScarcity)
      /\ requests[r].at \in Candidates /\ requests[r].tokens \in TokenRequests
  BY DEF NodeTypeOK, RequestType
<1>2. Selection(r) \in Scopes
  BY <1>1, ElementOfSeq DEF Selection, Candidates
<1>3. SettingsType(Settings[Selection(r)]) /\ SettingsType(CallerSettings)
  BY <1>2 DEF SettingsType
<1> QED
  BY <1>1, <1>2, <1>3

(* Every rate limit a scope or the caller has is well formed.              *)
LEMMA AllSettingsTyped ==
    /\ \A s \in Scopes : SettingsType(Settings[s])
    /\ SettingsType(CallerSettings)
BY DEF SettingsType

(* A deadline is a number of seconds.                                      *)
LEMMA DeadlineType ==
    ASSUME NEW s \in Scopes
    PROVE  deadlineMs(s) \in Nat \ {0}
<1>1. Settings[s].reservationTtlMs \in Nat
  BY AllSettingsTyped DEF SettingsType
<1> QED
  BY <1>1 DEF deadlineMs, MaxOf, MinOf

(* Assignments to the fields of one request.                               *)
LEMMA MovingOn ==
    ASSUME NodeTypeOK, NEW r \in Requests, NEW q, RequestType(q),
           requests' = [requests EXCEPT ![r] = q]
    PROVE  Moves(r) /\ requests'[r] = q
BY DEF NodeTypeOK, Moves

(* There is a first candidate.                                             *)
LEMMA SomeCandidate == 1 \in Candidates
BY EmptySeq DEF Candidates

(* A request that is over is a new one but for its phase.                  *)
LEMMA Ending ==
    ASSUME NodeTypeOK, NEW r \in Requests, NEW phase \in {"ended", "failed"},
           requests' = Over(r, phase)
    PROVE  Moves(r) /\ requests'[r].phase = phase /\ ~requests'[r].served
<1> DEFINE q == [NewRequest EXCEPT !.phase = phase]
<1>1. RequestType(q) /\ q.phase = phase /\ ~q.served
  BY SomeCandidate DEF RequestType, NewRequest, Phases, Working
<1>2. requests' = [requests EXCEPT ![r] = q]
  BY DEF Over
<1> HIDE DEF q
<1> QED
  BY <1>1, <1>2, MovingOn

(* The next candidate, or the end of the list.                             *)
LEMMA MovingToNext ==
    ASSUME NodeTypeOK, NEW r \in Requests, requests[r].phase \in Working \ {"closing"},
           requests' = NextCandidate(r)
    PROVE  /\ Moves(r) /\ KeepsCaller(r) /\ ~requests'[r].served
           /\ requests'[r].phase \in {"inspect", "closing"}
<1>1. RequestType(requests[r]) /\ DOMAIN requests = Requests /\ ~requests[r].served
  BY DEF NodeTypeOK, RequestType
<1>2. CASE requests[r].at < Len(requests[r].order)
  <2> DEFINE q == [requests[r] EXCEPT !.phase = "inspect", !.at = requests[r].at + 1,
                                      !.since = 0, !.deadline = Undefined]
  <2>1. requests' = [requests EXCEPT ![r] = q]
    BY <1>1, <1>2 DEF NextCandidate
  <2>2. requests[r].at + 1 \in Candidates
    BY <1>1, <1>2 DEF RequestType, Candidates
  <2>3. /\ q.phase = "inspect" /\ q.at = requests[r].at + 1 /\ q.deadline = Undefined
        /\ q.order = requests[r].order /\ q.tokens = requests[r].tokens
        /\ q.callerHeld = requests[r].callerHeld /\ q.served = requests[r].served
        /\ DOMAIN q = DOMAIN requests[r]
    BY <1>1 DEF RequestType
  <2> HIDE DEF q
  <2>4. RequestType(q)
    BY <1>1, <2>2, <2>3 DEF RequestType, Phases, Working
  <2> QED
    BY <1>1, <2>1, <2>3, <2>4, MovingOn DEF KeepsCaller
<1>3. CASE ~(requests[r].at < Len(requests[r].order))
  <2> DEFINE q == [requests[r] EXCEPT !.phase = "closing", !.since = 0, !.deadline = Undefined]
  <2>1. requests' = [requests EXCEPT ![r] = q]
    BY <1>1, <1>3 DEF NextCandidate
  <2>3. /\ q.phase = "closing" /\ q.at = requests[r].at /\ q.deadline = Undefined
        /\ q.order = requests[r].order /\ q.tokens = requests[r].tokens
        /\ q.callerHeld = requests[r].callerHeld /\ q.served = requests[r].served
        /\ DOMAIN q = DOMAIN requests[r]
    BY <1>1 DEF RequestType
  <2> HIDE DEF q
  <2>4. RequestType(q)
    BY <1>1, <2>3 DEF RequestType, Phases, Working
  <2> QED
    BY <1>1, <2>1, <2>3, <2>4, MovingOn DEF KeepsCaller
<1> QED
  BY <1>2, <1>3

(* What the clients and the admissions do.                                 *)
LEMMA AdmissionSteps ==
    ASSUME NodeTypeOK, NEW r \in Requests
    PROVE  /\ begin(r) => Begins(r)
           /\ inspectProvider(r) => Looks(r)
           /\ reserveCaller(r) => HoldsCaller(r) \/ CallerRefused(r)
           /\ reserveProvider(r) => HoldsProvider(r) \/ Looks(r)
<1> DEFINE s == Selection(r)
<1>0. RequestType(requests[r]) /\ DOMAIN requests = Requests
  BY DEF NodeTypeOK
<1>1. ASSUME begin(r) PROVE Begins(r)
  <2>1. PICK tokens \in TokenRequests,
             sticky \in (IF r \in Sticky THEN {affinity, "none"} ELSE {"none"}) :
            requests' = [requests EXCEPT ![r].phase = "inspect", ![r].tokens = tokens,
                                         ![r].order = Ordered(sticky)]
    BY <1>1 DEF begin
  <2> DEFINE q == [requests[r] EXCEPT !.phase = "inspect", !.tokens = tokens,
                                      !.order = Ordered(sticky)]
  <2>2. requests' = [requests EXCEPT ![r] = q]
    BY <1>0, <2>1
  <2>3. /\ requests[r].phase = "new" /\ UNCHANGED <<now, stores, callerStore>>
        /\ ~requests[r].callerHeld /\ ~requests[r].served
    BY <1>0, <1>1 DEF begin, At, RequestType
  <2>4. /\ q.phase = "inspect" /\ q.at = requests[r].at /\ q.deadline = requests[r].deadline
        /\ q.order = Ordered(sticky) /\ q.tokens = tokens
        /\ q.callerHeld = requests[r].callerHeld /\ q.served = requests[r].served
        /\ DOMAIN q = DOMAIN requests[r]
    BY <1>0 DEF RequestType
  <2>5. Ordered(sticky) \in Seq(Scopes) /\ Len(Ordered(sticky)) = Len(ByScarcity)
    BY OrderedType
  <2> HIDE DEF q
  <2> HIDE NodeAssumption, NodeSettingsAssumption
  <2>6. RequestType(q)
    BY <1>0, <2>3, <2>4, <2>5 DEF RequestType, Phases, Working
  <2> QED
    BY <2>2, <2>3, <2>4, <2>6, MovingOn DEF Begins, At
<1>2. ASSUME inspectProvider(r) PROVE Looks(r)
  <2>1. /\ requests[r].phase = "inspect" /\ UNCHANGED <<now, callerStore>>
        /\ LedgerOf(s, Pruned(stores[s], Settings[s], now))
        /\ ~requests[r].served
    BY <1>0, <1>2 DEF inspectProvider, At, LedgerOf, RequestType
  <2>2. CASE admission(stores[s], requests[r].tokens, Settings[s], now)
    <3> DEFINE p == IF requests[r].callerHeld THEN "reserve" ELSE "caller"
               q == [requests[r] EXCEPT !.phase = p]
    <3>1. requests' = [requests EXCEPT ![r] = q]
      BY <1>0, <1>2, <2>2 DEF inspectProvider
    <3>2. /\ q.phase = p /\ q.at = requests[r].at /\ q.deadline = requests[r].deadline
          /\ q.order = requests[r].order /\ q.tokens = requests[r].tokens
          /\ q.callerHeld = requests[r].callerHeld /\ q.served = requests[r].served
          /\ DOMAIN q = DOMAIN requests[r]
      BY <1>0 DEF RequestType
    <3> HIDE DEF q
    <3> HIDE NodeAssumption, NodeSettingsAssumption
    <3>3. RequestType(q)
      BY <1>0, <2>1, <3>2 DEF RequestType, Phases, Working
    <3> QED
      BY <2>1, <3>1, <3>2, <3>3, MovingOn DEF Looks, KeepsCaller
  <2>3. CASE ~admission(stores[s], requests[r].tokens, Settings[s], now)
    <3>1. requests' = NextCandidate(r)
      BY <1>2, <2>3 DEF inspectProvider
    <3>2. requests[r].phase \in Working \ {"closing"}
      BY <2>1 DEF Working
    <3> QED
      BY <2>1, <3>1, <3>2, MovingToNext DEF Looks
  <2> QED
    BY <2>2, <2>3
<1>3. ASSUME reserveCaller(r) PROVE HoldsCaller(r) \/ CallerRefused(r)
  <2>1. /\ requests[r].phase = "caller" /\ UNCHANGED <<now, stores>> /\ ~requests[r].served
        /\ callerStore' = reserve(callerStore, r, requests[r].tokens, CallerSettings, now)
    BY <1>0, <1>3 DEF reserveCaller, At, RequestType
  <2>2. CASE admission(callerStore, requests[r].tokens, CallerSettings, now)
    <3> DEFINE q == [requests[r] EXCEPT !.callerHeld = TRUE, !.phase = "reserve"]
    <3>1. requests' = [requests EXCEPT ![r] = q]
      BY <1>0, <1>3, <2>2 DEF reserveCaller
    <3>2. /\ q.phase = "reserve" /\ q.at = requests[r].at /\ q.deadline = requests[r].deadline
          /\ q.order = requests[r].order /\ q.tokens = requests[r].tokens
          /\ q.callerHeld = TRUE /\ q.served = requests[r].served
          /\ DOMAIN q = DOMAIN requests[r]
      BY <1>0 DEF RequestType
    <3> HIDE DEF q
    <3> HIDE NodeAssumption, NodeSettingsAssumption
    <3>3. RequestType(q)
      BY <1>0, <2>1, <3>2 DEF RequestType, Phases, Working
    <3>4. callerStore' = Reserved(Pruned(callerStore, CallerSettings, now), r,
                                 requests[r].tokens, CallerSettings, now)
      BY <2>1, <2>2 DEF reserve
    <3> QED
      BY <2>1, <3>1, <3>2, <3>3, <3>4, MovingOn DEF HoldsCaller, At
  <2>3. CASE ~admission(callerStore, requests[r].tokens, CallerSettings, now)
    <3>1. requests' = Over(r, "ended")
      BY <1>3, <2>3 DEF reserveCaller
    <3>2. callerStore' = Pruned(callerStore, CallerSettings, now)
      BY <2>1, <2>3 DEF reserve
    <3> QED
      BY <2>1, <3>1, <3>2, Ending DEF CallerRefused, At
  <2> QED
    BY <2>2, <2>3
<1>4. ASSUME reserveProvider(r) PROVE HoldsProvider(r) \/ Looks(r)
  <2>1. /\ requests[r].phase = "reserve" /\ UNCHANGED <<now, callerStore>>
        /\ ~requests[r].served /\ requests[r].callerHeld
        /\ LedgerOf(s, reserve(stores[s], Row(r), requests[r].tokens, Settings[s], now))
    BY <1>0, <1>4 DEF reserveProvider, At, LedgerOf, RequestType
  <2>2. CASE admission(stores[s], requests[r].tokens, Settings[s], now)
    <3> DEFINE q == [requests[r] EXCEPT !.phase = "invoke", !.since = now,
                                        !.deadline = now + deadlineMs(s)]
    <3>1. requests' = [requests EXCEPT ![r] = q]
      BY <1>0, <1>4, <2>2 DEF reserveProvider
    <3>2. /\ q.phase = "invoke" /\ q.at = requests[r].at
          /\ q.since = now /\ q.deadline = now + deadlineMs(s)
          /\ q.order = requests[r].order /\ q.tokens = requests[r].tokens
          /\ q.callerHeld = requests[r].callerHeld /\ q.served = requests[r].served
          /\ DOMAIN q = DOMAIN requests[r]
      BY <1>0 DEF RequestType
    <3>3. now \in Nat /\ now + deadlineMs(s) \in Nat /\ requests[r].phase \in Working
      <4>1. requests[r].phase \in Working
        BY <2>1 DEF Working
      <4>2. deadlineMs(s) \in Nat /\ now \in Nat
        BY <4>1, SelectionType, DeadlineType DEF NodeTypeOK
      <4> HIDE DEF s
      <4> QED
        BY <4>1, <4>2
    <3> HIDE DEF q, s
    <3> HIDE NodeAssumption, NodeSettingsAssumption
    <3>4. RequestType(q)
      BY <1>0, <2>1, <3>2, <3>3 DEF RequestType, Phases, Working
    <3>5. LedgerOf(s, Reserved(Pruned(stores[s], Settings[s], now), Row(r), requests[r].tokens,
                               Settings[s], now))
      BY <2>1, <2>2 DEF reserve
    <3> QED
      BY <2>1, <2>2, <3>1, <3>2, <3>4, <3>5, MovingOn
         DEF HoldsProvider, At, s, KeepsCaller, KeepsPlace
  <2>3. CASE ~admission(stores[s], requests[r].tokens, Settings[s], now)
    <3>1. requests' = NextCandidate(r)
      BY <1>4, <2>3 DEF reserveProvider
    <3>2. requests[r].phase \in Working \ {"closing"}
      BY <2>1 DEF Working
    <3>3. LedgerOf(s, Pruned(stores[s], Settings[s], now))
      BY <2>1, <2>3 DEF reserve
    <3> QED
      BY <2>1, <3>1, <3>2, <3>3, MovingToNext DEF Looks
  <2> QED
    BY <2>2, <2>3
<1> QED
  BY <1>1, <1>2, <1>3, <1>4

(* The outcomes that a settlement is told.                                 *)
LEMMA Outcomes ==
    /\ OutcomeType(Failure) /\ ~Failure.quotaSuccess /\ Failure.actualTokens = Undefined
    /\ \A delay \in Nat \cup {Undefined} :
           /\ OutcomeType(Cooldown(delay)) /\ ~Cooldown(delay).quotaSuccess
           /\ Cooldown(delay).actualTokens = Undefined
    /\ \A actualTokens \in Nat \cup {Undefined} :
           OutcomeType(Success(actualTokens)) /\ Success(actualTokens).quotaSuccess
BY DEF OutcomeType, Failure, Cooldown, Success, Undefined

(* A call that is given up, or whose answer is kept.                       *)
LEMMA GivingUp ==
    ASSUME NodeTypeOK, NEW r \in Requests, requests[r].phase \in {"invoke", "stream"},
           NEW outcome, OutcomeType(outcome), ~outcome.quotaSuccess,
           outcome.actualTokens = Undefined,
           SettleProvider(r, outcome), requests' = NextCandidate(r),
           UNCHANGED <<now, callerStore>>
    PROVE  Settles(r)
<1>1. requests[r].phase \in Working \ {"closing"}
  BY DEF Working
<1>2. /\ Moves(r) /\ KeepsCaller(r) /\ ~requests'[r].served
      /\ requests'[r].phase \in {"inspect", "closing"} /\ requests'[r].served \in BOOLEAN
  BY <1>1, MovingToNext DEF Moves, RequestType
<1>3. /\ LedgerOf(Selection(r), Settled(stores[Selection(r)], Row(r), outcome,
                                        Settings[Selection(r)], now))
      /\ outcome.quotaSuccess \in BOOLEAN
  BY DEF SettleProvider, LedgerOf, settle, OutcomeType
<1> QED
  BY <1>2, <1>3 DEF Settles

(* The end of a call that is not followed by another.                      *)
LEMMA Finalizing ==
    ASSUME NodeTypeOK, NEW r \in Requests, requests[r].phase \in {"invoke", "stream"},
           NEW served \in BOOLEAN, NEW actualTokens, served => actualTokens \in UsageReports,
           finalize(r, served, actualTokens), UNCHANGED <<now, callerStore>>
    PROVE  Settles(r)
<1>0. RequestType(requests[r]) /\ DOMAIN requests = Requests /\ requests[r].phase \in Working
  BY DEF NodeTypeOK, Working
<1> DEFINE outcome == IF served THEN Success(actualTokens) ELSE Failure
           q == [requests[r] EXCEPT !.phase = "closing", !.since = 0, !.deadline = Undefined,
                                    !.served = served, !.actualTokens = actualTokens]
<1>1. /\ OutcomeType(outcome) /\ outcome.quotaSuccess = served
      /\ served => outcome = Success(actualTokens)
      /\ ~served => outcome.actualTokens = Undefined
  <2>1. served => actualTokens \in Nat \cup {Undefined}
    OBVIOUS
  <2>2. CASE served
    BY <2>1, <2>2, Outcomes DEF Success
  <2>3. CASE ~served
    BY <2>3, Outcomes DEF Failure
  <2> QED
    BY <2>2, <2>3
<1>2. LedgerOf(Selection(r), Settled(stores[Selection(r)], Row(r), outcome,
                                     Settings[Selection(r)], now))
  BY DEF finalize, SettleProvider, LedgerOf, settle
<1> HIDE DEF outcome
<1>3. requests' = [requests EXCEPT ![r] = q]
  BY <1>0 DEF finalize
<1>4. /\ q.phase = "closing" /\ q.at = requests[r].at /\ q.deadline = Undefined
      /\ q.order = requests[r].order /\ q.tokens = requests[r].tokens
      /\ q.callerHeld = requests[r].callerHeld /\ q.served = served
      /\ q.actualTokens = actualTokens /\ DOMAIN q = DOMAIN requests[r]
  BY <1>0 DEF RequestType
<1> HIDE DEF q
<1>5. RequestType(q)
  BY <1>0, <1>4 DEF RequestType, Phases, Working
<1>6. Moves(r) /\ requests'[r] = q
  BY <1>3, <1>5, MovingOn
<1> QED
  BY <1>1, <1>2, <1>4, <1>6 DEF Settles, KeepsCaller

(* A chunk, or the headers, arm the deadline again.                        *)
LEMMA Arming ==
    ASSUME NodeTypeOK, NEW r \in Requests, requests[r].phase \in {"invoke", "stream"},
           Streaming # {}, StillTalking(r), requests' = armStreamDeadline(r),
           UNCHANGED <<now, stores, callerStore>>
    PROVE  Streams(r)
<1>0. RequestType(requests[r]) /\ DOMAIN requests = Requests /\ requests[r].phase \in Working
  BY DEF NodeTypeOK, Working
<1> DEFINE s == Selection(r)
           q == [requests[r] EXCEPT !.phase = "stream", !.deadline = now + deadlineMs(s)]
<1>1. requests' = [requests EXCEPT ![r] = q]
  BY <1>0 DEF armStreamDeadline
<1>2. now + deadlineMs(s) \in Nat
  <2>1. deadlineMs(s) \in Nat /\ now \in Nat
    BY <1>0, SelectionType, DeadlineType DEF NodeTypeOK
  <2> HIDE DEF s
  <2> QED
    BY <2>1
<1>3. /\ q.phase = "stream" /\ q.at = requests[r].at /\ q.deadline = now + deadlineMs(s)
      /\ q.order = requests[r].order /\ q.tokens = requests[r].tokens
      /\ q.since = requests[r].since
      /\ q.callerHeld = requests[r].callerHeld /\ q.served = requests[r].served
      /\ DOMAIN q = DOMAIN requests[r]
  BY <1>0 DEF RequestType
<1> HIDE DEF q, s
<1>4. RequestType(q) /\ ~q.served
  BY <1>0, <1>2, <1>3 DEF RequestType, Phases, Working
<1>5. Moves(r) /\ requests'[r] = q
  BY <1>1, <1>4, MovingOn
<1> QED
  BY <1>3, <1>4, <1>5 DEF Streams, KeepsCaller, KeepsPlace, s

(* What the provider does, and what ends the request.                      *)
LEMMA UpstreamSteps ==
    ASSUME NodeTypeOK, NEW r \in Requests
    PROVE  /\ Upstream(r) \/ deadlineFires(r) => Settles(r) \/ Streams(r)
           /\ settleCaller(r) => Closes(r)
           /\ busy(r) => Fails(r)
<1>0. RequestType(requests[r]) /\ DOMAIN requests = Requests
  BY DEF NodeTypeOK
<1>1. ASSUME transportFails(r) \/ (deadlineFires(r) /\ At(r, "invoke")) PROVE Settles(r)
  <2>1. /\ requests[r].phase = "invoke" /\ UNCHANGED <<now, callerStore>>
        /\ SettleProvider(r, Cooldown(TransportCooldown)) /\ requests' = NextCandidate(r)
    BY <1>1 DEF transportFails, deadlineFires, CoolDownAndMoveOn, At
  <2> QED
    BY <2>1, Outcomes, GivingUp
<1>2. ASSUME overloaded(r) PROVE Settles(r)
  <2>1. PICK delay \in RetryAfters, status \in {429, 500} :
            CoolDownAndMoveOn(r, IF status = 500 /\ delay = Undefined
                                 THEN TransportCooldown ELSE delay)
    BY <1>2 DEF overloaded
  <2> DEFINE cooldownMs == IF status = 500 /\ delay = Undefined THEN TransportCooldown ELSE delay
  <2>2. cooldownMs \in Nat \cup {Undefined}
    OBVIOUS
  <2>3. /\ requests[r].phase = "invoke" /\ UNCHANGED <<now, callerStore>>
        /\ SettleProvider(r, Cooldown(cooldownMs)) /\ requests' = NextCandidate(r)
    BY <1>2, <2>1 DEF overloaded, CoolDownAndMoveOn, At
  <2> HIDE DEF cooldownMs
  <2> QED
    BY <2>2, <2>3, Outcomes, GivingUp
<1>3. ASSUME refuses(r) PROVE Settles(r)
  BY <1>3, Finalizing DEF refuses, At
<1>4. ASSUME completes(r) PROVE Settles(r)
  BY <1>4, Finalizing DEF completes, At
<1>5. ASSUME unusable(r) PROVE Settles(r)
  BY <1>5, Outcomes, GivingUp DEF unusable, At
<1>6. ASSUME streamBegins(r) PROVE Streams(r)
  BY <1>6, Arming DEF streamBegins, At
<1>7. ASSUME chunk(r) PROVE Streams(r)
  <2>1. requests[r].phase = "stream" /\ Streaming # {}
    BY <1>0, <1>7 DEF chunk, At, RequestType
  <2> QED
    BY <1>7, <2>1, Arming DEF chunk
<1>8. ASSUME streamFinishes(r) PROVE Settles(r)
  BY <1>8, Finalizing DEF streamFinishes, At
<1>9. ASSUME deadlineFires(r), ~At(r, "invoke") PROVE Settles(r)
  <2>1. requests[r].phase = "stream"
    BY <1>0, <1>9 DEF deadlineFires, Due, At, RequestType
  <2>2. finalize(r, FALSE, Undefined) /\ UNCHANGED <<now, callerStore>>
    BY <1>9 DEF deadlineFires
  <2> QED
    BY <2>1, <2>2, Finalizing
<1>10. ASSUME settleCaller(r) PROVE Closes(r)
  <2>1. Moves(r) /\ requests'[r].phase = "ended" /\ ~requests'[r].served
    BY <1>10, Ending DEF settleCaller
  <2> QED
    BY <1>10, <2>1 DEF settleCaller, Closes, At, settle
<1>11. ASSUME busy(r) PROVE Fails(r)
  <2>1. Moves(r) /\ requests'[r].phase = "failed" /\ ~requests'[r].served
    BY <1>11, Ending DEF busy
  <2> QED
    BY <1>11, <2>1 DEF busy, Fails
<1> QED
  BY <1>1, <1>2, <1>3, <1>4, <1>5, <1>6, <1>7, <1>8, <1>9, <1>10, <1>11 DEF Upstream

(* Every step is one of the kinds above, or time passes.                   *)
LEMMA EveryNodeStep ==
    ASSUME NodeTypeOK, NodeNext
    PROVE  Tick \/ \E r \in Requests : NodeStepKind(r)
<1>1. ASSUME NEW r \in Requests,
             begin(r) \/ Transaction(r) \/ Upstream(r) \/ deadlineFires(r) \/ busy(r)
      PROVE  NodeStepKind(r)
  BY <1>1, AdmissionSteps, UpstreamSteps DEF Transaction, NodeStepKind
<1> QED
  BY <1>1 DEF NodeNext

-----------------------------------------------------------------------------
(* What a step does to the ledgers.                                        *)

(* Rows go or stay as they are, except the one that is taken.              *)
FewerRows(after, before, taken) ==
    /\ LedgerType(after)
    /\ \A id \in DOMAIN after.rows \ taken :
           id \in DOMAIN before.rows /\ after.rows[id] = before.rows[id]

(* Releasing what expired leaves a part of the rows.                       *)
LEMMA Pruning ==
    ASSUME NEW ledger, NEW settings, NEW time, LedgerType(ledger), SettingsType(settings),
           time \in Nat
    PROVE  /\ FewerRows(Pruned(ledger, settings, time), ledger, {})
           /\ DOMAIN Pruned(ledger, settings, time).rows
                = {id \in DOMAIN ledger.rows :
                      ledger.rows[id].created_at >= time - settings.reservationTtlMs}
           /\ Pruned(ledger, settings, time).spent = ledger.spent
<1>1. settings.reservationTtlMs \in Nat
  BY DEF SettingsType
<1> QED
  BY <1>1, Releasing DEF Pruned, FewerRows

(* A reservation adds one row.                                             *)
LEMMA Taking ==
    ASSUME NEW ledger, NEW settings, NEW id, NEW tokens, NEW time,
           LedgerType(ledger), SettingsType(settings), tokens \in Nat, time \in Nat
    PROVE  LET live == Pruned(ledger, settings, time)
               after == Reserved(live, id, tokens, settings, time) IN
           /\ FewerRows(after, ledger, {id})
           /\ DOMAIN after.rows = DOMAIN live.rows \cup {id}
           /\ after.rows[id].tokens = tokens /\ after.rows[id].created_at = time
           /\ reservationCount(after) <= reservationCount(live) + 1
           /\ after.spent = ledger.spent
<1> DEFINE live == Pruned(ledger, settings, time)
<1>1. FewerRows(live, ledger, {}) /\ live.spent = ledger.spent
  BY Pruning
<1>2. LedgerType(live)
  BY <1>1 DEF FewerRows
<1> HIDE DEF live
<1>3. LET after == Reserved(live, id, tokens, settings, time) IN
      /\ LedgerType(after)
      /\ DOMAIN after.rows = DOMAIN live.rows \cup {id}
      /\ after.rows[id].tokens = tokens /\ after.rows[id].created_at = time
      /\ \A row \in DOMAIN live.rows \ {id} : after.rows[row] = live.rows[row]
      /\ reservationCount(after) <= reservationCount(live) + 1
      /\ after.spent = live.spent
  BY <1>2, Reserving
<1> QED
  BY <1>1, <1>3 DEF FewerRows, live

(* A settlement removes one row.                                           *)
LEMMA Giving ==
    ASSUME NEW ledger, NEW settings, NEW outcome, NEW id, NEW time,
           LedgerType(ledger), SettingsType(settings), OutcomeType(outcome), time \in Nat
    PROVE  LET after == Settled(ledger, id, outcome, settings, time) IN
           /\ FewerRows(after, ledger, {})
           /\ DOMAIN after.rows = DOMAIN ledger.rows \ {id}
BY Settling DEF FewerRows

(* Only the reservation of a provider brings a row, that of its call.      *)
FewerRowsThanBefore(r) ==
    /\ DOMAIN stores' = Scopes
    /\ \A s \in Scopes :
           FewerRows(stores'[s], stores[s],
                     IF HoldsProvider(r) /\ s = Selection(r) THEN {Row(r)} ELSE {})

(* A step leaves every provider ledger well formed.                        *)
LEMMA StoresStep ==
    ASSUME NodeTypeOK, NEW r \in Requests, NodeStepKind(r)
    PROVE  FewerRowsThanBefore(r) /\ \A s \in Scopes : LedgerType(stores'[s])
<1>0. DOMAIN stores = Scopes /\ now \in Nat /\ \A s \in Scopes : LedgerType(stores[s])
  BY DEF NodeTypeOK
<1>1. \A s \in Scopes : \A taken : FewerRows(stores[s], stores[s], taken)
  BY <1>0 DEF FewerRows
<1>2. ASSUME stores' = stores PROVE FewerRowsThanBefore(r)
  BY <1>0, <1>1, <1>2 DEF FewerRowsThanBefore
<1>3. ASSUME NEW ledger, Selection(r) \in Scopes, LedgerOf(Selection(r), ledger),
             FewerRows(ledger, stores[Selection(r)],
                       IF HoldsProvider(r) THEN {Row(r)} ELSE {})
      PROVE  FewerRowsThanBefore(r)
  BY <1>0, <1>1, <1>3 DEF LedgerOf, FewerRowsThanBefore
<1>4. requests[r].phase \in Working =>
          /\ Selection(r) \in Scopes /\ SettingsType(Settings[Selection(r)])
          /\ requests[r].tokens \in Nat /\ LedgerType(stores[Selection(r)])
  BY <1>0, SelectionType
<1> DEFINE s == Selection(r)
<1>5. ASSUME Looks(r) PROVE FewerRowsThanBefore(r)
  <2> DEFINE ledger == Pruned(stores[s], Settings[s], now)
  <2>1. requests[r].phase \in Working /\ LedgerOf(s, ledger)
    BY <1>5 DEF Looks, Working
  <2>2. FewerRows(ledger, stores[s], {})
    BY <1>0, <1>4, <2>1, Pruning
  <2>3. \A taken : FewerRows(ledger, stores[s], taken)
    BY <2>2 DEF FewerRows
  <2> HIDE DEF ledger
  <2> QED
    BY <1>3, <1>4, <2>1, <2>3 DEF FewerRows
<1>6. ASSUME HoldsProvider(r) PROVE FewerRowsThanBefore(r)
  <2> DEFINE ledger == Reserved(Pruned(stores[s], Settings[s], now), Row(r), requests[r].tokens,
                                Settings[s], now)
  <2>1. requests[r].phase \in Working /\ LedgerOf(s, ledger)
    BY <1>6 DEF HoldsProvider, At, Working
  <2>2. FewerRows(ledger, stores[s], {Row(r)})
    BY <1>0, <1>4, <2>1, Taking
  <2> HIDE DEF ledger
  <2> QED
    BY <1>3, <1>4, <1>6, <2>1, <2>2 DEF FewerRows
<1>7. ASSUME Settles(r) PROVE FewerRowsThanBefore(r)
  <2>1. requests[r].phase \in Working
    BY <1>7 DEF Settles, Working
  <2>2. PICK outcome : /\ OutcomeType(outcome)
                       /\ LedgerOf(s, Settled(stores[s], Row(r), outcome, Settings[s], now))
    BY <1>7 DEF Settles
  <2> DEFINE ledger == Settled(stores[s], Row(r), outcome, Settings[s], now)
  <2>3. FewerRows(ledger, stores[s], {})
    BY <1>0, <1>4, <2>1, <2>2, Giving
  <2>4. \A taken : FewerRows(ledger, stores[s], taken)
    BY <2>3 DEF FewerRows
  <2>5. LedgerOf(s, ledger)
    BY <2>2
  <2> HIDE DEF ledger
  <2> QED
    BY <1>3, <1>4, <2>1, <2>4, <2>5 DEF FewerRows
<1>8. ASSUME Begins(r) \/ HoldsCaller(r) \/ CallerRefused(r) \/ Streams(r) \/ Closes(r) \/ Fails(r)
      PROVE FewerRowsThanBefore(r)
  <2>1. stores' = stores
    BY <1>8 DEF Begins, HoldsCaller, CallerRefused, Streams, Closes, Fails
  <2> QED
    BY <1>2, <2>1
<1>9. FewerRowsThanBefore(r)
  BY <1>5, <1>6, <1>7, <1>8 DEF NodeStepKind
<1> QED
  BY <1>9 DEF FewerRows, FewerRowsThanBefore

(* And only the reservation of the caller brings a row of the caller's.    *)
LEMMA CallerStoreStep ==
    ASSUME NodeTypeOK, NEW r \in Requests, NodeStepKind(r)
    PROVE  /\ LedgerType(callerStore')
           /\ FewerRows(callerStore', callerStore, IF HoldsCaller(r) THEN {r} ELSE {})
           /\ HoldsCaller(r) => callerStore'.rows[r].tokens = requests'[r].tokens
           /\ Closes(r) /\ requests[r].callerHeld => r \notin DOMAIN callerStore'.rows
           /\ ~HoldsCaller(r) /\ ~CallerRefused(r) /\ ~Closes(r) => callerStore' = callerStore
<1>0. LedgerType(callerStore) /\ now \in Nat /\ SettingsType(CallerSettings)
  BY AllSettingsTyped DEF NodeTypeOK
<1>1. \A taken : FewerRows(callerStore, callerStore, taken)
  BY <1>0 DEF FewerRows
<1>2. CASE HoldsCaller(r)
  <2>1. requests[r].tokens \in Nat
    <3>1. requests[r].phase \in Working
      BY <1>2 DEF HoldsCaller, At, Working
    <3> QED
      BY <3>1, SelectionType
  <2> DEFINE ledger == Reserved(Pruned(callerStore, CallerSettings, now), r,
                                requests[r].tokens, CallerSettings, now)
  <2>4. FewerRows(ledger, callerStore, {r}) /\ ledger.rows[r].tokens = requests[r].tokens
    <3> DEFINE live == Pruned(callerStore, CallerSettings, now)
    <3>1. LedgerType(live)
      BY <1>0, Pruning DEF FewerRows
    <3> HIDE DEF live
    <3>2. Reserved(live, r, requests[r].tokens, CallerSettings, now).rows[r].tokens
            = requests[r].tokens
      BY <1>0, <2>1, <3>1, Reserving
    <3>3. FewerRows(ledger, callerStore, {r})
      BY <1>0, <2>1, Taking
    <3> QED
      BY <3>2, <3>3 DEF live
  <2>5. callerStore' = ledger
    BY <1>2 DEF HoldsCaller
  <2> HIDE DEF ledger
  <2>2. /\ FewerRows(callerStore', callerStore, {r})
        /\ callerStore'.rows[r].tokens = requests[r].tokens
    BY <2>4, <2>5
  <2>3. ~Closes(r) /\ requests'[r].tokens = requests[r].tokens
    BY <1>2 DEF HoldsCaller, Closes, At
  <2> QED
    BY <1>2, <2>2, <2>3 DEF FewerRows
<1>3. CASE CallerRefused(r)
  <2>1. FewerRows(callerStore', callerStore, {})
    BY <1>0, <1>3, Pruning DEF CallerRefused
  <2>2. ~HoldsCaller(r) /\ ~Closes(r)
    BY <1>3 DEF CallerRefused, HoldsCaller, Closes, At
  <2> QED
    BY <1>3, <2>1, <2>2 DEF FewerRows
<1>4. CASE Closes(r)
  <2>1. ~HoldsCaller(r)
    BY <1>4 DEF HoldsCaller, Closes, At
  <2>2. CASE requests[r].callerHeld
    <3>1. OutcomeType(CallerOutcome(r))
      <4>1. requests[r].served => requests[r].actualTokens \in Nat \cup {Undefined}
        BY DEF NodeTypeOK, RequestType
      <4> QED
        BY <4>1, Outcomes DEF CallerOutcome
    <3>2. callerStore' = Settled(callerStore, r, CallerOutcome(r), CallerSettings, now)
      BY <1>4, <2>2 DEF Closes
    <3> QED
      BY <1>0, <1>4, <2>1, <3>1, <3>2, Giving DEF FewerRows
  <2>3. CASE ~requests[r].callerHeld
    BY <1>0, <1>1, <1>4, <2>1, <2>3 DEF Closes
  <2> QED
    BY <2>2, <2>3
<1>5. CASE Begins(r) \/ Looks(r) \/ HoldsProvider(r) \/ Settles(r) \/ Streams(r) \/ Fails(r)
  <2>1. callerStore' = callerStore
    BY <1>5 DEF Begins, Looks, HoldsProvider, Settles, Streams, Fails
  <2>2. CASE Fails(r)
    <3>1. ~HoldsCaller(r) /\ ~Closes(r)
      BY <2>2 DEF Fails, HoldsCaller, Closes
    <3> QED
      BY <1>0, <1>1, <2>1, <3>1
  <2>3. CASE ~Fails(r)
    <3>1. ~At(r, "caller") /\ ~At(r, "closing")
      BY <1>5, <2>3 DEF Begins, Looks, HoldsProvider, Settles, Streams, At
    <3>2. ~HoldsCaller(r) /\ ~Closes(r)
      BY <3>1 DEF HoldsCaller, Closes
    <3> QED
      BY <1>0, <1>1, <2>1, <3>2
  <2> QED
    BY <2>2, <2>3
<1> QED
  BY <1>2, <1>3, <1>4, <1>5 DEF NodeStepKind

-----------------------------------------------------------------------------
(* Types and holders hold for ever.                                        *)

(* At the start nothing is held, charged or under way.                     *)
LEMMA NodeStart ==
    ASSUME NodeInit
    PROVE  /\ NodeTypeOK /\ RowsAreHeld /\ CallerRowsAreHeld
           /\ \A s \in Scopes : DOMAIN stores[s].rows = {} /\ DOMAIN stores[s].spent = {}
           /\ DOMAIN callerStore.spent = {}
           /\ \A r \in Requests : requests[r] = NewRequest
<1>1. /\ \A s \in Scopes : /\ LedgerType(stores[s]) /\ DOMAIN stores[s].rows = {}
                           /\ DOMAIN stores[s].spent = {}
      /\ LedgerType(callerStore) /\ DOMAIN callerStore.rows = {} /\ DOMAIN callerStore.spent = {}
  BY AllSettingsTyped, EmptyLedgerType DEF NodeInit
<1>2. RequestType(NewRequest)
  BY SomeCandidate DEF RequestType, NewRequest, Phases, Working
<1>3. /\ now \in Nat /\ DOMAIN stores = Scopes /\ DOMAIN requests = Requests
      /\ \A r \in Requests : requests[r] = NewRequest
  BY DEF NodeInit
<1> QED
  BY <1>1, <1>2, <1>3 DEF NodeTypeOK, RowsAreHeld, CallerRowsAreHeld

(* A step of a request keeps the types.                                    *)
LEMMA NodeTypeStep ==
    ASSUME NodeTypeOK, NEW r \in Requests, NodeStepKind(r)
    PROVE  NodeTypeOK' /\ Moves(r) /\ now' = now
<1>1. Moves(r) /\ now' = now
  BY DEF NodeStepKind, Begins, Looks, HoldsCaller, CallerRefused, HoldsProvider, Settles,
         Streams, Closes, Fails
<1>2. \A q \in Requests : RequestType(requests'[q])
  BY <1>1 DEF Moves, NodeTypeOK
<1> QED
  BY <1>1, <1>2, StoresStep, CallerStoreStep DEF NodeTypeOK, Moves, FewerRowsThanBefore

(* Time passes and nothing else happens.                                   *)
LEMMA TickFrame ==
    ASSUME NodeTypeOK, Tick
    PROVE  NodeTypeOK' /\ stores' = stores /\ callerStore' = callerStore /\ requests' = requests
           /\ now' = now + 1
BY DEF Tick, NodeTypeOK

(* A step of a request leaves the rows of the others with their holders.   *)
LEMMA ProviderHolders ==
    ASSUME NodeTypeOK, RowsAreHeld, NEW r \in Requests, NodeStepKind(r)
    PROVE  RowsAreHeld'
<1>0. Moves(r) /\ FewerRowsThanBefore(r)
  BY NodeTypeStep, StoresStep
<1>1. ASSUME NEW s \in Scopes, NEW id \in DOMAIN stores'[s].rows
      PROVE  \E q \in Requests, n \in Candidates : id = <<q, n>> /\ HeldBy(q, n, s)'
  <2>1. CASE HoldsProvider(r) /\ s = Selection(r) /\ id = Row(r)
    <3>1. /\ requests'[r].phase = "invoke" /\ KeepsPlace(r) /\ KeepsCaller(r)
          /\ requests'[r].since = now
      BY <2>1 DEF HoldsProvider
    <3>2. requests[r].phase \in Working
      BY <2>1 DEF HoldsProvider, At, Working
    <3>3. /\ requests[r].at \in Candidates /\ SettingsType(Settings[s])
          /\ requests[r].tokens \in Nat /\ now \in Nat /\ LedgerType(stores[s])
          /\ DOMAIN stores = Scopes
      BY <2>1, <3>2, SelectionType DEF NodeTypeOK
    <3> DEFINE live == Pruned(stores[s], Settings[s], now)
    <3>4. LedgerType(live)
      BY <3>3, Pruning DEF FewerRows
    <3>5. stores'[s] = Reserved(live, id, requests[r].tokens, Settings[s], now)
      BY <2>1, <3>3 DEF HoldsProvider, LedgerOf
    <3> HIDE DEF live
    <3>6. /\ stores'[s].rows[id].tokens = requests[r].tokens
          /\ stores'[s].rows[id].created_at = now
      BY <3>3, <3>4, <3>5, Reserving
    <3>7. Selection(r)' = s
      BY <2>1, <3>1 DEF Selection, KeepsPlace
    <3>8. ASSUME NEW n, n = requests[r].at PROVE HeldBy(r, n, s)'
      BY <2>1, <3>1, <3>6, <3>7, <3>8 DEF HeldBy, Row, KeepsPlace, KeepsCaller
    <3> QED
      BY <2>1, <3>3, <3>8 DEF Row
  <2>2. CASE ~(HoldsProvider(r) /\ s = Selection(r) /\ id = Row(r))
    <3>1. id \in DOMAIN stores[s].rows /\ stores'[s].rows[id] = stores[s].rows[id]
      BY <1>0, <1>1, <2>2 DEF FewerRowsThanBefore, FewerRows
    <3>2. PICK q \in Requests, n \in Candidates : id = <<q, n>> /\ HeldBy(q, n, s)
      BY <3>1 DEF RowsAreHeld
    <3>3. CASE q # r
      <4>1. requests'[q] = requests[q]
        BY <1>0, <3>3 DEF Moves
      <4> QED
        BY <3>1, <3>2, <4>1 DEF HeldBy, Selection
    <3>4. CASE q = r
      <4>1. requests[r].phase \in {"invoke", "stream", "failed"}
        BY <3>2, <3>4 DEF HeldBy
      <4>2. CASE Settles(r)
        <5>1. requests[r].at = n /\ Selection(r) = s
          BY <3>2, <3>4, <4>2 DEF HeldBy, Settles
        <5>2. PICK outcome : /\ OutcomeType(outcome)
                             /\ LedgerOf(s, Settled(stores[s], Row(r), outcome, Settings[s], now))
          BY <4>2, <5>1 DEF Settles
        <5>3. stores'[s] = Settled(stores[s], Row(r), outcome, Settings[s], now)
          BY <5>2 DEF LedgerOf, NodeTypeOK
        <5>4. Row(r) \notin DOMAIN stores'[s].rows
          <6>1. /\ LedgerType(stores[s]) /\ SettingsType(Settings[s]) /\ now \in Nat
                /\ OutcomeType(outcome)
            BY <5>2, AllSettingsTyped DEF NodeTypeOK
          <6> HIDE NodeAssumption, NodeSettingsAssumption
          <6> QED
            BY <5>3, <6>1, Giving
        <5> QED
          BY <1>1, <3>2, <3>4, <5>1, <5>4 DEF Row
      <4>3. CASE Streams(r)
        <5>1. /\ requests[r].phase \in {"invoke", "stream"} /\ requests'[r].phase = "stream"
              /\ KeepsPlace(r) /\ KeepsCaller(r) /\ requests'[r].since = requests[r].since
          BY <4>3 DEF Streams
        <5>2. requests[r].phase # "failed"
          BY <5>1
        <5>3. /\ requests[r].at = n /\ Selection(r) = s
              /\ stores[s].rows[<<r, n>>].tokens = requests[r].tokens
              /\ stores[s].rows[<<r, n>>].created_at = requests[r].since
          BY <3>2, <3>4, <5>2 DEF HeldBy
        <5>4. Selection(r)' = Selection(r) /\ requests'[r].at = requests[r].at
              /\ requests'[r].tokens = requests[r].tokens
          BY <5>1 DEF Selection, KeepsPlace, KeepsCaller
        <5> HIDE NodeAssumption, NodeSettingsAssumption
        <5> QED
          BY <3>1, <3>2, <3>4, <5>1, <5>3, <5>4 DEF HeldBy
      <4>4. CASE Fails(r)
        BY <3>2, <3>4, <4>4 DEF HeldBy, Fails
      <4>5. CASE ~Settles(r) /\ ~Streams(r) /\ ~Fails(r)
        BY <4>1, <4>5 DEF NodeStepKind, Begins, Looks, HoldsCaller, CallerRefused,
                          HoldsProvider, Closes, At
      <4> QED
        BY <4>2, <4>3, <4>4, <4>5
    <3> QED
      BY <3>3, <3>4
  <2> QED
    BY <2>1, <2>2
<1> QED
  BY <1>1 DEF RowsAreHeld

(* The caller's rows stay those of requests that hold them.                *)
LEMMA CallerHolders ==
    ASSUME NodeTypeOK, CallerRowsAreHeld, NEW r \in Requests, NodeStepKind(r)
    PROVE  CallerRowsAreHeld'
<1>0. /\ Moves(r) /\ RequestType(requests[r])
      /\ FewerRows(callerStore', callerStore, IF HoldsCaller(r) THEN {r} ELSE {})
  BY NodeTypeStep, CallerStoreStep DEF NodeTypeOK
<1>1. ASSUME NEW q \in DOMAIN callerStore'.rows
      PROVE  /\ q \in Requests
             /\ \/ requests'[q].phase = "failed"
                \/ /\ requests'[q].callerHeld
                   /\ callerStore'.rows[q].tokens = requests'[q].tokens
  <2>1. CASE q = r
    <3>1. CASE HoldsCaller(r)
      BY <2>1, <3>1, CallerStoreStep DEF HoldsCaller
    <3>2. CASE Fails(r)
      BY <2>1, <3>2 DEF Fails
    <3>3. CASE ~HoldsCaller(r) /\ ~Fails(r)
      <4>1. /\ q \in DOMAIN callerStore.rows /\ callerStore'.rows[q] = callerStore.rows[q]
        BY <1>0, <1>1, <3>3 DEF FewerRows
      <4>2. \/ requests[r].phase = "failed"
            \/ requests[r].callerHeld /\ callerStore.rows[r].tokens = requests[r].tokens
        BY <2>1, <4>1 DEF CallerRowsAreHeld
      <4>3. requests[r].phase \notin {"new", "failed"}
        BY <1>0, <3>3, <4>2 DEF NodeStepKind, Begins, Looks, HoldsCaller, CallerRefused,
                         HoldsProvider, Settles, Streams, Closes, At, RequestType
      <4>4. requests[r].callerHeld /\ callerStore.rows[r].tokens = requests[r].tokens
        BY <4>2, <4>3
      <4>5. ~At(r, "caller")
        BY <1>0, <4>4 DEF At, RequestType
      <4>6. ~Closes(r)
        BY <1>1, <2>1, <4>4, CallerStoreStep
      <4>7. KeepsCaller(r)
        BY <3>3, <4>3, <4>5, <4>6 DEF NodeStepKind, Begins, Looks, CallerRefused,
                              HoldsProvider, Settles, Streams, At
      <4> QED
        BY <2>1, <4>1, <4>4, <4>7 DEF KeepsCaller
    <3> QED
      BY <3>1, <3>2, <3>3
  <2>2. CASE q # r
    <3>1. /\ q \in DOMAIN callerStore.rows /\ callerStore'.rows[q] = callerStore.rows[q]
      BY <1>0, <1>1, <2>2 DEF FewerRows
    <3>2. q \in Requests /\ requests'[q] = requests[q]
      BY <1>0, <2>2, <3>1 DEF CallerRowsAreHeld, Moves
    <3> QED
      BY <3>1, <3>2 DEF CallerRowsAreHeld
  <2> QED
    BY <2>1, <2>2
<1> QED
  BY <1>1 DEF CallerRowsAreHeld

NodeInv == NodeTypeOK /\ RowsAreHeld /\ CallerRowsAreHeld

(* Types and holders are an invariant of the runtime.                      *)
LEMMA NodeHolds == NodeSpec => []NodeInv
<1>1. NodeInit => NodeInv
  BY NodeStart DEF NodeInv
<1>2. NodeInv /\ [NodeNext]_nodeVars => NodeInv'
  <2> SUFFICES ASSUME NodeInv, [NodeNext]_nodeVars PROVE NodeInv'
    OBVIOUS
  <2>1. CASE UNCHANGED nodeVars
    BY <2>1 DEF NodeInv, nodeVars, NodeTypeOK, RowsAreHeld, HeldBy, Selection, CallerRowsAreHeld
  <2>2. CASE Tick
    <3>1. NodeTypeOK' /\ stores' = stores /\ callerStore' = callerStore /\ requests' = requests
      BY <2>2, TickFrame DEF NodeInv
    <3>2. RowsAreHeld'
      <4>1. stores' = stores /\ requests' = requests
        BY <3>1
      <4>2. ASSUME NEW r, NEW n, NEW s PROVE HeldBy(r, n, s)' <=> HeldBy(r, n, s)
        BY <4>1 DEF HeldBy, Selection
      <4> QED
        BY <4>1, <4>2 DEF NodeInv, RowsAreHeld
    <3>3. CallerRowsAreHeld'
      BY <3>1 DEF NodeInv, CallerRowsAreHeld
    <3> QED
      BY <3>1, <3>2, <3>3 DEF NodeInv
  <2>3. ASSUME NEW r \in Requests, NodeStepKind(r) PROVE NodeInv'
    BY <2>3, NodeTypeStep, ProviderHolders, CallerHolders DEF NodeInv
  <2> QED
    BY <2>1, <2>2, <2>3, EveryNodeStep DEF NodeInv
<1> QED
  BY <1>1, <1>2, PTL DEF NodeSpec

(* A request that returned, or that threw a routing error, has left no     *)
(* reservation behind, its own or a provider's, however many candidates it *)
(* went through: what a step takes is settled or gone before the request   *)
(* ends.  Only a request whose transaction failed leaves any.              *)
THEOREM EndedHasLeftNothing == NodeSpec => []EndedHoldsNothing
<1>1. NodeInv => EndedHoldsNothing
  <2> SUFFICES ASSUME NodeInv, NEW r \in Requests, requests[r].phase = "ended"
               PROVE  /\ r \notin DOMAIN callerStore.rows
                      /\ \A s \in Scopes, n \in 1 .. Len(ByScarcity) :
                             <<r, n>> \notin DOMAIN stores[s].rows
    BY DEF EndedHoldsNothing
  <2>1. ~requests[r].callerHeld
    BY DEF NodeInv, NodeTypeOK, RequestType
  <2>2. r \notin DOMAIN callerStore.rows
    BY <2>1 DEF NodeInv, CallerRowsAreHeld
  <2>3. ASSUME NEW s \in Scopes, NEW n \in 1 .. Len(ByScarcity),
               <<r, n>> \in DOMAIN stores[s].rows
        PROVE  FALSE
    <3>1. PICK q \in Requests, m \in Candidates : <<r, n>> = <<q, m>> /\ HeldBy(q, m, s)
      BY <2>3 DEF NodeInv, RowsAreHeld
    <3>2. q = r
      BY <3>1
    <3> QED
      BY <3>1, <3>2 DEF HeldBy
  <2> QED
    BY <2>2, <2>3
<1> QED
  BY <1>1, NodeHolds, PTL

-----------------------------------------------------------------------------
(* The concurrency ceiling.                                                *)

(* The rows of a ledger are finitely many.                                 *)
LEMMA RowCount ==
    ASSUME NEW ledger, NEW after, LedgerType(ledger), FewerRows(after, ledger, {})
    PROVE  /\ reservationCount(after) \in Nat /\ reservationCount(ledger) \in Nat
           /\ reservationCount(after) <= reservationCount(ledger)
<1>1. /\ IsFiniteSet(DOMAIN ledger.rows) /\ IsFiniteSet(DOMAIN after.rows)
      /\ DOMAIN after.rows \subseteq DOMAIN ledger.rows
  BY DEF LedgerType, FewerRows
<1> QED
  BY <1>1, FS_Subset, FS_CardinalityType DEF reservationCount

(* No account's table ever holds more rows than its maxConcurrent.         *)
LEMMA NodeCeilingHolds == NodeSpec => []NodeCeiling
<1>1. NodeInit => NodeCeiling
  <2> SUFFICES ASSUME NodeInit PROVE NodeCeiling
    OBVIOUS
  <2>1. \A s \in Scopes : reservationCount(stores[s]) = 0
    BY NodeStart, FS_EmptySet DEF reservationCount
  <2> QED
    BY <2>1 DEF NodeCeiling
<1>2. NodeInv /\ NodeCeiling /\ [NodeNext]_nodeVars => NodeCeiling'
  <2> SUFFICES ASSUME NodeInv, NodeCeiling, [NodeNext]_nodeVars PROVE NodeCeiling'
    OBVIOUS
  <2>0. NodeTypeOK
    BY DEF NodeInv
  <2>1. CASE UNCHANGED nodeVars
    BY <2>1 DEF nodeVars, NodeCeiling
  <2>2. CASE Tick
    BY <2>2 DEF Tick, NodeCeiling
  <2>3. ASSUME NEW r \in Requests, NodeStepKind(r), NEW s \in Scopes,
               Settings[s].maxConcurrent > 0
        PROVE  reservationCount(stores'[s]) <= Settings[s].maxConcurrent
    <3>0. /\ LedgerType(stores[s]) /\ SettingsType(Settings[s]) /\ DOMAIN stores = Scopes
          /\ Settings[s].maxConcurrent \in Nat /\ now \in Nat
          /\ reservationCount(stores[s]) <= Settings[s].maxConcurrent
      BY <2>0, <2>3, AllSettingsTyped DEF NodeTypeOK, NodeCeiling, SettingsType
    <3>1. CASE HoldsProvider(r) /\ s = Selection(r)
      <4> DEFINE live == Pruned(stores[s], Settings[s], now)
      <4>1. requests[r].phase \in Working
        BY <3>1 DEF HoldsProvider, At, Working
      <4>2. requests[r].tokens \in Nat
        BY <2>0, <4>1, SelectionType
      <4>3. FewerRows(live, stores[s], {})
        BY <3>0, Pruning
      <4>4. LedgerType(live)
        BY <4>3 DEF FewerRows
      <4>5. /\ ~AtConcurrencyLimit(live, Settings[s])
            /\ stores'[s] = Reserved(live, Row(r), requests[r].tokens, Settings[s], now)
        BY <3>0, <3>1 DEF HoldsProvider, LedgerOf, admission
      <4>6. /\ reservationCount(live) \in Nat
        BY <3>0, <4>3, RowCount
      <4> HIDE DEF live
      <4>7. reservationCount(live) < Settings[s].maxConcurrent
        BY <2>3, <3>0, <4>5, <4>6 DEF AtConcurrencyLimit
      <4>8. reservationCount(stores'[s]) <= reservationCount(live) + 1
        BY <3>0, <4>2, <4>4, <4>5, Reserving
      <4>9. reservationCount(stores'[s]) \in Nat
        <5>1. LedgerType(stores'[s])
          BY <2>0, <2>3, StoresStep
        <5> QED
          BY <5>1, FS_CardinalityType DEF reservationCount, LedgerType
      <4> QED
        BY <3>0, <4>6, <4>7, <4>8, <4>9
    <3>2. CASE ~(HoldsProvider(r) /\ s = Selection(r))
      <4>1. FewerRows(stores'[s], stores[s], {})
        BY <2>0, <2>3, <3>2, StoresStep DEF FewerRowsThanBefore
      <4> QED
        BY <3>0, <4>1, RowCount
    <3> QED
      BY <3>1, <3>2
  <2>4. ASSUME NEW r \in Requests, NodeStepKind(r) PROVE NodeCeiling'
    BY <2>3, <2>4 DEF NodeCeiling
  <2> QED
    BY <2>0, <2>1, <2>2, <2>4, EveryNodeStep
<1> QED
  BY <1>1, <1>2, NodeHolds, PTL DEF NodeSpec

-----------------------------------------------------------------------------
(* A call never outlives its row.                                          *)

(* A row that has not expired is there until its own call is settled.      *)
LEMMA LiveRowsStay ==
    ASSUME NodeTypeOK, NEW r \in Requests, NodeStepKind(r),
           NEW s \in Scopes, NEW id \in DOMAIN stores[s].rows,
           stores[s].rows[id].created_at >= now - Settings[s].reservationTtlMs,
           ~(Settles(r) /\ id = Row(r))
    PROVE  id \in DOMAIN stores'[s].rows
<1>0. /\ LedgerType(stores[s]) /\ SettingsType(Settings[s]) /\ DOMAIN stores = Scopes
      /\ now \in Nat
  BY AllSettingsTyped DEF NodeTypeOK
<1> DEFINE live == Pruned(stores[s], Settings[s], now)
<1>1. id \in DOMAIN live.rows /\ LedgerType(live)
  <2>1. /\ DOMAIN live.rows = {row \in DOMAIN stores[s].rows :
               stores[s].rows[row].created_at >= now - Settings[s].reservationTtlMs}
        /\ LedgerType(live)
    BY <1>0, Pruning DEF FewerRows
  <2> HIDE DEF live
  <2> QED
    BY <2>1
<1>2. CASE s # Selection(r)
  BY <1>0, <1>2 DEF NodeStepKind, Begins, Looks, HoldsCaller, CallerRefused, HoldsProvider,
                    Settles, Streams, Closes, Fails, LedgerOf
<1>3. CASE s = Selection(r)
  <2>1. CASE Looks(r)
    <3>1. stores'[s] = live
      BY <1>0, <1>3, <2>1 DEF Looks, LedgerOf
    <3> QED
      BY <1>1, <3>1
  <2>2. CASE HoldsProvider(r)
    <3>1. stores'[s] = Reserved(live, Row(r), requests[r].tokens, Settings[s], now)
      BY <1>0, <1>3, <2>2 DEF HoldsProvider, LedgerOf
    <3>2. requests[r].tokens \in Nat
      <4>1. requests[r].phase \in Working
        BY <2>2 DEF HoldsProvider, At, Working
      <4> QED
        BY <4>1, SelectionType
    <3> HIDE DEF live
    <3>3. DOMAIN stores'[s].rows = DOMAIN live.rows \cup {Row(r)}
      BY <1>0, <1>1, <3>1, <3>2, Reserving
    <3> QED
      BY <1>1, <3>3
  <2>3. CASE Settles(r)
    <3>1. PICK outcome : /\ OutcomeType(outcome)
                         /\ LedgerOf(s, Settled(stores[s], Row(r), outcome, Settings[s], now))
      BY <1>3, <2>3 DEF Settles
    <3>2. stores'[s] = Settled(stores[s], Row(r), outcome, Settings[s], now)
      BY <1>0, <3>1 DEF LedgerOf
    <3>3. DOMAIN stores'[s].rows = DOMAIN stores[s].rows \ {Row(r)}
      BY <1>0, <3>1, <3>2, Giving
    <3> QED
      BY <2>3, <3>3
  <2>4. CASE ~Looks(r) /\ ~HoldsProvider(r) /\ ~Settles(r)
    BY <1>0, <2>4 DEF NodeStepKind, Begins, HoldsCaller, CallerRefused, Streams, Closes, Fails
  <2> QED
    BY <2>1, <2>2, <2>3, <2>4
<1> QED
  BY <1>2, <1>3

(* A deadline and the lateness of its timer fit the reservation.           *)
LEMMA DeadlineFits ==
    ASSUME DeadlinesFit, NEW s \in Scopes
    PROVE  deadlineMs(s) + TimerLag <= Settings[s].reservationTtlMs
<1>1. /\ Settings[s].reservationTtlMs \in Nat /\ TimerLag <= Margin
      /\ Margin + TimerLag <= Settings[s].reservationTtlMs
  BY AllSettingsTyped DEF SettingsType, DeadlinesFit
<1> HIDE NodeSettingsAssumption
<1>2. deadlineMs(s) # Margin => deadlineMs(s) <= Settings[s].reservationTtlMs - Margin
  BY <1>1 DEF deadlineMs, MaxOf, MinOf
<1>3. \A limit, lag, margin, ttl \in Nat :
          lag <= margin /\ limit <= ttl - margin => limit + lag <= ttl
  OBVIOUS
<1>4. CASE deadlineMs(s) = Margin
  BY <1>1, <1>4
<1>5. CASE deadlineMs(s) # Margin
  <2>1. deadlineMs(s) \in Nat /\ TimerLag \in Nat /\ Margin \in Nat
    BY DeadlineType
  <2> QED
    BY <1>1, <1>2, <1>3, <1>5, <2>1
<1> QED
  BY <1>4, <1>5

CallsInTime == \A r \in Requests : CallInTime(r)

(* A step of one request leaves the others' calls in time.                 *)
LEMMA OthersInTime ==
    ASSUME NodeInv, CallsInTime, NEW r \in Requests, NodeStepKind(r),
           NEW q \in Requests, q # r
    PROVE  CallInTime(q)'
<1>0. Moves(r) /\ now' = now /\ NodeTypeOK
  BY NodeTypeStep DEF NodeInv
<1>1. requests'[q] = requests[q]
  BY <1>0 DEF Moves
<1>2. SUFFICES ASSUME requests[q].phase \in {"invoke", "stream"}
               PROVE  CallInTime(q)'
  BY <1>1 DEF CallInTime
<1> DEFINE s == Selection(q)
<1>3. /\ Row(q) \in DOMAIN stores[s].rows
      /\ now <= requests[q].deadline + TimerLag
      /\ requests[q].deadline + TimerLag <= requests[q].since + Settings[s].reservationTtlMs
  BY <1>2 DEF CallsInTime, CallInTime
<1>4. s \in Scopes /\ Settings[s].reservationTtlMs \in Nat
  <2>1. requests[q].phase \in Working
    BY <1>2 DEF Working
  <2> QED
    BY <1>0, <2>1, SelectionType DEF SettingsType
<1>5. /\ now \in Nat /\ requests[q].since \in Nat /\ requests[q].deadline \in Nat
  BY <1>0, <1>2 DEF NodeTypeOK, RequestType
<1>6. stores[s].rows[Row(q)].created_at = requests[q].since
  <2>1. PICK p \in Requests, n \in Candidates : Row(q) = <<p, n>> /\ HeldBy(p, n, s)
    BY <1>3, <1>4 DEF NodeInv, RowsAreHeld
  <2>2. p = q /\ requests[q].phase # "failed"
    BY <1>2, <2>1 DEF Row
  <2>3. stores[s].rows[<<p, n>>].created_at = requests[p].since
    BY <2>1, <2>2 DEF HeldBy
  <2> QED
    BY <2>1, <2>2, <2>3
<1>7. stores[s].rows[Row(q)].created_at >= now - Settings[s].reservationTtlMs
  <2>1. \A t, d, since, ttl \in Nat :
            t <= d + TimerLag /\ d + TimerLag <= since + ttl => since >= t - ttl
    OBVIOUS
  <2> HIDE DEF s
  <2>2. requests[q].since >= now - Settings[s].reservationTtlMs
    BY <1>3, <1>4, <1>5, <2>1
  <2> QED
    BY <1>6, <2>2
<1>8. Row(q) # Row(r)
  BY DEF Row
<1>9. Row(q) \in DOMAIN stores'[s].rows
  <2> HIDE DEF s
  <2> QED
    BY <1>0, <1>3, <1>4, <1>7, <1>8, LiveRowsStay
<1>10. Row(q)' = Row(q) /\ Selection(q)' = s
  BY <1>1 DEF Row, Selection
<1> HIDE DEF s
<1> QED
  BY <1>0, <1>1, <1>3, <1>9, <1>10 DEF CallInTime

(* A request that calls or streams on is in time.                          *)
LEMMA OwnInTime ==
    ASSUME DeadlinesFit, NodeInv, CallsInTime, NEW r \in Requests, NodeStepKind(r)
    PROVE  CallInTime(r)'
<1>0. Moves(r) /\ now' = now /\ NodeTypeOK
  BY NodeTypeStep DEF NodeInv
<1> DEFINE s == Selection(r)
<1>1. requests[r].phase \in Working =>
          /\ s \in Scopes /\ SettingsType(Settings[s]) /\ Settings[s].reservationTtlMs \in Nat
          /\ requests[r].tokens \in Nat /\ now \in Nat /\ LedgerType(stores[s])
          /\ DOMAIN stores = Scopes /\ deadlineMs(s) \in Nat
          /\ deadlineMs(s) + TimerLag <= Settings[s].reservationTtlMs
  BY <1>0, SelectionType, DeadlineType, DeadlineFits DEF NodeTypeOK, SettingsType
<1>2. CASE HoldsProvider(r)
  <2>1. /\ requests[r].phase \in Working /\ KeepsPlace(r)
        /\ requests'[r].since = now /\ requests'[r].deadline = now + deadlineMs(s)
        /\ stores' = [stores EXCEPT ![s] = Reserved(Pruned(stores[s], Settings[s], now), Row(r),
                                                    requests[r].tokens, Settings[s], now)]
    BY <1>2 DEF HoldsProvider, At, Working, LedgerOf
  <2>2. Row(r)' = Row(r) /\ Selection(r)' = s
    BY <2>1 DEF Row, Selection, KeepsPlace
  <2> HIDE DEF s
  <2> DEFINE live == Pruned(stores[s], Settings[s], now)
  <2>3. LedgerType(live)
    BY <1>1, <2>1, Pruning DEF FewerRows
  <2>4. stores'[s] = Reserved(live, Row(r), requests[r].tokens, Settings[s], now)
    BY <1>1, <2>1
  <2> HIDE DEF live
  <2>5. Row(r) \in DOMAIN stores'[s].rows
    BY <1>1, <2>1, <2>3, <2>4, Reserving
  <2>6. /\ now <= now + deadlineMs(s) + TimerLag
        /\ now + deadlineMs(s) + TimerLag <= now + Settings[s].reservationTtlMs
    BY <1>1, <2>1
  <2> QED
    BY <1>0, <2>1, <2>2, <2>5, <2>6 DEF CallInTime
<1>3. CASE Streams(r)
  <2>1. /\ requests[r].phase \in {"invoke", "stream"} /\ KeepsPlace(r)
        /\ requests[r].phase \in Working
        /\ requests'[r].since = requests[r].since /\ requests'[r].phase = "stream"
        /\ requests'[r].deadline = now + deadlineMs(s)
        /\ now + deadlineMs(s) <= requests[r].since + MaxStreamTime[s]
        /\ stores' = stores
    BY <1>3 DEF Streams, Working, StillTalking
  <2>2. Row(r)' = Row(r) /\ Selection(r)' = s
    BY <2>1 DEF Row, Selection, KeepsPlace
  <2>3. Row(r) \in DOMAIN stores[s].rows
    BY <2>1 DEF CallsInTime, CallInTime
  <2>4. Streaming # {} /\ requests[r].since \in Nat
    BY <1>0, <2>1 DEF Moves, RequestType, NodeTypeOK
  <2> HIDE DEF s
  <2>5. MaxStreamTime[s] + TimerLag <= Settings[s].reservationTtlMs /\ MaxStreamTime[s] \in Nat
    BY <1>1, <2>1, <2>4 DEF DeadlinesFit
  <2>6. /\ now <= now + deadlineMs(s) + TimerLag
        /\ now + deadlineMs(s) + TimerLag <= requests[r].since + Settings[s].reservationTtlMs
    <3>1. \A t, d, since, talk, ttl \in Nat :
              t + d <= since + talk /\ talk + TimerLag <= ttl
                => t <= t + d + TimerLag /\ t + d + TimerLag <= since + ttl
      OBVIOUS
    <3>2. now + deadlineMs(s) <= requests[r].since + MaxStreamTime[s]
      BY <2>1
    <3> QED
      BY <1>1, <2>1, <2>4, <2>5, <3>1, <3>2
  <2> QED
    BY <1>0, <2>1, <2>2, <2>3, <2>6 DEF CallInTime
<1>4. CASE ~HoldsProvider(r) /\ ~Streams(r)
  <2>1. requests'[r].phase \notin {"invoke", "stream"}
    BY <1>4 DEF NodeStepKind, Begins, Looks, HoldsCaller, CallerRefused, Settles, Closes, Fails
  <2> QED
    BY <2>1 DEF CallInTime
<1> QED
  BY <1>2, <1>3, <1>4

(* No call outlives its reservation.                                       *)
LEMMA CallsAreInTime ==
    ASSUME DeadlinesFit
    PROVE  NodeSpec => []CallsInTime
<1>1. NodeInit => CallsInTime
  <2> SUFFICES ASSUME NodeInit PROVE CallsInTime
    OBVIOUS
  <2>1. \A r \in Requests : requests[r].phase = "new"
    BY NodeStart DEF NewRequest
  <2> QED
    BY <2>1 DEF CallsInTime, CallInTime
<1>2. NodeInv /\ CallsInTime /\ [NodeNext]_nodeVars => CallsInTime'
  <2> SUFFICES ASSUME NodeInv, CallsInTime, [NodeNext]_nodeVars PROVE CallsInTime'
    OBVIOUS
  <2>1. CASE UNCHANGED nodeVars
    BY <2>1 DEF nodeVars, CallsInTime, CallInTime, Row, Selection
  <2>2. CASE Tick
    <3> SUFFICES ASSUME NEW r \in Requests, requests[r].phase \in {"invoke", "stream"}
                 PROVE  CallInTime(r)'
      BY <2>2 DEF CallsInTime, CallInTime, Tick
    <3>1. requests[r].deadline \in Nat /\ now \in Nat
      BY DEF NodeInv, NodeTypeOK, RequestType
    <3>2. now + 1 <= requests[r].deadline + TimerLag
      <4>1. requests[r].deadline # Undefined
        BY <3>1 DEF Undefined
      <4>2. now < requests[r].deadline + TimerLag
        BY <2>2, <4>1 DEF Tick
      <4> QED
        BY <3>1, <4>2
    <3>3. /\ now' = now + 1 /\ stores' = stores /\ requests' = requests
      BY <2>2 DEF Tick
    <3>4. Row(r)' = Row(r) /\ Selection(r)' = Selection(r)
      BY <3>3 DEF Row, Selection
    <3> QED
      BY <3>2, <3>3, <3>4 DEF CallsInTime, CallInTime
  <2>3. ASSUME NEW r \in Requests, NodeStepKind(r) PROVE CallsInTime'
    <3>1. ASSUME NEW q \in Requests PROVE CallInTime(q)'
      BY <2>3, OthersInTime, OwnInTime
    <3> QED
      BY <3>1 DEF CallsInTime
  <2> QED
    BY <2>1, <2>2, <2>3, EveryNodeStep DEF NodeInv
<1> QED
  BY <1>1, <1>2, NodeHolds, PTL DEF NodeSpec

(* As long as timers are no later than the deadline's margin and streams   *)
(* fall silent before their reservation expires, an account never has more *)
(* calls and streams open upstream than its maxConcurrent: a hung request  *)
(* is not reclaimed as stale while it still runs.                          *)
THEOREM UpstreamWithinCeiling ==
    ASSUME DeadlinesFit
    PROVE  NodeSpec => []UpstreamCeiling
<1>1. NodeInv /\ NodeCeiling /\ CallsInTime => UpstreamCeiling
  <2> SUFFICES ASSUME NodeInv, NodeCeiling, CallsInTime, NEW s \in Scopes,
                      Settings[s].maxConcurrent > 0
               PROVE  Cardinality(LiveOn(s)) <= Settings[s].maxConcurrent
    BY DEF UpstreamCeiling
  <2> DEFINE row == [r \in LiveOn(s) |-> Row(r)]
             rows == DOMAIN stores[s].rows
  <2>1. row \in Injection(LiveOn(s), rows)
    <3>1. ASSUME NEW r \in LiveOn(s) PROVE Row(r) \in rows
      BY DEF LiveOn, CallsInTime, CallInTime
    <3>2. \A q, r \in LiveOn(s) : Row(q) = Row(r) => q = r
      BY DEF Row
    <3> QED
      BY <3>1, <3>2, Zenon DEF Injection, IsInjective
  <2>2. IsFiniteSet(rows)
    BY DEF NodeInv, NodeTypeOK, LedgerType
  <2>3. /\ Cardinality(LiveOn(s)) \in Nat /\ Cardinality(rows) \in Nat
        /\ Cardinality(LiveOn(s)) <= Cardinality(rows)
    <3> HIDE DEF row, rows
    <3> QED
      BY <2>1, <2>2, FS_Injection, FS_CardinalityType
  <2>4. Cardinality(rows) <= Settings[s].maxConcurrent
    BY DEF NodeCeiling, reservationCount
  <2>5. Settings[s].maxConcurrent \in Nat
    BY AllSettingsTyped DEF SettingsType
  <2> HIDE DEF row, rows
  <2> QED
    BY <2>3, <2>4, <2>5
<1> QED
  BY <1>1, NodeHolds, NodeCeilingHolds, CallsAreInTime, PTL

-----------------------------------------------------------------------------
(* The daily budget.                                                       *)

(* What one account's books say at a time: nothing is dated ahead, what is *)
(* spent today and everything reserved fit the budget, and so did every    *)
(* day before.                                                             *)
BooksFit(ledger, budget, time) ==
    /\ NotAhead(ledger, time) /\ AllFit(ledger, budget, time)
    /\ \A day \in DOMAIN ledger.spent : ledger.spent[day] <= budget

(* What fits the budget with all rows fits it with fewer.                  *)
LEMMA AllFitBounds ==
    ASSUME NEW ledger, NEW budget, NEW time, LedgerType(ledger), budget \in Nat, time \in Nat,
           AllFit(ledger, budget, time)
    PROVE  /\ DaysFit(ledger, budget)
           /\ SpentOn(ledger, utcDay(time)) \in Nat
           /\ SpentOn(ledger, utcDay(time)) <= budget
           /\ TokensOf(ledger.rows, DOMAIN ledger.rows) \in Nat
           /\ TokensOf(ledger.rows, DOMAIN ledger.rows) <= budget
<1> DEFINE all == TokensOf(ledger.rows, DOMAIN ledger.rows)
           spent == SpentOn(ledger, utcDay(time))
<1>1. RowsType(ledger.rows) /\ DOMAIN ledger.rows \in SUBSET DOMAIN ledger.rows
  BY DEF RowsType, LedgerType
<1>2. /\ all \in Nat
      /\ \A part \in SUBSET DOMAIN ledger.rows : TokensOf(ledger.rows, part) <= all
  BY <1>1, TokensType
<1>3. spent \in Nat
  BY DEF SpentOn, LedgerType
<1>4. spent + all <= budget
  BY DEF AllFit
<1> HIDE DEF all, spent
<1>5. spent <= budget /\ all <= budget
  BY <1>2, <1>3, <1>4
<1>6. ASSUME NEW day \in Int PROVE TokensOf(ledger.rows, RowsOfDay(ledger.rows, day)) <= budget
  <2>1. RowsOfDay(ledger.rows, day) \in SUBSET DOMAIN ledger.rows
    BY DEF RowsOfDay
  <2>2. TokensOf(ledger.rows, RowsOfDay(ledger.rows, day)) \in Nat
    BY <1>1, <2>1, TokensType
  <2>3. TokensOf(ledger.rows, RowsOfDay(ledger.rows, day)) <= all
    BY <1>2, <2>1
  <2> QED
    BY <1>2, <1>5, <2>2, <2>3
<1> QED
  BY <1>2, <1>3, <1>5, <1>6 DEF DaysFit, all, spent

(* Yesterday's reservations still fit today, when nothing is spent yet.    *)
LEMMA LaterFit ==
    ASSUME NEW ledger, NEW budget, NEW time, LedgerType(ledger), budget \in Nat, time \in Nat,
           BooksFit(ledger, budget, time)
    PROVE  BooksFit(ledger, budget, time + 1)
<1>1. /\ utcDay(time) \in Nat /\ utcDay(time + 1) \in Nat /\ utcDay(time) <= utcDay(time + 1)
  <2>1. time + 1 \in Nat /\ time <= time + 1
    OBVIOUS
  <2> QED
    BY <2>1, DayOf, DaysInOrder
<1>2. NotAhead(ledger, time + 1)
  <2>1. \A day \in DOMAIN ledger.spent : day \in Nat /\ day <= utcDay(time)
    BY DEF BooksFit, NotAhead, LedgerType
  <2>2. \A id \in DOMAIN ledger.rows :
            ledger.rows[id].created_at \in Nat /\ ledger.rows[id].created_at <= time
    BY DEF BooksFit, NotAhead, LedgerType
  <2>3. \A day \in DOMAIN ledger.spent : day <= utcDay(time + 1)
    BY <1>1, <2>1
  <2>4. \A at \in Nat : at <= time => at <= time + 1
    OBVIOUS
  <2> QED
    BY <2>2, <2>3, <2>4 DEF NotAhead
<1>3. AllFit(ledger, budget, time + 1)
  <2>1. CASE utcDay(time + 1) = utcDay(time)
    BY <2>1 DEF BooksFit, AllFit
  <2>2. CASE utcDay(time + 1) # utcDay(time)
    <3>1. utcDay(time + 1) \notin DOMAIN ledger.spent
      <4>1. \A day \in DOMAIN ledger.spent : day \in Nat /\ day <= utcDay(time)
        BY DEF BooksFit, NotAhead, LedgerType
      <4> QED
        BY <1>1, <2>2, <4>1
    <3>2. SpentOn(ledger, utcDay(time + 1)) = 0
      BY <3>1 DEF SpentOn
    <3>3. /\ TokensOf(ledger.rows, DOMAIN ledger.rows) \in Nat
          /\ TokensOf(ledger.rows, DOMAIN ledger.rows) <= budget
      BY AllFitBounds DEF BooksFit
    <3> QED
      BY <3>2, <3>3 DEF AllFit
  <2> QED
    BY <2>1, <2>2
<1> QED
  BY <1>2, <1>3 DEF BooksFit

(* Releasing what expired keeps the books within the budget.               *)
LEMMA PrunedFit ==
    ASSUME NEW ledger, NEW settings, NEW budget, NEW time, LedgerType(ledger),
           SettingsType(settings), budget \in Nat, time \in Nat, BooksFit(ledger, budget, time)
    PROVE  BooksFit(Pruned(ledger, settings, time), budget, time)
<1>1. settings.reservationTtlMs \in Nat /\ DaysFit(ledger, budget)
  BY AllFitBounds DEF SettingsType, BooksFit
<1>2. NotAhead(ledger, time) /\ AllFit(ledger, budget, time)
  BY DEF BooksFit
<1> DEFINE ttlMs == settings.reservationTtlMs
           after == releaseExpiredReservations(ledger, ttlMs, time)
<1>3. NotAhead(after, time) /\ AllFit(after, budget, time)
  <2>1. ttlMs \in Nat
    BY <1>1
  <2> HIDE DEF ttlMs
  <2> QED
    BY <1>1, <1>2, <2>1, ReleasingFits
<1>4. Pruned(ledger, settings, time) = after
  BY DEF Pruned
<1>5. Pruned(ledger, settings, time).spent = ledger.spent
  BY Pruning
<1> HIDE DEF after
<1> QED
  BY <1>3, <1>4, <1>5 DEF BooksFit

(* An admission counts what is spent today and all that is reserved.       *)
LEMMA AdmittedFit ==
    ASSUME NEW ledger, NEW settings, NEW id, NEW tokens, NEW time,
           LedgerType(ledger), SettingsType(settings), tokens \in Nat, time \in Nat,
           id \notin DOMAIN ledger.rows, settings.dailySafetyBudgetTokens > 0,
           ~BudgetExceeded(ledger, tokens, settings, time),
           BooksFit(ledger, settings.dailySafetyBudgetTokens, time)
    PROVE  BooksFit(Reserved(ledger, id, tokens, settings, time),
                    settings.dailySafetyBudgetTokens, time)
<1> DEFINE after == Reserved(ledger, id, tokens, settings, time)
           budget == settings.dailySafetyBudgetTokens
           all == TokensOf(ledger.rows, DOMAIN ledger.rows)
           spent == SpentOn(ledger, utcDay(time))
<1> HIDE NodeAssumption, NodeSettingsAssumption
<1>0. budget \in Nat
  BY DEF SettingsType
<1>1. /\ DOMAIN after.rows = DOMAIN ledger.rows \cup {id}
      /\ after.rows[id].created_at = time
      /\ \A row \in DOMAIN ledger.rows \ {id} : after.rows[row] = ledger.rows[row]
      /\ after.spent = ledger.spent
  BY Reserving
<1>2. TokensOf(after.rows, DOMAIN ledger.rows \cup {id}) = tokens + all
  BY TokensReserved
<1>3. all \in Nat /\ spent \in Nat
  BY <1>0, AllFitBounds DEF BooksFit
<1>4. spent + all + tokens <= budget
  <2>1. ~(spent + all + tokens > budget)
    BY DEF BudgetExceeded, reservedTotal
  <2> HIDE DEF all, spent, budget
  <2> QED
    BY <1>0, <1>3, <2>1
<1>5. SpentOn(after, utcDay(time)) = spent
  BY <1>1 DEF SpentOn
<1> HIDE DEF after, all, spent
<1>6. AllFit(after, budget, time)
  BY <1>0, <1>1, <1>2, <1>3, <1>4, <1>5 DEF AllFit
<1>7. NotAhead(after, time)
  <2>1. \A row \in DOMAIN ledger.rows : ledger.rows[row].created_at <= time
    BY DEF BooksFit, NotAhead
  <2>2. \A row \in DOMAIN after.rows : after.rows[row].created_at <= time
    BY <1>1, <2>1
  <2> QED
    BY <1>1, <2>2 DEF BooksFit, NotAhead
<1> QED
  BY <1>1, <1>6, <1>7 DEF BooksFit, after

(* So does a settlement that charges no more than the row.                 *)
LEMMA SettledFit ==
    ASSUME NEW ledger, NEW settings, NEW outcome, NEW id, NEW budget, NEW time,
           LedgerType(ledger), SettingsType(settings), OutcomeType(outcome),
           budget \in Nat, time \in Nat,
           id \in DOMAIN ledger.rows =>
               ChargedTokens(outcome, ledger.rows[id].tokens) <= ledger.rows[id].tokens,
           BooksFit(ledger, budget, time)
    PROVE  BooksFit(Settled(ledger, id, outcome, settings, time), budget, time)
<1> DEFINE after == Settled(ledger, id, outcome, settings, time)
           today == utcDay(time)
           charge == ChargedTokens(outcome, ledger.rows[id].tokens)
<1>1. DaysFit(ledger, budget) /\ NotAhead(ledger, time) /\ AllFit(ledger, budget, time)
  BY AllFitBounds DEF BooksFit
<1>2. NotAhead(after, time) /\ AllFit(after, budget, time)
  BY <1>1, SettlingFits
<1>3. /\ LedgerType(after)
      /\ \/ after.spent = ledger.spent
         \/ after.spent = SpentAfter(ledger, charge, today)
  BY Settling
<1> HIDE DEF after
<1>4. SpentOn(after, today) <= budget
  BY <1>2, <1>3, AllFitBounds
<1>5. ASSUME NEW day \in DOMAIN after.spent PROVE after.spent[day] <= budget
  <2>1. CASE day = today
    BY <1>4, <1>5, <2>1 DEF SpentOn
  <2>2. CASE day # today
    <3>1. day \in DOMAIN ledger.spent /\ after.spent[day] = ledger.spent[day]
      <4> HIDE DEF today, charge
      <4> QED
        BY <1>3, <1>5, <2>2 DEF SpentAfter
    <3> QED
      BY <3>1 DEF BooksFit
  <2> QED
    BY <2>1, <2>2
<1> QED
  BY <1>2, <1>5 DEF BooksFit, after

(* Every account with a budget.                                            *)
DailyBooks ==
    \A s \in Scopes : Settings[s].dailySafetyBudgetTokens > 0 =>
        BooksFit(stores[s], Settings[s].dailySafetyBudgetTokens, now)

(* A call is charged no more than its row reserved.                        *)
LEMMA ChargeWithinRow ==
    ASSUME UsageWithinReservation, NodeInv, NEW r \in Requests, NEW s \in Scopes,
           s = Selection(r), requests[r].phase \in {"invoke", "stream"},
           Row(r) \in DOMAIN stores[s].rows,
           NEW outcome, outcome.actualTokens \in UsageReports \cup {Undefined}
    PROVE  /\ stores[s].rows[Row(r)].tokens = requests[r].tokens
           /\ requests[r].tokens \in TokenRequests
           /\ ChargedTokens(outcome, stores[s].rows[Row(r)].tokens)
                <= stores[s].rows[Row(r)].tokens
<1>1. PICK q \in Requests, n \in Candidates : Row(r) = <<q, n>> /\ HeldBy(q, n, s)
  BY DEF NodeInv, RowsAreHeld
<1>2. q = r /\ requests[r].phase # "failed"
  BY <1>1 DEF Row
<1>3. stores[s].rows[<<q, n>>].tokens = requests[q].tokens
  BY <1>1, <1>2 DEF HeldBy
<1>4. stores[s].rows[Row(r)].tokens = requests[r].tokens
  BY <1>1, <1>2, <1>3
<1>5. requests[r].tokens \in TokenRequests /\ requests[r].tokens \in Nat
  BY DEF NodeInv, NodeTypeOK, RequestType, Working
<1> DEFINE tokens == requests[r].tokens
<1>6. ChargedTokens(outcome, tokens) <= tokens
  <2>1. outcome.actualTokens # Undefined => outcome.actualTokens \in UsageReports
    OBVIOUS
  <2>2. outcome.actualTokens # Undefined => outcome.actualTokens \in Nat
    BY <2>1
  <2>3. outcome.actualTokens # Undefined => outcome.actualTokens <= tokens
    BY <1>5, <2>1 DEF UsageWithinReservation
  <2>4. tokens \in Nat
    BY <1>5
  <2> HIDE DEF tokens
  <2> QED
    BY <2>2, <2>3, <2>4 DEF ChargedTokens, MaxOf
<1> QED
  BY <1>4, <1>5, <1>6

(* A step of a request keeps every account's books in the budget.          *)
LEMMA BooksStep ==
    ASSUME UsageWithinReservation, NodeInv, DailyBooks, NEW r \in Requests, NodeStepKind(r),
           NEW s \in Scopes, Settings[s].dailySafetyBudgetTokens > 0
    PROVE  BooksFit(stores'[s], Settings[s].dailySafetyBudgetTokens, now)
<1> DEFINE budget == Settings[s].dailySafetyBudgetTokens
           live == Pruned(stores[s], Settings[s], now)
<1>0. /\ LedgerType(stores[s]) /\ SettingsType(Settings[s]) /\ DOMAIN stores = Scopes
      /\ now \in Nat /\ budget \in Nat /\ NodeTypeOK /\ BooksFit(stores[s], budget, now)
  BY AllSettingsTyped DEF NodeInv, NodeTypeOK, SettingsType, DailyBooks
<1>1. BooksFit(live, budget, now) /\ LedgerType(live)
      /\ DOMAIN live.rows \subseteq DOMAIN stores[s].rows
  BY <1>0, PrunedFit, Pruning DEF FewerRows
<1>2. CASE s # Selection(r)
  <2>1. stores'[s] = stores[s]
    BY <1>0, <1>2 DEF NodeStepKind, Begins, Looks, HoldsCaller, CallerRefused, HoldsProvider,
                    Settles, Streams, Closes, Fails, LedgerOf
  <2> QED
    BY <1>0, <2>1
<1>3. CASE s = Selection(r)
  <2>1. CASE Looks(r)
    <3>1. stores'[s] = live
      BY <1>0, <1>3, <2>1 DEF Looks, LedgerOf
    <3> QED
      BY <1>1, <3>1
  <2>2. CASE HoldsProvider(r)
    <3>1. /\ stores'[s] = Reserved(live, Row(r), requests[r].tokens, Settings[s], now)
          /\ ~BudgetExceeded(live, requests[r].tokens, Settings[s], now)
      BY <1>0, <1>3, <2>2 DEF HoldsProvider, LedgerOf, admission
    <3>2. requests[r].tokens \in Nat
      <4>1. requests[r].phase \in Working
        BY <2>2 DEF HoldsProvider, At, Working
      <4> QED
        BY <1>0, <4>1, SelectionType
    <3>3. Row(r) \notin DOMAIN live.rows
      <4>1. SUFFICES ASSUME Row(r) \in DOMAIN stores[s].rows PROVE FALSE
        BY <1>1
      <4>2. PICK q \in Requests, n \in Candidates : Row(r) = <<q, n>> /\ HeldBy(q, n, s)
        BY <4>1 DEF NodeInv, RowsAreHeld
      <4>3. q = r /\ requests[r].phase = "reserve"
        BY <2>2, <4>2 DEF Row, HoldsProvider, At
      <4> QED
        BY <4>2, <4>3 DEF HeldBy
    <3> HIDE DEF live
    <3> QED
      BY <1>0, <1>1, <3>1, <3>2, <3>3, AdmittedFit
  <2>3. CASE Settles(r)
    <3>1. PICK outcome :
              /\ OutcomeType(outcome)
              /\ requests'[r].served = outcome.quotaSuccess
              /\ outcome.quotaSuccess =>
                     /\ outcome = Success(requests'[r].actualTokens)
                     /\ requests'[r].actualTokens \in UsageReports
              /\ ~outcome.quotaSuccess => outcome.actualTokens = Undefined
              /\ LedgerOf(s, Settled(stores[s], Row(r), outcome, Settings[s], now))
      BY <1>3, <2>3 DEF Settles
    <3>2. stores'[s] = Settled(stores[s], Row(r), outcome, Settings[s], now)
      BY <1>0, <3>1 DEF LedgerOf
    <3>3. outcome.actualTokens \in UsageReports \cup {Undefined}
      BY <3>1 DEF Success
    <3>4. Row(r) \in DOMAIN stores[s].rows =>
              ChargedTokens(outcome, stores[s].rows[Row(r)].tokens)
                <= stores[s].rows[Row(r)].tokens
      BY <1>3, <2>3, <3>3, ChargeWithinRow DEF Settles
    <3> HIDE DEF budget
    <3>5. BooksFit(Settled(stores[s], Row(r), outcome, Settings[s], now), budget, now)
      BY <1>0, <3>1, <3>4, SettledFit
    <3> QED
      BY <3>2, <3>5 DEF budget
  <2>4. CASE ~Looks(r) /\ ~HoldsProvider(r) /\ ~Settles(r)
    <3>1. stores' = stores
      BY <2>4 DEF NodeStepKind, Begins, HoldsCaller, CallerRefused, Streams, Closes, Fails
    <3> QED
      BY <1>0, <3>1
  <2> QED
    BY <2>1, <2>2, <2>3, <2>4
<1> QED
  BY <1>2, <1>3

(* No account's day ends above its budget, as long as a call costs no more *)
(* than was reserved for it: an admission counts every open reservation,   *)
(* so those carried over midnight cannot add to a day already filled.      *)
THEOREM NodeBudgetIsKept ==
    ASSUME UsageWithinReservation
    PROVE  NodeSpec => []NoOverdraft
<1>1. NodeInit => DailyBooks
  <2> SUFFICES ASSUME NodeInit, NEW s \in Scopes, Settings[s].dailySafetyBudgetTokens > 0
               PROVE  BooksFit(stores[s], Settings[s].dailySafetyBudgetTokens, now)
    BY DEF DailyBooks
  <2>1. /\ DOMAIN stores[s].rows = {} /\ DOMAIN stores[s].spent = {}
        /\ Settings[s].dailySafetyBudgetTokens \in Nat
    BY NodeStart, AllSettingsTyped DEF SettingsType
  <2>2. /\ TokensOf(stores[s].rows, DOMAIN stores[s].rows) = 0
        /\ SpentOn(stores[s], utcDay(now)) = 0
    BY <2>1, TokensNone DEF SpentOn
  <2> QED
    BY <2>1, <2>2 DEF BooksFit, NotAhead, AllFit
<1>2. NodeInv /\ DailyBooks /\ [NodeNext]_nodeVars => DailyBooks'
  <2> SUFFICES ASSUME NodeInv, DailyBooks, [NodeNext]_nodeVars PROVE DailyBooks'
    OBVIOUS
  <2>1. CASE UNCHANGED nodeVars
    BY <2>1 DEF nodeVars, DailyBooks
  <2>2. CASE Tick
    <3> SUFFICES ASSUME NEW s \in Scopes, Settings[s].dailySafetyBudgetTokens > 0
                 PROVE  BooksFit(stores'[s], Settings[s].dailySafetyBudgetTokens, now')
      BY DEF DailyBooks
    <3>1. /\ LedgerType(stores[s]) /\ now \in Nat
          /\ Settings[s].dailySafetyBudgetTokens \in Nat
          /\ BooksFit(stores[s], Settings[s].dailySafetyBudgetTokens, now)
      BY AllSettingsTyped DEF NodeInv, NodeTypeOK, SettingsType, DailyBooks
    <3>2. BooksFit(stores[s], Settings[s].dailySafetyBudgetTokens, now + 1)
      BY <3>1, LaterFit
    <3>3. stores' = stores /\ now' = now + 1
      BY <2>2 DEF Tick
    <3> QED
      BY <3>2, <3>3
  <2>3. ASSUME NEW r \in Requests, NodeStepKind(r) PROVE DailyBooks'
    <3>1. now' = now
      BY <2>3, NodeTypeStep DEF NodeInv
    <3>2. ASSUME NEW s \in Scopes, Settings[s].dailySafetyBudgetTokens > 0
          PROVE  BooksFit(stores'[s], Settings[s].dailySafetyBudgetTokens, now')
      BY <2>3, <3>1, <3>2, BooksStep
    <3> QED
      BY <3>2 DEF DailyBooks
  <2> QED
    BY <2>1, <2>2, <2>3, EveryNodeStep DEF NodeInv
<1>3. DailyBooks => NoOverdraft
  BY DEF DailyBooks, NoOverdraft, BooksFit
<1> QED
  BY <1>1, <1>2, <1>3, NodeHolds, PTL DEF NodeSpec

-----------------------------------------------------------------------------
(* Both sides of the books.                                                *)

(* What a settlement that charges does to a ledger's total.                *)
LEMMA TotalAfterSettling ==
    ASSUME NEW ledger, NEW settings, NEW outcome, NEW id, NEW time,
           LedgerType(ledger), SettingsType(settings), OutcomeType(outcome), time \in Nat
    PROVE  LET after == Settled(ledger, id, outcome, settings, time) IN
           /\ TotalSpent(ledger) \in Nat
           /\ id \in DOMAIN ledger.rows /\ outcome.quotaSuccess =>
                  TotalSpent(after)
                    = TotalSpent(ledger) + ChargedTokens(outcome, ledger.rows[id].tokens)
           /\ ~outcome.quotaSuccess => after.spent = ledger.spent
<1> HIDE NodeAssumption, NodeSettingsAssumption
<1> DEFINE after == Settled(ledger, id, outcome, settings, time)
           today == utcDay(time)
           charge == ChargedTokens(outcome, ledger.rows[id].tokens)
<1>1. after.spent = IF id \in DOMAIN ledger.rows /\ outcome.quotaSuccess
                    THEN SpentAfter(ledger, charge, today) ELSE ledger.spent
  BY Settling
<1>2. today \in Nat
  BY DayOf
<1>3. ASSUME id \in DOMAIN ledger.rows PROVE charge \in Nat
  <2>1. ledger.rows[id].tokens \in Nat
    BY <1>3 DEF LedgerType
  <2> QED
    BY <2>1 DEF ChargedTokens, OutcomeType, MaxOf
<1> HIDE DEF after, today, charge
<1>4. TotalSpent(ledger) \in Nat
  BY TotalType DEF TotalSpent, SpentTotal
<1>5. ASSUME id \in DOMAIN ledger.rows, outcome.quotaSuccess
      PROVE  TotalSpent(after) = TotalSpent(ledger) + charge
  <2>1. after.spent = SpentAfter(ledger, charge, today)
    BY <1>1, <1>5
  <2>2. SpentTotal(SpentAfter(ledger, charge, today)) = SpentTotal(ledger.spent) + charge
    BY <1>2, <1>3, <1>5, TotalAfterCharge
  <2> QED
    BY <2>1, <2>2 DEF TotalSpent, SpentTotal
<1> QED
  BY <1>1, <1>4, <1>5 DEF after, charge

(* A row of a call is the one it was made with.                            *)
LEMMA RowOfCall ==
    ASSUME NodeInv, NEW r \in Requests, requests[r].phase \in {"invoke", "stream"},
           Row(r) \in DOMAIN stores[Selection(r)].rows
    PROVE  stores[Selection(r)].rows[Row(r)].tokens = requests[r].tokens
<1>0. Selection(r) \in Scopes
  BY SelectionType DEF NodeInv, Working
<1>1. PICK q \in Requests, n \in Candidates :
          Row(r) = <<q, n>> /\ HeldBy(q, n, Selection(r))
  BY <1>0 DEF NodeInv, RowsAreHeld
<1>2. q = r /\ requests[r].phase # "failed"
  BY <1>1 DEF Row
<1>3. stores[Selection(r)].rows[<<q, n>>].tokens = requests[q].tokens
  BY <1>1, <1>2 DEF HeldBy
<1> QED
  BY <1>1, <1>2, <1>3

(* What served requests still owe is a sum of numbers.                     *)
LEMMA OwedType ==
    ASSUME NodeInv, CallerRowsLive
    PROVE  /\ IsFiniteSet(Owing)
           /\ \A r \in Owing : /\ CallerCharge(r) \in Nat /\ requests[r].phase = "closing"
                               /\ requests[r].callerHeld /\ r \in DOMAIN callerStore.rows
                               /\ CallerOutcome(r) = Success(requests[r].actualTokens)
                               /\ OutcomeType(CallerOutcome(r))
<1>1. ASSUME NEW r \in Owing
      PROVE  /\ CallerCharge(r) \in Nat /\ requests[r].phase = "closing"
             /\ requests[r].callerHeld /\ r \in DOMAIN callerStore.rows
             /\ CallerOutcome(r) = Success(requests[r].actualTokens)
             /\ OutcomeType(CallerOutcome(r))
  <2>1. /\ r \in Requests /\ requests[r].phase = "closing" /\ requests[r].callerHeld
        /\ requests[r].actualTokens \in UsageReports /\ requests[r].served
    BY DEF Owing, NodeInv, NodeTypeOK, RequestType
  <2>2. requests[r].tokens \in Nat /\ requests[r].actualTokens \in Nat \cup {Undefined}
    BY <2>1 DEF NodeInv, NodeTypeOK, RequestType, Working
  <2>3. r \in DOMAIN callerStore.rows
    BY <2>1 DEF CallerRowsLive
  <2>4. CallerOutcome(r) = Success(requests[r].actualTokens)
    BY <2>1 DEF CallerOutcome
  <2>5. CallerCharge(r) \in Nat
    BY <2>2, <2>4 DEF CallerCharge, ChargedTokens, Success, MaxOf
  <2> QED
    BY <2>1, <2>2, <2>3, <2>4, <2>5, Outcomes
<1>2. Owing \subseteq DOMAIN callerStore.rows /\ IsFiniteSet(DOMAIN callerStore.rows)
  BY <1>1 DEF NodeInv, NodeTypeOK, LedgerType
<1> QED
  BY <1>1, <1>2, FS_Subset

(* A request whose transaction failed stays where it is.                   *)
LEMMA FailedStays ==
    ASSUME NodeInv, NEW r \in Requests, NodeStepKind(r),
           \A q \in Requests : requests'[q].phase # "failed"
    PROVE  ~Fails(r) /\ \A q \in Requests : requests[q].phase # "failed"
<1>1. Moves(r)
  BY NodeTypeStep DEF NodeInv
<1>2. ~Fails(r)
  BY DEF Fails
<1>3. requests[r].phase # "failed"
  BY <1>2 DEF NodeStepKind, Begins, Looks, HoldsCaller, CallerRefused, HoldsProvider, Settles,
         Streams, Closes, At
<1> QED
  BY <1>1, <1>2, <1>3 DEF Moves

(* Only a settlement charges an account, and only the end of a request     *)
(* charges the caller.                                                     *)
LEMMA NothingElseSpends ==
    ASSUME NodeInv, NEW r \in Requests, NodeStepKind(r)
    PROVE  /\ \A s \in Scopes : ~(Settles(r) /\ s = Selection(r))
                  => stores'[s].spent = stores[s].spent
           /\ ~Closes(r) => callerStore'.spent = callerStore.spent
<1>0. /\ NodeTypeOK /\ now \in Nat /\ DOMAIN stores = Scopes
      /\ LedgerType(callerStore) /\ SettingsType(CallerSettings)
  BY AllSettingsTyped DEF NodeInv, NodeTypeOK
<1>1. ASSUME NEW s \in Scopes, ~(Settles(r) /\ s = Selection(r))
      PROVE  stores'[s].spent = stores[s].spent
  <2>0. LedgerType(stores[s]) /\ SettingsType(Settings[s])
    BY <1>0, AllSettingsTyped DEF NodeTypeOK
  <2> DEFINE live == Pruned(stores[s], Settings[s], now)
  <2>1. LedgerType(live) /\ live.spent = stores[s].spent
    BY <1>0, <2>0, Pruning DEF FewerRows
  <2>2. CASE Looks(r) /\ s = Selection(r)
    <3>1. stores'[s] = live
      BY <1>0, <2>2 DEF Looks, LedgerOf
    <3> QED
      BY <2>1, <3>1
  <2>3. CASE HoldsProvider(r) /\ s = Selection(r)
    <3>1. stores'[s] = Reserved(live, Row(r), requests[r].tokens, Settings[s], now)
      BY <1>0, <2>3 DEF HoldsProvider, LedgerOf
    <3>2. requests[r].tokens \in Nat
      <4>1. requests[r].phase \in Working
        BY <2>3 DEF HoldsProvider, At, Working
      <4> QED
        BY <1>0, <4>1, SelectionType
    <3> HIDE DEF live
    <3>3. Reserved(live, Row(r), requests[r].tokens, Settings[s], now).spent = live.spent
      BY <1>0, <2>0, <2>1, <3>2, Reserving
    <3> QED
      BY <2>1, <3>1, <3>3
  <2>4. CASE s # Selection(r)
    BY <1>0, <2>4 DEF NodeStepKind, Begins, Looks, HoldsCaller, CallerRefused, HoldsProvider,
                    Settles, Streams, Closes, Fails, LedgerOf
  <2>5. CASE ~Looks(r) /\ ~HoldsProvider(r) /\ ~Settles(r)
    <3>1. stores' = stores
      BY <2>5 DEF NodeStepKind, Begins, HoldsCaller, CallerRefused, Streams, Closes, Fails
    <3> QED
      BY <3>1
  <2> QED
    BY <1>1, <2>2, <2>3, <2>4, <2>5
<1>2. ASSUME ~Closes(r) PROVE callerStore'.spent = callerStore.spent
  <2> DEFINE live == Pruned(callerStore, CallerSettings, now)
  <2>1. LedgerType(live) /\ live.spent = callerStore.spent
    BY <1>0, Pruning DEF FewerRows
  <2>2. CASE HoldsCaller(r)
    <3>1. callerStore' = Reserved(live, r, requests[r].tokens, CallerSettings, now)
      BY <2>2 DEF HoldsCaller
    <3>2. requests[r].tokens \in Nat
      <4>1. requests[r].phase \in Working
        BY <2>2 DEF HoldsCaller, At, Working
      <4> QED
        BY <1>0, <4>1, SelectionType
    <3> HIDE DEF live
    <3>3. Reserved(live, r, requests[r].tokens, CallerSettings, now).spent = live.spent
      BY <1>0, <2>1, <3>2, Reserving
    <3> QED
      BY <2>1, <3>1, <3>3
  <2>3. CASE CallerRefused(r)
    <3>1. callerStore' = live
      BY <2>3 DEF CallerRefused
    <3> QED
      BY <2>1, <3>1
  <2>4. CASE ~HoldsCaller(r) /\ ~CallerRefused(r)
    BY <1>0, <1>2, <2>4, CallerStoreStep
  <2> QED
    BY <2>2, <2>3, <2>4
<1> QED
  BY <1>1, <1>2

(* What the accounts were charged in all, when one of them is charged.     *)
LEMMA ProvidersCharged ==
    ASSUME NodeTypeOK, NodeTypeOK', NEW s \in Scopes, NEW charge, charge \in Nat,
           TotalSpent(stores'[s]) = TotalSpent(stores[s]) + charge,
           \A other \in Scopes \ {s} : stores'[other].spent = stores[other].spent
    PROVE  ProvidersSpent \in Nat /\ ProvidersSpent' = ProvidersSpent + charge
<1> DEFINE before == [x \in Scopes |-> TotalSpent(stores[x])]
           after  == [x \in Scopes |-> TotalSpent(stores'[x])]
           rest   == Scopes \ {s}
<1>1. \A x \in Scopes : TotalSpent(stores[x]) \in Nat /\ TotalSpent(stores'[x]) \in Nat
  BY TotalType DEF TotalSpent, SpentTotal, NodeTypeOK
<1>2. /\ \A x \in Scopes : before[x] \in Nat /\ after[x] \in Nat /\ before[x] \in Int
                                             /\ after[x] \in Int
      /\ after[s] = before[s] + charge
      /\ \A x \in rest : before[x] = after[x]
  <2>1. \A x \in rest : TotalSpent(stores[x]) = TotalSpent(stores'[x])
    BY DEF TotalSpent
  <2> QED
    BY <1>1, <2>1
<1>3. /\ ProvidersSpent = SumFunctionOnSet(before, Scopes)
      /\ ProvidersSpent' = SumFunctionOnSet(after, Scopes)
      /\ IsFiniteSet(Scopes)
  BY DEF ProvidersSpent
<1>4. IsFiniteSet(rest) /\ \A x \in rest : x \in Scopes
  BY <1>3, FS_RemoveElement
<1> HIDE DEF before, after
<1> HIDE NodeAssumption, NodeSettingsAssumption
<1>5. /\ SumFunctionOnSet(before, Scopes) = before[s] + SumFunctionOnSet(before, rest)
      /\ SumFunctionOnSet(after, Scopes) = after[s] + SumFunctionOnSet(after, rest)
      /\ SumFunctionOnSet(before, Scopes) \in Nat
  <2>1. SumFunctionOnSet(before, Scopes) = before[s] + SumFunctionOnSet(before, rest)
    BY <1>2, <1>3, SumRemove
  <2>2. SumFunctionOnSet(after, Scopes) = after[s] + SumFunctionOnSet(after, rest)
    BY <1>2, <1>3, SumRemove
  <2>3. SumFunctionOnSet(before, Scopes) \in Nat
    BY <1>2, <1>3, SumType
  <2> QED
    BY <2>1, <2>2, <2>3
<1>6. /\ SumFunctionOnSet(before, rest) = SumFunctionOnSet(after, rest)
      /\ SumFunctionOnSet(before, rest) \in Int
  BY <1>2, <1>4, SumAgree, SumType
<1> HIDE DEF rest
<1>7. before[s] \in Int
  BY <1>2
<1> QED
  BY <1>2, <1>3, <1>5, <1>6, <1>7

(* And when none is.                                                       *)
LEMMA ProvidersNotCharged ==
    ASSUME NodeTypeOK, NodeTypeOK', \A s \in Scopes : stores'[s].spent = stores[s].spent
    PROVE  ProvidersSpent' = ProvidersSpent
<1> DEFINE before == [x \in Scopes |-> TotalSpent(stores[x])]
           after  == [x \in Scopes |-> TotalSpent(stores'[x])]
<1>1. \A x \in Scopes : before[x] = after[x]
  BY DEF TotalSpent
<1>2. /\ ProvidersSpent = SumFunctionOnSet(before, Scopes)
      /\ ProvidersSpent' = SumFunctionOnSet(after, Scopes)
      /\ IsFiniteSet(Scopes)
  BY DEF ProvidersSpent
<1> HIDE DEF before, after
<1> QED
  BY <1>1, <1>2, SumAgree

(* What is owed after a step: as before, one charge more, or one less.     *)
LEMMA OwedAfter ==
    ASSUME NodeInv, CallerRowsLive, NEW r \in Requests, Moves(r)
    PROVE  /\ Owed \in Nat
           /\ ~requests[r].served /\ ~requests'[r].served => Owed' = Owed
           /\ ~requests[r].served /\ requests'[r].served /\ CallerCharge(r)' \in Nat
                  => Owed' = Owed + CallerCharge(r)'
           /\ requests[r].served /\ ~requests'[r].served => Owed = CallerCharge(r) + Owed'
<1> DEFINE before == [q \in Requests |-> CallerCharge(q)]
           after  == [q \in Requests |-> CallerCharge(q)']
           rest   == Owing \ {r}
<1>1. /\ IsFiniteSet(Owing) /\ \A q \in Owing : CallerCharge(q) \in Nat
      /\ Owing \subseteq Requests
  BY OwedType DEF Owing
<1>2. \A q \in Requests \ {r} : requests'[q] = requests[q] /\ CallerCharge(q)' = CallerCharge(q)
  BY DEF Moves, CallerCharge, CallerOutcome
<1>3. /\ Owing' = {q \in Requests : requests'[q].served}
      /\ Owing  = {q \in Requests : requests[q].served}
  BY DEF Owing
<1>4. /\ Owed = SumFunctionOnSet(before, Owing) /\ Owed' = SumFunctionOnSet(after, Owing')
      /\ \A q \in Requests : before[q] = CallerCharge(q) /\ after[q] = CallerCharge(q)'
  BY DEF Owed
<1> HIDE DEF before, after
<1>5. /\ IsFiniteSet(rest) /\ r \notin rest
      /\ \A q \in rest : before[q] = after[q] /\ before[q] \in Nat /\ before[q] \in Int
                         /\ after[q] \in Int
      /\ \A q \in Owing : before[q] \in Nat /\ before[q] \in Int
  <2>1. IsFiniteSet(rest) /\ r \notin rest
    BY <1>1, FS_RemoveElement
  <2>2. \A q \in Owing : before[q] \in Nat /\ before[q] \in Int
    BY <1>1, <1>4
  <2>3. \A q \in rest : q \in Owing /\ q \in Requests /\ q # r
    BY <1>1
  <2>4. \A q \in rest : before[q] = after[q]
    BY <1>2, <1>4, <2>3
  <2> QED
    BY <2>1, <2>2, <2>3, <2>4
<1>6. /\ ~requests'[r].served => Owing' = rest
      /\ requests'[r].served  => Owing' = rest \cup {r}
      /\ ~requests[r].served  => Owing = rest
  BY <1>2, <1>3
<1>7. /\ SumFunctionOnSet(before, rest) = SumFunctionOnSet(after, rest)
      /\ SumFunctionOnSet(before, Owing) \in Nat /\ SumFunctionOnSet(before, rest) \in Nat
  BY <1>1, <1>5, SumAgree, SumType
<1>8. ASSUME ~requests[r].served, ~requests'[r].served PROVE Owed' = Owed
  BY <1>4, <1>6, <1>7, <1>8
<1>9. ASSUME ~requests[r].served, requests'[r].served, CallerCharge(r)' \in Nat
      PROVE  Owed' = Owed + CallerCharge(r)'
  <2>1. \A q \in rest \cup {r} : after[q] \in Int
    BY <1>4, <1>5, <1>9
  <2>2. SumFunctionOnSet(after, rest \cup {r}) = after[r] + SumFunctionOnSet(after, rest)
    BY <1>5, <2>1, SumAdd
  <2>3. Owed = SumFunctionOnSet(before, rest) /\ Owed' = SumFunctionOnSet(after, rest \cup {r})
    BY <1>4, <1>6, <1>9
  <2>4. after[r] = CallerCharge(r)'
    BY <1>4
  <2> HIDE DEF rest
  <2> QED
    BY <1>7, <1>9, <2>2, <2>3, <2>4
<1>10. ASSUME requests[r].served, ~requests'[r].served PROVE Owed = CallerCharge(r) + Owed'
  <2>1. r \in Owing
    BY <1>3, <1>10
  <2>2. SumFunctionOnSet(before, Owing) = before[r] + SumFunctionOnSet(before, rest)
    BY <1>1, <1>5, <2>1, SumRemove
  <2> HIDE DEF rest
  <2> QED
    BY <1>4, <1>6, <1>7, <1>10, <2>2
<1> QED
  BY <1>4, <1>7, <1>8, <1>9, <1>10

(* A settlement that charges moves the charge to what is owed, the end of  *)
(* the request from there to the caller's books; no other step touches it. *)
LEMMA AgreeStep ==
    ASSUME NodeInv, CallsInTime, CallerRowsLive, BooksAgree,
           NEW r \in Requests, NodeStepKind(r)
    PROVE  BooksAgree'
<1>0. /\ NodeTypeOK /\ NodeTypeOK' /\ Moves(r) /\ now \in Nat /\ DOMAIN stores = Scopes
      /\ LedgerType(callerStore) /\ SettingsType(CallerSettings)
      /\ RequestType(requests[r])
  BY NodeTypeStep, AllSettingsTyped DEF NodeInv, NodeTypeOK
<1>1. SUFFICES ASSUME \A q \in Requests : requests'[q].phase # "failed"
               PROVE  TotalSpent(callerStore') + Owed' = ProvidersSpent'
  BY DEF BooksAgree
<1>2. ~Fails(r) /\ TotalSpent(callerStore) + Owed = ProvidersSpent
  BY <1>1, FailedStays DEF BooksAgree
<1>3. TotalSpent(callerStore) \in Nat /\ Owed \in Nat
  BY <1>0, TotalType, OwedAfter DEF TotalSpent, SpentTotal
<1> DEFINE s == Selection(r)
<1>4. CASE Settles(r)
  <2>1. PICK outcome :
            /\ OutcomeType(outcome)
            /\ requests'[r].served = outcome.quotaSuccess
            /\ outcome.quotaSuccess =>
                   /\ outcome = Success(requests'[r].actualTokens)
                   /\ requests'[r].actualTokens \in UsageReports
            /\ LedgerOf(s, Settled(stores[s], Row(r), outcome, Settings[s], now))
    BY <1>4 DEF Settles
  <2>2. requests[r].phase \in {"invoke", "stream"} /\ requests[r].phase \in Working
        /\ KeepsCaller(r) /\ ~Closes(r)
    BY <1>4 DEF Settles, Closes, At, Working
  <2>3. s \in Scopes /\ LedgerType(stores[s]) /\ SettingsType(Settings[s])
    BY <1>0, <2>2, SelectionType DEF NodeTypeOK
  <2>4. stores'[s] = Settled(stores[s], Row(r), outcome, Settings[s], now)
    BY <1>0, <2>1, <2>3 DEF LedgerOf
  <2>5. ~requests[r].served
    BY <1>0, <2>2 DEF RequestType
  <2>6. /\ \A other \in Scopes \ {s} : stores'[other].spent = stores[other].spent
        /\ callerStore'.spent = callerStore.spent
    BY <2>2, NothingElseSpends
  <2>7. TotalSpent(callerStore') = TotalSpent(callerStore)
    BY <2>6 DEF TotalSpent
  <2>8. Row(r) \in DOMAIN stores[s].rows /\ stores[s].rows[Row(r)].tokens = requests[r].tokens
    BY <2>2, RowOfCall DEF CallsInTime, CallInTime
  <2>9. CASE outcome.quotaSuccess
    <3> DEFINE charge == ChargedTokens(outcome, requests[r].tokens)
    <3>1. TotalSpent(stores'[s]) = TotalSpent(stores[s]) + charge
      <4> HIDE DEF s
      <4> QED
        BY <1>0, <2>1, <2>3, <2>4, <2>8, <2>9, TotalAfterSettling
    <3>2. charge \in Nat
      <4>1. requests[r].tokens \in Nat
        BY <1>0, <2>2, SelectionType
      <4> QED
        BY <2>1, <4>1 DEF ChargedTokens, OutcomeType, MaxOf
    <3>3. CallerCharge(r)' = charge
      <4>1. requests'[r].served /\ requests'[r].tokens = requests[r].tokens
        BY <2>1, <2>2, <2>9 DEF KeepsCaller
      <4>2. outcome = Success(requests'[r].actualTokens)
        BY <2>1, <2>9
      <4>3. CallerOutcome(r)' = outcome
        BY <4>1, <4>2 DEF CallerOutcome
      <4> QED
        BY <4>1, <4>3 DEF CallerCharge
    <3> HIDE DEF charge, s
    <3>4. ProvidersSpent' = ProvidersSpent + charge
      BY <1>0, <2>3, <2>6, <3>1, <3>2, ProvidersCharged
    <3>5. Owed' = Owed + charge
      BY <1>0, <2>1, <2>5, <2>9, <3>2, <3>3, OwedAfter
    <3> QED
      BY <1>2, <1>3, <2>7, <3>2, <3>4, <3>5
  <2>10. CASE ~outcome.quotaSuccess
    <3>1. stores'[s].spent = stores[s].spent
      <4> HIDE DEF s
      <4> QED
        BY <1>0, <2>1, <2>3, <2>4, <2>10, TotalAfterSettling
    <3>2. ProvidersSpent' = ProvidersSpent
      <4>1. \A x \in Scopes : stores'[x].spent = stores[x].spent
        BY <2>6, <3>1
      <4> QED
        BY <1>0, <4>1, ProvidersNotCharged
    <3>3. Owed' = Owed
      BY <1>0, <2>1, <2>5, <2>10, OwedAfter
    <3> QED
      BY <1>2, <2>7, <3>2, <3>3
  <2> QED
    BY <2>9, <2>10
<1>5. CASE Closes(r)
  <2>1. /\ ~Settles(r) /\ ~requests'[r].served /\ requests[r].phase = "closing"
        /\ callerStore' = IF requests[r].callerHeld
                          THEN Settled(callerStore, r, CallerOutcome(r), CallerSettings, now)
                          ELSE callerStore
    BY <1>5 DEF Closes, Settles, At
  <2>2. ProvidersSpent' = ProvidersSpent
    BY <1>0, <2>1, NothingElseSpends, ProvidersNotCharged
  <2>3. CASE requests[r].served
    <3>1. /\ r \in DOMAIN callerStore.rows /\ CallerCharge(r) \in Nat /\ requests[r].callerHeld
          /\ OutcomeType(CallerOutcome(r)) /\ CallerOutcome(r).quotaSuccess
      <4>1. r \in Owing
        BY <2>3 DEF Owing
      <4> QED
        BY <4>1, OwedType DEF Success
    <3>2. callerStore.rows[r].tokens = requests[r].tokens
      BY <2>1, <3>1 DEF NodeInv, CallerRowsAreHeld
    <3>3. TotalSpent(callerStore') = TotalSpent(callerStore) + CallerCharge(r)
      BY <1>0, <2>1, <3>1, <3>2, TotalAfterSettling DEF CallerCharge
    <3>4. Owed = CallerCharge(r) + Owed'
      BY <1>0, <2>1, <2>3, OwedAfter
    <3>5. Owed' \in Int
      <4>1. IsFiniteSet(Owing')
        <5>1. Owing' = Owing \ {r}
          BY <1>0, <2>1 DEF Owing, Moves
        <5> QED
          BY <5>1, OwedType, FS_RemoveElement
      <4>2. \A q \in Owing' : q \in Requests /\ CallerCharge(q)' \in Int
        <5>1. \A q \in Owing' : q \in Owing /\ q # r /\ q \in Requests
          BY <1>0, <2>1 DEF Owing, Moves
        <5>2. \A q \in Requests \ {r} : CallerCharge(q)' = CallerCharge(q)
          BY <1>0 DEF Moves, CallerCharge, CallerOutcome
        <5> QED
          BY <5>1, <5>2, OwedType
      <4> DEFINE after == [q \in Requests |-> CallerCharge(q)']
      <4>3. \A q \in Owing' : after[q] \in Int
        BY <4>2
      <4>4. Owed' = SumFunctionOnSet(after, Owing')
        BY DEF Owed
      <4> HIDE DEF after
      <4> QED
        BY <4>1, <4>3, <4>4, SumType
    <3> QED
      BY <1>2, <1>3, <2>2, <3>1, <3>3, <3>4, <3>5
  <2>4. CASE ~requests[r].served
    <3>1. Owed' = Owed
      BY <1>0, <2>1, <2>4, OwedAfter
    <3>2. callerStore'.spent = callerStore.spent
      <4>1. CallerOutcome(r) = Failure
        BY <2>4 DEF CallerOutcome
      <4> QED
        <5>1. CASE requests[r].callerHeld
          <6>1. callerStore' = Settled(callerStore, r, Failure, CallerSettings, now)
            BY <2>1, <4>1, <5>1
          <6>2. OutcomeType(Failure) /\ ~Failure.quotaSuccess
            BY Outcomes DEF Failure
          <6> QED
            BY <1>0, <6>1, <6>2, TotalAfterSettling
        <5>2. CASE ~requests[r].callerHeld
          BY <2>1, <5>2
        <5> QED
          BY <5>1, <5>2
    <3>3. TotalSpent(callerStore') = TotalSpent(callerStore)
      BY <3>2 DEF TotalSpent
    <3> QED
      BY <1>2, <2>2, <3>1, <3>3
  <2> QED
    BY <2>3, <2>4
<1>6. CASE ~Settles(r) /\ ~Closes(r)
  <2>1. ~requests[r].served /\ ~requests'[r].served
    BY <1>0, <1>2, <1>6 DEF NodeStepKind, Begins, Looks, HoldsCaller, CallerRefused,
                            HoldsProvider, Streams, At, RequestType
  <2>2. Owed' = Owed
    BY <1>0, <2>1, OwedAfter
  <2>3. ProvidersSpent' = ProvidersSpent
    BY <1>0, <1>6, NothingElseSpends, ProvidersNotCharged
  <2>4. TotalSpent(callerStore') = TotalSpent(callerStore)
    BY <1>6, NothingElseSpends DEF TotalSpent
  <2> QED
    BY <1>2, <2>2, <2>3, <2>4
<1> QED
  BY <1>4, <1>5, <1>6

(* Nothing is charged and nothing owed at the start.                       *)
LEMMA AgreeAtStart ==
    ASSUME NodeInit
    PROVE  BooksAgree
<1>1. /\ \A s \in Scopes : TotalSpent(stores[s]) = 0
      /\ TotalSpent(callerStore) = 0
      /\ Owing = {} /\ IsFiniteSet(Scopes)
  <2>1. \A ledger : DOMAIN ledger.spent = {} => TotalSpent(ledger) = 0
    BY SumEmpty DEF TotalSpent
  <2>2. Owing = {}
    BY NodeStart DEF Owing, NewRequest
  <2> QED
    BY NodeStart, <2>1, <2>2
<1>2. ProvidersSpent = 0
  <2> DEFINE spent == [s \in Scopes |-> TotalSpent(stores[s])]
  <2>1. \A s \in Scopes : spent[s] = 0
    BY <1>1
  <2>2. ProvidersSpent = SumFunctionOnSet(spent, Scopes)
    BY DEF ProvidersSpent
  <2> HIDE DEF spent
  <2> QED
    BY <1>1, <2>1, <2>2, SumOfZeros
<1>3. Owed = 0
  BY <1>1, SumEmpty DEF Owed
<1> QED
  BY <1>1, <1>2, <1>3 DEF BooksAgree

(* What nobody moves stays in agreement.                                   *)
LEMMA AgreeStays ==
    ASSUME BooksAgree, stores' = stores, callerStore' = callerStore, requests' = requests
    PROVE  BooksAgree'
<1>1. \A r : CallerCharge(r)' = CallerCharge(r)
  BY DEF CallerCharge, CallerOutcome
<1>2. Owing' = Owing
  BY DEF Owing
<1>3. Owed' = Owed
  BY <1>1, <1>2, Zenon DEF Owed
<1>4. ProvidersSpent' = ProvidersSpent /\ TotalSpent(callerStore') = TotalSpent(callerStore)
  BY DEF ProvidersSpent
<1> QED
  BY <1>3, <1>4 DEF BooksAgree

(* The caller is charged what its providers were, whatever requests run at *)
(* once and however many candidates each goes through: as long as no       *)
(* transaction fails, no provider's row is swept while its call runs and   *)
(* the caller's reservation is still there when it is settled, no request  *)
(* settles one side only or with another number.                           *)
THEOREM BooksOfBothSidesAgree ==
    ASSUME DeadlinesFit
    PROVE  NodeSpec /\ []CallerRowsLive => []LedgersAgree
<1>1. NodeInit => BooksAgree
  BY AgreeAtStart
<1>2. NodeInv /\ CallsInTime /\ CallerRowsLive /\ BooksAgree /\ [NodeNext]_nodeVars
        => BooksAgree'
  <2> SUFFICES ASSUME NodeInv, CallsInTime, CallerRowsLive, BooksAgree, [NodeNext]_nodeVars
               PROVE  BooksAgree'
    OBVIOUS
  <2>1. CASE UNCHANGED nodeVars
    BY <2>1, AgreeStays DEF nodeVars
  <2>2. CASE Tick
    BY <2>2, AgreeStays DEF Tick
  <2>3. ASSUME NEW r \in Requests, NodeStepKind(r) PROVE BooksAgree'
    BY <2>3, AgreeStep
  <2> QED
    BY <2>1, <2>2, <2>3, EveryNodeStep DEF NodeInv
<1>3. NodeInv /\ BooksAgree => LedgersAgree
  <2> SUFFICES ASSUME NodeInv, BooksAgree,
                      \A r \in Requests : requests[r].phase \in {"new", "ended"}
               PROVE  TotalSpent(callerStore) = ProvidersSpent
    BY DEF LedgersAgree, ProvidersSpent
  <2>1. Owing = {}
    BY DEF Owing, NodeInv, NodeTypeOK, RequestType
  <2>2. Owed = 0
    BY <2>1, SumEmpty DEF Owed
  <2>3. TotalSpent(callerStore) \in Nat
    BY TotalType DEF TotalSpent, SpentTotal, NodeInv, NodeTypeOK
  <2>4. \A r \in Requests : requests[r].phase # "failed"
    OBVIOUS
  <2> QED
    BY <2>2, <2>3, <2>4 DEF BooksAgree
<1> QED
  BY <1>1, <1>2, <1>3, NodeHolds, CallsAreInTime, PTL DEF NodeSpec
=============================================================================
