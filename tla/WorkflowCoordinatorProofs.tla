--------------------- MODULE WorkflowCoordinatorProofs ---------------------
(***************************************************************************)
(* Proofs about WorkflowCoordinator for every number of calls, every pair  *)
(* of limits, every set of deadlines and every fault: the tables stay      *)
(* well-typed, the counters of the workflow row agree with the call rows,  *)
(* the limits hold, a terminal outcome is final, and the learners that     *)
(* hear of it agree on it.                                                 *)
(*                                                                         *)
(* The counters are cardinalities of sets of leases, so the invariant also *)
(* says that these sets are finite, that a lease that was never asked for  *)
(* has no row, and that a purged workflow has no rows at all.              *)
(***************************************************************************)
EXTENDS WorkflowCoordinator, FiniteSetTheorems, TLAPS

FiniteLeases == IsFiniteSet(Leased("open")) /\ IsFiniteSet(Leased("closed"))

IdleHasNoLease == \A c \in Calls : holders[c] = "idle" => leases[c] = "none"

PurgedHasNoLease == workflow.status = "purged" => \A c \in Calls : leases[c] = "none"

LeaseInv ==
    /\ FiniteLeases
    /\ IdleHasNoLease
    /\ PurgedHasNoLease
    /\ LeasesCounted
    /\ LimitsKept
    /\ TerminalHasNoOpenCalls

-----------------------------------------------------------------------------
(* The initial state is well-typed: no workflow, no rows, no alarm.        *)
LEMMA InitType == Init => TypeOK
  <1>1. NoReport \in [success : BOOLEAN, provider : {NoProvider}, calls : Int, tokens : Int]
    BY DEF NoReport
  <1> QED BY DEF Init, TypeOK, Terminal, Learners, NoDeadline, NoAlarm, Past, Report, Row

(* What a terminal workflow reports is a report.                           *)
LEMMA ReportType ==
    ASSUME TypeOK, NEW success \in BOOLEAN
    PROVE  ReportOf(success) \in Report
  BY DEF TypeOK, ReportOf, Report, Row

(* Counting down keeps an integer an integer.                              *)
LEMMA CountDownType == ASSUME NEW t \in Int PROVE CountDown(t) \in Int
  BY DEF CountDown, NoDeadline, Past

(* Rows with other counters, or another primary provider, are rows.        *)
LEMMA StartedRow ==
    ASSUME NEW row \in Row, NEW started \in Nat, NEW open \in Nat,
           NEW first \in Providers \cup {NoProvider}
    PROVE  [row EXCEPT !.callsStarted = started, !.inFlight = open, !.primary = first] \in Row
  BY DEF Row

LEMMA FinishedRow ==
    ASSUME NEW row \in Row, NEW done \in Nat, NEW open \in Nat, NEW tokens \in Nat
    PROVE  [row EXCEPT !.callsCompleted = done, !.inFlight = open, !.actualTokens = tokens]
               \in Row
  BY DEF Row

(* Every step keeps the tables, the alarm and the messages well-typed.     *)
LEMMA NextType == TypeOK /\ [Next]_vars => TypeOK'
  <1> SUFFICES ASSUME TypeOK, [Next]_vars PROVE TypeOK'
    OBVIOUS
  <1>a. workflow \in Row
    BY DEF TypeOK
  <1>b. Retention \in Int /\ RecheckDelay \in Int /\ Deadlines \subseteq Int
    BY TimesAssumption DEF NoDeadline
  <1>c. TokenAmounts \subseteq Nat
    BY DataAssumption
  <1>1. ASSUME NEW d \in Deadlines, create(d) PROVE TypeOK'
    <2>1. workflow' \in Row
      BY <1>1, <1>a, <1>b DEF create, Row
    <2> QED BY <1>1, <1>b, <2>1 DEF create, TypeOK
  <1>2. ASSUME NEW c \in Calls, NEW p \in Providers, beginCall(c, p) PROVE TypeOK'
    <2>1. workflow' \in Row
      <3> DEFINE first == IF workflow.primary = NoProvider THEN p ELSE workflow.primary
      <3>1. first \in Providers \cup {NoProvider}
        BY <1>a DEF Row
      <3>2. workflow' = [workflow EXCEPT !.callsStarted = workflow.callsStarted + 1,
                                         !.inFlight = workflow.inFlight + 1,
                                         !.primary = first]
        BY <1>2 DEF beginCall
      <3>3. workflow.callsStarted + 1 \in Nat /\ workflow.inFlight + 1 \in Nat
        BY <1>a DEF Row
      <3> HIDE DEF first
      <3> QED BY <1>a, <3>1, <3>2, <3>3, StartedRow
    <2> QED BY <1>2, <2>1 DEF beginCall, TypeOK
  <1>3. ASSUME NEW c \in Calls, NEW tokens \in TokenAmounts, SendFinish(c, tokens) PROVE TypeOK'
    BY <1>3 DEF SendFinish, TypeOK
  <1>4. ASSUME NEW c \in Calls, LoseHolder(c) PROVE TypeOK'
    BY <1>4 DEF LoseHolder, TypeOK
  <1>5. ASSUME NEW f \in finishes, finishCall(f.call, f.tokens) PROVE TypeOK'
    <2>1. f.call \in Calls /\ f.tokens \in Nat
      BY <1>c DEF TypeOK
    <2>2. CASE leases[f.call] = "open"
      <3>1. workflow' \in Row
        <4> DEFINE left == IF workflow.inFlight > 0 THEN workflow.inFlight - 1 ELSE 0
        <4>1. left \in Nat
          BY <1>a DEF Row
        <4>2. workflow' = [workflow EXCEPT !.callsCompleted = workflow.callsCompleted + 1,
                                           !.inFlight = left,
                                           !.actualTokens = workflow.actualTokens + f.tokens]
          BY <1>5, <2>2 DEF finishCall
        <4>3. workflow.callsCompleted + 1 \in Nat /\ workflow.actualTokens + f.tokens \in Nat
          BY <1>a, <2>1 DEF Row
        <4> HIDE DEF left
        <4> QED BY <1>a, <4>1, <4>2, <4>3, FinishedRow
      <3> QED BY <1>5, <2>1, <2>2, <3>1 DEF finishCall, TypeOK
    <2>3. CASE leases[f.call] # "open"
      BY <1>5, <2>3 DEF finishCall, TypeOK
    <2> QED BY <2>2, <2>3
  <1>6. ASSUME NEW success \in BOOLEAN, complete(success) PROVE TypeOK'
    <2>1. workflow' \in Row
      BY <1>6, <1>a, <1>b DEF complete, Row, Terminal
    <2> QED BY <1>6, <2>1 DEF complete, TypeOK
  <1>7. ASSUME alarm PROVE TypeOK'
    <2> USE <1>7 DEF alarm
    <2>1. CASE AlarmIgnored
      BY <2>1 DEF AlarmIgnored, TypeOK, NoAlarm
    <2>2. CASE AlarmEarly
      BY <1>a, <2>2 DEF AlarmEarly, TypeOK, Row
    <2>3. CASE AlarmBusy
      BY <1>b, <2>3 DEF AlarmBusy, TypeOK
    <2>4. CASE AlarmFails
      <3>1. ReportOf(FALSE) \in Report
        BY ReportType
      <3>2. workflow' \in Row
        BY <2>4, <1>a, <1>b DEF AlarmFails, Row, Terminal
      <3>3. reports' \subseteq [to : Addressees, by : {"alarm", "worker"}, report : Report]
        <4> DEFINE sent == [to |-> "state", by |-> "alarm", report |-> ReportOf(FALSE)]
        <4>1. sent \in [to : Addressees, by : {"alarm", "worker"}, report : Report]
          BY <3>1 DEF Learners, Addressees
        <4>2. reports' = reports \cup {sent}
          BY <2>4 DEF AlarmFails
        <4> HIDE DEF sent
        <4> QED BY <4>1, <4>2 DEF TypeOK
      <3>4. alarmIn' \in Int /\ UNCHANGED <<leases, holders, finishes, reply, learned>>
        BY <2>4 DEF AlarmFails, NoAlarm
      <3> HIDE <1>7
      <3> QED BY <3>2, <3>3, <3>4 DEF TypeOK
    <2> QED BY <2>1, <2>2, <2>3, <2>4
  <1>8. ASSUME purgeExpired PROVE TypeOK'
    BY <1>8 DEF purgeExpired, TypeOK, Row
  <1>9. ASSUME ReportOutcome PROVE TypeOK'
    <2>1. ReportOf(reply = "success") \in Report
      BY ReportType
    <2>2. reports' \subseteq [to : Addressees, by : {"alarm", "worker"}, report : Report]
      <3> DEFINE sent == {[to |-> l, by |-> "worker", report |-> ReportOf(reply = "success")] :
                             l \in Learners}
      <3>1. sent \subseteq [to : Addressees, by : {"alarm", "worker"}, report : Report]
        BY <2>1 DEF Addressees
      <3>2. reports' = reports \cup sent
        BY <1>9 DEF ReportOutcome
      <3> HIDE DEF sent
      <3> QED BY <3>1, <3>2 DEF TypeOK
    <2> QED BY <1>9, <2>2 DEF ReportOutcome, TypeOK, NoOutcome
  <1>10. ASSUME NEW r \in reports, recordWorkflowOutcome(r) PROVE TypeOK'
    BY <1>10 DEF recordWorkflowOutcome, TypeOK, Learners
  <1>11. ASSUME NEW r \in reports, recordWorkflowLearning(r) PROVE TypeOK'
    BY <1>11 DEF recordWorkflowLearning, TypeOK, Learners
  <1>12. ASSUME NEW r \in reports, LoseReport(r) PROVE TypeOK'
    <2>1. LostFor[r.to] \in Addressees
      BY <1>12 DEF LoseReport, Addressees
    <2>2. [r EXCEPT !.to = LostFor[r.to]]
              \in [to : Addressees, by : {"alarm", "worker"}, report : Report]
      BY <2>1 DEF TypeOK
    <2> QED BY <1>12, <2>2 DEF LoseReport, TypeOK
  <1>13. ASSUME Tick PROVE TypeOK'
    <2>1. /\ CountDown(workflow.deadlineIn) \in Int
          /\ CountDown(workflow.keepFor) \in Int
          /\ CountDown(alarmIn) \in Int
      BY CountDownType DEF TypeOK, Row
    <2> QED BY <1>13, <2>1 DEF Tick, TypeOK, Row
  <1>14. ASSUME UNCHANGED vars PROVE TypeOK'
    BY <1>14 DEF vars, TypeOK
  <1> QED
    BY <1>1, <1>2, <1>3, <1>4, <1>5, <1>6, <1>7, <1>8, <1>9, <1>10, <1>11, <1>12,
       <1>13, <1>14 DEF Next

(* TypeOK holds in every reachable state: the columns keep their types and *)
(* the messages under way are well-formed.                                 *)
THEOREM TypeCorrect == Spec => []TypeOK
  BY InitType, NextType, PTL DEF Spec

-----------------------------------------------------------------------------
(* No lease exists before the workflow does.                               *)
LEMMA InitLeases == Init => LeaseInv
  <1> SUFFICES ASSUME Init PROVE LeaseInv
    OBVIOUS
  <1>1. Leased("open") = {} /\ Leased("closed") = {}
    BY DEF Init, Leased
  <1>2. IsFiniteSet({}) /\ Cardinality({}) = 0
    BY FS_EmptySet
  <1>3. /\ workflow.status = "none" /\ workflow.inFlight = 0
        /\ workflow.callsStarted = 0 /\ workflow.callsCompleted = 0
    BY DEF Init
  <1>4. LimitsKept
    BY <1>1, <1>2, LimitsAssumption DEF LimitsKept
  <1> QED
    BY <1>1, <1>2, <1>3, <1>4
    DEF LeaseInv, FiniteLeases, IdleHasNoLease, PurgedHasNoLease, LeasesCounted,
        TerminalHasNoOpenCalls, Terminal, Init

(* A new lease: one more row, one more in flight, both below their limits. *)
LEMMA BeginKeepsLeases ==
    ASSUME TypeOK, LeaseInv, NEW c \in Calls, NEW p \in Providers, beginCall(c, p)
    PROVE  LeaseInv'
  <1>1. workflow \in Row /\ leases \in [Calls -> {"none", "open", "closed"}]
        /\ holders \in [Calls -> {"idle", "held", "done"}]
    BY DEF TypeOK
  <1>2. leases[c] = "none" /\ workflow.status = "active"
    BY DEF beginCall, LeaseInv, IdleHasNoLease, Callable
  <1>3. leases' = [leases EXCEPT ![c] = "open"] /\ holders' = [holders EXCEPT ![c] = "held"]
    BY DEF beginCall
  <1>4. /\ workflow'.status = "active"
        /\ workflow'.callsStarted = workflow.callsStarted + 1
        /\ workflow'.inFlight = workflow.inFlight + 1
        /\ workflow'.callsCompleted = workflow.callsCompleted
    BY <1>1, <1>2 DEF beginCall, Row
  <1>5. Leased("open")' = Leased("open") \cup {c} /\ Leased("closed")' = Leased("closed")
    BY <1>1, <1>2, <1>3 DEF Leased
  <1>6. c \notin Leased("open")
    BY <1>2 DEF Leased
  <1>7. FiniteLeases
    BY DEF LeaseInv
  <1>8. IsFiniteSet(Leased("open")')
        /\ Cardinality(Leased("open")') = Cardinality(Leased("open")) + 1
    BY <1>5, <1>6, <1>7, FS_AddElement DEF FiniteLeases
  <1>9. FiniteLeases'
    BY <1>5, <1>7, <1>8 DEF FiniteLeases
  <1>10. Cardinality(Leased("open")') + Cardinality(Leased("closed")')
            = Cardinality((Leased("open") \cup Leased("closed"))')
    <2>1. Leased("open")' \cap Leased("closed")' = {}
      BY <1>1, <1>2, <1>5 DEF Leased
    <2>2. Cardinality(Leased("open")' \cap Leased("closed")') = 0
      BY <2>1, FS_EmptySet
    <2>3. Cardinality(Leased("open")') \in Nat /\ Cardinality(Leased("closed")') \in Nat
      BY <1>9, FS_CardinalityType DEF FiniteLeases
    <2>4. Cardinality(Leased("open")' \cup Leased("closed")')
            = Cardinality(Leased("open")') + Cardinality(Leased("closed")')
                - Cardinality(Leased("open")' \cap Leased("closed")')
      BY <1>9, FS_Union DEF FiniteLeases
    <2> QED BY <2>2, <2>3, <2>4
  <1>11. LeasesCounted'
    <2>1. /\ workflow.inFlight = Cardinality(Leased("open"))
          /\ workflow.callsCompleted = Cardinality(Leased("closed"))
          /\ workflow.callsStarted = workflow.inFlight + workflow.callsCompleted
      BY <1>2 DEF LeaseInv, LeasesCounted
    <2>2. workflow.inFlight \in Nat /\ workflow.callsCompleted \in Nat
      BY <1>1 DEF Row
    <2> QED BY <1>4, <1>5, <1>8, <2>1, <2>2 DEF LeasesCounted
  <1>12. LimitsKept'
    <2>1. workflow.callsStarted < MaxCalls /\ workflow.inFlight < MaxConcurrency
      BY DEF beginCall, Callable
    <2>2. /\ workflow'.inFlight = Cardinality(Leased("open")')
          /\ workflow'.callsStarted = workflow'.inFlight + workflow'.callsCompleted
          /\ workflow'.callsCompleted = Cardinality(Leased("closed")')
      BY <1>4, <1>11 DEF LeasesCounted
    <2>3. workflow.callsStarted \in Nat /\ workflow.inFlight \in Nat
      BY <1>1 DEF Row
    <2>4. workflow'.inFlight <= MaxConcurrency /\ workflow'.callsStarted <= MaxCalls
      BY <1>4, <2>1, <2>3, LimitsAssumption
    <2> QED BY <1>10, <2>2, <2>4 DEF LimitsKept
  <1>13. IdleHasNoLease' /\ PurgedHasNoLease' /\ TerminalHasNoOpenCalls'
    BY <1>1, <1>3, <1>4
    DEF LeaseInv, IdleHasNoLease, PurgedHasNoLease, TerminalHasNoOpenCalls, Terminal
  <1> QED BY <1>9, <1>11, <1>12, <1>13 DEF LeaseInv

(* A settled lease moves from the open to the closed calls, and only the   *)
(* first delivery of finishCall finds it open.                             *)
LEMMA FinishKeepsLeases ==
    ASSUME TypeOK, LeaseInv, NEW c \in Calls, NEW tokens \in Nat, finishCall(c, tokens)
    PROVE  LeaseInv'
  <1>1. workflow \in Row /\ leases \in [Calls -> {"none", "open", "closed"}]
    BY DEF TypeOK
  <1>2. CASE leases[c] # "open"
    BY <1>2 DEF finishCall, LeaseInv, FiniteLeases, IdleHasNoLease, PurgedHasNoLease,
                LeasesCounted, LimitsKept, TerminalHasNoOpenCalls, Leased
  <1>3. CASE leases[c] = "open"
    <2>1. /\ leases' = [leases EXCEPT ![c] = "closed"]
          /\ holders' = holders
          /\ workflow'.status = workflow.status
          /\ workflow'.callsStarted = workflow.callsStarted
          /\ workflow'.callsCompleted = workflow.callsCompleted + 1
          /\ workflow'.inFlight = IF workflow.inFlight > 0 THEN workflow.inFlight - 1 ELSE 0
      BY <1>1, <1>3 DEF finishCall, Row
    <2>2. /\ Leased("open")' = Leased("open") \ {c}
          /\ Leased("closed")' = Leased("closed") \cup {c}
          /\ c \in Leased("open") /\ c \notin Leased("closed")
      BY <1>1, <1>3, <2>1 DEF Leased
    <2>3. /\ IsFiniteSet(Leased("open")')
          /\ Cardinality(Leased("open")') = Cardinality(Leased("open")) - 1
      BY <2>2, FS_RemoveElement DEF LeaseInv, FiniteLeases
    <2>4. /\ IsFiniteSet(Leased("closed")')
          /\ Cardinality(Leased("closed")') = Cardinality(Leased("closed")) + 1
      BY <2>2, FS_AddElement DEF LeaseInv, FiniteLeases
    <2>5. Leased("open")' \cup Leased("closed")' = Leased("open") \cup Leased("closed")
      BY <2>2
    <2>6. Cardinality(Leased("open")) \in Nat /\ Cardinality(Leased("closed")) \in Nat
      BY FS_CardinalityType DEF LeaseInv, FiniteLeases
    <2>7. Cardinality(Leased("open")) > 0
      <3>1. Cardinality(Leased("open")') \in Nat
        BY <2>3, FS_CardinalityType
      <3> QED BY <2>3, <2>6, <3>1
    <2>8. workflow.status # "purged"
      BY <1>3 DEF LeaseInv, PurgedHasNoLease
    <2>9. /\ workflow.inFlight = Cardinality(Leased("open"))
          /\ workflow.callsCompleted = Cardinality(Leased("closed"))
          /\ workflow.callsStarted = workflow.inFlight + workflow.callsCompleted
      BY <2>8 DEF LeaseInv, LeasesCounted
    <2>10. LeasesCounted'
      BY <2>1, <2>3, <2>4, <2>6, <2>7, <2>9 DEF LeasesCounted
    <2>11. LimitsKept'
      <3>1. /\ Cardinality(Leased("open")) <= MaxConcurrency
            /\ Cardinality(Leased("open") \cup Leased("closed")) <= MaxCalls
        BY DEF LeaseInv, LimitsKept
      <3>2. Cardinality(Leased("open")') <= MaxConcurrency
        BY <2>3, <2>6, <3>1, LimitsAssumption
      <3>3. Cardinality(Leased("open")' \cup Leased("closed")') <= MaxCalls
        BY <2>5, <3>1
      <3> QED BY <3>2, <3>3 DEF LimitsKept
    <2>12. TerminalHasNoOpenCalls'
      BY <2>1, <2>2 DEF LeaseInv, TerminalHasNoOpenCalls
    <2>13. IdleHasNoLease' /\ PurgedHasNoLease'
      <3>1. holders[c] # "idle"
        BY <1>3 DEF LeaseInv, IdleHasNoLease
      <3>2. \A d \in Calls : d # c => leases'[d] = leases[d]
        BY <1>1, <2>1
      <3>3. IdleHasNoLease'
        BY <2>1, <3>1, <3>2 DEF LeaseInv, IdleHasNoLease
      <3> QED BY <2>1, <2>8, <3>3 DEF PurgedHasNoLease
    <2> QED BY <2>3, <2>4, <2>10, <2>11, <2>12, <2>13 DEF LeaseInv, FiniteLeases
  <1> QED BY <1>2, <1>3

(* A step that leaves the rows and the counters alone and moves the status *)
(* only to a terminal one, with nothing in flight, keeps the invariant.    *)
LEMMA QuietStepKeepsLeases ==
    ASSUME TypeOK, LeaseInv,
           UNCHANGED leases,
           \A c \in Calls : holders'[c] = "idle" => holders[c] = "idle",
           workflow'.callsStarted = workflow.callsStarted,
           workflow'.callsCompleted = workflow.callsCompleted,
           workflow'.inFlight = workflow.inFlight,
           \/ workflow'.status = workflow.status
           \/ /\ workflow.status \in {"none", "active"}
              /\ workflow'.status = "active" \/ workflow.inFlight = 0
              /\ workflow'.status \in {"active", "completed", "failed"}
    PROVE  LeaseInv'
  <1>1. Leased("open")' = Leased("open") /\ Leased("closed")' = Leased("closed")
    BY DEF Leased
  <1>2. FiniteLeases' /\ LimitsKept'
    BY <1>1 DEF LeaseInv, FiniteLeases, LimitsKept
  <1>3. IdleHasNoLease' /\ PurgedHasNoLease'
    BY DEF LeaseInv, IdleHasNoLease, PurgedHasNoLease
  <1>4. workflow'.status # "purged" => workflow.status # "purged"
    OBVIOUS
  <1>5. LeasesCounted'
    BY <1>1, <1>4 DEF LeaseInv, LeasesCounted
  <1>6. TerminalHasNoOpenCalls'
    <2>1. CASE workflow'.status = workflow.status
      BY <1>1, <2>1 DEF LeaseInv, TerminalHasNoOpenCalls
    <2>2. CASE workflow'.status = "active"
      BY <2>2 DEF TerminalHasNoOpenCalls, Terminal
    <2>3. CASE workflow.status \in {"none", "active"} /\ workflow.inFlight = 0
      <3>1. Cardinality(Leased("open")) = 0
        BY <2>3 DEF LeaseInv, LeasesCounted
      <3>2. Leased("open") = {}
        BY <3>1, FS_EmptySet DEF LeaseInv, FiniteLeases
      <3> QED BY <1>1, <3>2 DEF TerminalHasNoOpenCalls
    <2> QED BY <2>1, <2>2, <2>3
  <1> QED BY <1>2, <1>3, <1>5, <1>6 DEF LeaseInv

(* The purge removes the rows with the workflow.                           *)
LEMMA PurgeKeepsLeases ==
    ASSUME TypeOK, LeaseInv, purgeExpired
    PROVE  LeaseInv'
  <1>1. workflow'.status = "purged" /\ leases' = [c \in Calls |-> "none"]
    BY DEF purgeExpired, TypeOK, Row
  <1>2. Leased("open")' = {} /\ Leased("closed")' = {}
    BY <1>1 DEF Leased
  <1>3. IsFiniteSet({}) /\ Cardinality({}) = 0
    BY FS_EmptySet
  <1>4. LimitsKept'
    BY <1>2, <1>3, LimitsAssumption DEF LimitsKept
  <1> QED
    BY <1>1, <1>2, <1>3, <1>4
    DEF LeaseInv, FiniteLeases, IdleHasNoLease, PurgedHasNoLease, LeasesCounted,
        TerminalHasNoOpenCalls

(* Every step keeps the lease invariant.                                   *)
LEMMA NextLeases == TypeOK /\ LeaseInv /\ [Next]_vars => LeaseInv'
  <1> SUFFICES ASSUME TypeOK, LeaseInv, [Next]_vars PROVE LeaseInv'
    OBVIOUS
  <1>0. workflow \in Row /\ holders \in [Calls -> {"idle", "held", "done"}]
    BY DEF TypeOK
  <1>1. ASSUME NEW d \in Deadlines, create(d) PROVE LeaseInv'
    BY <1>0, <1>1, QuietStepKeepsLeases DEF create, Row
  <1>2. ASSUME NEW c \in Calls, NEW p \in Providers, beginCall(c, p) PROVE LeaseInv'
    BY <1>2, BeginKeepsLeases
  <1>3. ASSUME NEW c \in Calls, NEW tokens \in TokenAmounts, SendFinish(c, tokens)
        PROVE LeaseInv'
    BY <1>0, <1>3, QuietStepKeepsLeases DEF SendFinish
  <1>4. ASSUME NEW c \in Calls, LoseHolder(c) PROVE LeaseInv'
    BY <1>0, <1>4, QuietStepKeepsLeases DEF LoseHolder
  <1>5. ASSUME NEW f \in finishes, finishCall(f.call, f.tokens) PROVE LeaseInv'
    <2>1. f.call \in Calls /\ f.tokens \in Nat
      BY DataAssumption DEF TypeOK
    <2> QED BY <1>5, <2>1, FinishKeepsLeases
  <1>6. ASSUME NEW success \in BOOLEAN, complete(success) PROVE LeaseInv'
    <2>1. workflow.inFlight = 0
      BY <1>0, <1>6 DEF complete, Row
    <2> QED BY <1>0, <1>6, <2>1, QuietStepKeepsLeases DEF complete, Row
  <1>7. ASSUME alarm PROVE LeaseInv'
    <2>1. UNCHANGED <<leases, holders>>
      BY <1>7 DEF alarm
    <2>2. CASE UNCHANGED workflow
      BY <2>1, <2>2, QuietStepKeepsLeases
    <2>3. CASE AlarmFails
      <3>1. workflow.inFlight = 0
        BY <1>0, <2>3 DEF AlarmFails, Row
      <3> QED BY <1>0, <2>1, <2>3, <3>1, QuietStepKeepsLeases DEF AlarmFails, Row
    <2> QED BY <1>7, <2>2, <2>3 DEF alarm, AlarmIgnored, AlarmEarly, AlarmBusy
  <1>8. ASSUME purgeExpired PROVE LeaseInv'
    BY <1>8, PurgeKeepsLeases
  <1>9. ASSUME Tick PROVE LeaseInv'
    BY <1>0, <1>9, QuietStepKeepsLeases DEF Tick, Row
  <1>10. ASSUME UNCHANGED <<workflow, leases, holders>> PROVE LeaseInv'
    BY <1>10, QuietStepKeepsLeases
  <1> QED
    BY <1>1, <1>2, <1>3, <1>4, <1>5, <1>6, <1>7, <1>8, <1>9, <1>10
    DEF Next, vars, ReportOutcome, recordWorkflowOutcome, recordWorkflowLearning, LoseReport

(* The lease invariant holds in every reachable state.                     *)
LEMMA LeasesAlways == Spec => []LeaseInv
  <1>1. Init => LeaseInv
    BY InitLeases
  <1>2. TypeOK /\ LeaseInv /\ [Next]_vars => LeaseInv'
    BY NextLeases
  <1> QED BY <1>1, <1>2, TypeCorrect, PTL DEF Spec

(* LeasesCounted for every instance: finishCall counts each lease once,    *)
(* however often and in whatever order it is delivered.                    *)
THEOREM LeasesAreCounted == Spec => []LeasesCounted
  <1>1. LeaseInv => LeasesCounted
    BY DEF LeaseInv
  <1> QED BY <1>1, LeasesAlways, PTL

(* LimitsKept for every instance: beginCall never leases past maxCalls or  *)
(* maxConcurrency.                                                         *)
THEOREM LimitsAreKept == Spec => []LimitsKept
  <1>1. LeaseInv => LimitsKept
    BY DEF LeaseInv
  <1> QED BY <1>1, LeasesAlways, PTL

(* TerminalHasNoOpenCalls for every instance: neither complete nor the     *)
(* alarm ends a workflow with a call in flight.                            *)
THEOREM TerminalIsQuiet == Spec => []TerminalHasNoOpenCalls
  <1>1. LeaseInv => TerminalHasNoOpenCalls
    BY DEF LeaseInv
  <1> QED BY <1>1, LeasesAlways, PTL

(* TerminalIsFinal for every instance: only the purge changes the status   *)
(* of a workflow that has ended.                                           *)
THEOREM OutcomeStands == Spec => TerminalIsFinal
  <1>1. ASSUME TypeOK, [Next]_vars, workflow.status \in Terminal
        PROVE  workflow'.status \in {workflow.status, "purged"}
    <2>1. workflow \in Row /\ workflow.status \notin {"none", "active"}
      BY <1>1 DEF TypeOK, Terminal
    <2>2. ASSUME NEW f \in finishes, finishCall(f.call, f.tokens)
          PROVE  workflow'.status = workflow.status
      BY <2>1, <2>2 DEF finishCall, Row
    <2>3. ASSUME purgeExpired PROVE workflow'.status = "purged"
      BY <2>1, <2>3 DEF purgeExpired, Row
    <2>4. ASSUME Tick PROVE workflow'.status = workflow.status
      BY <2>1, <2>4 DEF Tick, Row
    <2>5. ASSUME alarm PROVE workflow'.status = workflow.status
      BY <2>1, <2>5 DEF alarm, AlarmIgnored, AlarmEarly, AlarmBusy, AlarmFails
    <2>6. \A c \in Calls, p \in Providers : ~beginCall(c, p)
      BY <2>1 DEF beginCall, Callable
    <2>7. \A success \in BOOLEAN : ~complete(success)
      BY <2>1 DEF complete
    <2>8. \A d \in Deadlines : ~create(d)
      BY <2>1 DEF create
    <2>9. CASE UNCHANGED workflow
      BY <2>9
    <2> QED
      BY <1>1, <2>2, <2>3, <2>4, <2>5, <2>6, <2>7, <2>8, <2>9
      DEF Next, vars, SendFinish, LoseHolder, ReportOutcome, recordWorkflowOutcome,
          recordWorkflowLearning, LoseReport
  <1> QED BY <1>1, TypeCorrect, PTL DEF Spec, TerminalIsFinal

-----------------------------------------------------------------------------
(* What the learners hear of.                                              *)

Ended == Terminal \cup {"purged"}

StatusOf(success) == IF success THEN "completed" ELSE "failed"

(* A report repeats the row of a workflow that has ended.                  *)
Told(report) ==
    /\ workflow.status \in Ended
    /\ workflow.status # "purged" => workflow.status = StatusOf(report.success)
    /\ report = ReportOf(report.success)

ReportsAreTold ==
    /\ \A m \in reports : Told(m.report)
    /\ \A l \in Learners : learned[l] # NoReport => Told(learned[l])
    /\ reply # NoOutcome => /\ workflow.status \in Ended
                            /\ workflow.status # "purged"
                                 => workflow.status = StatusOf(reply = "success")

(* The row of a workflow that has ended is never written again: whatever   *)
(* finishCall is delivered finds no open lease.                            *)
LEMMA EndedRowStays ==
    ASSUME TypeOK, LeaseInv, [Next]_vars, workflow.status \in Ended
    PROVE  /\ workflow'.status \in {workflow.status, "purged"}
           /\ workflow'.primary = workflow.primary
           /\ workflow'.callsCompleted = workflow.callsCompleted
           /\ workflow'.actualTokens = workflow.actualTokens
  <1>1. workflow \in Row /\ workflow.status \notin {"none", "active"}
    BY DEF TypeOK, Ended, Terminal
  <1>2. ASSUME NEW f \in finishes, finishCall(f.call, f.tokens) PROVE UNCHANGED workflow
    <2>1. f.call \in Calls
      BY DEF TypeOK
    <2>2. leases[f.call] # "open"
      <3>1. CASE workflow.status = "purged"
        BY <2>1, <3>1 DEF LeaseInv, PurgedHasNoLease
      <3>2. CASE workflow.status \in Terminal
        BY <2>1, <3>2 DEF LeaseInv, TerminalHasNoOpenCalls, Leased
      <3> QED BY <3>1, <3>2 DEF Ended
    <2> QED BY <1>2, <2>2 DEF finishCall
  <1>3. CASE purgeExpired
    BY <1>1, <1>3 DEF purgeExpired, Row
  <1>4. CASE Tick
    BY <1>1, <1>4 DEF Tick, Row
  <1>5. ASSUME alarm PROVE UNCHANGED workflow
    BY <1>1, <1>5 DEF alarm, AlarmIgnored, AlarmEarly, AlarmBusy, AlarmFails
  <1>6. /\ \A c \in Calls, p \in Providers : ~beginCall(c, p)
        /\ \A success \in BOOLEAN : ~complete(success)
        /\ \A d \in Deadlines : ~create(d)
    BY <1>1 DEF beginCall, Callable, complete, create
  <1>7. CASE UNCHANGED workflow
    BY <1>7
  <1> QED
    BY <1>2, <1>3, <1>4, <1>5, <1>6, <1>7
    DEF Next, vars, SendFinish, LoseHolder, ReportOutcome, recordWorkflowOutcome,
        recordWorkflowLearning, LoseReport

(* So what was told of it stays true.                                      *)
LEMMA ToldStays ==
    ASSUME TypeOK, LeaseInv, [Next]_vars, NEW report, Told(report)
    PROVE  Told(report)'
  <1>1. /\ workflow'.status \in {workflow.status, "purged"}
        /\ ReportOf(report.success)' = ReportOf(report.success)
    BY EndedRowStays DEF Told, ReportOf
  <1> QED BY <1>1 DEF Told, Ended

(* Every step tells the learners only what the row says for good.          *)
LEMMA NextTold ==
    ASSUME TypeOK, LeaseInv, ReportsAreTold, [Next]_vars
    PROVE  ReportsAreTold'
  <1>0. workflow \in Row
    BY DEF TypeOK
  <1>1. ASSUME NEW m \in reports PROVE Told(m.report)'
    BY ToldStays DEF ReportsAreTold
  <1>2. ASSUME NEW l \in Learners, NEW report, report = learned[l], report # NoReport
        PROVE  Told(report)'
    BY <1>2, ToldStays DEF ReportsAreTold
  <1>3. reply # NoOutcome => /\ workflow'.status \in Ended
                             /\ workflow'.status # "purged"
                                  => workflow'.status = StatusOf(reply = "success")
    BY EndedRowStays DEF ReportsAreTold, Ended
  <1>4. CASE UNCHANGED <<reply, reports, learned>>
    BY <1>1, <1>2, <1>3, <1>4 DEF ReportsAreTold
  <1>5. ASSUME NEW success \in BOOLEAN, complete(success) PROVE ReportsAreTold'
    <2>1. /\ workflow'.status = StatusOf(success) /\ workflow'.status \in Ended
          /\ (reply' = "success") = success /\ UNCHANGED <<reports, learned>>
      BY <1>0, <1>5 DEF complete, StatusOf, Ended, Terminal, Row
    <2> QED BY <1>1, <1>2, <2>1 DEF ReportsAreTold
  <1>6. CASE alarm /\ AlarmFails
    <2> DEFINE sent == [to |-> "state", by |-> "alarm", report |-> ReportOf(FALSE)]
    <2>1. /\ reports' = reports \cup {sent} /\ UNCHANGED <<reply, learned>>
          /\ workflow'.status = "failed"
      BY <1>0, <1>6 DEF alarm, AlarmFails, Row
    <2>2. ReportOf(FALSE)' = ReportOf(FALSE) /\ ReportOf(FALSE).success = FALSE
      BY <1>0, <1>6 DEF AlarmFails, ReportOf, Row
    <2>3. \A report : report = ReportOf(FALSE) => Told(report)'
      BY <2>1, <2>2 DEF Told, StatusOf, Ended, Terminal
    <2>4. sent.report = ReportOf(FALSE)
      OBVIOUS
    <2> HIDE DEF sent
    <2> QED BY <1>1, <1>2, <1>3, <2>1, <2>3, <2>4 DEF ReportsAreTold
  <1>7. CASE ReportOutcome
    <2>0. PICK success \in BOOLEAN : success = (reply = "success")
      OBVIOUS
    <2> DEFINE sent == {[to |-> l, by |-> "worker", report |-> ReportOf(success)] :
                          l \in Learners}
    <2>1. reports' = reports \cup sent /\ reply' = NoOutcome /\ UNCHANGED <<workflow, learned>>
      BY <1>7, <2>0 DEF ReportOutcome
    <2>2. \A m \in sent : m.report = ReportOf(success)
      OBVIOUS
    <2>3. \A report : report = ReportOf(success) => Told(report)'
      <3>1. ReportOf(success).success = success
        BY DEF ReportOf
      <3>2. /\ workflow.status \in Ended
            /\ workflow.status # "purged" => workflow.status = StatusOf(success)
        BY <1>7, <2>0 DEF ReportOutcome, ReportsAreTold
      <3>3. ReportOf(success)' = ReportOf(success)
        BY <2>1 DEF ReportOf
      <3> QED BY <2>1, <3>1, <3>2, <3>3 DEF Told, ReportOf
    <2> HIDE DEF sent
    <2> QED BY <1>1, <1>2, <2>1, <2>2, <2>3 DEF ReportsAreTold
  <1>8. ASSUME NEW m \in reports, recordWorkflowOutcome(m) \/ recordWorkflowLearning(m)
        PROVE  ReportsAreTold'
    <2>1. reports' \subseteq reports /\ reply' = reply
      BY <1>8 DEF recordWorkflowOutcome, recordWorkflowLearning
    <2>2. \A l \in Learners : learned'[l] = learned[l] \/ learned'[l] = m.report
      BY <1>8 DEF recordWorkflowOutcome, recordWorkflowLearning, TypeOK
    <2> QED BY <1>1, <1>2, <1>3, <2>1, <2>2 DEF ReportsAreTold
  <1>9. ASSUME NEW m \in reports, LoseReport(m) PROVE ReportsAreTold'
    <2> DEFINE lost == [m EXCEPT !.to = LostFor[m.to]]
    <2>1. reports' = (reports \ {m}) \cup {lost} /\ UNCHANGED <<reply, learned>>
      BY <1>9 DEF LoseReport
    <2>2. lost.report = m.report
      BY DEF TypeOK
    <2> HIDE DEF lost
    <2> QED BY <1>1, <1>2, <1>3, <2>1, <2>2 DEF ReportsAreTold
  <1> QED
    BY <1>4, <1>5, <1>6, <1>7, <1>8, <1>9
    DEF Next, vars, create, beginCall, SendFinish, LoseHolder, finishCall, alarm,
        AlarmIgnored, AlarmEarly, AlarmBusy, purgeExpired, Tick

(* LearnersAgree for every instance: whatever reports are late, lost or    *)
(* posted twice, each learner recorded the outcome the workflow ended      *)
(* with, and both from the same final counters.                            *)
THEOREM LearnersLearnTheOutcome == Spec => []LearnersAgree
  <1>1. Init => ReportsAreTold
    BY DEF Init, ReportsAreTold, Learners
  <1>2. TypeOK /\ LeaseInv /\ ReportsAreTold /\ [Next]_vars => ReportsAreTold'
    BY NextTold
  <1>3. LeaseInv /\ ReportsAreTold => LearnersAgree
    <2> SUFFICES ASSUME LeaseInv, ReportsAreTold, NEW l \in Learners, learned[l] # NoReport
                 PROVE  /\ workflow.status # "purged" =>
                             /\ workflow.status = StatusOf(learned[l].success)
                             /\ learned[l].calls = Cardinality(Leased("closed"))
                        /\ learned[l] = ReportOf(learned[l].success)
      BY DEF LearnersAgree, StatusOf
    <2>1. Told(learned[l])
      BY DEF ReportsAreTold
    <2>2. learned[l].calls = workflow.callsCompleted
      BY <2>1 DEF Told, ReportOf
    <2> QED BY <2>1, <2>2 DEF Told, LeaseInv, LeasesCounted
  <1> QED BY <1>1, <1>2, <1>3, TypeCorrect, LeasesAlways, PTL DEF Spec
=============================================================================
