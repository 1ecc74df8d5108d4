------------------------ MODULE WorkflowCoordinator ------------------------
(***************************************************************************)
(* The Durable Object of one workflow: it leases calls up to a call limit  *)
(* and a concurrency limit, settles each lease once, accepts one terminal  *)
(* outcome, and fails the workflow from an alarm when the deadline passes. *)
(* Around it: the Workers that hold leases and send finishCall through     *)
(* waitUntil, the Worker that posts the outcome and copies it to           *)
(* RoutingState and to the ranking replica of RoutingCoordinator.          *)
(*                                                                         *)
(* Time is relative: deadlines, alarms and retention count down as the     *)
(* clock ticks, and stop at Past once it is behind them.                   *)
(***************************************************************************)
EXTENDS Integers, FiniteSets, FiniteSetsExt

CONSTANTS
    Calls,           \* call ids
    Providers,       \* providers a call may be routed to
    TokenAmounts,    \* actualTokens a finished call may report
    MaxCalls,        \* spec.maxCalls
    MaxConcurrency,  \* spec.maxConcurrency
    Deadlines,       \* values of spec.deadlineMs, NoDeadline when absent
    Retention,       \* WORKFLOW_RETENTION_MS
    RecheckDelay,    \* 1_000 ms between two looks at a late, busy workflow
    Faults           \* what may go wrong: "finish" and "rpc" lose a message,
                     \* "early" delivers an alarm one tick before its time

NoDeadline == -2
NoAlarm == -2
Past == -1
NoProvider == "none"
NoReport == [success |-> FALSE, provider |-> NoProvider, calls |-> -1, tokens |-> -1]
NoOutcome == "no outcome"

ASSUME LimitsAssumption == MaxCalls \in Nat \ {0} /\ MaxConcurrency \in Nat \ {0}
ASSUME TimesAssumption ==
    /\ Deadlines \subseteq (Nat \ {0}) \cup {NoDeadline}
    /\ Retention \in Nat \ {0} /\ RecheckDelay \in Nat \ {0}
ASSUME DataAssumption ==
    TokenAmounts \subseteq Nat /\ NoProvider \notin Providers /\ Faults \subseteq {"finish", "rpc", "early"}

VARIABLES
    workflow,   \* the row of the workflows table
    leases,     \* the rows of workflow_calls
    alarmIn,    \* the alarm of the object, or NoAlarm
    holders,    \* what the Worker of each call does with its lease
    finishes,   \* finishCall messages sent
    reply,      \* outcome a Worker got accepted and has yet to report
    reports,    \* outcome reports under way to RoutingState and the ranking replica
    learned     \* what RoutingState and the ranking replica have recorded

vars == <<workflow, leases, alarmIn, holders, finishes, reply, reports, learned>>

Terminal == {"completed", "failed"}
Learners == {"state", "ranking"}
LostFor == [l \in Learners |-> IF l = "state" THEN "state lost" ELSE "ranking lost"]
Addressees == Learners \cup {LostFor[l] : l \in Learners}
Row == [status : {"none", "active", "purged"} \cup Terminal,
        deadlineIn : Int, callsStarted : Nat, callsCompleted : Nat,
        inFlight : Nat, actualTokens : Nat,
        primary : Providers \cup {NoProvider}, keepFor : Int]
Report == [success : BOOLEAN, provider : Providers \cup {NoProvider}, calls : Nat, tokens : Nat]

Init ==
    /\ workflow = [status |-> "none", deadlineIn |-> NoDeadline, callsStarted |-> 0,
                   callsCompleted |-> 0, inFlight |-> 0, actualTokens |-> 0,
                   primary |-> NoProvider, keepFor |-> Past]
    /\ leases = [c \in Calls |-> "none"]
    /\ alarmIn = NoAlarm
    /\ holders = [c \in Calls |-> "idle"]
    /\ finishes = {}
    /\ reply = NoOutcome
    /\ reports = {}
    /\ learned = [l \in Learners |-> NoReport]

-----------------------------------------------------------------------------
(* The object's own operations.                                            *)

create(deadline) ==
    /\ workflow.status = "none"
    /\ workflow' = [workflow EXCEPT !.status = "active", !.deadlineIn = deadline]
    /\ alarmIn' = deadline
    /\ UNCHANGED <<leases, holders, finishes, reply, reports, learned>>

(* Mutated form: off by one.                                               *)
CallableOnceMore ==
    /\ workflow.status = "active"
    /\ workflow.deadlineIn = NoDeadline \/ workflow.deadlineIn > 0
    /\ workflow.callsStarted < MaxCalls
    /\ workflow.inFlight <= MaxConcurrency

(* assertCallable: a deadline that is due, or behind, refuses the call.    *)
Callable ==
    /\ workflow.status = "active"
    /\ workflow.deadlineIn = NoDeadline \/ workflow.deadlineIn > 0
    /\ workflow.callsStarted < MaxCalls
    /\ workflow.inFlight < MaxConcurrency

beginCall(c, provider) ==
    /\ holders[c] = "idle"
    /\ Callable
    /\ leases' = [leases EXCEPT ![c] = "open"]
    /\ workflow' = [workflow EXCEPT
                      !.callsStarted = @ + 1,
                      !.inFlight = @ + 1,
                      !.primary = IF @ = NoProvider THEN provider ELSE @]
    /\ holders' = [holders EXCEPT ![c] = "held"]
    /\ UNCHANGED <<alarmIn, finishes, reply, reports, learned>>

(* Mutated form: every delivery counts.                                    *)
finishCallAgain(c, tokens) ==
    /\ leases' = [leases EXCEPT ![c] = "closed"]
    /\ workflow' = [workflow EXCEPT
                      !.callsCompleted = @ + 1,
                      !.inFlight = IF @ > 0 THEN @ - 1 ELSE 0,
                      !.actualTokens = @ + tokens]
    /\ workflow.callsCompleted <= MaxCalls
    /\ UNCHANGED <<alarmIn, holders, finishes, reply, reports, learned>>

(* finishCall: a second delivery finds completed_at set; a delivery after  *)
(* the purge finds no row.                                                 *)
finishCall(c, tokens) ==
    /\ IF leases[c] = "open"
       THEN /\ leases' = [leases EXCEPT ![c] = "closed"]
            /\ workflow' = [workflow EXCEPT
                              !.callsCompleted = @ + 1,
                              !.inFlight = IF @ > 0 THEN @ - 1 ELSE 0,
                              !.actualTokens = @ + tokens]
       ELSE UNCHANGED <<leases, workflow>>
    /\ UNCHANGED <<alarmIn, holders, finishes, reply, reports, learned>>

(* Mutated forms: calls in flight are not looked at; nor is the status.    *)
completeBusy(success) ==
    /\ workflow.status = "active"
    /\ workflow' = [workflow EXCEPT !.status = IF success THEN "completed" ELSE "failed",
                                    !.keepFor = Retention]
    /\ reply' = IF success THEN "success" ELSE "failure"
    /\ UNCHANGED <<leases, alarmIn, holders, finishes, reports, learned>>

completeAgain(success) ==
    /\ workflow.status # "none"
    /\ ~(workflow.inFlight > 0)
    /\ workflow' = [workflow EXCEPT !.status = IF success THEN "completed" ELSE "failed",
                                    !.keepFor = Retention]
    /\ reply' = IF success THEN "success" ELSE "failure"
    /\ UNCHANGED <<leases, alarmIn, holders, finishes, reports, learned>>

(* complete: one terminal outcome, and none while a call is in flight.     *)
complete(success) ==
    /\ workflow.status = "active"
    /\ ~(workflow.inFlight > 0)
    /\ workflow' = [workflow EXCEPT !.status = IF success THEN "completed" ELSE "failed",
                                    !.keepFor = Retention]
    /\ reply' = IF success THEN "success" ELSE "failure"
    /\ UNCHANGED <<leases, alarmIn, holders, finishes, reports, learned>>

ReportOf(success) ==
    [success |-> success, provider |-> workflow.primary,
     calls |-> workflow.callsCompleted, tokens |-> workflow.actualTokens]

(* alarm(): nothing to do without an active workflow that has a deadline;  *)
(* an early alarm is set again; a late workflow with calls in flight is    *)
(* looked at again after RecheckDelay; otherwise it fails, and only then   *)
(* the outcome is sent to RoutingState.                                    *)
AlarmIgnored ==
    /\ ~(workflow.status = "active" /\ workflow.deadlineIn # NoDeadline)
    /\ alarmIn' = NoAlarm
    /\ UNCHANGED <<workflow, reports>>

AlarmEarly ==
    /\ workflow.status = "active"
    /\ workflow.deadlineIn > 0
    /\ alarmIn' = workflow.deadlineIn
    /\ UNCHANGED <<workflow, reports>>

(* Mutated form: nobody looks again.                                       *)
AlarmBusyOnce ==
    /\ workflow.status = "active"
    /\ workflow.deadlineIn \in {0, Past}
    /\ workflow.inFlight > 0
    /\ alarmIn' = NoAlarm
    /\ UNCHANGED <<workflow, reports>>

AlarmBusy ==
    /\ workflow.status = "active"
    /\ workflow.deadlineIn \in {0, Past}
    /\ workflow.inFlight > 0
    /\ alarmIn' = RecheckDelay
    /\ UNCHANGED <<workflow, reports>>

(* Mutated forms: the workflow is failed under its calls; the outcome is   *)
(* not sent.                                                               *)
AlarmFailsBusy ==
    /\ workflow.status = "active"
    /\ workflow.deadlineIn \in {0, Past}
    /\ workflow' = [workflow EXCEPT !.status = "failed", !.keepFor = Retention]
    /\ reports' = reports \cup {[to |-> "state", by |-> "alarm", report |-> ReportOf(FALSE)]}
    /\ alarmIn' = NoAlarm

AlarmFailsSilently ==
    /\ workflow.status = "active"
    /\ workflow.deadlineIn \in {0, Past}
    /\ ~(workflow.inFlight > 0)
    /\ workflow' = [workflow EXCEPT !.status = "failed", !.keepFor = Retention]
    /\ alarmIn' = NoAlarm
    /\ UNCHANGED reports

AlarmFails ==
    /\ workflow.status = "active"
    /\ workflow.deadlineIn \in {0, Past}
    /\ ~(workflow.inFlight > 0)
    /\ workflow' = [workflow EXCEPT !.status = "failed", !.keepFor = Retention]
    /\ reports' = reports \cup {[to |-> "state", by |-> "alarm", report |-> ReportOf(FALSE)]}
    /\ alarmIn' = NoAlarm

AlarmDue == alarmIn \in {0, Past} \/ ("early" \in Faults /\ alarmIn = 1)

alarm ==
    /\ AlarmDue
    /\ AlarmIgnored \/ AlarmEarly \/ AlarmBusy \/ AlarmFails
    /\ UNCHANGED <<leases, holders, finishes, reply, learned>>

(* purgeExpired, at the head of create and get.                            *)
purgeExpired ==
    /\ workflow.status \in Terminal
    /\ workflow.keepFor = Past
    /\ workflow' = [workflow EXCEPT !.status = "purged"]
    /\ leases' = [c \in Calls |-> "none"]
    /\ UNCHANGED <<alarmIn, holders, finishes, reply, reports, learned>>

-----------------------------------------------------------------------------
(* The Workers.                                                            *)

(* The call ends and its Worker sends finishCall, or the Worker is lost.   *)
SendFinish(c, tokens) ==
    /\ holders[c] = "held"
    /\ holders' = [holders EXCEPT ![c] = "done"]
    /\ finishes' = finishes \cup {[call |-> c, tokens |-> tokens]}
    /\ UNCHANGED <<workflow, leases, alarmIn, reply, reports, learned>>

LoseHolder(c) ==
    /\ "finish" \in Faults
    /\ holders[c] = "held"
    /\ holders' = [holders EXCEPT ![c] = "done"]
    /\ UNCHANGED <<workflow, leases, alarmIn, finishes, reply, reports, learned>>

(* The Worker that posted the outcome reports it to both learners.         *)
ReportOutcome ==
    /\ reply # NoOutcome
    /\ reports' = reports \cup {[to |-> l, by |-> "worker", report |-> ReportOf(reply = "success")] :
                                   l \in Learners}
    /\ reply' = NoOutcome
    /\ UNCHANGED <<workflow, leases, alarmIn, holders, finishes, learned>>

(* recordWorkflowOutcome of RoutingState: one row per workflow id.         *)
recordWorkflowOutcome(r) ==
    /\ r.to = "state"
    /\ learned' = IF learned["state"] = NoReport
                  THEN [learned EXCEPT !["state"] = r.report] ELSE learned
    /\ reports' = reports \ {r}
    /\ UNCHANGED <<workflow, leases, alarmIn, holders, finishes, reply>>

(* recordWorkflowLearning of RoutingCoordinator: needs a provider.         *)
recordWorkflowLearning(r) ==
    /\ r.to = "ranking"
    /\ learned' = IF r.report.provider # NoProvider /\ learned["ranking"] = NoReport
                  THEN [learned EXCEPT !["ranking"] = r.report] ELSE learned
    /\ reports' = reports \ {r}
    /\ UNCHANGED <<workflow, leases, alarmIn, holders, finishes, reply>>

(* A report fails.  The alarm handler that awaited it throws, and the      *)
(* platform runs the alarm again; a waitUntil promise is just dropped.     *)
LoseReport(r) ==
    /\ "rpc" \in Faults
    /\ r.to \in Learners
    /\ reports' = (reports \ {r}) \cup {[r EXCEPT !.to = LostFor[r.to]]}
    /\ alarmIn' = IF r.by = "alarm" THEN 0 ELSE alarmIn
    /\ UNCHANGED <<workflow, leases, holders, finishes, reply, learned>>

CountDown(t) == IF t \in {NoDeadline, Past} THEN t ELSE t - 1

Tick ==
    /\ workflow' = [workflow EXCEPT !.deadlineIn = CountDown(@), !.keepFor = CountDown(@)]
    /\ alarmIn' = CountDown(alarmIn)
    /\ UNCHANGED <<leases, holders, finishes, reply, reports, learned>>

Next ==
    \/ \E d \in Deadlines : create(d)
    \/ \E c \in Calls, p \in Providers : beginCall(c, p)
    \/ \E c \in Calls, tokens \in TokenAmounts : SendFinish(c, tokens)
    \/ \E c \in Calls : LoseHolder(c)
    \/ \E f \in finishes : finishCall(f.call, f.tokens)
    \/ \E success \in BOOLEAN : complete(success)
    \/ alarm
    \/ purgeExpired
    \/ ReportOutcome
    \/ \E r \in reports : recordWorkflowOutcome(r)
    \/ \E r \in reports : recordWorkflowLearning(r)
    \/ \E r \in reports : LoseReport(r)
    \/ Tick

Spec == Init /\ [][Next]_vars

(* Time passes and a due alarm is delivered; every upstream call ends, one *)
(* way or the other; messages that are not lost arrive.  Nothing makes a   *)
(* client begin a call or post an outcome.                                 *)
Fairness ==
    /\ WF_vars(Tick)
    /\ WF_vars(alarm)
    /\ \A c \in Calls :
           /\ WF_vars(LoseHolder(c) \/ \E tokens \in TokenAmounts : SendFinish(c, tokens))
           /\ WF_vars(\E f \in finishes : f.call = c /\ finishCall(c, f.tokens))
    /\ WF_vars(ReportOutcome)
    /\ WF_vars(\E r \in reports : \/ recordWorkflowOutcome(r)
                                  \/ recordWorkflowLearning(r)
                                  \/ LoseReport(r))

FairSpec == Spec /\ Fairness

-----------------------------------------------------------------------------
(* Properties                                                              *)

(* The type invariant of the two tables, the alarm and the messages.       *)
TypeOK ==
    /\ workflow \in Row
    /\ leases \in [Calls -> {"none", "open", "closed"}]
    /\ alarmIn \in Int
    /\ holders \in [Calls -> {"idle", "held", "done"}]
    /\ finishes \subseteq [call : Calls, tokens : TokenAmounts]
    /\ reply \in {NoOutcome, "success", "failure"}
    /\ reports \subseteq [to : Addressees, by : {"alarm", "worker"}, report : Report]
    /\ learned \in [Learners -> Report \cup {NoReport}]

Leased(state) == {c \in Calls : leases[c] = state}

(* The counters of the row agree with the call rows: every lease is        *)
(* counted once when it is taken and once when it is settled, however      *)
(* often and in whatever order finishCall is delivered.                    *)
LeasesCounted ==
    workflow.status # "purged" =>
        /\ workflow.inFlight = Cardinality(Leased("open"))
        /\ workflow.callsCompleted = Cardinality(Leased("closed"))
        /\ workflow.callsStarted = workflow.inFlight + workflow.callsCompleted

(* The limits of the workflow hold for the calls it ever leased and for    *)
(* those open at once ("The Durable Object owns call limits and            *)
(* concurrency").                                                          *)
LimitsKept ==
    /\ Cardinality(Leased("open")) <= MaxConcurrency
    /\ Cardinality(Leased("open") \cup Leased("closed")) <= MaxCalls

(* A terminal workflow has no call in flight: its counters are final when  *)
(* its outcome is reported.                                                *)
TerminalHasNoOpenCalls == workflow.status \in Terminal => Leased("open") = {}

(* The first terminal outcome stands: neither the alarm nor a second post  *)
(* replaces it, only the purge removes it.                                 *)
TerminalIsFinal ==
    [][workflow.status \in Terminal => workflow'.status \in {workflow.status, "purged"}]_vars

(* What the learners recorded is the outcome the workflow ended with, and  *)
(* both learned from the same numbers.                                     *)
LearnersAgree ==
    \A l \in Learners : learned[l] # NoReport =>
        /\ workflow.status # "purged" =>
               /\ workflow.status = (IF learned[l].success THEN "completed" ELSE "failed")
               /\ learned[l].calls = Cardinality(Leased("closed"))
        /\ learned[l] = ReportOf(learned[l].success)

(* A missed deadline ends the workflow without any client: an active       *)
(* workflow with a deadline does not stay active ("durable alarms fail     *)
(* missed deadlines").                                                     *)
DeadlineEnforced ==
    (workflow.status = "active" /\ workflow.deadlineIn # NoDeadline)
        ~> workflow.status # "active"

(* A lease whose Worker is gone without a finishCall.                      *)
Leaked(c) ==
    leases[c] = "open" /\ holders[c] = "done" /\ \A f \in finishes : f.call # c

(* Nothing but a leaked lease keeps a workflow past its deadline: early    *)
(* alarms, calls still in flight and late finishCalls only postpone it.    *)
OnlyLeaksOutlastDeadline ==
    (workflow.status = "active" /\ workflow.deadlineIn # NoDeadline)
        ~> (workflow.status # "active" \/ \E c \in Calls : Leaked(c))

(* The terminal outcome reaches RoutingState, which keeps it for learning, *)
(* unless the one report of it was lost: nobody repeats a report.          *)
OutcomeRecorded ==
    (workflow.status \in Terminal)
        ~> (learned["state"] # NoReport \/ \E r \in reports : r.to = LostFor["state"])
=============================================================================
