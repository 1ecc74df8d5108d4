--------------------------- MODULE AsyncJobQueue ---------------------------
(***************************************************************************)
(* The Durable Object of deferred jobs: one alarm runs the queued job that *)
(* has been due the longest, through the same executeGeneration as an      *)
(* interactive call, and sets itself again for the next one.  The platform *)
(* runs one alarm handler at a time, lets other requests in while it       *)
(* awaits the provider, and runs it again when the object dies under it.   *)
(*                                                                         *)
(* Time is relative: a job counts down to its next attempt, and from there *)
(* stands in line in the order of next_attempt_at.                         *)
(***************************************************************************)
EXTENDS Integers, FiniteSets, SequencesExt

CONSTANTS
    Jobs,           \* job ids
    MaxAttempts,    \* ASYNC_JOB_MAX_ATTEMPTS
    RetryAfters,    \* delays a provider or the planner may ask for
    Fallback,       \* the 1_000 ms of a retry nobody gave a delay for
    Retention,      \* ASYNC_JOB_RETENTION_MS
    Crashes         \* how often the object may die under a running job

ASSUME JobsAssumption == IsFiniteSet(Jobs)
ASSUME AttemptsAssumption == MaxAttempts \in Nat \ {0}
ASSUME DelaysAssumption ==
    /\ RetryAfters \subseteq Nat
    /\ Fallback \in Nat \ {0}
    /\ Retention \in Nat \ {0}
ASSUME CrashesAssumption == Crashes \in Nat

NoHeader == -1
NoAlarm == -1
NoJob == "no job"
ASSUME NoJobAssumption == NoJob \notin Jobs

VARIABLES
    jobs,       \* the rows of the jobs table
    due,        \* the queued jobs whose next_attempt_at is behind, oldest first
    alarmIn,    \* the alarm of the object, or NoAlarm
    running,    \* the job the alarm handler awaits, or NoJob
    crashes     \* crashes so far (bound of the model)

vars == <<jobs, due, alarmIn, running, crashes>>

NoRow == [status |-> "none", attempts |-> 0, wait |-> 0, keepFor |-> 0]
Settled == {"completed", "failed"}

Init ==
    /\ jobs = [j \in Jobs |-> NoRow]
    /\ due = <<>>
    /\ alarmIn = NoAlarm
    /\ running = NoJob
    /\ crashes = 0

-----------------------------------------------------------------------------
Queued(rows) == {j \in Jobs : rows[j].status = "queued"}

(* Mutated form: an alarm that is already set is kept.                     *)
scheduleNextOnce(rows, line, alarm) ==
    IF Queued(rows) = {} \/ alarm # NoAlarm THEN alarm
    ELSE IF line # <<>> THEN 0
    ELSE Min({rows[j].wait : j \in Queued(rows)})

(* scheduleNext: the alarm moves to the earliest queued job; without one   *)
(* it is left as it is.                                                    *)
scheduleNext(rows, line, alarm) ==
    IF Queued(rows) = {} THEN alarm
    ELSE IF line # <<>> THEN 0
    ELSE Min({rows[j].wait : j \in Queued(rows)})

(* purgeExpired: rows settled longer ago than the retention.               *)
purgeExpired(rows) ==
    [j \in Jobs |-> IF rows[j].status \in Settled /\ rows[j].keepFor < 0
                    THEN [rows[j] EXCEPT !.status = "purged"] ELSE rows[j]]

enqueue(j) ==
    /\ jobs[j].status = "none"
    /\ jobs' = [purgeExpired(jobs) EXCEPT ![j] = [NoRow EXCEPT !.status = "queued"]]
    /\ due' = Append(due, j)
    /\ alarmIn' = scheduleNext(jobs', due', alarmIn)
    /\ UNCHANGED <<running, crashes>>

(* A poll purges before it reads.                                          *)
getJob ==
    /\ jobs' = purgeExpired(jobs)
    /\ UNCHANGED <<due, alarmIn, running, crashes>>

(* Mutated form: the job that fell due last is taken first.                *)
alarmNewestFirst ==
    /\ alarmIn = 0 /\ running = NoJob
    /\ IF due # <<>>
       THEN /\ jobs' = [purgeExpired(jobs) EXCEPT ![Last(due)].status = "running"]
            /\ running' = Last(due)
            /\ due' = Front(due)
            /\ alarmIn' = NoAlarm
       ELSE /\ jobs' = purgeExpired(jobs)
            /\ alarmIn' = scheduleNext(jobs', due, NoAlarm)
            /\ UNCHANGED <<running, due>>
    /\ UNCHANGED crashes

(* alarm(): the oldest due job is marked running and awaited; without one  *)
(* the alarm is just set again.  The alarm that fired is spent.            *)
alarm ==
    /\ alarmIn = 0 /\ running = NoJob
    /\ IF due # <<>>
       THEN /\ jobs' = [purgeExpired(jobs) EXCEPT ![Head(due)].status = "running"]
            /\ running' = Head(due)
            /\ due' = Tail(due)
            /\ alarmIn' = NoAlarm
       ELSE /\ jobs' = purgeExpired(jobs)
            /\ alarmIn' = scheduleNext(jobs', due, NoAlarm)
            /\ UNCHANGED <<running, due>>
    /\ UNCHANGED crashes

-----------------------------------------------------------------------------
(* How a run ends.                                                         *)

Settle(j, status) == [jobs EXCEPT ![j].status = status, ![j].keepFor = Retention]

defer(j, attempts, delay) ==
    IF attempts >= MaxAttempts THEN Settle(j, "failed")
    ELSE [jobs EXCEPT ![j].status = "queued", ![j].attempts = attempts,
                      ![j].wait = IF delay > 1 THEN delay ELSE 1]

(* A missing Retry-After header reads as the number 0.                     *)
retryAfter(header) == IF header = NoHeader THEN 0 ELSE header

OrFallback(delay) == IF delay = NoHeader THEN Fallback ELSE delay

(* The run of j ends with these rows, and the handler sets the alarm.      *)
EndRun(rows) ==
    /\ jobs' = rows
    /\ alarmIn' = scheduleNext(jobs', due, alarmIn)
    /\ running' = NoJob
    /\ UNCHANGED <<due, crashes>>

Complete == running # NoJob /\ EndRun(Settle(running, "completed"))

(* A response that is neither a success nor temporary.                     *)
Refuse == running # NoJob /\ EndRun(Settle(running, "failed"))

(* Mutated form: the attempt does not count.                               *)
RetryResponseFree(header) ==
    running # NoJob /\ EndRun(defer(running, jobs[running].attempts, retryAfter(header)))

(* 429 or 5xx with or without a Retry-After header.                        *)
RetryResponse(header) ==
    running # NoJob /\ EndRun(defer(running, jobs[running].attempts + 1, retryAfter(header)))

(* Any other exception out of executeGeneration or the body.               *)
RetryError(delay) ==
    running # NoJob /\ EndRun(defer(running, jobs[running].attempts + 1, OrFallback(delay)))

(* provider_unavailable: nothing was tried, so the attempt does not count. *)
Unavailable(delay) ==
    running # NoJob /\ EndRun(defer(running, jobs[running].attempts, OrFallback(delay)))

(* The object dies while it awaits the provider.  The row says running,    *)
(* and the platform runs the alarm handler again.                          *)
Crash ==
    /\ running # NoJob /\ crashes < Crashes
    /\ crashes' = crashes + 1
    /\ running' = NoJob
    /\ alarmIn' = 0
    /\ UNCHANGED <<jobs, due>>

-----------------------------------------------------------------------------
(* Time: waiting jobs count down and join the line when they are due; jobs *)
(* that fall due in the same tick join it in any order.                    *)
Tick ==
    LET nowDue == {j \in Queued(jobs) : jobs[j].wait = 1} IN
    /\ jobs' = [j \in Jobs |->
                  [jobs[j] EXCEPT
                      !.wait = IF jobs[j].status = "queued" /\ @ > 0 THEN @ - 1 ELSE @,
                      !.keepFor = IF jobs[j].status \in Settled /\ @ >= 0 THEN @ - 1 ELSE @]]
    /\ alarmIn' = IF alarmIn > 0 THEN alarmIn - 1 ELSE alarmIn
    /\ \E arrivals \in SetToSeqs(nowDue) : due' = due \o arrivals
    /\ UNCHANGED <<running, crashes>>

Delays == RetryAfters \cup {NoHeader}

Next ==
    \/ \E j \in Jobs : enqueue(j)
    \/ getJob
    \/ alarm
    \/ Complete
    \/ Refuse
    \/ \E header \in Delays : RetryResponse(header)
    \/ \E delay \in Delays : RetryError(delay)
    \/ \E delay \in Delays : Unavailable(delay)
    \/ Crash
    \/ Tick

Spec == Init /\ [][Next]_vars

CountedAnswer ==
    \/ Complete
    \/ Refuse
    \/ \E delay \in Delays : RetryResponse(delay) \/ RetryError(delay)

(* Time passes, a due alarm is delivered, and executeGeneration ends.      *)
Fairness ==
    /\ WF_vars(Tick)
    /\ WF_vars(alarm)
    /\ WF_vars(CountedAnswer \/ (\E delay \in Delays : Unavailable(delay)) \/ Crash)

FairSpec == Spec /\ Fairness

(* Moreover the providers are not unavailable for ever to any one job.     *)
Served == \A j \in Jobs : SF_vars(running = j /\ CountedAnswer)

ServedSpec == FairSpec /\ Served

-----------------------------------------------------------------------------
(* Properties                                                              *)

(* The type invariant of the jobs table, the line of due jobs, the alarm   *)
(* and the handler.                                                        *)
TypeOK ==
    /\ jobs \in [Jobs -> [status : {"none", "queued", "running", "purged"} \cup Settled,
                          attempts : 0 .. MaxAttempts - 1, wait : Nat, keepFor : Int]]
    /\ due \in Seq(Jobs)
    /\ alarmIn \in Nat \cup {NoAlarm}
    /\ running \in Jobs \cup {NoJob}
    /\ crashes \in 0 .. Crashes

(* A queued job never waits for an alarm nobody set: unless the handler is *)
(* about to set it, the alarm goes off no later than the job is due        *)
(* ("scheduled with alarms, so it ... waits for a rate-limit slot").       *)
AlarmCoversQueue ==
    running = NoJob =>
        \A j \in Queued(jobs) : alarmIn # NoAlarm /\ alarmIn <= jobs[j].wait

(* No job starves: whatever the other jobs are answered, a queued job is   *)
(* run ("ORDER BY next_attempt_at").                                       *)
EveryJobRuns == \A j \in Jobs : (jobs[j].status = "queued") ~> (jobs[j].status = "running")

(* A submitted job ends: "poll that URL until the status is completed or   *)
(* failed".                                                                *)
EveryJobSettles ==
    \A j \in Jobs : (jobs[j].status = "queued") ~> (jobs[j].status \in Settled \cup {"purged"})

(* A row that says running although nobody awaits its job.                 *)
Stranded(j) == jobs[j].status = "running" /\ running # j

(* As long as the providers are not unavailable to a job for ever, it ends *)
(* or is stranded by a restart: no pattern of retries, attempts and delays *)
(* keeps it waiting.                                                       *)
OnlyRestartsStrand ==
    Served => \A j \in Jobs : (jobs[j].status = "queued")
                                 ~> (jobs[j].status \in Settled \cup {"purged"} \/ Stranded(j))
=============================================================================
