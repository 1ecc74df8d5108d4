------------------------ MODULE AsyncJobQueueProofs ------------------------
(***************************************************************************)
(* Theorems of AsyncJobQueue, for any jobs, delays, attempt limits and     *)
(* restarts.                                                               *)
(***************************************************************************)
EXTENDS AsyncJobQueue, TLAPS, FiniteSetTheorems, WellFoundedInduction

USE JobsAssumption, AttemptsAssumption, DelaysAssumption, CrashesAssumption, NoJobAssumption

Statuses == {"none", "queued", "running", "purged"} \cup Settled
Row == [status : Statuses,
        attempts : 0 .. MaxAttempts - 1, wait : Nat, keepFor : Int]

-----------------------------------------------------------------------------
(* What the helpers return.                                                *)

LEMMA MinIsLeast ==
    ASSUME NEW S \in SUBSET Nat, S # {}
    PROVE  Min(S) \in S /\ \A n \in S : Min(S) <= n
<1>1. PICK m \in S : \A n \in S : <<n, m>> \notin OpToRel(<, Nat)
  BY WFMin, NatLessThanWellFounded, Zenon
<1>2. \A n \in S : ~(n < m)
  BY <1>1, Zenon DEF OpToRel
<1>3. \A n \in S : m <= n
  BY <1>2
<1> QED
  BY <1>3 DEF Min

LEMMA PurgeOK ==
    ASSUME NEW rows \in [Jobs -> Row]
    PROVE  /\ purgeExpired(rows) \in [Jobs -> Row]
           /\ \A j \in Jobs : /\ purgeExpired(rows)[j].wait = rows[j].wait
                              /\ rows[j].status \notin Settled => purgeExpired(rows)[j] = rows[j]
                              /\ rows[j].status \in Settled =>
                                    purgeExpired(rows)[j].status \in Settled \cup {"purged"}
BY DEF purgeExpired, Row, Statuses, Settled

(* scheduleNext leaves the alarm set no later than the earliest queued     *)
(* job, whatever it was before.                                            *)
LEMMA AlarmIsScheduled ==
    ASSUME NEW rows \in [Jobs -> Row], NEW line, NEW before \in Nat \cup {NoAlarm}
    PROVE  LET set == scheduleNext(rows, line, before) IN
           /\ set \in Nat \cup {NoAlarm}
           /\ \A j \in Queued(rows) : set # NoAlarm /\ set <= rows[j].wait
<1> DEFINE waits == {rows[j].wait : j \in Queued(rows)}
<1>1. CASE Queued(rows) = {}
  BY <1>1 DEF scheduleNext
<1>2. CASE Queued(rows) # {}
  <2>1. waits \in SUBSET Nat /\ waits # {}
    BY <1>2 DEF Queued, Row
  <2>2. Min(waits) \in waits /\ \A n \in waits : Min(waits) <= n
    BY <2>1, MinIsLeast
  <2>3. \A j \in Queued(rows) : rows[j].wait \in waits
    OBVIOUS
  <2> QED
    BY <1>2, <2>1, <2>2, <2>3 DEF scheduleNext, NoAlarm
<1> QED
  BY <1>1, <1>2

LEMMA SettleOK ==
    ASSUME TypeOK, NEW j \in Jobs, NEW status \in Settled
    PROVE  /\ Settle(j, status) \in [Jobs -> Row]
           /\ Settle(j, status)[j].status = status
           /\ \A k \in Jobs \ {j} : Settle(j, status)[k] = jobs[k]
<1>1. Retention \in Int /\ status \in Statuses
  BY DEF Statuses
<1>2. jobs \in [Jobs -> [status : Statuses, attempts : 0 .. MaxAttempts - 1,
                         wait : Nat, keepFor : Int]]
  BY DEF TypeOK, Statuses
<1> HIDE DEF Statuses
<1> QED
  BY <1>1, <1>2 DEF Settle, Row

LEMMA DeferOK ==
    ASSUME TypeOK, NEW j \in Jobs, NEW attempts \in Nat, NEW delay \in Int
    PROVE  LET rows == defer(j, attempts, delay) IN
           /\ rows \in [Jobs -> Row]
           /\ rows[j].status \in {"queued", "failed"}
           /\ rows[j].status = "queued" => rows[j].wait >= 1
           /\ \A k \in Jobs \ {j} : rows[k] = jobs[k]
<1>1. CASE attempts >= MaxAttempts
  BY <1>1, SettleOK DEF defer, Settled
<1>2. CASE ~(attempts >= MaxAttempts)
  <2> DEFINE pause == IF delay > 1 THEN delay ELSE 1
             set == [jobs EXCEPT ![j].status = "queued", ![j].attempts = attempts,
                                 ![j].wait = pause]
  <2>1. /\ "queued" \in Statuses
        /\ attempts \in 0 .. MaxAttempts - 1
        /\ pause \in Nat /\ pause >= 1
    BY <1>2 DEF Statuses
  <2>2. jobs \in [Jobs -> [status : Statuses, attempts : 0 .. MaxAttempts - 1,
                           wait : Nat, keepFor : Int]]
    BY DEF TypeOK, Statuses
  <2>3. defer(j, attempts, delay) = set
    BY <1>2 DEF defer
  <2> HIDE DEF pause
  <2>4. /\ set \in [Jobs -> Row]
        /\ set[j].status = "queued" /\ set[j].wait = pause
        /\ \A k \in Jobs \ {j} : set[k] = jobs[k]
    BY <2>1, <2>2 DEF Row
  <2> QED
    BY <2>1, <2>3, <2>4
<1> QED
  BY <1>1, <1>2

-----------------------------------------------------------------------------
(* The shape of every step.                                                *)

Answers == Complete \/ Refuse
             \/ (\E delay \in Delays : RetryResponse(delay) \/ RetryError(delay) \/ Unavailable(delay))

(* A run ends with one new row, and with the alarm set.                    *)
LEMMA AnswerEndsRun ==
    ASSUME TypeOK, Answers
    PROVE  /\ running \in Jobs
           /\ \E rows \in [Jobs -> Row] :
                 /\ EndRun(rows)
                 /\ \A k \in Jobs \ {running} : rows[k] = jobs[k]
                 /\ rows[running].status \in Settled \cup {"queued"}
                 /\ rows[running].status = "queued" => rows[running].wait >= 1
<1>1. running \in Jobs
  BY DEF Answers, Complete, Refuse, RetryResponse, RetryError, Unavailable, TypeOK
<1>2. jobs[running].attempts \in Nat
  BY <1>1 DEF TypeOK
<1>3. ASSUME NEW delay \in Delays
      PROVE  retryAfter(delay) \in Int /\ OrFallback(delay) \in Int
  BY DEF Delays, NoHeader, retryAfter, OrFallback
<1>4. CASE Complete
  BY <1>1, <1>4, SettleOK DEF Complete, Settled
<1>5. CASE Refuse
  BY <1>1, <1>5, SettleOK DEF Refuse, Settled
<1>6. ASSUME NEW delay \in Delays, RetryResponse(delay)
      PROVE  EndRun(defer(running, jobs[running].attempts + 1, retryAfter(delay)))
  BY <1>6 DEF RetryResponse
<1>7. ASSUME NEW delay \in Delays, RetryError(delay)
      PROVE  EndRun(defer(running, jobs[running].attempts + 1, OrFallback(delay)))
  BY <1>7 DEF RetryError
<1>8. ASSUME NEW delay \in Delays, Unavailable(delay)
      PROVE  EndRun(defer(running, jobs[running].attempts, OrFallback(delay)))
  BY <1>8 DEF Unavailable
<1>9. ASSUME NEW attempts \in Nat, NEW delay \in Int
      PROVE  LET rows == defer(running, attempts, delay) IN
             /\ rows \in [Jobs -> Row]
             /\ \A k \in Jobs \ {running} : rows[k] = jobs[k]
             /\ rows[running].status \in Settled \cup {"queued"}
             /\ rows[running].status = "queued" => rows[running].wait >= 1
  BY <1>1, DeferOK DEF Settled
<1>10. jobs[running].attempts + 1 \in Nat
  BY <1>2
<1> QED
  BY <1>1, <1>2, <1>3, <1>4, <1>5, <1>6, <1>7, <1>8, <1>9, <1>10 DEF Answers

(* The jobs that fall due together join the line, each once.               *)
LEMMA ArrivalsOK ==
    ASSUME TypeOK,
           NEW arrivals \in SetToSeqs({j \in Queued(jobs) : jobs[j].wait = 1})
    PROVE  /\ arrivals \in Seq(Jobs)
           /\ \A i \in 1 .. Len(arrivals) : /\ jobs[arrivals[i]].status = "queued"
                                           /\ jobs[arrivals[i]].wait = 1
           /\ \A i, k \in 1 .. Len(arrivals) : arrivals[i] = arrivals[k] => i = k
<1> DEFINE nowDue == {j \in Queued(jobs) : jobs[j].wait = 1}
<1>1. nowDue \in SUBSET Jobs
  BY DEF Queued
<1>2. Cardinality(nowDue) \in Nat
  BY <1>1, FS_Subset, FS_CardinalityType
<1>3. /\ arrivals \in [1 .. Cardinality(nowDue) -> nowDue]
      /\ \A i, k \in 1 .. Cardinality(nowDue) : i # k => arrivals[i] # arrivals[k]
  BY DEF SetToSeqs
<1>4. arrivals \in Seq(Jobs) /\ Len(arrivals) = Cardinality(nowDue)
  BY <1>1, <1>2, <1>3
<1> QED
  BY <1>3, <1>4 DEF Queued

(* A tick only moves the clocks of the rows.                               *)
LEMMA TickRows ==
    ASSUME TypeOK, Tick
    PROVE  /\ jobs' \in [Jobs -> Row]
           /\ \A j \in Jobs : /\ jobs'[j].status = jobs[j].status
                              /\ jobs'[j].wait = IF jobs[j].status = "queued" /\ jobs[j].wait > 0
                                                 THEN jobs[j].wait - 1 ELSE jobs[j].wait
<1> DEFINE Wait(j) == IF jobs[j].status = "queued" /\ jobs[j].wait > 0
                      THEN jobs[j].wait - 1 ELSE jobs[j].wait
           KeepFor(j) == IF jobs[j].status \in Settled /\ jobs[j].keepFor >= 0
                         THEN jobs[j].keepFor - 1 ELSE jobs[j].keepFor
<1>1. jobs \in [Jobs -> Row]
  BY DEF TypeOK, Row, Statuses
<1>2. jobs' = [j \in Jobs |-> [jobs[j] EXCEPT !.wait = Wait(j), !.keepFor = KeepFor(j)]]
  BY DEF Tick
<1>3. ASSUME NEW j \in Jobs
      PROVE  jobs[j] \in Row /\ Wait(j) \in Nat /\ KeepFor(j) \in Int
  BY <1>1 DEF Row
<1> HIDE DEF Wait, KeepFor
<1>4. ASSUME NEW j \in Jobs
      PROVE  /\ jobs'[j] \in Row
             /\ jobs'[j].status = jobs[j].status
             /\ jobs'[j].wait = Wait(j)
  <2>1. jobs'[j] = [jobs[j] EXCEPT !.wait = Wait(j), !.keepFor = KeepFor(j)]
    BY <1>2
  <2>2. /\ [jobs[j] EXCEPT !.wait = Wait(j), !.keepFor = KeepFor(j)] \in Row
        /\ [jobs[j] EXCEPT !.wait = Wait(j), !.keepFor = KeepFor(j)].status = jobs[j].status
        /\ [jobs[j] EXCEPT !.wait = Wait(j), !.keepFor = KeepFor(j)].wait = Wait(j)
    <3>1. jobs[j] \in Row /\ Wait(j) \in Nat /\ KeepFor(j) \in Int
      BY <1>3
    <3> HIDE DEF Statuses
    <3> QED
      BY <3>1 DEF Row
  <2> QED
    BY <2>1, <2>2
<1>5. jobs' \in [Jobs -> Row]
  BY <1>2, <1>4
<1> QED
  BY <1>4, <1>5 DEF Wait

-----------------------------------------------------------------------------
(* Type correctness.                                                       *)

LEMMA TypeStep ==
    ASSUME TypeOK, [Next]_vars
    PROVE  TypeOK'
<1>0. jobs \in [Jobs -> Row] /\ purgeExpired(jobs) \in [Jobs -> Row] /\ due \in Seq(Jobs)
      /\ alarmIn \in Nat \cup {NoAlarm} /\ running \in Jobs \cup {NoJob}
      /\ crashes \in 0 .. Crashes
  BY PurgeOK DEF TypeOK, Row, Statuses
<1>1. ASSUME NEW rows \in [Jobs -> Row], jobs' = rows, due' \in Seq(Jobs),
             alarmIn' = scheduleNext(jobs', due', alarmIn),
             running' \in Jobs \cup {NoJob}, UNCHANGED crashes
      PROVE  TypeOK'
  BY <1>0, <1>1, AlarmIsScheduled DEF TypeOK, Row, Statuses
<1>2. ASSUME NEW j \in Jobs, enqueue(j)
      PROVE  TypeOK'
  <2>1. [NoRow EXCEPT !.status = "queued"] \in Row
    BY DEF NoRow, Row, Statuses
  <2>2. jobs' \in [Jobs -> Row]
    BY <1>0, <1>2, <2>1 DEF enqueue
  <2>3. due' \in Seq(Jobs)
    BY <1>0, <1>2 DEF enqueue
  <2> QED
    BY <1>0, <1>1, <1>2, <2>2, <2>3 DEF enqueue
<1>3. CASE getJob
  BY <1>0, <1>3 DEF getJob, TypeOK, Row, Statuses
<1>4. CASE alarm
  <2>1. CASE due # <<>>
    <3>1. Head(due) \in Jobs /\ Tail(due) \in Seq(Jobs)
      BY <1>0, <2>1
    <3>2. [purgeExpired(jobs) EXCEPT ![Head(due)].status = "running"] \in [Jobs -> Row]
      BY <1>0, <3>1 DEF Row, Statuses
    <3> QED
      BY <1>0, <1>4, <2>1, <3>1, <3>2 DEF alarm, TypeOK, Row, Statuses
  <2>2. CASE due = <<>>
    <3>1. alarmIn' \in Nat \cup {NoAlarm}
      BY <1>0, <1>4, <2>2, AlarmIsScheduled DEF alarm
    <3> QED
      BY <1>0, <1>4, <2>2, <3>1 DEF alarm, TypeOK, Row, Statuses
  <2> QED
    BY <2>1, <2>2
<1>5. CASE Answers
  BY <1>0, <1>1, <1>5, AnswerEndsRun DEF EndRun
<1>6. CASE Crash
  BY <1>0, <1>6 DEF Crash, TypeOK
<1>7. CASE Tick
  <2>1. jobs' \in [Jobs -> Row]
    BY <1>7, TickRows
  <2>2. due' \in Seq(Jobs)
    <3>1. PICK arrivals \in SetToSeqs({j \in Queued(jobs) : jobs[j].wait = 1}) :
            due' = due \o arrivals
      BY <1>7 DEF Tick
    <3> QED
      BY <1>0, <3>1, ArrivalsOK
  <2>3. alarmIn' \in Nat \cup {NoAlarm}
    <3>1. alarmIn' = IF alarmIn > 0 THEN alarmIn - 1 ELSE alarmIn
      BY <1>7, Zenon DEF Tick
    <3> QED
      BY <1>0, <3>1 DEF NoAlarm
  <2> QED
    BY <1>0, <1>7, <2>1, <2>2, <2>3 DEF Tick, TypeOK, Row, Statuses
<1>8. CASE UNCHANGED vars
  BY <1>8 DEF vars, TypeOK
<1> QED
  BY <1>2, <1>3, <1>4, <1>5, <1>6, <1>7, <1>8 DEF Next, Answers

(* The rows, the line, the alarm and the handler always have their types.  *)
THEOREM TypeCorrect == Spec => []TypeOK
<1>1. Init => TypeOK
  BY DEF Init, TypeOK, NoRow, NoAlarm
<1>2. TypeOK /\ [Next]_vars => TypeOK'
  BY TypeStep
<1> QED
  BY <1>1, <1>2, PTL DEF Spec

-----------------------------------------------------------------------------
(* The alarm.                                                              *)

LEMMA AlarmStep ==
    ASSUME TypeOK, AlarmCoversQueue, [Next]_vars
    PROVE  AlarmCoversQueue'
<1>0. /\ jobs \in [Jobs -> Row] /\ jobs' \in [Jobs -> Row] /\ due' \in Seq(Jobs)
      /\ alarmIn \in Nat \cup {NoAlarm} /\ NoAlarm \in Nat \cup {NoAlarm}
  BY TypeStep DEF TypeOK, Row, Statuses
<1>1. ASSUME NEW line, NEW before \in Nat \cup {NoAlarm}, line = due',
             alarmIn' = scheduleNext(jobs', line, before)
      PROVE  AlarmCoversQueue'
  BY <1>0, <1>1, AlarmIsScheduled DEF AlarmCoversQueue, Queued
<1>2. ASSUME NEW j \in Jobs, enqueue(j)
      PROVE  AlarmCoversQueue'
  BY <1>0, <1>1, <1>2 DEF enqueue
<1>3. CASE getJob
  <2>1. \A j \in Jobs : /\ jobs'[j].wait = jobs[j].wait
                        /\ jobs'[j].status = "queued" => jobs[j].status = "queued"
    BY <1>0, <1>3, PurgeOK DEF getJob, Settled
  <2> QED
    BY <1>3, <2>1 DEF getJob, AlarmCoversQueue, Queued
<1>4. CASE alarm
  <2>1. CASE due # <<>>
    <3>1. running' = Head(due)
      BY <1>4, <2>1 DEF alarm
    <3>2. Head(due) \in Jobs
      BY <2>1 DEF TypeOK
    <3> QED
      BY <3>1, <3>2 DEF AlarmCoversQueue
  <2>2. CASE due = <<>>
    BY <1>0, <1>1, <1>4, <2>2 DEF alarm
  <2> QED
    BY <2>1, <2>2
<1>5. CASE Answers
  BY <1>0, <1>1, <1>5, AnswerEndsRun DEF EndRun
<1>6. CASE Crash
  BY <1>0, <1>6 DEF Crash, AlarmCoversQueue, Queued, Row, NoAlarm
<1>7. CASE Tick
  <2>1. alarmIn' = (IF alarmIn > 0 THEN alarmIn - 1 ELSE alarmIn) /\ running' = running
    BY <1>7, Zenon DEF Tick
  <2>2. \A j \in Jobs : /\ jobs'[j].status = jobs[j].status
                        /\ jobs'[j].wait = IF jobs[j].status = "queued" /\ jobs[j].wait > 0
                                           THEN jobs[j].wait - 1 ELSE jobs[j].wait
    BY <1>7, TickRows
  <2>3. \A j \in Jobs : jobs[j].wait \in Nat
    BY <1>0 DEF Row
  <2> QED
    BY <1>0, <2>1, <2>2, <2>3 DEF AlarmCoversQueue, Queued, NoAlarm
<1>8. CASE UNCHANGED vars
  BY <1>8 DEF vars, AlarmCoversQueue, Queued
<1> QED
  BY <1>2, <1>3, <1>4, <1>5, <1>6, <1>7, <1>8 DEF Next, Answers

(* No queued job ever waits for an alarm nobody set.                       *)
THEOREM AlarmCovers == Spec => []AlarmCoversQueue
<1>1. Init => TypeOK /\ AlarmCoversQueue
  BY DEF Init, TypeOK, AlarmCoversQueue, Queued, NoRow, NoAlarm
<1>2. TypeOK /\ AlarmCoversQueue /\ [Next]_vars => TypeOK' /\ AlarmCoversQueue'
  BY TypeStep, AlarmStep
<1> QED
  BY <1>1, <1>2, PTL DEF Spec

-----------------------------------------------------------------------------
(* The line of due jobs.                                                   *)

(* The line holds queued jobs that are due, none of them twice, and the    *)
(* job the handler awaits is marked running.  (The SQL reads the line off  *)
(* the rows; here it is a variable of its own, and this is what ties it to *)
(* them.)                                                                  *)
LineInOrder ==
    /\ \A i \in 1 .. Len(due) : jobs[due[i]].status = "queued" /\ jobs[due[i]].wait = 0
    /\ \A i, k \in 1 .. Len(due) : due[i] = due[k] => i = k
    /\ running # NoJob => jobs[running].status = "running"

LEMMA LineStep ==
    ASSUME TypeOK, LineInOrder, [Next]_vars
    PROVE  LineInOrder'
<1>0. /\ jobs \in [Jobs -> Row] /\ due \in Seq(Jobs)
      /\ \A i \in 1 .. Len(due) : due[i] \in Jobs
      /\ \A j \in Jobs : jobs[j].wait \in Nat
  BY DEF TypeOK, Row, Statuses
<1>1. \A j \in Jobs : /\ purgeExpired(jobs)[j].wait = jobs[j].wait
                      /\ jobs[j].status \notin Settled => purgeExpired(jobs)[j] = jobs[j]
  BY <1>0, PurgeOK
<1>2. ASSUME NEW j \in Jobs, enqueue(j)
      PROVE  LineInOrder'
  <2>1. /\ due' = Append(due, j) /\ running' = running /\ jobs[j].status = "none"
        /\ jobs'[j].status = "queued" /\ jobs'[j].wait = 0
        /\ \A k \in Jobs \ {j} : jobs'[k] = purgeExpired(jobs)[k]
    BY <1>2 DEF enqueue, purgeExpired, NoRow
  <2>2. \A i \in 1 .. Len(due) : due[i] # j /\ jobs'[due[i]] = jobs[due[i]]
    BY <1>0, <1>1, <2>1 DEF LineInOrder, Settled
  <2>3. running # NoJob => jobs'[running] = jobs[running]
    BY <1>1, <2>1 DEF LineInOrder, Settled, TypeOK
  <2> QED
    BY <1>0, <2>1, <2>2, <2>3 DEF LineInOrder
<1>3. CASE getJob
  BY <1>0, <1>1, <1>3 DEF getJob, LineInOrder, Settled, TypeOK
<1>4. CASE alarm
  <2>1. CASE due # <<>>
    <3>1. /\ jobs' = [purgeExpired(jobs) EXCEPT ![Head(due)].status = "running"]
          /\ running' = Head(due) /\ due' = Tail(due)
      BY <1>4, <2>1 DEF alarm
    <3>2. /\ Len(due') = Len(due) - 1 /\ Head(due) = due[1] /\ Head(due) \in Jobs
          /\ \A i \in 1 .. Len(due') : due'[i] = due[i + 1]
      BY <1>0, <2>1, <3>1
    <3>3. purgeExpired(jobs) \in [Jobs -> Row]
      BY <1>0, PurgeOK
    <3>4. /\ jobs'[Head(due)].status = "running"
          /\ \A k \in Jobs \ {Head(due)} : jobs'[k] = purgeExpired(jobs)[k]
      BY <3>1, <3>2, <3>3 DEF Row
    <3>5. \A i \in 1 .. Len(due') : i + 1 \in 1 .. Len(due) /\ due'[i] # Head(due)
      BY <1>0, <3>1, <3>2 DEF LineInOrder
    <3>6. \A i \in 1 .. Len(due') : jobs'[due'[i]] = jobs[due[i + 1]]
      BY <1>0, <1>1, <3>2, <3>4, <3>5 DEF LineInOrder, Settled
    <3> QED
      BY <1>0, <3>1, <3>2, <3>4, <3>5, <3>6 DEF LineInOrder
  <2>2. CASE due = <<>>
    BY <1>4, <2>2 DEF alarm, LineInOrder
  <2> QED
    BY <2>1, <2>2
<1>5. CASE Answers
  <2>1. /\ running \in Jobs /\ running # NoJob /\ running' = NoJob /\ due' = due
        /\ \A k \in Jobs \ {running} : jobs'[k] = jobs[k]
    BY <1>5, AnswerEndsRun DEF EndRun
  <2> QED
    BY <1>0, <2>1 DEF LineInOrder
<1>6. CASE Crash
  BY <1>6 DEF Crash, LineInOrder
<1>7. CASE Tick
  <2>1. PICK arrivals \in SetToSeqs({j \in Queued(jobs) : jobs[j].wait = 1}) :
          due' = due \o arrivals
    BY <1>7 DEF Tick
  <2>2. /\ arrivals \in Seq(Jobs)
        /\ \A i \in 1 .. Len(arrivals) : arrivals[i] \in Jobs
        /\ \A i \in 1 .. Len(arrivals) : /\ jobs[arrivals[i]].status = "queued"
                                        /\ jobs[arrivals[i]].wait = 1
        /\ \A i, k \in 1 .. Len(arrivals) : arrivals[i] = arrivals[k] => i = k
    BY ArrivalsOK
  <2>3. \A j \in Jobs : /\ jobs'[j].status = jobs[j].status
                        /\ jobs'[j].wait = IF jobs[j].status = "queued" /\ jobs[j].wait > 0
                                           THEN jobs[j].wait - 1 ELSE jobs[j].wait
    BY <1>7, TickRows
  <2>4. running' = running
    BY <1>7, Zenon DEF Tick
  <2>5. /\ Len(due') = Len(due) + Len(arrivals)
        /\ \A i \in 1 .. Len(due) : due'[i] = due[i]
        /\ \A i \in 1 .. Len(due') \ 1 .. Len(due) : /\ due'[i] = arrivals[i - Len(due)]
                                                    /\ i - Len(due) \in 1 .. Len(arrivals)
    BY <1>0, <2>1, <2>2
  <2>6. \A i \in 1 .. Len(due') : jobs'[due'[i]].status = "queued" /\ jobs'[due'[i]].wait = 0
    <3> SUFFICES ASSUME NEW i \in 1 .. Len(due')
                 PROVE  jobs'[due'[i]].status = "queued" /\ jobs'[due'[i]].wait = 0
      OBVIOUS
    <3>1. CASE i \in 1 .. Len(due)
      <4>1. due[i] \in Jobs /\ jobs[due[i]].status = "queued" /\ jobs[due[i]].wait = 0
        BY <1>0, <3>1 DEF LineInOrder
      <4> QED
        BY <2>3, <2>5, <3>1, <4>1
    <3>2. CASE i \notin 1 .. Len(due)
      <4> DEFINE a == arrivals[i - Len(due)]
      <4>1. due'[i] = a /\ a \in Jobs /\ jobs[a].status = "queued" /\ jobs[a].wait = 1
        BY <2>2, <2>5, <3>2
      <4> QED
        BY <2>3, <4>1
    <3> QED
      BY <3>1, <3>2
  <2>7. \A i, k \in 1 .. Len(due') : due'[i] = due'[k] => i = k
    <3>1. \A i \in 1 .. Len(due) : due'[i] = due[i] /\ jobs[due'[i]].wait = 0
      BY <2>5 DEF LineInOrder
    <3>2. \A i \in 1 .. Len(due') \ 1 .. Len(due) : jobs[due'[i]].wait = 1
      BY <2>2, <2>5
    <3>3. \A i, k \in 1 .. Len(due) : due[i] = due[k] => i = k
      BY DEF LineInOrder
    <3>4. \A i, k \in 1 .. Len(due') \ 1 .. Len(due) : due'[i] = due'[k] => i = k
      <4>1. ASSUME NEW i \in 1 .. Len(due') \ 1 .. Len(due),
                   NEW k \in 1 .. Len(due') \ 1 .. Len(due), due'[i] = due'[k]
            PROVE  i = k
        <5>1. i - Len(due) = k - Len(due)
          <6>1. /\ i - Len(due) \in 1 .. Len(arrivals) /\ k - Len(due) \in 1 .. Len(arrivals)
                /\ arrivals[i - Len(due)] = arrivals[k - Len(due)]
            BY <2>5, <4>1
          <6> QED
            BY <2>2, <6>1
        <5>2. i \in Int /\ k \in Int /\ Len(due) \in Int
          BY <1>0
        <5> QED
          BY <5>1, <5>2
      <4> QED
        BY <4>1
    <3> QED
      BY <3>1, <3>2, <3>3, <3>4
  <2>8. running # NoJob => jobs'[running].status = "running"
    BY <2>3 DEF LineInOrder, TypeOK
  <2> QED
    BY <2>4, <2>6, <2>7, <2>8 DEF LineInOrder
<1>8. CASE UNCHANGED vars
  BY <1>8 DEF vars, LineInOrder
<1> QED
  BY <1>2, <1>3, <1>4, <1>5, <1>6, <1>7, <1>8 DEF Next, Answers

(* A job that has settled is never queued, run or settled again: its row   *)
(* stays what it is until purgeExpired removes it ("poll that URL until    *)
(* the status is completed or failed").                                    *)
SettledForGood ==
    \A j \in Jobs : jobs[j].status \in Settled => jobs'[j].status \in {jobs[j].status, "purged"}

LEMMA SettledStep ==
    ASSUME TypeOK, LineInOrder, [Next]_vars
    PROVE  SettledForGood
<1>0. jobs \in [Jobs -> Row] /\ due \in Seq(Jobs)
  BY DEF TypeOK, Row, Statuses
<1>1. \A j \in Jobs : purgeExpired(jobs)[j].status \in {jobs[j].status, "purged"}
  BY <1>0 DEF purgeExpired, Row
<1>2. ASSUME NEW j \in Jobs, enqueue(j)
      PROVE  SettledForGood
  <2>1. jobs[j].status = "none" /\ \A k \in Jobs \ {j} : jobs'[k] = purgeExpired(jobs)[k]
    BY <1>2 DEF enqueue, purgeExpired
  <2> QED
    BY <1>1, <2>1 DEF SettledForGood, Settled
<1>3. CASE getJob
  BY <1>1, <1>3 DEF getJob, SettledForGood
<1>4. CASE alarm
  <2>1. CASE due # <<>>
    <3>1. jobs' = [purgeExpired(jobs) EXCEPT ![Head(due)].status = "running"]
      BY <1>4, <2>1 DEF alarm
    <3>2. Head(due) \in Jobs /\ jobs[Head(due)].status = "queued"
      BY <1>0, <2>1 DEF LineInOrder
    <3>3. \A k \in Jobs \ {Head(due)} : jobs'[k] = purgeExpired(jobs)[k]
      BY <1>0, <3>1, PurgeOK
    <3> QED
      BY <1>1, <3>2, <3>3 DEF SettledForGood, Settled
  <2>2. CASE due = <<>>
    BY <1>1, <1>4, <2>2 DEF alarm, SettledForGood
  <2> QED
    BY <2>1, <2>2
<1>5. CASE Answers
  <2>1. /\ running \in Jobs /\ running # NoJob
        /\ \A k \in Jobs \ {running} : jobs'[k] = jobs[k]
    BY <1>5, AnswerEndsRun DEF EndRun
  <2> QED
    BY <2>1 DEF SettledForGood, LineInOrder, Settled
<1>6. CASE Crash
  BY <1>6 DEF Crash, SettledForGood
<1>7. CASE Tick
  BY <1>7, TickRows DEF SettledForGood
<1>8. CASE UNCHANGED vars
  BY <1>8 DEF vars, SettledForGood
<1> QED
  BY <1>2, <1>3, <1>4, <1>5, <1>6, <1>7, <1>8 DEF Next, Answers

(* The line is always made of due, queued, distinct jobs.                  *)
THEOREM LineIsInOrder == Spec => []LineInOrder
<1>1. Init => TypeOK /\ LineInOrder
  BY DEF Init, TypeOK, LineInOrder, NoRow, NoAlarm
<1>2. TypeOK /\ LineInOrder /\ [Next]_vars => TypeOK' /\ LineInOrder'
  BY TypeStep, LineStep
<1> QED
  BY <1>1, <1>2, PTL DEF Spec

(* No step of the queue touches the result of a settled job, except to     *)
(* purge it.                                                               *)
THEOREM JobsSettleForGood == Spec => [][SettledForGood]_vars
<1>1. TypeOK /\ LineInOrder /\ [Next]_vars => [SettledForGood]_vars
  BY SettledStep
<1> QED
  BY <1>1, TypeCorrect, LineIsInOrder, PTL DEF Spec

=============================================================================
