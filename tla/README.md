# BrokeRouter in TLA+

TLA+ models of BrokeRouter's coordination code, model-checked with TLC and partly proved with
TLAPS. BrokeRouter is an LLM gateway that shares a few free provider credentials between many
callers. What can go wrong in it is bookkeeping under concurrency: reservations that are taken in
one place and given back in another, outcomes that arrive late or twice, alarms, deadlines and
midnights. That is what is modelled. Paths below are relative to the repository.

## 1. The system

Two runtimes share `src/core`. The Cloudflare runtime (`src/worker.ts`, `src/adapters/cloudflare`)
is a stateless Worker in front of five kinds of Durable Object; the Node runtime
(`src/adapters/node`) is one process on a SQLite file.

| Component | State it keeps | Operations |
|---|---|---|
| RoutingCoordinator | per credential: reservations, spend per UTC day, cooldown, two token buckets; learned outcomes and policy statistics | `planAndReserve`, `recordProviderOutcome`, `recordWorkflowLearning`, `setPolicyControl` |
| QuotaCoordinator | the same ledger for one caller | `inspect`, `reserve`, `recordOutcome` |
| WorkflowCoordinator | one workflow row, its call leases, one alarm | `create`, `inspectForCall`, `beginCall`, `finishCall`, `complete`, `alarm`, purge |
| AsyncJobQueue | job rows, one alarm | `enqueue`, `getJob`, `alarm` (run, defer, fail), purge |
| RoutingState | decisions, outcomes, a replica of the policy statistics | `recordDecision`, `recordOutcome`, `recordWorkflowOutcome`, `setPolicyControl` |
| Execution (in the Worker) | the local variables of one request | `executeGeneration` |
| Worker gateway | none | HTTP routing, outcome reports |
| Node execution, SQLite state | one ledger per provider scope and caller, affinity table | `executeLocalGeneration`, `inspect`, `reserve`, `settle` |
| Core, providers | none; the catalogue is rebuilt from bindings for every request | workflow specification, route gates, account lookup, ranking policy, validation, authentication |

How they interact. `executeGeneration` awaits RPCs in this order: `inspectForCall` on the workflow,
`inspect` on the caller, `planAndReserve` on the credential pool, `reserve` on the caller,
`beginCall` on the workflow, the upstream call. It settles through `waitUntil` messages nobody
awaits: `recordProviderOutcome` per attempt, `recordOutcome` and `finishCall` once per request. A
job is the same call made from an alarm. A workflow's terminal outcome goes to RoutingState, and
when a client posted it also to RoutingCoordinator.

What is hard about it:

- *Interleaving.* Each Durable Object is atomic between awaits; a request is not. Previews are
  stale when they are used, and three admissions are taken one after the other.
- *Delivery.* A `waitUntil` message may be late, repeated, reordered or lost, and the row it
  settles may have expired.
- *Crashes.* A Worker may die holding rows and leases; a Durable Object may restart under an
  awaited job.
- *Evidence.* Two replicas learn from reports that are late, repeated or missing, and purge what
  they remember; estimates feed rankings, and rankings the propensities of later evaluations.
- *Time.* Reservations expire by age; budgets change at midnight; alarms may be early; waits are
  quoted in rounded milliseconds; streams outlive deadlines.

What makes each component correct: no credential, caller or workflow is used beyond its ceilings;
tokens are charged once and on the right side; a cooldown is respected and never shortened;
whatever was taken is given back, on every path; one terminal outcome stands and is learned once;
what is learned is what happened, and ranks candidates only within the gates; an answer is judged
the same however its bytes arrive; jobs, workflows and requests end. `PROJECT.json` lists the hazards line by line with the
properties that watch them.

## 2. The modules

| Module | Models | Correspondence |
|---|---|---|
| `QuotaRules` | the admission and settlement arithmetic of `routing-coordinator.ts` (and, the same, of `quota-coordinator.ts`) | pure operators on a ledger record: rows, spent, cooldown_until and two buckets are the tables of the object |
| `RoutingCoordinator` | `planAndReserve`, `recordProviderOutcome` for a pool of credentials, and the attempts that use it | `ledgers` are the tables, `calls` the attempts in the Workers, `outbox` the outcomes sent, `learned`/`observed` the training rows; one action per RPC, plus `Finalize`, `Crash` and `Tick` |
| `CapacityPool` | what that component promises: permits, ceilings and silences, without rows, ages, buckets and messages | abstract; `RoutingCoordinator!Pool` instantiates it with the holders of rows for `held` and `cooldown_until` for `silentTill` |
| `RoutingHistory` | `RoutingCoordinator` with a history variable (`quietUntil`) | restricts no step |
| `QuotaCoordinator` | the caller's object | three operations used by `Execution` |
| `WorkflowCoordinator` | `workflow-coordinator.ts`, the lease holders, the reports to the two learners | `workflow` and `leases` are the two tables, `alarmIn` the alarm; the alarm handler is split by the branch it takes |
| `AsyncJobQueue` | `async-job-queue.ts` | `jobs` is the table, `due` the order of `next_attempt_at`, `running` the awaited job of the handler; `executeGeneration` is any answer it may give |
| `Execution` | `executeGeneration` on top of `RoutingCoordinator` and `QuotaCoordinator` | `requests[r].phase` is the await a request stands at; every step on the pool is an action of `RoutingCoordinator` |
| `SqliteState` | `sqlite-state.ts` | the rules of `QuotaRules` with the Node runtime's own daily budget |
| `NodeExecution` | `node/execution.ts` | one step per transaction; `deadline` is the timer that is armed |
| `PolicyLearning` | the policy statistics of `routing-coordinator.ts` and `routing-state.ts`, the forecasts, the telemetry and its purge | `stats[r]`, `forecasts` and `rows[r]` are the tables of replica `r`, `sent` the reports; `posterior` is `hierarchicalStatistic` |
| `WorkflowSpec` | `parseWorkflowSpec`, `applyWorkflowContext`, `workflowForecast` | pure operators; square roots by their defining inequality |
| `RouteGates` | `selectRoutes` and the virtual models | pure operators on a catalogue of profiles |
| `ProviderCatalogue` | how accounts and models are configured, kept apart and looked up | pure operators on a configuration |
| `RankingPolicy` | best fit, learned score, exploration, propensity, and the estimator that reads it | pure operators; scores in thousandths |
| `AnswerStream` | the filter of a streamed answer in both runtimes | `pending` is the decoder's rest of a line, `reader` where the pull stands, `verdict` what `finalize` was called with; one action per event of the stream |
| `RequestPath` | one request from its workflow's specification to its answer | composes `WorkflowSpec` to `AnswerStream`; `phase` is how far `executeGeneration` got, and `work` what the next phase reads |
| `Orderings` | the runtime's `sort` and `filter` | by rank, because `SortSeq` and `SelectSeq` are opaque to the provers; used by `RouteGates`, `ProviderCatalogue` and `RankingPolicy` |
| `QuotaRulesProofs` | lemmas about sums over finite sets and about the ledger operators | used by the ones below |
| `RoutingCoordinatorProofs` | theorems of `RoutingCoordinator`: types, ceilings, cooldowns and the refinement of `CapacityPool`; the budget, the charging, bursts and quoted waits | the theorem about cooldowns is one of `RoutingHistory` |
| `ExecutionProofs`, `NodeExecutionProofs` | theorems of `Execution` and of `NodeExecution` | |
| `WorkflowCoordinatorProofs`, `AsyncJobQueueProofs`, `PolicyLearningProofs`, `RequestPathProofs` | theorems of these four | |
| `MC*` | small instances for TLC | |

`Execution` composes `QuotaRules`, `RoutingCoordinator` and `QuotaCoordinator`, and sees a workflow
only as slots for leases that may also be refused; `WorkflowCoordinator`, `AsyncJobQueue` and
`PolicyLearning` stand alone. `RequestPath` models what happens inside a request between the awaits
`Execution` is made of.

Abstractions, all of them on the data side:

- In the admission modules a credential scope has one candidate model, and rankings are arbitrary:
  `Reserve` explores every order `decidePolicy` could return. The estimate of a request's tokens is
  the same for all candidates in the code too (`core/route.ts`), so it is one number per attempt.
- A message that was sent stays in its outbox: it is delivered late, again, or (without fairness)
  never. A settled row makes its repetition a no-op, as in the code.
- Time is an integer. Buckets keep thousandths and the code's floor and ceiling. Clocks are bounded
  by `MaxTime`, and the number of calls, requests, outcomes or jobs by the instance; where both end
  the system may stop, which is why the routing, execution, learning, request and Node runs say
  `CHECK_DEADLOCK FALSE`. The workflow and job runs use relative time, never stop and check for
  deadlock.
- The code's floating point numbers are integers or fractions: scores are thousandths rounded down,
  rates percent, means exact multiples of `1/Units`. Rounding of doubles is not a subject.
- A random draw is one of `Draws` equal outcomes.
- A stream's line is what it says (`json`, `reasoning`, `text`, `length`, `tokens`, `odd`) and
  three bytes long, so that a chunk can end in each half of it and before its newline.
- Left out: contents of requests and headers, latency and token averages, decision telemetry,
  `deadline_met`, and the end of a whole Node process.

## 3. The runs

| Run | Question | Bounds and why they are enough |
|---|---|---|
| `routing_pool` | ceilings and charging of a pool under races, expiry and bad delivery, and: does the coordinator implement `CapacityPool`? | 3 attempts, 2 credentials (one for 2 calls, one with a budget of 2), reservations of 1 and 2 ticks, days of 3 ticks, 3 ticks long: a third attempt is the first that can exceed a ceiling of two, and expiry, midnight and redelivery all happen |
| `routing_ledger` | budget, charging, bucket and cooldown of one credential | 4 attempts, every limit at once, window 3 and 2, one day, reservations that never expire: four attempts are twice the request limit |
| `workflow_life` | counters, limits, the single outcome of a workflow, and whether deadlines and reports happen | 4 calls, limits 3 and 2, lost messages, failing reports and early alarms; a workflow with a deadline of 2 ticks or none |
| `jobs_queue` | queue order, alarm, settling | 3 jobs (one runs, one is due, one waits), 2 attempts, delays 0 and 3, one restart |
| `execution` | admission order, ceilings, charging and settling of whole requests | 2 requests, 2 credentials, 2 attempts each, a caller and a workflow with one slot: every admission can be lost to the other request; one request streams, one tick of inline wait, invocations may die and cancellations fail |
| `node_runtime` | the Node runtime | 2 requests, one streaming, two accounts (one with a clamped deadline, one with a budget), late timers, busy transactions, one midnight; streams fall silent early enough to end within their reservation (`MaxStreamTime`) |
| `policy_learning` | what the two replicas learn | 5 outcomes of 2 callers in 2 contexts, two of which exclude two others (one id, one outcome), a retention of 1 tick and 3 instants, so that a report can arrive before, at and after its purge; each outcome learned at most twice |
| `request_path` | the decisions inside a request | 6 shapes of configuration with every collision of two accounts, requests that fill a contract exactly or exceed it by one unit, up to 3 ranked candidates with 3 kinds of headroom, all pairs of extreme draws (and all 144 draws inside `EvaluationUnbiased`), streams of up to 2 lines of 7 kinds cut anywhere |

Four more runs show the code doing other than the repository says:

| Run | What the repository says | What happens |
|---|---|---|
| `workflow_lost_finish` | alarms fail missed deadlines without a polling client (`docs/architecture.md:15`) | one lost `finishCall` leaves `in_flight` positive for ever, and the alarm only sets itself again |
| `jobs_crash` | poll until completed or failed; the queue survives restarts (`README.md:59`) | a restart under a running job leaves it `running`, which no alarm selects |
| `execution_stream_cancel` | cancellation reconciles everything exactly once (`docs/architecture.md:15`) | `cancel()` awaits the upstream cancellation first; when that rejects nothing is reconciled |
| `node_long_stream` | the deadline keeps a request from outliving its reservation (`node/execution.ts:68`) | headers and chunks of a stream re-arm it, the row expires, and a second call joins on an account for one |

The passing runs state the same properties as far as they hold: a workflow outlasts its deadline
only with a leaked lease, a job is stranded only by a restart, a request keeps something only if its
invocation died or its cancellation failed.

Smaller disagreements, which the properties name as their exceptions or the hazards keep:

- *Quotas.* A reservation made before midnight and settled after it overdraws the Worker's daily
  budget, by at most one more budget (`OverdraftBounded`; the Node runtime counts all open rows and
  is not affected, `NoOverdraft`). A full bucket admits more than `limit` requests in a window, but
  fewer than twice as many (`BurstWithinTwiceLimit`). The wait quoted for a busy credential is one
  millisecond short (`RetryHintSuffices`). A 429 or a usage report that arrives after its row
  expired neither cools down nor charges. The Node runtime charges nobody for an unusable answer.
- *Learning.* A missed deadline is reported to RoutingState only, so the replica that ranks never
  learns it (`docs/architecture.md:17`), and a report that fails is not sent again. RoutingState
  learns a duplicate that is older than its retention once more (`LearnOnceWithinRetention`). The
  first outcome of a context creates a row whose own prior replaces the evidence of the environment
  (`EstimatesFollowOutcomes`; ADR 0004:12 speaks of shrinkage).
- *Specification.* A learned forecast can refuse a body that was accepted without it
  (`HistoryOnlyFillsIn`, `core/workflow.ts:54`). A virtual contract of 65,536 tokens is served up to
  64,512, for the safety margin (`ContractServed`). One malformed account binding fails every
  request (`openai-compatible.ts:104`).
- *Ranking.* In shadow mode the logged propensity is 1 and the shadow's winner weighs only where it
  equals the baseline's, so its score is not the shadow policy's value; without exploration only the
  policy's own choice can be evaluated (`EvaluationUnbiased`; ADR 0004:14).
- *Answers.* A stream counts blank text as visible, a complete answer does not
  (`StreamJudgedAsWhole`). Reasoning can leave in the half line of a stream that ends in its middle,
  and in Node in a line with a choice that is no object (`NoReasoningForwarded`; `README.md:76`). In
  the Worker a cancellation under a pending pull may be recorded as a success
  (`CancelledIsNoSuccess`).

Each property has a mutated form of some definition in its module (the operators marked
"Mutated form"): a plausible slip of the code under which TLC finds the property violated.

## 4. Fairness

- *Workflow:* time passes, due alarms are delivered (the platform retries them), upstream calls end
  one way or another (timeouts), reports are delivered or fail. Nothing makes a client begin a call
  or post an outcome, so a missed deadline must be enforced without one. In `workflow_life` a
  Worker may still die before it sends `finishCall`.
- *Jobs:* time passes, a due alarm is delivered, an awaited `executeGeneration` ends or the object
  dies. `OnlyRestartsStrand` and `jobs_crash` assume more, and say so: no job is answered
  "unavailable" for ever, since such an answer does not count as an attempt. `EveryJobRuns` does not.
- *Execution:* an invocation that started runs on (it may die instead, when "crash" is on), time
  passes, and what was handed to `waitUntil` arrives. No request is forced to start. Since the clock
  is bounded, `RequestSettles` excuses a request that sleeps beyond its end, and nothing else.
- *Node:* transactions of a started request run, due timers fire, time passes. No upstream is fair:
  it may hang at any point. What is armed when the bounded clock ends fires then.

`PolicyLearning` and `RequestPath` state no liveness and assume no fairness: a report may stay away
for ever, and a client may leave at any point.

## 5. The proofs

The theorems hold for any calls, scopes, settings, outcomes, limits and faults that satisfy the
named assumptions of the modules, which say no more than the configuration parsers enforce (natural
numbers; a positive day, time to live and limit).

- *RoutingCoordinator.* `TypeCorrect` goes through `ReleaseOK`, `ReservedOK` and `SettledOK`: each
  ledger operator returns a well-formed ledger with a finite set of rows. `ReservationsWithinCeiling`
  is inductive with the type invariant: rows are added only by `Reserved`, after a `Quote` that found
  room (`QuoteHasRoom`), and one at a time. `CooldownsOnlyGrow` is an action property of the same
  steps. `LiveCallsCeiling` assumes `MaxCallTime <= reservationTtlMs` for every scope and
  strengthens the invariant: each call in flight still has its row, created when it began
  (`CoverStep`), so that the live calls are no more than the rows. Without the assumption the
  statement is false: the row of a longer call is released.
- *The pool.* `CoordinatorIsPool` says that the coordinator implements `CapacityPool`, for any
  number of attempts and credentials. Each action maps to one abstract step: `Reserve` to `Admit`
  (`ReserveAdmits`; the rows that expired on its way lapse with it), a refused plan to `Lapse`
  (`DenyLapses`), `recordProviderOutcome` to `GiveBack` when its row is still there and to nothing
  when it is not (`SettlementGivesBack`), `Tick` to `Advance`. The steps need three invariants: the types, the
  ceiling (after a step the abstract holders are no more than the rows), and that an attempt that
  is idle holds nothing (`IdleHoldsNothing`), which is what makes an admission one of a holder
  without a permit.
- *The budget of a credential.* `BooksFit` is inductive with the types: what was charged today plus
  what is reserved today fits the budget plus what reservations of earlier days still hold, and those
  fit one budget, since they were counted on their own day. With `UsageWithinReservation` (a provider
  reports no more tokens than were reserved) and a time to live of at most a day it gives
  `OverdraftIsOneBudget`; in a run in which nothing is carried over midnight, `BudgetIsKept`. The
  code reserves the estimate of the prompt plus the most the answer may have, so the first hypothesis
  is that provider and estimate keep to it; it cannot be dropped, because the code charges whatever
  is reported.
- *Charging.* `NothingIsChargedTwice` follows from an invariant that compares the spend with the
  outcomes that were delivered and whose row is gone: a settlement moves one outcome from the one
  side to the other and deletes its row, and a repetition finds no row. `EverySuccessIsCharged` is its
  converse for runs in which outcomes of served calls arrive before their rows expire. Both assume
  `SuccessesTeach`, which `execution.ts:153-173` makes true: `learning` is sent with every success.
- *Buckets and waits.* `BurstsBounded` has no hypothesis. Its invariant `BurstKept` compares, for
  every instant, what was admitted since then plus what the bucket holds with a full bucket plus the
  refills of the time between; each step is an inequality between products of floors, which the
  provers take only one multiplication at a time. `RetryHintsSuffice` assumes `RequestsFit`, that a
  request is no larger than the daily budget and the bucket: a larger one is denied for ever and
  still quoted a wait (`routing-coordinator.ts:283`). Its argument is a lemma about one ledger,
  `QuotedWaitSuffices`, for each reason of denial; it needs that nothing in a ledger is dated after
  the clock (`AllDated`).
- *Cooldowns.* `CooldownsAreHonoured` is about the same runs with the history variable: under
  `LessonsArriveInTime` (every call ends, and its outcome arrives, before its row expires) the
  history never asks for more than the ledger's own cooldown, so nothing is admitted while it asks
  for silence. An outcome that comes after its row expired is dropped, hence the hypothesis.
- *Execution.* `ExecInv` says where each request stands, which rows and lease it holds, and which
  messages it sent. Its first theorem is a refinement, `RequestsAreAttempts`: each step of a request is
  a step of the attempts of `RoutingCoordinator` or none, since a fallback asks with an attempt that
  is still idle; so the theorems above hold of whole requests. `CallerWithinCeiling` needs no
  hypothesis: only `reserve` adds rows and it inspects again. `NothingIsAbandoned` assumes that no
  cancellation rejects, which is exactly what `execution_stream_cancel` violates. `UpstreamHoldsAll`
  assumes that no call outlives the provider's reservation and, in the run, no request the caller's.
  `CallerPaysForItsAttempts` assumes that a failed attempt reports no tokens, as at
  `execution.ts:178-195`.
- *Node runtime.* `NodeInv` says who holds each row: a provider's row is that of the call being made,
  the caller's that of a request that holds it, or either was left behind by a request whose
  transaction threw. `EndedHasLeftNothing` follows with no hypothesis at all. The rest of the
  invariant is proved in three parts. `CallsInTime` (a call has its row, and its deadline plus the
  lateness of the timer comes before the row expires) and the ceiling on rows give
  `UpstreamWithinCeiling`; it assumes `DeadlinesFit`, that timers are no later than the margin of the
  deadline and that streams fall silent before their reservation expires. The clamp at
  `node/execution.ts:70-73` is there for the first; the second is what the code does not ensure, and
  `node_long_stream` shows what happens without it. `DailyBooks` (what is spent on any day, and today
  with all open rows, fits the budget) gives `NodeBudgetIsKept` under `UsageWithinReservation`, with no
  hypothesis on midnight. `BooksAgree` (what the caller was charged and still owes is what its
  accounts were charged) gives `BooksOfBothSidesAgree`; it needs that a row is still there when it is
  settled, on the providers' side by `DeadlinesFit`, on the caller's as a hypothesis on the run,
  because nothing bounds how long a request takes (`node/execution.ts:42`).
- *WorkflowCoordinator.* `LeaseInv` is the inductive invariant: the counters equal the numbers of
  open and closed rows, both limits hold, a terminal workflow has no open lease, an idle one has no
  lease at all, and a purged one has no rows. The limits alone are not inductive, because
  `beginCall` checks the counters and not the rows. From it follow `LeasesAreCounted`,
  `LimitsAreKept`, `TerminalIsQuiet` and `OutcomeStands`. `ReportsAreTold` adds that every report under
  way or learned repeats the row of a workflow that has ended, whose row `EndedRowStays` shows is not
  written again until the purge; it gives `LearnersLearnTheOutcome`.
- *AsyncJobQueue.* `AlarmCoversQueue` is inductive with the types: a tick counts the alarm and the
  waits down together, taking a job leaves no alarm but an awaited job, and every way a run ends goes
  through `scheduleNext`, which `AlarmIsScheduled` shows to cover the queue whatever the alarm was
  before; its one arithmetic fact, that the minimum of a set of waits is one of them, rests on the
  order of the naturals being well founded (`MinIsLeast`). `LineInOrder` (the line holds due and
  queued jobs, none twice, and the awaited job is marked running) gives `JobsSettleForGood`: a
  settled job is never run or settled again, over any number of jobs, retries and restarts. Both
  theorems need the jobs to be finitely many, which `JobsAssumption` states.
- *PolicyLearning.* `LearnedOnce` follows from the guard on the telemetry that a replica still has.
  `StatisticsAreCounts` is inductive with the types and the finiteness of what was learned: a report
  adds one outcome to the sets a row counts, or creates the row from the prior its model has then.
  `EstimatesFollow` compares the estimates before and after such a step, as fractions with growing
  denominators, for the row of the context and for the environment's; the exception is the row that
  is created. `ForecastsAreExact` says that Welford's recurrence in integers is the mean and the
  variance of what was learned in any order. It assumes `CountsDivide`, that the unit of the means is
  a multiple of every count: otherwise the model's divisions lose a remainder, where the code has the
  rounding of doubles. The run's unit, 12, meets it in every state. `OutcomesAssumption` says which
  outcomes there are, as the two callers of the learners send them.
- *RequestPath.* Seven theorems, in four parts.
  - The stream. `StreamInv` says that what is pending are the bytes after the last whole line that
    arrived, and that what was judged so far is exactly the lines before; a pull keeps it wherever its
    chunk ends, which is what the lemmas about bytes and lines show. It gives
    `StreamsAreJudgedAsWhole`, `ReasoningStays` and `CancellationsFail` for any answer.
  - The specification. `Specified` says what the phase was made of. The lemmas on fractions and on
    quantiles (whatever bound every row keeps, the quantile keeps; a higher quantile is no less)
    give `HistoryFillsInOnly` from the types of the rows alone.
  - The gates. `Gated`, with the lemmas that filtering and flattening keep their elements and lose
    none, and that registered accounts are unique and offer only their own models, gives
    `AccountsAreRight` and `ContractsAreServed` for any configuration and request.
  - The ranking. `HintedInv` says that the hints are integers and every candidate is known to the
    learners, with statistics in range. `FitsFirst` is then arithmetic: a fit weighs 10,000 points,
    capacity and tier at most 300, a switch 120, the place in the catalogue a thousandth per
    place, and what was learned moves a score by -6,654 to +705. `RankingAssumption` bounds the
    latency penalty by 5,679 points, more than 8 times the logarithm of any double, and the
    candidates by a million.

  Sorting is by rank, so a sorted list is ordered because fewer elements precede the earlier one
  (`SortedIsOrdered`); the library's recursive functions on sequences are opened by their least
  counterexample (`FlattensExists`).

Each of these invariants was checked by TLC on the runs' instances. The sums rest on the first
section of `QuotaRulesProofs`: the library's induction theorems cannot be used by the provers, so
every induction over a finite set is written as one on the least size of a counterexample
(`LeastNat`).

Only model-checked: the liveness properties `OnlyLeaksOutlastDeadline`, `OutcomeRecorded`,
`EveryJobRuns`, `OnlyRestartsStrand`, `RequestSettles` and `SilentUpstreamsEnd`, since neither
fairness nor `ENABLED` is in the prover's reach; and `EvaluationUnbiased`, which adds up an estimator
over every draw. That sum is a fold whose terms depend on a ranked list, and the equality holds only
where `Draws` is a multiple of the number of candidates and of the hundredths of the exploration
rate, as in the run. Every other property of a passing run is stated by a theorem.

## 6. Not modelled, and why

Authentication (hashing and comparing secrets), the Node server and the HTTP plumbing of the Worker,
the provider clients' requests, and the declarations of types and configuration: all are local to a
request, keep no state, and decide nothing the models' inputs do not already range over. Also left
out: `setPolicyControl`, whose value `request_path` takes from a set; RoutingState's own copy of the
control and its decision telemetry, which nothing that is modelled reads; the self-normalized
estimator and the workload simulator of `core/evaluation.ts`; and the repository's scripts and
tests.

What would come next: a composition of the buckets with the job queue, for the request that needs more tokens
than a bucket can ever hold; and `SqliteState` as a second implementation of `CapacityPool`.
