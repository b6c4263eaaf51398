# A TLA+ model of the orchestrator and of the scripts around it

The repository is a single-process orchestrator (`src/apps/orchestrator`, TypeScript on Node.js)
that drives coding tasks through planning, execution, review and release, and a few scripts
(`src/scripts`) that prepare a project for it and let it work on itself. All state is a directory of
JSON and Markdown files; a daemon inside the API process polls the files, starts jobs on a small
pool of in-process workers, and lets each job enqueue the next one. ChatGPT is reached through a
browser behind a second service, the bridge. There is no database and no lock: what keeps the files
consistent is the order of awaits in the services and a recovery pass at the next start. That is
what this project models.

Paths below are relative to `src/apps/orchestrator/src` unless they start with `docs/`, `scripts/`
or `services/chatgpt-web-bridge`, which lie in `src/`.

## Inventory

| Component | State it keeps | Operations | Talks to | What is hard | What makes it correct |
|---|---|---|---|---|---|
| Job queue (`services/run-queue-service.ts`, `retry-service.ts`) | one file per job, one `queue-state.json` per run | enqueue, list, start, complete, retry, reschedule, restore, annotate | everybody | two files, no lock, an await between each read and write | items resolve; a restart repairs the queue; a job runs once at a time and within its budget |
| Recovery (`recovery-service.ts`) | none (summary artifacts) | `recover` at startup | queue, retry, leases, processes | runs on whatever a crash left, and may crash itself | after it, no job runs and every runnable job is queued |
| Daemon (`daemon-runtime-service.ts`) | `daemon-state.json`, one tick promise, one timer | tick, pause, resume, drain, shutdown | reclaim, workflow, pool | whole-record writes of a state read earlier; `void this.tick()` | stops only when idle; a shutdown completes |
| Worker pool (`worker-pool-service.ts`) and limits (`quota-control-service.ts`, `concurrency-control-service.ts`) | worker records, in-memory handles | `runCycle`, handles with a renewal timer | queue, leases, worker service | active jobs are listed once per cycle; records and workers end apart; renewals in flight | limits hold; an executing worker owns the job's lease |
| Leases, heartbeats, reclaim (`worker-lease-service.ts`, `heartbeat-service.ts`, `stale-job-reclaim-service.ts`) | one lease per job, latest heartbeats | acquire, renew, release, expire, reclaim | queue, retry | expiry against a live but late worker | no job executes twice at once |
| Cancellation (`cancellation-service.ts`) | one envelope per request | cancel, acknowledge, finalize | queue, runners | check-then-act over several awaits | every job settles |
| Worker service (`worker-service.ts`, `job-disposition-service.ts`) | none | one handler per job kind | queue, executors, reviews | a chain of writes, a crash between any two, un-awaited promises | work done is decided upon |
| Task loop and gates (`task-loop-service.ts`, `review-gate-service.ts`, `application/orchestrator-service.ts`, `domain/`) | task envelopes, gate results, run record | transitions, gates, acceptance | reviews, runs | redelivered jobs meet tasks that moved on | only approved work is accepted, and built upon |
| Scheduling (`workflow-runtime-service.ts`, `task-scheduler-service.ts`) | task graph (frozen) | priming, enqueueing, `drainRun`, release job | queue, task loop | priming in several writes; two callers | dependents wait for approved work |
| Reviews (`review-service.ts`, `review-payload-builder.ts`) | request, runtime state, result | request, finalize, apply | bridge | answers late, half, twice or never; redelivery | a verdict is gated and applied once; only trustworthy work is reviewed |
| Release (`release-review-service.ts`, `run-acceptance-service.ts`) | release review, gate, acceptance | review, accept | bridge, runs | redelivery after acceptance | accepted only with all tasks accepted |
| Child processes, runners, executors (`process-control-service.ts`, `codex-cli-runner.ts`, `codex-executor.ts`, `command-executor.ts`) | map of active processes, handle files | run, terminate, force-kill, stall check | cancellation | timeout, stall, cancel and exit of one child; pipes that stay open; unawaited writes | every attempt is disposed of; a termination shows in the job |
| Planning (`planning-service.ts`, `planning-finalize-sweeper-service.ts`) | request, finalize and result file per phase, freezes, run record | request, finalize, remind, repair, apply, sweep; freezes and graphs put directly | bridge | calls of the API overlap without a lock | the stage is backed by files; one conversation per phase; answers are not stranded |
| Workspaces (`workspace-*-service.ts`, `worktree-service.ts`) | lifecycle file per workspace, worktrees | prepare, reuse, finalize, retain, collect | git | passes of the collector beside a job, directories made again, orphaned children | cleaned means gone; nothing leaks; nobody works beside an orphan |
| Remediation (`remediation-service.ts`, `self-repair-policy-service.ts`, playbooks) | incidents, proposals | match, propose, execute | queue, workspaces | two tables that must agree | only the eligible runs by itself |
| ChatGPT web bridge (`services/chatgpt-web-bridge`) | browser sessions, snapshots in memory | start, send, wait, recover, export, extract | a browser | a restart loses the snapshots | external, as its callers meet it |
| Project preparation (`scripts/project-preparation.ts`) | preparation state, ledgers, packet exports, handoffs | about thirty commands | a human | commands die between writes; approvals go stale; ledgers read back as less than was written | what is published was approved and still is |
| Self-improvement driver (`scripts/run-real-self-improvement.ts`) | goal per run, campaign state | choose, resume, plan, watch, go on | orchestrator API | one invocation continues another's files | a run keeps its goal; the cap holds |
| Evidence ledger, snapshots, reports, contracts | append-only records, schemas | append | all | - | nothing decides on them |

`PROJECT.json` repeats the list with the status of each part, and its `hazards` name the lines where
each difficulty sits, with the properties that would catch it going wrong.

## How the modules fit together

```
  JobLifecycle  <--implements--  JobQueue            one job record / the queue at file granularity
                                 JobRuntime          leases, ticks, workers, cancellation
                                 DaemonControl       the daemon's state file, limits of the pool
                                 TaskPipeline        tasks, gates, release of one run
  Conversations <--extends--     Planning            the three planning phases
  Conversations, ReviewEvidence <--extends-- Review  one review: two jobs, one conversation
  ProcessControl <--extends--    Execution           child process -> runner -> executor -> job
  Remediation   <--extends--     Workspaces          worktrees, collector, remediation of them
                                 Preparation, Ledgers, Campaign       the scripts
```

The modules cut the system along the files they share. Each one that has jobs keeps the contract of
`JobLifecycle` (started only when runnable, another attempt only below the budget, final once
settled). JobRuntime and the modules below it make a queue call one step: JobQueue shows what the
interleaving of its file accesses does. TaskPipeline takes a review for a step that yields a
verdict, Review opens that step; JobRuntime takes an execution for a step that yields an outcome,
Execution opens it.

**JobLifecycle** is the abstract specification of one job record.

**JobQueue** opens every call of `RunQueueService` and `RetryService` into its file accesses. `jobs`
and `queue` are the files. An *agent* (the daemon, a worker handle, an API request) has at most one
`call` in progress; the call record keeps what it has read (`rec`, `items`) and the next access
(`at`). `GetJob`, `GetQueueState`, `SaveQueueState`, `SaveJob`, `GetJobs` are the awaits of the
code, and any other agent may act between two of them. `Boot`, `RecoverJob`, `RecoveryGivesUp` and
`Serve` are `RecoveryService.recover`; `TickEnqueue`, `TickList`, `TickStart`, `TickDefer`,
`TickEnd` and `TickReclaim` the tick; `Report`, `EnqueueFollowUp` and `Finish` a worker handle;
`Request`, `DrainList` and `DrainStart` the API. A call that throws ends the request
(`RequestFails`), is caught in recovery, or kills the process (`UnhandledRejection`: neither `void
this.tick()` nor `handle.jobPromise` has a catch). `Crash` keeps the files and nothing else.

**JobRuntime** models leases, heartbeats, reclaim, cancellation requests and what happens between
two calls of a tick, a worker or `cancelJob`. Time is what the code compares it with: a lease is
`live` or not, the latest heartbeat `fresh` or `stale`, a start `overdue` or not. `TimePasses(j)`
lets them age while nothing renews them; `Stall` lets them age although somebody should have (a
blocked event loop). `handle` follows `processTaskExecution`; `tick.at` the stages of `runTick`.

**DaemonControl** models the daemon's one state file. A control call reads it (`CallReads`) and
writes what it made of that reading (`Call`); shutdown writes twice, and the tick reads, measures,
checks and writes at its end (`TickMeasures`, `TickChecks`, `TickStops`, `TickStopsPolling`), so
every overlap of calls with each other and with the tick is there. The same module has the cycle of
the pool with quotas and concurrency keys, and the jobs `drainRun` runs besides. `status` are the
records, `heldBy` the worker a record runs for, `handles` what the workers really have in hand: a
worker settles its record (`JobSettles`) and has its handle until the follow-up job, the lease and
the worker are saved (`HandleEnds`), and a retry, a cancellation (`ApiTakes`) or a reclaim
(`TickReclaims`) takes a record away from a worker that goes on. A job taken away may be started
and refused its lease (`TickFails`) while its first worker has a handle on it. An unhandled
rejection ends the process (`alive`).

**TaskPipeline** follows the tasks of one run and the run itself. `task`, `stage`, `red`, `review`,
`gate`, `releaseGate` and `acceptance` are files; `job` is the latest job of a unit (a task or the
release); `prime` is where `primeTaskForExecution` is, `work` where a worker's chain of calls is.
Every file write of the chain is a step, so a crash can fall between any two. The next boot's
recovery is folded into `ProcessExit`. `blocks` is the task graph, chosen at the start and frozen.

**Conversations** is the bridge as its callers meet it: `chat` is the page of each conversation,
`record` the snapshot the bridge holds in memory. Exports and extractions read the snapshot; only
waits and recoveries take a new one; a restart loses them all. A snapshot taken too early may hold
half an answer (`Fragments`).

**Planning** adds the files of a phase (`request`, `link`, `finalize`, `result`, `freeze`), the stage
and the task files of the run, and callers. Everything is a call of the API (the self-improvement
driver, a person, or `POST /api/runtime/planning-finalize-sweeper/run`, which finalizes what it has
listed: there is no timer), and nothing keeps calls apart. `RequestPhase`, `FinalizePhase`,
`ApplyPhase` and `PutDirectly` begin a call with what it reads; then it is a chain of bridge calls
and file writes that works on what it has read, whatever other calls write meanwhile. A planning
answer is one of five classes of payload, told apart by whether it normalizes, whether the
sufficiency gate accepts it and whether the registered repair helps. `Crash` ends all calls,
`Restart` the bridge.

**ReviewEvidence** translates the checks `ReviewService` makes of an execution before it asks for a
review: whether the patch is whole, what its tests are worth, and whether it is the patch the
previous review has sent back. They are operators over small records; **Review** starts from any
evidence of a set, refuses or requests, and follows the request job and the finalize job through
reminders, recoveries, given-up conversations, retries and redeliveries to the gate.

**ProcessControl** is `ProcessControlService` for one job: a record per child with its timers
(timeout, stall check, force-kill), signals, the handle-file writes nobody awaits, and the map that
has room for one process per job. A child that has exited is not closed: `Close` waits until nobody
holds its pipes, and a process the child leaves behind may hold them for ever (`held`).
**Execution** carries the outcome through `CodexCliRunner` or the
command runner, the executor's status, `ExecutionService` and the worker's disposition.

**Workspaces** has the execution and review jobs of one task, the worktrees they prepare, reuse,
finalize and retain, overlapping passes of the collector that work from a listing read earlier, and
children that survive a dead orchestrator (`orphans`). Before an attempt runs, the sources are copied
over its workspace (`ActivateAndSync`), which makes the directory of a worktree that was removed in
between again (`strays`): git does not know it. Its remediation step takes its decision from
**Remediation**, the playbook tables and the self-repair policy as operators.

**Preparation** makes a command of `scripts/project-preparation.ts` one step that performs all of
its writes, or the first few if it dies: commands are processes of their own and one runs at a time.
**Ledgers** has the Markdown ledgers of options, tradeoffs and decisions and the checkpoints that
approve decisions. A ledger reads back as what was written, as nothing (text in angle brackets makes
it pass for its template; a death amid the write empties it), without a record whose title was
blank, or, if a value has several lines, as anything (`ReadsBack`, `spoiled`). **Campaign** is the
self-improvement driver, invocation by invocation: `runs` is what the driver sees of the
orchestrator, `campaign` and the goal of each run are its files, `script` is the invocation under
way.

**MCJobQueue, MCReview, MCTaskPipeline, MCDaemonControl** give symmetry sets, task graphs, evidence,
quotas and keys to TLC; the other modules are run as they are.

## The runs

| Run | Question | Bounds | Properties |
|---|---|---|---|
| JobQueueDaemon | Do daemon, workers and crashes alone keep the life of a job? | 3 jobs, 2 workers, budget 2, crashes unbounded | `RefinesLifecycle`, `OneExecutorPerJob` |
| JobQueueAll | What holds with requests, `drainRun` and reclaims too? | 2 jobs, 1 worker, 1 request at a time, 2 stimuli | `QueueItemsResolve`, `BootRebuildsQueue`, `RecoveryRespectsRecords` |
| JobRuntimeSettles | Does a worker own what it executes, and does every job end? | 1 job, 2 workers and `drainRun`, budget 2, 2 disturbances of any kind | `ExecutingWorkerOwnsLease`, `NoDoubleExecution`, `EveryJobSettles` |
| DaemonControlShutdown | Are limits kept and shutdowns completed, whatever calls overlap? | 2 jobs (execution and review of one task), 2 workers, 2 clients, 2 calls or late heartbeats | `LimitsRespected`, `StoppedIsIdle`, `ShutdownCompletes` |
| TaskPipelineCrash | Are gates, loop and release order kept over a crash? | 2 tasks, both graphs, budget 2, 1 crash | `AcceptedWorkWasApproved`, `DependentsBuildOnApprovedWork`, `ReleaseCoversAllTasks`, `ReviewJobsNeverThrow`, `ExecutedWorkIsDecided`, `AllAcceptedIsReleased` |
| PlanningLane | What holds of one phase, whatever calls overlap? | the task-graph phase, 3 calls of any kind, 2 at a time, 2 conversations, answers that need repair, 2 deaths, restarts or failing calls | `StageIsBacked`, `LinkIsKept`, `AnswerIsMaterialized` |
| PlanningUngated | Is a graph registered only past the sufficiency gate? | 1 graph, put directly | `GraphIsSufficient` (violated) |
| ReviewChain | Is each verdict gated and applied once, and does the chain of jobs end? | 3 conversations, budget 2, 2 troubles, all evidence of MCReview | `OnlyTrustworthyIsReviewed`, `OneReminderPerConversation`, `OutcomeIsGated`, `VerdictAppliedOnce`, `OnlyFinalizeGivesUp`, `ReviewSettles` |
| ExecutionKill | Does what ended a child show in what becomes of the job? | 2 attempts that may overlap, 1 cancellation or death | `AcceptedTerminationShows`, `LiveProcessIsNotWrittenOff`, `EveryAttemptIsDisposed` |
| WorkspacesRetained | Do lifecycle files and worktrees agree? | 2 workspaces, 2 passes, 2 attempts, 1 crash, failed work retained | `CleanedIsGone`, `OrphanIsLeftAlone`, `NoWorktreeLeaks` |
| PreparationExport | Is what is published approved, and still? | 2 checkpoints, 1 question, 2 exports, 2 handoffs, 1 command that dies | `CompletedStagesAreApproved`, `ExportsFollowApproval`, `LatestIsThere`, `HandoffFollowsExport` |
| CampaignResumed | Does one invocation continue another's work faithfully? | 2 todo items, caps 1 and 2, 2 phases, 3 runs, 3 invocations, 1 death | `ScopeFollowsGoal`, `CapIsHard`, `OnlyAcceptanceLeadsOn` |

Every property holds in its run, except `GraphIsSufficient`: it says what
`docs/planning-proof-and-sufficiency-gate.md:71` says, and the code does something else (see
*Divergences*).

*Why the bounds are enough.*

* Queue races are between two calls over one file: two jobs and two concurrent agents show every
  overlap of two read-modify-write sequences, and the third job of the daemon run lets one be lost
  while the other two are in flight. Budget 2 is the default of `RUNTIME_MAX_ATTEMPTS` and has a
  first, a last and a refused attempt.
* Each disturbance of JobRuntime is a single event; two of them show every pair (a crash during a
  cancellation, a retry after a reclaim). More jobs change nothing in one job's lease: the theorems
  of JobRuntimeProofs say so for the two safety properties.
* In DaemonControl two calls overlap each other, the tick, or both; the two jobs share a task, as an
  execution and its review do, so the key alone lets one of them run at a time, and either may be
  taken from its worker and be started for the other. The global, run and kind limits do not bind in
  the run; of them the theorem speaks (`PoolKeepsLimits`, for any limits).
* Two tasks give the graphs that matter: independent (both accepted at the same time) and dependent.
  A crash sets the pipeline back to its files; a second crash repeats a first one from other files.
* The planning phases have one code path with a table of per-phase functions; the run has the task
  graph, the phase that has a gate, a repair and task files. Races are between two calls, and the
  third meets what two have left; the two conversations are the second request's and the first's.
  `StageIsBacked` and `LinkIsKept` are theorems for all phases and any number of calls.
* A review opens at most one conversation per request; three let it be given up twice. The evidence
  has every patch of one file up to three lines, every pair of suites and every two earlier reviews,
  which is where the counting of the code ends (its threshold for repeated patches is 2).
* What is copied over a workspace is all or nothing (`CopiesFiles`): a task without allowed files
  copies none.
* The map of active processes has one place per job, so two attempts show every overwriting.
* Of a workspace, the other passes, the job and the remediation are what can interfere; two passes
  and two workspaces show a pass that goes on after a change it has not seen. Failed work that is
  cleaned at once takes the steps of approved work, so only the policy that retains it is run.
* In Preparation the freeze checkpoints behave as the convergence checkpoint does (`Freezes = {}`);
  two exports and two handoffs are one that is published and one that supersedes it. The theorems of
  ScriptsProofs cover every number of each.
* Campaign: three invocations are one that dies, one that resumes and one that goes on; the program
  has one registered goal, and the run has two, so that going on to another goal is reached.

*Bounds by name*: `MaxStimuli`, `MaxDisturbances`, `MaxCrashes`, `MaxTroubles`, `MaxDeaths`,
`MaxCalls`, `MaxCallers`, `Asked`, `MaxInvocations`, `MaxRuns`, `MaxWorkspaces`, `Passes`,
`Attempts`, `MaxCheckpoints`, `MaxQuestions`, `MaxExports`, `MaxHandoffs`. `Budget` and
`MaxAttempts` are not bounds but the code's `maxAttempts`.

*Deadlock* is checked in the JobQueue and JobRuntime runs: the daemon always has a tick to make. The
other systems may really stop (a run is accepted, a daemon is stopped, a review is over, a
preparation has used up its bounds), so their configurations turn the check off.

*Symmetry* is used in the two JobQueue runs: jobs, workers and clients are told apart by name only.

## Fairness

Fairness is per chain of calls and not per action, because a chain has one next step.

* **JobRuntime**: weak fairness of boot, tick, `cancelJob` and each worker, because a promise chain
  that can go on is resumed by the event loop, the poll timer fires again and executors have a
  timeout; weak fairness of `TimePasses`, because clocks advance. Renewals, crashes, requests and
  stalls need not happen. A restart after a crash is assumed (a supervisor or an operator starts the
  process again); nothing else could settle an interrupted job.
* **TaskPipeline**: weak fairness of the scheduler's chain and of each unit's chain, for the same
  reasons; the next boot is part of the crash step.
* **DaemonControl**: the poll timer fires while it is set, file accesses come back, jobs end and so
  do their handles. Calls need not be made; one that was made goes on. Strong fairness of reclaiming
  a running job nobody executes: no heartbeat renews it, so it is stale from some time on, and every
  tick looks for stale jobs, but between two ticks there is nothing to be done. All of it ends with
  the process (`alive`).
* **Planning**: ChatGPT answers what it is asked, and a call in progress goes on (waits have a
  timeout). Nobody has to make another call: `AnswerIsMaterialized` is about a finalization that has
  begun.
* **Review**: weak fairness of the worker and nothing else. ChatGPT may never answer: waits have a
  timeout, retries a budget.
* **Execution**: timers fire, a child that is sent the forced signal dies, and what its end has
  started is carried on. Nothing else ends a child, and nobody need cancel. The end of a child does
  not close its pipes: `Close` is fair only if nobody else holds them, because signals are sent to
  the child alone (`services/process-control-service.ts:297`, `:317`), the promise waits for `close`
  (`:162`), and `docs/architecture/PROCESS_AND_CANCELLATION.md:59` promises no more.
* **Workspaces**: the collector's timer goes on, and a retained workspace becomes older than the
  retention time. Jobs need not be run.

JobQueue, Preparation, Ledgers and Campaign are checked for safety only: their agents are requests,
commands and operators that need not do anything.

## What is proved

tlapm checks these for every value of the constants, that is, any number of jobs, workers, tasks,
conversations, commands and disturbances. The assumptions are those named in the modules: the
special value `None` (in ProcessControl and Execution `Nil`) is no member of the other sets, budgets
are positive, agents are told apart by name. There is one proof module for modules that belong
together. TLC has checked each inductive invariant before it was proved.

**JobQueueProofs**, of JobLifecycle and JobQueue. Of the abstract life: `LifecycleWithinBudget`
(records well formed, attempts within the budget; inductive as it stands) and `LifecycleAdvances` (a
settled record is final, attempts never go back). Of the queue, with every request and reclaim
allowed: `QueueTypeOK`, `QueueItemsAlwaysResolve`, `RecoveryRebuildsQueue`, `RecoveryKeepsRecords`.

* The first two follow from `IInv`. A queue write puts the call's job and a list read earlier into
  the file, so resolving items needs that *every* job an agent remembers has a file: in the list it
  read, in the listing of its cycle, in its handle, in the jobs recovery still has to visit and in
  the call itself. The one exception is an `enqueueJob` that has not written its job file, and such
  a call stands before `saveJob`, never before the queue.
* The last two need `RInv`: while the process boots nobody but recovery has a call; the call knows
  the record it will write and the queue it has read; and every job that is no longer in `todo` is
  restored or is the job of the call. A crash in between makes `todo` all jobs again, so no promise
  of the interrupted pass is needed.

With the daemon and its workers alone (`DaemonAlone`: no clients, no reclaim of a job that its
worker still has) also `WorkersHaveTheirOwnJobs` and `QueueImplementsLifecycle`: the file accesses
of the queue implement `JobLifecycle`, each step mapping to a step or a stutter; and through that
refinement `QueueKeepsBudget` and `QueueRecordsAdvance`. `DInv` adds ownership to `IInv`: an agent
that is going to write a job's record knows what the record is (none for `enqueueJob`, a runnable
one for `startJob`, a running one for whoever settles it), so two such agents are of one kind, and
of one kind there is one, because an executor has its job to itself. Without `DaemonAlone` neither
theorem holds (see *Divergences*).

**JobRuntimeProofs.** `RuntimeTypes`, `WorkersOwnTheirLeases`, `NothingRunsTwice`. Executing is too
late to begin the argument: a worker owns the lease from the write of `acquireJobLease`, through the
heartbeat and the whole life of its handle, to the release. `Owned` says so of the job a tick is
about to hand over and of the job in hand; `ChosenIsFree` that the tick's worker is idle;
`NothingInMemory` that a process which does not serve has no tick and no handles. All of it holds
while `timely`: a late renewal or `drainRun` breaks it, and the properties say nothing then.

**DaemonControlProofs.** `ControlTypeOK`, `PoolKeepsLimits`, `StoppedDaemonIsIdle`. A cycle of the
pool compares the limits with a list of active jobs it made before; `PickSeesHeld` says that every
record that runs for a worker is on that list, or is the job in the tick's hands, so that what has
changed since can only have made room. `IdleSinceMeasured` carries the count of running records a
tick has made to the write of `stopped`: since then only the tick itself could start a job for the
pool. Both theorems are about records, as the code's limits are, not about workers.

**TaskPipelineProofs.** `PipelineTypes` and the four safety properties of the run, for every set of
tasks and every task graph. The heart is `Safe`: what the job, the worker, the status, the review
and the gate of one task say of each other (`TasksSafe`). A step of a task changes these five of
that task only and is judged on the values it writes. The tasks meet in three places: the scheduler
(`PrimeSafe`: a task being primed has no job), the edges (`GraphSafe`: what was started has accepted
predecessors) and the stage (`StageSafe`: also the worker that has *decided* on release review and
not written it yet); there it is enough that an accepted task stays accepted.

**ReviewProofs.** `RemindersAreNotRepeated`, `OutcomesAreGated`, `GatesAreNotRepeated`,
`RequestsKeepConversations`, `TrustworthyIsReviewed`. The worker's memory is an intention: a copy of
the state and the step that comes next. `RequestCall` and `FinalizeCall` say what the files hold at
each step (the copy is what the file says except while it is being saved; a step that sends the
reminder finds the flag in the file and no reminder yet; a step that completes finds the gate
recorded), so that whenever the memory is lost the files tell what was done. Of the bridge it takes
what any step of it leaves standing (`BridgeKeeps`: a conversation that exists goes on to exist).

`TrustworthyIsReviewed` is about the checks of `buildRequest` more than about steps
(`AdmissibleIsTrustworthy`): for any patch, tests and history they come to what the definition says
with quantifiers. The scan of a file's lines is a function of the number of lines read; what it has
found is written down for every number (`Diagnosed`) and shown equal to it by the least number at
which they would differ (`DiagnosisIs`). The overall grade of the tests is the greatest of a set, the
history that matches ends with its latest entry, and a threshold of two is reached by one match.
`EvidenceWaits` says that evidence not decided on has a request job that is still reading, so no
other step can settle it. `EvidenceAssumption` says what the constant is: lines and patterns the
code tells apart, and fingerprints that are those of patches.

**PlanningProofs.** `PlanningTypes`, `StagesAreBacked`, `LinksAreKept`. The bridge is the same, and
so is what is needed of it. Calls overlap, so hardly anything a call has read is still so at its next
step; `Knows` says what is: requests, freezes and task files are never taken back, so a call may rely
on one it has seen. That carries the stage: whoever saves it has written, or seen, the files it
stands for, however stale the run it saves (`MovingIsBacked`). `Links` says that a phase with a
conversation has no request in progress but those that overlap (`Alone`), and that such a lone
request is the only one to write the link of its phase; a linked phase is refused (`LinkedWaits`).

**WorkspacesProofs**, of Workspaces, Remediation and Execution. `CleanedWorkspacesAreGone`,
`OrphansAreLeftAlone`. A pass works on a listing that is out of date: what it says is used only for
workspaces that were made (`PassesKnown`), and a worktree that was removed and is not recorded yet is
gone and stays so (`RemovedIsGone`), for git makes none twice under one id: the directory an attempt
makes again is a stray, of which the theorem says nothing. A workspace that has an
orphan has a status from the start of its child on (`OrphansInUse`), in which no attempt takes it
up, so the worker is never beside one (`WorkerIsAlone`). Of the remediation tables
`OnlyEligibleIsAutomatic`: whatever is reported, the policy lets a remediation run by itself only if
its playbook calls it eligible and of low risk, although playbooks and policy are two tables kept
apart. `CoreRulesAreInReach`: and yet the scope of one such remediation holds files that the
documentation calls protected (see *Divergences*).

Of Execution `ExecutionTypes`, `LivingAreNotWrittenOff` and `TerminationsShow`: what ended a child is
told twice before it shows in the job, in the ending that waits for its handle file and in the result
of the promise; both are true when they are written and stay so because a request for termination
reaches the process of the map, which has not finished (`Consistent`).

**ScriptsProofs**, of Preparation, Campaign and Ledgers. Of Preparation `PreparationTypes` and the
four properties of the run, for any numbers of checkpoints, questions, exports and handoffs and any
number of commands that die between two writes; a command that makes its first k writes is looked
at for every k. The one strengthening is `ReadyIsApproved`: what the readiness flag that the export
trusts stands for, which is everything but the questions whose command died before it took the flag
back (`missed`). Of the ledgers `StagesHaveOneSelection`, `ApprovalsAreLinked`; with the types the
invariants are inductive as they stand: each write leaves the other ledgers alone, and what reads
back is what was written, less, or marked as spoiled. The ledgers are
proved and not run.

Of Campaign `CampaignTypes`, `ScopeIsTheGoals`, `TheCapIsHard`, `AcceptanceLeadsOn`, for any todo
list, cap, number of phases and number of invocations that die anywhere. All of it hangs on two
things that outlive an invocation: the campaign file, which the invocation in progress knows by
heart (`CampaignIsKnown`) and which lists every iteration under the goal in the goal file of its run
(`HistoryTellsGoals`); and the goal file, which a phase was asked under (`FilesTellGoals`) and which
is written again only with what it says (`GoalOfTheRun`). The cap is looked at several steps before
the iteration counts; `RoomLeft` carries what was seen to where it is used.

Only model-checked: all liveness (`EveryJobSettles`, `ShutdownCompletes`, `ExecutedWorkIsDecided`,
`AllAcceptedIsReleased`, `AnswerIsMaterialized`, `ReviewSettles`, `EveryAttemptIsDisposed`,
`NoWorktreeLeaks`), which with ENABLED is out of the prover's reach. Every safety property that a
passing run checks is also a theorem.

## Divergences

Where the code does something else than a document, a comment or a name says, the models follow the
code, and the properties are stated so that they say what does hold. These are the places met while
modelling.

*Queue, daemon, jobs*

* A job can be runnable and in no queue: two overlapping calls of `upsertQueueItem`
  (`services/run-queue-service.ts:478`) lose one item, although
  `docs/architecture/CONCURRENCY_AND_DRAIN.md:24` says that no job is silently dropped.
  `BootRebuildsQueue`: the next start repairs it.
* A retried job that is started before its previous lease is released is refused the lease after it
  was marked running, and the rejection ends the process. `drainRun` processes jobs beside the
  daemon, without a lease. A cancellation may write over what a worker has acknowledged.
  `EveryJobSettles`: every job ends all the same.
* `resume` after a stop leaves the polling off; `shutdownRequested` is never cleared, so a later
  drain stops the daemon; a shutdown between a tick's saving of `stopped` and its end of polling
  leaves `draining` for ever (hence the last conjunct of `ShutdownCompletes`); overlapping calls
  overwrite each other; a tick that has read `running` may start jobs after a pause or drain has
  returned.
* The limits count job records (`services/quota-control-service.ts:40`,
  `services/concurrency-control-service.ts:42`), and a record leaves `running` before its worker
  does: the worker goes on to enqueue the follow-up, release the lease and save itself
  (`services/worker-pool-service.ts:270-297`), and a retry (`services/retry-service.ts:28`), a
  cancellation or a reclaim takes the record of a worker that executes. More workers than the limits
  allow, and two with the same key, may therefore be busy, and `stopped` may be saved while one is.
  `LimitsRespected` and `StoppedIsIdle` speak of records.
* A late renewal or `drainRun` lets a job be executed twice, and a late release hits the lease of
  another worker: `NoDoubleExecution` and `ExecutingWorkerOwnsLease` exclude both (`timely`).
* `CONCURRENCY_AND_DRAIN.md` describes exclusive-key switches of the concurrency policy that nothing
  evaluates (keys are always exclusive), and says that the system does not force-kill child
  processes; `ProcessControlService` does.

*Tasks and reviews*

* The review gate is saved before the task is reopened (`services/review-gate-service.ts:61`); after
  a crash in between the redelivered job finds its gate and skips the outcome, and requested rework
  is lost.
* An accepted task is saved before the run moves to release review
  (`application/orchestrator-service.ts:403`); after a crash in between nothing moves it, although
  `docs/architecture/WORKFLOW_RUNTIME.md:46` says that the release review is queued once all tasks
  are accepted. `AllAcceptedIsReleased` has the exception, and so has `ExecutedWorkIsDecided`
  for a death between a job's success and the enqueueing of its successor.
* A task left at `tests_green` by a crash makes the redelivered execution job throw.
* A finalize job whose review must be dispatched again is marked succeeded before the new request
  job is enqueued (`services/worker-service.ts:605`, `:614`); after a crash in between nobody asks
  again.
* Declared changed files are not compared with a patch that is present; failed suites count as
  strong evidence; patches A, B, A, B in turn are never found to repeat; an incomplete review ends
  the comparison. `OnlyTrustworthyIsReviewed` uses the code's own notion of trustworthy.

*Planning*

* The bridge keeps snapshots in memory only. A phase that is materializing when the bridge restarts
  exports, fails and stays pending for ever (`services/planning-service.ts:548`), although
  `docs/planning-proof-and-sufficiency-gate.md:42` lists it among the states the sweeper recovers.
* `POST /api/runs/:runId/task-graph` (`api/routes/runs.ts:65`,
  `application/orchestrator-service.ts:362`) registers a graph and founds the run without the
  sufficiency gate, although `docs/planning-proof-and-sufficiency-gate.md:71` says that registration
  is blocked until planning passes it (run PlanningUngated). The gate is asked when a graph of the
  lane is applied, of the freezes on file then; overlapping calls may change them before the graph
  is registered.
* Requests of one phase that overlap each find it without a conversation
  (`services/planning-service.ts:234-267`): each opens one, and state and link are those of the last
  writer, not necessarily the same. `LinkIsKept` excludes a phase as long as such requests are in
  progress.
* A death between `conversation-link.json` (`services/planning-service.ts:335`) and the request state
  (`:366`) leaves a conversation that the next request does not find: it opens another.
* A finalization writes the finalize state it has read, as a whole: beside another one it may take
  back the flag of a reminder that was sent, so that a second follows, or bring one back, so that the
  phase stays pending. `AnswerIsMaterialized` excuses a phase whose reminder is spent.
* Nothing finalizes pending phases by itself: the sweeper has a route and no timer.

*Child processes*

* The command executor takes `exitCode ?? (errorCode ? 1 : 0)` (`services/command-executor.ts:262`),
  so a command ended by a foreign signal is `succeeded`, although
  `docs/architecture/PROCESS_AND_CANCELLATION.md:19` has the signal decide too. A structured
  `succeeded` beats a timeout or a cancellation. A timed-out child that exits with zero and leaves
  nothing is `partial`, so its job is blocked instead of retried. The timer or stall check of
  another attempt's process makes a job `cancelled` though nobody cancelled it.
* A process that outlives the child and holds its pipes keeps `runProcess` pending after every kill
  (`services/process-control-service.ts:162`, `:297`, `:317`): the attempt is never disposed of.
  `EveryAttemptIsDisposed` excuses such an attempt (`held`).

*Workspaces and remediation*

* `maxRetainedPerRun` is declared and not implemented. Overlapping passes of the collector overwrite
  `cleaned` by `cleanup_failed`; a review that requests changes after collection saves `retained`
  without a worktree.
* A pass may remove the worktree of a reused workspace before its attempt is marked active.
  `syncSourceOverlay` (`services/worktree-service.ts:135`, `:273`) then makes the directory again
  with the files it copies, and the attempt works there. Git does not know the directory: `git
  worktree remove` fails every time, the record goes from `cleanup_failed` to `cleanup_failed`, the
  directory is never removed, and as a retained one it may be taken up again. `CleanedIsGone` and
  `NoWorktreeLeaks` speak of worktrees.
* The self-repair policy compares names of protected files with globs (`target.includes(pattern)`),
  so `evidence_gap_repair`, which runs by itself, covers `gate-evaluator.ts` and
  `run-acceptance-service.ts`, which `docs/architecture/SELF_REPAIR_PREREQUISITES.md:72-80` calls
  blocked. `autoExecutable` of a playbook is never read; a remediation may be executed any number of
  times.

*Scripts*

* A convergence checkpoint approved after a blocking question was added restores readiness over an
  older passing report. A question whose command dies between `OPEN_QUESTIONS.md` and the state
  (`scripts/project-preparation.ts:2187`, `:2196`) leaves readiness standing, and the export, which
  does not read the questions, publishes over it (`missed` in `ExportsFollowApproval`). A death
  between the status file of an export and the mark on the handoff leaves a handoff that claims to
  be current until the next complete export or handoff (`torn` in `HandoffFollowsExport`).
  Checkpoints of any status can be approved. Approved decisions stay so when their checkpoint is
  rejected. An export that dies after its metadata leaves an `exported` orphan, and a forced init
  leaves old exports `exported`. A question added without `--note` is lost at the next write.
* Ledgers read back as less than was written, or as something else: text in angle brackets makes a
  whole ledger pass for its template, a death amid a write leaves an empty one, a blank title passes
  `requireValue` (`scripts/project-preparation.ts:1373`) and its record is not read again, and a
  value with a line break may drop its record, change its status or make others. The next `add`
  counts from what is read, and a checkpoint approved for a decision that is lost can then approve
  the new one of that number. The two theorems on ledgers except values of several lines only, and
  the one on decisions a forced init that died before the ledger.
* A legacy run of the self-improvement driver can be resumed once only; `--run-id` goes past the
  cap; a torn campaign file forgets the cap, a run created before a death ahead of
  `startCampaignIteration` is not counted, and a torn goal file turns the run into a bootstrap
  run, all beside `docs/architecture/REAL_SELF_IMPROVEMENT.md:139-155`. An accepted run without its
  artifact is polled for ever.

## Not modelled

* Of the queue: its order, `availableAt`, backoff and priorities. A listed job may be started or
  deferred in any order, which includes what the policies choose.
* Of the daemon: `start`, the status summary, metrics and worker records. Of JobRuntime: a renewal
  in flight when its handle ends, more than one cancellation request per job, the statuses `blocked`
  and `manual_attention_required` (both behave as `failed`), and quotas (the records stand for jobs
  of different runs; quotas are in DaemonControl).
* Of the pipeline: priming by an API request beside the tick, the routes that reject a task,
  evaluate a gate or trigger a release review by hand, the legacy `task_review` job, and what
  follows a failed release review. A failed execution that is enqueued again and again by the tick
  (`services/worker-service.ts:262`) is in the model and has no property: the code sets it no limit.
* Of planning and reviews: the wording of requests and answers, model routing, attachments.
* Of executions: prompts, the parsing of output, the choice of the runner.
* Of workspaces: baselines, patches, a retention time of zero or less; git is external.
* Of incidents: their records and the stability report. Nothing in the application calls
  `recordIncident`.
* Of preparation: non-blocking questions, assessments, summaries (`currentStage`, `nextStage`,
  `CHECKPOINTS.md`), the history file and the legacy layout, which no command reads for a decision.
  Of the ledgers: edits by hand.
* Of the self-improvement driver: bootstrap of services and browser, the watcher's reports, and a
  second orchestrator that recovers beside the first.
* The bridge's browser sessions and selectors: only what its callers meet is modelled.
* Evidence ledger, snapshots, reports and contracts: records and schemas that nothing reads back for
  a decision.
* Hazards that have no property, with the reason of each, are in `PROJECT.json`.
