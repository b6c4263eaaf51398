---------------------------- MODULE TaskPipeline ----------------------------
(***************************************************************************)
(* The way of the tasks of one run through priming, execution, review and  *)
(* acceptance, and of the run through its release review.                  *)
(*                                                                         *)
(* A unit (a task, or the run's release) has at most one active job: the   *)
(* scheduler enqueues the first one, and each job enqueues its successor.  *)
(* A job's processing is a chain of file writes; the process may die       *)
(* between any two of them, and the recovery of the next boot hands the    *)
(* interrupted job out again from its beginning, or fails it.              *)
(*                                                                         *)
(* Queue, leases and worker slots are in JobQueue and JobRuntime: here a   *)
(* queued job starts at any time, as it may when maxConcurrentJobsPerRun   *)
(* lets more than one job of the run be active.                            *)
(***************************************************************************)
EXTENDS Naturals

CONSTANTS
  Tasks,
  TaskGraphs,  \* the task graphs a run may have: sets of "blocks" edges
  Release,     \* the unit of the release review
  Budget,      \* maxAttempts of every job
  MaxCrashes,  \* bound: crashes in one behaviour
  None

Units == Tasks \cup {Release}
Stages == {"foundation_ready", "task_execution", "release_review", "accepted"}
Statuses == {"drafted", "tests_planned", "tests_red", "implementation_in_progress",
             "tests_green", "review_pending", "accepted", "rejected"}
Verdicts == {"approved", "changes_requested", "rejected", "incomplete"}
Kinds == {"execution", "request", "finalize", "release"}
JobRecords == [kind : Kinds, status : {"queued", "running", "succeeded", "failed"},
               attempt : Nat \ {0}]
Reviews == [verdict : Verdicts \cup {None}, applied : BOOLEAN]
Gates == [verdict : Verdicts, current : BOOLEAN]
Steps == {"begin", "execute", "submit", "succeed", "handover", "verdict", "gate", "outcome",
          "accept", "advance", "release", "apply", "settle", "acceptance"}
Works == [at : Steps, seen : Statuses \cup {None}]
Primes == [task : Tasks, at : {"attach", "red", "stage", "gate", "enqueue"}]

ASSUME PipelineAssumption ==
  /\ TaskGraphs \subseteq SUBSET (Tasks \X Tasks)
  /\ Release \notin Tasks
  /\ Budget \in Nat \ {0} /\ MaxCrashes \in Nat
ASSUME PipelineNoneAssumption ==
  None \notin Verdicts \cup Statuses \cup JobRecords \cup Reviews \cup Gates \cup Works \cup Primes

VARIABLES
  blocks,      \* the "blocks" edges of the task graph, frozen with the run
  stage,       \* run.json: the stage of the run
  task,        \* the status of each task
  red,         \* the tasks with a passing red_test_gate
  review,      \* the review of the task's latest execution, or None
  gate,        \* the latest review_gate of a task; current: it is of that review
  releaseGate, \* the verdict of the latest release_gate, or None
  acceptance,  \* is there a run-acceptance.json
  job,         \* the latest job of each unit, or None ("failed" also stands for blocked
               \* and manual_attention_required, "queued" for retriable)
  prime,       \* the task the scheduler is priming and its next step, or None
  work,        \* the next step of the worker that has the unit's job, or None
  crashes      \* crashes so far (bookkeeping for MaxCrashes)

vars == <<blocks, stage, task, red, review, gate, releaseGate, acceptance, job, prime, work, crashes>>
reviews == <<review, gate>>
releases == <<stage, releaseGate, acceptance>>

TypeOK ==
  /\ blocks \in TaskGraphs
  /\ stage \in Stages
  /\ task \in [Tasks -> Statuses]
  /\ red \in SUBSET Tasks
  /\ review \in [Tasks -> Reviews \cup {None}]
  /\ gate \in [Tasks -> Gates \cup {None}]
  /\ releaseGate \in Verdicts \cup {None}
  /\ acceptance \in BOOLEAN
  /\ job \in [Units -> JobRecords \cup {None}]
  /\ prime \in Primes \cup {None}
  /\ work \in [Units -> Works \cup {None}]
  /\ crashes \in 0 .. MaxCrashes

\* The planned run: frozen, with a task graph and drafted tasks.
Init ==
  /\ blocks \in TaskGraphs
  /\ stage = "foundation_ready"
  /\ task = [t \in Tasks |-> "drafted"]
  /\ red = {}
  /\ review = [t \in Tasks |-> None]
  /\ gate = [t \in Tasks |-> None]
  /\ releaseGate = None
  /\ acceptance = FALSE
  /\ job = [u \in Units |-> None]
  /\ prime = None
  /\ work = [u \in Units |-> None]
  /\ crashes = 0

-----------------------------------------------------------------------------
(* Tasks and jobs.                                                         *)

\* allowedTaskTransitions, with the rework a review may ask for.
Allowed ==
  {<<"drafted", "tests_planned">>, <<"tests_planned", "tests_red">>,
   <<"tests_red", "implementation_in_progress">>,
   <<"implementation_in_progress", "tests_green">>, <<"implementation_in_progress", "rejected">>,
   <<"tests_green", "review_pending">>, <<"review_pending", "accepted">>,
   <<"review_pending", "rejected">>, <<"review_pending", "implementation_in_progress">>}

\* assertTaskLoopTransition lets a task be written with the status it has.
MayMove(t, to) == task[t] = to \/ <<task[t], to>> \in Allowed

SetTask(t, to) == task' = [task EXCEPT ![t] = to]

DependenciesAccepted(t) == \A d \in Tasks : <<d, t>> \in blocks => task[d] = "accepted"
AllAccepted == \A t \in Tasks : task[t] = "accepted"

Active(u) == job[u] # None /\ job[u].status \in {"queued", "running"}
Enqueued(kind) == [kind |-> kind, status |-> "queued", attempt |-> 1]
Retried(r) == [r EXCEPT !.status = "queued", !.attempt = @ + 1]

WorkerAt(u, kind, step) == work[u] # None /\ job[u].kind = kind /\ work[u].at = step
Goto(u, step) == work' = [work EXCEPT ![u].at = step]
Leave(u) == work' = [work EXCEPT ![u] = None]
JobStatus(u, s) == job' = [job EXCEPT ![u].status = s]

\* resolveDisposition: another attempt while the budget lasts, if the failure is of a kind that
\* may pass, or the end.
Dispose(u) ==
  /\ \/ job[u].attempt < Budget /\ job' = [job EXCEPT ![u] = Retried(@)]
     \/ JobStatus(u, "failed")
  /\ Leave(u)

\* recordDisposition with a disposition forced upon it, blocked or failed: no further attempt.
DisposeForGood(u) == JobStatus(u, "failed") /\ Leave(u)

\* Of the verdicts of a review, only an incomplete one is a failure that may pass.
ForReviewFailure(u, verdict) ==
  IF verdict = "incomplete" THEN Dispose(u) ELSE DisposeForGood(u)
ForReleaseFailure(u, verdict) ==
  IF verdict = "incomplete" THEN Dispose(u) ELSE DisposeForGood(u)
\* The job failed with an error, and not with a result.
ForJobError(u) == Dispose(u)

-----------------------------------------------------------------------------
(* The tick enqueues what is runnable: WorkflowRuntimeService.             *)

\* Mutant: the dependencies are not looked at.
RunnableUnblocked(t) ==
  /\ task[t] \in {"drafted", "tests_planned", "tests_red", "implementation_in_progress"}
  /\ ~Active(t)

Runnable(t) ==
  /\ task[t] \in {"drafted", "tests_planned", "tests_red", "implementation_in_progress"}
  /\ ~Active(t)
  /\ DependenciesAccepted(t)

PrimeAt(step) == prime # None /\ prime.at = step
PrimeGoto(step) == prime' = [prime EXCEPT !.at = step]

PrimeBegin(t) ==
  /\ prime = None /\ stage # "accepted" /\ Runnable(t)
  /\ prime' = [task |-> t, at |-> "attach"]
  /\ UNCHANGED <<blocks, task, red, reviews, releases, job, work, crashes>>

PrimeAttach ==
  /\ PrimeAt("attach")
  /\ IF task[prime.task] = "drafted" THEN SetTask(prime.task, "tests_planned")
                                     ELSE UNCHANGED task
  /\ PrimeGoto("red")
  /\ UNCHANGED <<blocks, red, reviews, releases, job, work, crashes>>

\* markTestsRed saves the task, and moves the run on if it found it foundation_ready.
PrimeRed ==
  /\ PrimeAt("red")
  /\ IF task[prime.task] = "tests_planned"
     THEN /\ SetTask(prime.task, "tests_red")
          /\ PrimeGoto(IF stage = "foundation_ready" THEN "stage" ELSE "gate")
     ELSE UNCHANGED task /\ PrimeGoto("gate")
  /\ UNCHANGED <<blocks, red, reviews, releases, job, work, crashes>>

PrimeStage ==
  /\ PrimeAt("stage")
  /\ stage' = "task_execution"
  /\ PrimeGoto("gate")
  /\ UNCHANGED <<blocks, task, red, reviews, releaseGate, acceptance, job, work, crashes>>

PrimeGate ==
  /\ PrimeAt("gate")
  /\ red' = IF task[prime.task] = "tests_red" THEN red \cup {prime.task} ELSE red
  /\ PrimeGoto("enqueue")
  /\ UNCHANGED <<blocks, task, reviews, releases, job, work, crashes>>

PrimeEnqueue ==
  /\ PrimeAt("enqueue")
  /\ job' = [job EXCEPT ![prime.task] = Enqueued("execution")]
  /\ prime' = None
  /\ UNCHANGED <<blocks, task, red, reviews, releases, work, crashes>>

QueueRelease ==
  /\ prime = None
  /\ stage = "release_review" /\ AllAccepted /\ Tasks # {} /\ job[Release] = None
  /\ job' = [job EXCEPT ![Release] = Enqueued("release")]
  /\ UNCHANGED <<blocks, task, red, reviews, releases, prime, work, crashes>>

-----------------------------------------------------------------------------
(* The execution job of a task.                                            *)

Start(u) ==
  /\ job[u] # None /\ job[u].status = "queued"
  /\ JobStatus(u, "running")
  /\ work' = [work EXCEPT ![u] = [at |-> "begin", seen |-> None]]
  /\ UNCHANGED <<blocks, task, red, reviews, releases, prime, crashes>>

MarkImplementationStarted(t) ==
  /\ t \in red /\ MayMove(t, "implementation_in_progress")
  /\ SetTask(t, "implementation_in_progress")

MarkTestsGreen(t) == MayMove(t, "tests_green") /\ SetTask(t, "tests_green")

ExecutionReady(t) ==
  /\ DependenciesAccepted(t)
  /\ task[t] \in {"tests_red", "implementation_in_progress"}
  /\ t \in red

ExecuteBegin(t) ==
  /\ WorkerAt(t, "execution", "begin") /\ ExecutionReady(t)
  /\ MarkImplementationStarted(t)
  /\ Goto(t, "execute")
  /\ UNCHANGED <<blocks, red, reviews, releases, job, prime, crashes>>

\* The executor returns passing tests. The result is a new execution, which nobody has
\* reviewed yet.
ExecuteSucceeds(t) ==
  /\ WorkerAt(t, "execution", "execute")
  /\ MarkTestsGreen(t)
  /\ review' = [review EXCEPT ![t] = None]
  /\ gate' = [gate EXCEPT ![t] = IF @ = None THEN None ELSE [@ EXCEPT !.current = FALSE]]
  /\ Goto(t, "submit")
  /\ UNCHANGED <<blocks, red, releases, job, prime, crashes>>

\* A failed execution leaves the task in implementation_in_progress.
ExecuteFails(t) ==
  /\ WorkerAt(t, "execution", "execute")
  /\ Dispose(t)
  /\ UNCHANGED <<blocks, task, red, reviews, releases, prime, crashes>>

SubmitForReview(t) ==
  /\ WorkerAt(t, "execution", "submit")
  /\ SetTask(t, "review_pending")
  /\ Goto(t, "succeed")
  /\ UNCHANGED <<blocks, red, reviews, releases, job, prime, crashes>>

MarkSucceeded(t) ==
  /\ WorkerAt(t, "execution", "succeed") \/ WorkerAt(t, "request", "succeed")
  /\ JobStatus(t, "succeeded")
  /\ Goto(t, "handover")
  /\ UNCHANGED <<blocks, task, red, reviews, releases, prime, crashes>>

\* Mutant: the job ends without a successor.
EnqueueNextForgotten(t) ==
  /\ WorkerAt(t, "execution", "handover") \/ WorkerAt(t, "request", "handover")
  /\ Leave(t)
  /\ UNCHANGED <<blocks, task, red, reviews, releases, job, prime, crashes>>

\* Mutant: an execution is followed by the job that finalizes its review.
EnqueueNextFinalize(t) ==
  /\ WorkerAt(t, "execution", "handover") \/ WorkerAt(t, "request", "handover")
  /\ job' = [job EXCEPT ![t] = Enqueued("finalize")]
  /\ Leave(t)
  /\ UNCHANGED <<blocks, task, red, reviews, releases, prime, crashes>>

EnqueueNext(t) ==
  /\ WorkerAt(t, "execution", "handover") \/ WorkerAt(t, "request", "handover")
  /\ job' = [job EXCEPT ![t] =
               Enqueued(IF job[t].kind = "execution" THEN "request" ELSE "finalize")]
  /\ Leave(t)
  /\ UNCHANGED <<blocks, task, red, reviews, releases, prime, crashes>>

-----------------------------------------------------------------------------
(* The review jobs of a task.                                              *)

\* One request per execution; it is made anew when its review was applied as incomplete.
RequestReview(t) ==
  /\ WorkerAt(t, "request", "begin")
  /\ task[t] \in {"tests_green", "review_pending"}
  /\ SetTask(t, "review_pending")
  /\ IF review[t] = None \/ review[t] = [verdict |-> "incomplete", applied |-> TRUE]
     THEN /\ review' = [review EXCEPT ![t] = [verdict |-> None, applied |-> FALSE]]
          /\ gate' = [gate EXCEPT ![t] = IF @ = None THEN None ELSE [@ EXCEPT !.current = FALSE]]
     ELSE UNCHANGED reviews
  /\ Goto(t, "succeed")
  /\ UNCHANGED <<blocks, red, releases, job, prime, crashes>>

FinalizeBegin(t) ==
  /\ WorkerAt(t, "finalize", "begin")
  /\ task[t] \in {"review_pending", "implementation_in_progress", "rejected", "accepted"}
  /\ work' = [work EXCEPT ![t] = [at |-> "verdict", seen |-> task[t]]]
  /\ UNCHANGED <<blocks, task, red, reviews, releases, job, prime, crashes>>

\* A saved result is final unless it is incomplete.
SaveVerdict(t) ==
  /\ WorkerAt(t, "finalize", "verdict")
  /\ IF review[t].verdict \in {None, "incomplete"}
     THEN \E v \in Verdicts : review' = [review EXCEPT ![t].verdict = v]
     ELSE UNCHANGED review
  /\ Goto(t, "gate")
  /\ UNCHANGED <<blocks, gate, task, red, releases, job, prime, crashes>>

\* applyCompletedTaskReview: a gate already recorded for this review and this verdict
\* is used again, and what recordTaskReviewGate does after the gate is not repeated.
RecordGate(t) ==
  /\ WorkerAt(t, "finalize", "gate")
  /\ IF gate[t] = [verdict |-> review[t].verdict, current |-> TRUE]
     THEN /\ work' = [work EXCEPT ![t] = [at |-> "accept", seen |-> task[t]]]
          /\ UNCHANGED gate
     ELSE /\ gate' = [gate EXCEPT ![t] = [verdict |-> review[t].verdict, current |-> TRUE]]
          /\ Goto(t, "outcome")
  /\ UNCHANGED <<blocks, review, task, red, releases, job, prime, crashes>>

OutcomeOf(verdict) ==
  CASE verdict = "changes_requested" -> "implementation_in_progress"
    [] verdict = "rejected"          -> "rejected"
    [] OTHER                         -> None

ReopenImplementationAfterReview(t) ==
  MayMove(t, "implementation_in_progress") /\ SetTask(t, "implementation_in_progress")

RejectTask(t) == MayMove(t, "rejected") /\ SetTask(t, "rejected")

ApplyOutcome(t) ==
  /\ WorkerAt(t, "finalize", "outcome")
  /\ CASE OutcomeOf(review[t].verdict) = "implementation_in_progress" ->
            ReopenImplementationAfterReview(t)
       [] OutcomeOf(review[t].verdict) = "rejected" -> RejectTask(t)
       [] OTHER -> UNCHANGED task
  /\ Goto(t, "accept")
  /\ UNCHANGED <<blocks, red, reviews, releases, job, prime, crashes>>

\* Mutant: whatever has been reviewed is accepted.
AcceptTaskReviewed(t) ==
  /\ WorkerAt(t, "finalize", "accept")
  /\ IF review[t].verdict # "rejected" /\ task[t] = "review_pending"
     THEN SetTask(t, "accepted") /\ Goto(t, "advance")
     ELSE UNCHANGED task /\ Goto(t, "apply")
  /\ UNCHANGED <<blocks, red, reviews, releases, job, prime, crashes>>

\* The latest review_gate must have passed.
ReviewGatePassed(t) == gate[t].verdict = "approved"
AcceptEnvelope(t) ==
  /\ ReviewGatePassed(t) /\ MayMove(t, "accepted")
  /\ SetTask(t, "accepted")

\* acceptTask, of a task that was not accepted when the job read it.
AcceptTask(t) ==
  /\ WorkerAt(t, "finalize", "accept")
  /\ IF review[t].verdict = "approved" /\ work[t].seen # "accepted"
     THEN AcceptEnvelope(t) /\ Goto(t, "advance")
     ELSE UNCHANGED task /\ Goto(t, "apply")
  /\ UNCHANGED <<blocks, red, reviews, releases, job, prime, crashes>>

\* Mutant: the first accepted task opens the release review.
AdvanceRunEarly(t) ==
  /\ WorkerAt(t, "finalize", "advance")
  /\ Goto(t, IF stage = "task_execution" THEN "release" ELSE "apply")
  /\ UNCHANGED <<blocks, task, red, reviews, releases, job, prime, crashes>>

\* Mutant: the run waits for the jobs of its other tasks.
AdvanceRunWhenIdle(t) ==
  /\ WorkerAt(t, "finalize", "advance")
  /\ Goto(t, IF stage = "task_execution" /\ AllAccepted /\ \A other \in Tasks \ {t} : ~Active(other)
             THEN "release" ELSE "apply")
  /\ UNCHANGED <<blocks, task, red, reviews, releases, job, prime, crashes>>

\* Then the run and the tasks are read ...
AdvanceRun(t) ==
  /\ WorkerAt(t, "finalize", "advance")
  /\ Goto(t, IF stage = "task_execution" /\ AllAccepted THEN "release" ELSE "apply")
  /\ UNCHANGED <<blocks, task, red, reviews, releases, job, prime, crashes>>

\* ... and the run is saved.
SaveReleaseReview(t) ==
  /\ WorkerAt(t, "finalize", "release")
  /\ stage' = "release_review"
  /\ Goto(t, "apply")
  /\ UNCHANGED <<blocks, task, red, reviews, releaseGate, acceptance, job, prime, crashes>>

MarkReviewApplied(t) ==
  /\ WorkerAt(t, "finalize", "apply")
  /\ review' = [review EXCEPT ![t].applied = TRUE]
  /\ Goto(t, "settle")
  /\ UNCHANGED <<blocks, gate, task, red, releases, job, prime, crashes>>

\* completeTaskReviewJob: only an incomplete review may be tried again.
CompleteReviewJob(t) ==
  /\ WorkerAt(t, "finalize", "settle")
  /\ IF review[t].verdict = "approved" THEN JobStatus(t, "succeeded") /\ Leave(t)
     ELSE ForReviewFailure(t, review[t].verdict)
  /\ UNCHANGED <<blocks, task, red, reviews, releases, prime, crashes>>

\* The bridge fails, or the conversation is still pending.
ReviewJobFails(t) ==
  /\ WorkerAt(t, "request", "begin") \/ WorkerAt(t, "finalize", "verdict")
  /\ ForJobError(t)
  /\ UNCHANGED <<blocks, task, red, reviews, releases, prime, crashes>>

-----------------------------------------------------------------------------
(* The release job of the run.                                             *)

\* The words of the structured answer, lower-cased, and what each of them decides.
ReleaseWords == [approved          |-> {"approved", "approve"},
                 changes_requested |-> {"changes_requested", "changes-requested",
                                        "request_changes", "request-changes"},
                 rejected          |-> {"rejected", "reject"}]
\* "other" is any other word; None: no structured answer, or neither status nor decision in it.
ReleaseAnswers == (UNION {ReleaseWords[v] : v \in DOMAIN ReleaseWords}) \cup {"other", None}
ReadReleaseStatus(answer) ==
  IF \E v \in DOMAIN ReleaseWords : answer \in ReleaseWords[v]
  THEN CHOOSE v \in DOMAIN ReleaseWords : answer \in ReleaseWords[v]
  ELSE "incomplete"

\* Nothing here looks at the stage the run is in.
ReviewRelease ==
  /\ WorkerAt(Release, "release", "begin")
  /\ \E answer \in ReleaseAnswers :
       /\ releaseGate' = ReadReleaseStatus(answer)
       /\ Goto(Release, IF releaseGate' = "approved" THEN "accept" ELSE "settle")
  /\ UNCHANGED <<blocks, stage, acceptance, task, red, reviews, job, prime, crashes>>

RunAcceptable == stage = "release_review" /\ releaseGate = "approved" /\ AllAccepted

AcceptRun ==
  /\ WorkerAt(Release, "release", "accept") /\ RunAcceptable
  /\ stage' = "accepted"
  /\ Goto(Release, "acceptance")
  /\ UNCHANGED <<blocks, releaseGate, acceptance, task, red, reviews, job, prime, crashes>>

SaveAcceptance ==
  /\ WorkerAt(Release, "release", "acceptance")
  /\ acceptance' = TRUE
  /\ Goto(Release, "settle")
  /\ UNCHANGED <<blocks, stage, releaseGate, task, red, reviews, job, prime, crashes>>

CompleteReleaseJob ==
  /\ WorkerAt(Release, "release", "settle")
  /\ IF releaseGate = "approved" THEN JobStatus(Release, "succeeded") /\ Leave(Release)
     ELSE ForReleaseFailure(Release, releaseGate)
  /\ UNCHANGED <<blocks, task, red, reviews, releases, prime, crashes>>

-----------------------------------------------------------------------------
(* The process.                                                            *)

Interrupted(r) ==
  IF r = None \/ r.status # "running" THEN r
  ELSE IF r.attempt < Budget THEN Retried(r) ELSE [r EXCEPT !.status = "failed"]

\* The process dies; the next boot recovers the jobs it finds running.
ProcessExit ==
  /\ job' = [u \in Units |-> Interrupted(job[u])]
  /\ work' = [u \in Units |-> None]
  /\ prime' = None
  /\ UNCHANGED <<blocks, task, red, reviews, releases>>

Crash ==
  /\ crashes < MaxCrashes
  /\ crashes' = crashes + 1
  /\ ProcessExit

\* processJob returns the promise of the job from inside its try block without awaiting
\* it: a rejection passes handleUnexpectedFailure by and is an unhandled one.
JobThrows ==
  /\ \/ \E t \in Tasks : WorkerAt(t, "execution", "begin") /\ ~ExecutionReady(t)
     \/ WorkerAt(Release, "release", "accept") /\ ~RunAcceptable
  /\ ProcessExit
  /\ UNCHANGED crashes

-----------------------------------------------------------------------------
Schedule ==
  \/ PrimeAttach \/ PrimeRed \/ PrimeStage \/ PrimeGate \/ PrimeEnqueue \/ QueueRelease
  \/ \E t \in Tasks : PrimeBegin(t)

TaskStep(t) ==
  \/ Start(t)
  \/ ExecuteBegin(t) \/ ExecuteSucceeds(t) \/ ExecuteFails(t) \/ SubmitForReview(t)
  \/ MarkSucceeded(t) \/ EnqueueNext(t)
  \/ RequestReview(t) \/ FinalizeBegin(t) \/ SaveVerdict(t) \/ RecordGate(t)
  \/ ApplyOutcome(t) \/ AcceptTask(t) \/ AdvanceRun(t) \/ SaveReleaseReview(t)
  \/ MarkReviewApplied(t) \/ CompleteReviewJob(t) \/ ReviewJobFails(t)

ReleaseStep ==
  \/ Start(Release)
  \/ ReviewRelease \/ AcceptRun \/ SaveAcceptance \/ CompleteReleaseJob

Next ==
  \/ Schedule \/ ReleaseStep \/ Crash \/ JobThrows
  \/ \E t \in Tasks : TaskStep(t)

Spec == Init /\ [][Next]_vars

\* The daemon ticks, free workers take queued jobs, and every chain of calls goes on.
Fairness ==
  /\ WF_vars(Schedule) /\ WF_vars(ReleaseStep)
  /\ \A t \in Tasks : WF_vars(TaskStep(t))

FairSpec == Spec /\ Fairness

-----------------------------------------------------------------------------
(* Properties.                                                             *)

\* A task is accepted by an approval of its latest execution, never by an earlier one.
AcceptedWorkWasApproved ==
  \A t \in Tasks : task[t] = "accepted" => gate[t] = [verdict |-> "approved", current |-> TRUE]

\* Nothing is done for a task before every task it depends on has been approved, and that
\* approval is still the latest word on it.
DependentsBuildOnApprovedWork ==
  \A edge \in blocks :
    task[edge[2]] # "drafted" \/ job[edge[2]] # None
    => gate[edge[1]] = [verdict |-> "approved", current |-> TRUE]

\* The release review starts, and the run is accepted, when every task is accepted; and
\* no task is taken back after that.
ReleaseCoversAllTasks == stage \in {"release_review", "accepted"} => AllAccepted

\* A review job, first or redelivered, finds its task and its review in a state it can go on
\* from: none of the assertions in its handlers ever throws. The handlers would catch it and
\* dispose of the job as of a review that failed: the work would wait for a verdict that exists.
ReviewJobsNeverThrow ==
  \A t \in Tasks :
    /\ WorkerAt(t, "request", "begin") => task[t] \in {"tests_green", "review_pending"}
    /\ WorkerAt(t, "finalize", "begin") =>
         /\ review[t] # None
         /\ task[t] \in {"review_pending", "implementation_in_progress", "rejected", "accepted"}
    /\ WorkerAt(t, "finalize", "outcome") /\ OutcomeOf(review[t].verdict) # None =>
         MayMove(t, OutcomeOf(review[t].verdict))
    /\ WorkerAt(t, "finalize", "accept") /\ review[t].verdict = "approved" =>
         gate[t].verdict = "approved" /\ MayMove(t, "accepted")

\* Unless the process dies, executed work is decided upon or its job ends as failed: no
\* task is left between two jobs.
ExecutedWorkIsDecided ==
  \A t \in Tasks :
    (task[t] \in {"tests_green", "review_pending"})
    ~> \/ task[t] \in {"accepted", "rejected", "implementation_in_progress"}
       \/ job[t] # None /\ job[t].status = "failed"
       \/ crashes > 0

\* Unless the process dies, the run gets to its release review once all tasks are accepted, even
\* when the last two of them are accepted at the same time.
AllAcceptedIsReleased == AllAccepted ~> stage \in {"release_review", "accepted"} \/ crashes > 0
=============================================================================
