------------------------- MODULE TaskPipelineProofs -------------------------
(***************************************************************************)
(* Proofs about TaskPipeline: its type invariant and its four safety        *)
(* invariants, for any set of tasks, any task graphs and any number of     *)
(* crashes.                                                                *)
(*                                                                         *)
(* All of them follow from IInv, whose heart is Safe: what the job, the     *)
(* worker, the status, the review and the gate of ONE task say of each     *)
(* other.  A step of a task changes these five values of that task only,   *)
(* so a step is judged on the values it writes (lemma TaskStepKeeps); the   *)
(* tasks meet in three places, the scheduler, the blocks edges and the     *)
(* stage of the run, and there the fact that an accepted task stays        *)
(* accepted is all that is needed.                                         *)
(***************************************************************************)
EXTENDS TaskPipeline, TLAPS

\* The steps of the worker of a job.
StepsOf(kind) ==
  CASE kind = "execution" -> {"begin", "execute", "submit", "succeed", "handover"}
    [] kind = "request"   -> {"begin", "succeed", "handover"}
    [] kind = "finalize"  -> {"begin", "verdict", "gate", "outcome", "accept", "advance",
                              "release", "apply", "settle"}
    [] OTHER              -> {"begin", "accept", "acceptance", "settle"}

\* The statuses of a task whose review has this verdict.
After(verdict) ==
  CASE verdict = "approved"          -> {"review_pending", "accepted"}
    [] verdict = "changes_requested" -> {"review_pending", "implementation_in_progress"}
    [] verdict = "rejected"          -> {"review_pending", "rejected"}
    [] OTHER                         -> {"review_pending"}

Approved == [verdict |-> "approved", current |-> TRUE]

\* The worker of a task has its running job, or is about to enqueue the job's successor.
SafeWork(j, w) ==
  w # None =>
    /\ j # None
    /\ w.at \in StepsOf(j.kind)
    /\ \/ j.status = "running"
       \/ j.status = "succeeded" /\ w.at = "handover"

SafeExecution(j, w, s) ==
  w # None /\ j.kind = "execution" =>
    /\ w.at = "execute" => s = "implementation_in_progress"
    /\ w.at = "submit" => s = "tests_green"
    /\ w.at \in {"succeed", "handover"} => s = "review_pending"

SafeRequest(j, w, s, r) ==
  j # None /\ j.kind = "request" =>
    /\ s = "review_pending"
    /\ w # None /\ w.at # "begin" => r # None

SafeFinalize(j, w, s, r, g) ==
  j # None /\ j.kind = "finalize" =>
    /\ r # None
    /\ s \in After(r.verdict)
    /\ w # None /\ w.at \notin {"begin", "verdict"} => r.verdict # None
    /\ w # None /\ w.at \notin {"begin", "verdict", "gate"} =>
         g = [verdict |-> r.verdict, current |-> TRUE]

SafeAccepted(s, r, g) ==
  s = "accepted" => r # None /\ r.verdict = "approved" /\ g = Approved

\* Of one task: its job, its worker, its status, its review and its gate.
Safe(j, w, s, r, g) ==
  /\ j # None => j.kind # "release"
  /\ SafeWork(j, w)
  /\ SafeExecution(j, w, s)
  /\ SafeRequest(j, w, s, r)
  /\ SafeFinalize(j, w, s, r, g)
  /\ SafeAccepted(s, r, g)

TasksSafe == \A t \in Tasks : Safe(job[t], work[t], task[t], review[t], gate[t])

ReleaseSafe == work[Release] # None => job[Release] # None

\* The task being primed has no job that could change it.
Preparable == {"drafted", "tests_planned", "tests_red", "implementation_in_progress"}
PrimeSafe ==
  prime # None => /\ task[prime.task] \in Preparable
                  /\ ~Active(prime.task)
                  /\ work[prime.task] = None

Started(t) ==
  \/ task[t] # "drafted"
  \/ job[t] # None
  \/ prime # None /\ prime.task = t

GraphSafe == \A edge \in blocks : Started(edge[2]) => task[edge[1]] = "accepted"

StageSafe ==
  /\ stage \in {"release_review", "accepted"} => AllAccepted
  /\ \A t \in Tasks : work[t] # None /\ work[t].at = "release" => AllAccepted

IInv ==
  /\ TypeOK
  /\ TasksSafe
  /\ ReleaseSafe
  /\ PrimeSafe
  /\ GraphSafe
  /\ StageSafe

-----------------------------------------------------------------------------
(* What the helpers of the actions write.                                  *)

JobStates == {"queued", "running", "succeeded", "failed"}

LEMMA JobValues ==
  ASSUME NEW j \in JobRecords, NEW x \in JobStates
  PROVE  /\ [j EXCEPT !.status = x] \in JobRecords
         /\ [j EXCEPT !.status = x].kind = j.kind
         /\ [j EXCEPT !.status = x].status = x
         /\ Retried(j) \in JobRecords
         /\ Retried(j).kind = j.kind
         /\ Retried(j).status = "queued"
<1>1. j.kind \in Kinds /\ j.attempt \in Nat \ {0} /\ j.attempt + 1 \in Nat \ {0}
  BY DEF JobRecords
<1>2. /\ [j EXCEPT !.status = x] \in JobRecords
      /\ [j EXCEPT !.status = x].kind = j.kind
      /\ [j EXCEPT !.status = x].status = x
  BY DEF JobRecords, JobStates
<1>3. [j EXCEPT !.status = "queued", !.attempt = j.attempt + 1] \in JobRecords
  BY <1>1 DEF JobRecords
<1>4. /\ [j EXCEPT !.status = "queued", !.attempt = j.attempt + 1].kind = j.kind
      /\ [j EXCEPT !.status = "queued", !.attempt = j.attempt + 1].status = "queued"
  BY DEF JobRecords
<1>5. Retried(j) = [j EXCEPT !.status = "queued", !.attempt = j.attempt + 1]
  BY DEF Retried
<1> QED BY <1>2, <1>3, <1>4, <1>5

LEMMA EnqueuedValues ==
  ASSUME NEW kind \in Kinds
  PROVE  /\ Enqueued(kind) \in JobRecords /\ Enqueued(kind).kind = kind
         /\ Enqueued(kind).status = "queued"
  BY DEF Enqueued, JobRecords

LEMMA NotNone ==
  /\ None \notin JobRecords /\ None \notin Works /\ None \notin Reviews /\ None \notin Gates
  /\ None \notin Verdicts /\ None \notin Primes
  BY PipelineNoneAssumption

\* Only the values of t change.
OnlyJob(t) == \A u \in Units \ {t} : job'[u] = job[u]
OnlyWork(t) == \A u \in Units \ {t} : work'[u] = work[u]
OnlyTask(t) == \A u \in Tasks \ {t} : task'[u] = task[u]
OnlyReview(t) == \A u \in Tasks \ {t} : review'[u] = review[u]
OnlyGate(t) == \A u \in Tasks \ {t} : gate'[u] = gate[u]

JobType == job \in [Units -> JobRecords \cup {None}]
WorkType == work \in [Units -> Works \cup {None}]
TaskType == task \in [Tasks -> Statuses]
ReviewType == review \in [Tasks -> Reviews \cup {None}]
GateType == gate \in [Tasks -> Gates \cup {None}]

LEMMA SetTaskEffect ==
  ASSUME IInv, NEW t \in Tasks, NEW s \in Statuses, SetTask(t, s)
  PROVE  TaskType' /\ task'[t] = s /\ OnlyTask(t)
  BY DEF IInv, TypeOK, SetTask, TaskType, OnlyTask

LEMMA GotoEffect ==
  ASSUME IInv, NEW u \in Units, work[u] # None, NEW step \in Steps, Goto(u, step)
  PROVE  /\ WorkType' /\ work'[u] # None /\ work'[u] \in Works /\ work'[u].at = step
         /\ OnlyWork(u)
<1> DEFINE w == [work[u] EXCEPT !.at = step]
<1>1. work[u] \in Works
  BY DEF IInv, TypeOK
<1>2. w \in Works /\ w.at = step
  BY <1>1 DEF Works
<1>3. work' = [work EXCEPT ![u] = w]
  BY DEF Goto
<1> HIDE DEF w
<1> QED BY <1>2, <1>3, NotNone DEF IInv, TypeOK, WorkType, OnlyWork

LEMMA LeaveEffect ==
  ASSUME IInv, NEW u \in Units, Leave(u)
  PROVE  WorkType' /\ work'[u] = None /\ OnlyWork(u)
  BY DEF IInv, TypeOK, Leave, WorkType, OnlyWork

LEMMA JobEffect ==
  ASSUME IInv, NEW u \in Units, NEW j \in JobRecords, job' = [job EXCEPT ![u] = j]
  PROVE  JobType' /\ job'[u] = j /\ job'[u] # None /\ OnlyJob(u)
  BY NotNone DEF IInv, TypeOK, JobType, OnlyJob

LEMMA JobStatusEffect ==
  ASSUME IInv, NEW u \in Units, job[u] # None, NEW x \in JobStates, JobStatus(u, x)
  PROVE  /\ JobType' /\ job'[u] # None /\ job'[u].kind = job[u].kind /\ job'[u].status = x
         /\ OnlyJob(u)
<1> DEFINE j == [job[u] EXCEPT !.status = x]
<1>1. job[u] \in JobRecords
  BY DEF IInv, TypeOK
<1>2. j \in JobRecords /\ j.kind = job[u].kind /\ j.status = x
  BY <1>1, JobValues
<1>3. job' = [job EXCEPT ![u] = j]
  BY DEF JobStatus
<1> HIDE DEF j
<1> QED BY <1>2, <1>3, JobEffect

LEMMA DisposeEffect ==
  ASSUME IInv, NEW u \in Units, job[u] # None,
         Dispose(u) \/ DisposeForGood(u)
  PROVE  /\ JobType' /\ job'[u] # None /\ job'[u].kind = job[u].kind /\ OnlyJob(u)
         /\ WorkType' /\ work'[u] = None /\ OnlyWork(u)
<1>1. WorkType' /\ work'[u] = None /\ OnlyWork(u)
  BY LeaveEffect DEF Dispose, DisposeForGood
<1>2. CASE job' = [job EXCEPT ![u] = Retried(@)]
  <2>1. job[u] \in JobRecords
    BY DEF IInv, TypeOK
  <2>2. Retried(job[u]) \in JobRecords /\ Retried(job[u]).kind = job[u].kind
    BY <2>1, JobValues DEF JobStates
  <2>3. job' = [job EXCEPT ![u] = Retried(job[u])]
    BY <1>2
  <2> QED BY <1>1, <2>2, <2>3, JobEffect
<1>3. CASE JobStatus(u, "failed")
  BY <1>1, <1>3, JobStatusEffect DEF JobStates
<1> QED BY <1>2, <1>3 DEF Dispose, DisposeForGood

-----------------------------------------------------------------------------
(* A step of one task.                                                     *)

\* A task that has a worker or an active job is not being primed.
LEMMA NotPrimed ==
  ASSUME IInv, NEW t \in Tasks, work[t] # None \/ Active(t)
  PROVE  prime # None => prime.task # t
  BY DEF IInv, PrimeSafe

LEMMA CurrentWork ==
  ASSUME IInv, NEW t \in Tasks, NEW kind, NEW step, WorkerAt(t, kind, step)
  PROVE  /\ job[t] # None /\ job[t] \in JobRecords /\ job[t].kind = kind
         /\ work[t] # None /\ work[t] \in Works /\ work[t].at = step
         /\ \/ job[t].status = "running"
            \/ job[t].status = "succeeded" /\ step = "handover"
         /\ step \in StepsOf(kind) /\ kind # "release"
         /\ Safe(job[t], work[t], task[t], review[t], gate[t])
         /\ prime # None => prime.task # t
<1>1. work[t] # None /\ job[t].kind = kind /\ work[t].at = step
  BY DEF WorkerAt
<1>2. Safe(job[t], work[t], task[t], review[t], gate[t])
  BY DEF IInv, TasksSafe
<1>3. t \in Units
  BY DEF Units
<1> QED BY <1>1, <1>2, <1>3, NotPrimed DEF Safe, SafeWork, IInv, TypeOK

\* The values a step of t writes are judged alone.
LEMMA TaskStepKeeps ==
  ASSUME IInv, NEW t \in Tasks, job[t] # None, prime # None => prime.task # t,
         JobType', OnlyJob(t), job'[t] # None,
         WorkType', OnlyWork(t),
         TaskType', OnlyTask(t), task[t] = "accepted" => task'[t] = "accepted",
         ReviewType', OnlyReview(t),
         GateType', OnlyGate(t),
         Safe(job'[t], work'[t], task'[t], review'[t], gate'[t]),
         work'[t] # None /\ work'[t].at = "release" => AllAccepted,
         stage' \in Stages, stage' # stage => AllAccepted,
         UNCHANGED <<blocks, red, releaseGate, acceptance, prime, crashes>>
  PROVE  IInv'
<1>u. t \in Units /\ Tasks \subseteq Units /\ Release \in Units /\ Release # t
  BY PipelineAssumption DEF Units
<1>a. \A x \in Tasks : task[x] = "accepted" => task'[x] = "accepted"
  BY DEF OnlyTask
<1>b. AllAccepted => AllAccepted'
  BY <1>a DEF AllAccepted
<1>1. TypeOK'
  BY DEF IInv, TypeOK, JobType, WorkType, TaskType, ReviewType, GateType
<1>2. TasksSafe'
  <2> SUFFICES ASSUME NEW x \in Tasks
               PROVE  Safe(job'[x], work'[x], task'[x], review'[x], gate'[x])
    BY DEF TasksSafe
  <2>1. CASE x = t
    BY <2>1
  <2>2. CASE x # t
    <3>1. /\ job'[x] = job[x] /\ work'[x] = work[x] /\ task'[x] = task[x]
          /\ review'[x] = review[x] /\ gate'[x] = gate[x]
      BY <1>u, <2>2 DEF OnlyJob, OnlyWork, OnlyTask, OnlyReview, OnlyGate
    <3>2. Safe(job[x], work[x], task[x], review[x], gate[x])
      BY DEF IInv, TasksSafe
    <3> QED BY <3>1, <3>2
  <2> QED BY <2>1, <2>2
<1>3. ReleaseSafe'
  BY <1>u DEF IInv, ReleaseSafe, OnlyJob, OnlyWork
<1>4. PrimeSafe'
  <2>1. prime # None => prime.task \in Tasks /\ prime.task # t
    BY DEF IInv, TypeOK, Primes
  <2> QED BY <1>u, <2>1 DEF IInv, PrimeSafe, Active, OnlyJob, OnlyWork, OnlyTask
<1>5. GraphSafe'
  <2>1. blocks \subseteq Tasks \X Tasks
    BY PipelineAssumption DEF IInv, TypeOK
  <2>2. \A x \in Tasks : Started(x)' => Started(x)
    BY <1>u DEF Started, OnlyJob, OnlyTask
  <2> QED BY <1>a, <2>1, <2>2 DEF IInv, GraphSafe
<1>6. StageSafe'
  <2>1. stage' \in {"release_review", "accepted"} => AllAccepted'
    BY <1>b DEF IInv, StageSafe
  <2>2. \A x \in Tasks : work'[x] # None /\ work'[x].at = "release" => AllAccepted'
    BY <1>b, <1>u DEF IInv, StageSafe, OnlyWork
  <2> QED BY <2>1, <2>2 DEF StageSafe
<1> QED BY <1>1, <1>2, <1>3, <1>4, <1>5, <1>6 DEF IInv

-----------------------------------------------------------------------------
(* The steps of a task, one by one.                                        *)

LEMMA SameValues ==
  ASSUME IInv, NEW t \in Tasks
  PROVE  /\ UNCHANGED job => JobType' /\ OnlyJob(t) /\ job'[t] = job[t]
         /\ UNCHANGED work => WorkType' /\ OnlyWork(t) /\ work'[t] = work[t]
         /\ UNCHANGED task => TaskType' /\ OnlyTask(t) /\ task'[t] = task[t]
         /\ UNCHANGED review => ReviewType' /\ OnlyReview(t) /\ review'[t] = review[t]
         /\ UNCHANGED gate => GateType' /\ OnlyGate(t) /\ gate'[t] = gate[t]
         /\ stage \in Stages /\ t \in Units /\ task[t] \in Statuses
         /\ review[t] \in Reviews \cup {None} /\ gate[t] \in Gates \cup {None}
  BY DEF IInv, TypeOK, JobType, WorkType, TaskType, ReviewType, GateType, OnlyJob, OnlyWork,
         OnlyTask, OnlyReview, OnlyGate, Units

LEMMA ReviewValues ==
  ASSUME NEW r \in Reviews
  PROVE  /\ r.verdict \in Verdicts \cup {None}
         /\ \A v \in Verdicts : [r EXCEPT !.verdict = v] \in Reviews
                              /\ [r EXCEPT !.verdict = v].verdict = v
         /\ [r EXCEPT !.applied = TRUE] \in Reviews
         /\ [r EXCEPT !.applied = TRUE].verdict = r.verdict
  BY DEF Reviews

LEMMA ReviewEffect ==
  ASSUME IInv, NEW t \in Tasks, NEW r \in Reviews \cup {None}, review' = [review EXCEPT ![t] = r]
  PROVE  ReviewType' /\ review'[t] = r /\ OnlyReview(t)
  BY DEF IInv, TypeOK, ReviewType, OnlyReview

LEMMA GateEffect ==
  ASSUME IInv, NEW t \in Tasks, NEW g \in Gates \cup {None}, gate' = [gate EXCEPT ![t] = g]
  PROVE  GateType' /\ gate'[t] = g /\ OnlyGate(t)
  BY DEF IInv, TypeOK, GateType, OnlyGate

LEMMA SupersededGateEffect ==
  ASSUME IInv, NEW t \in Tasks,
         gate' = [gate EXCEPT ![t] = IF @ = None THEN None ELSE [@ EXCEPT !.current = FALSE]]
  PROVE  GateType' /\ OnlyGate(t)
<1> DEFINE g == IF gate[t] = None THEN None ELSE [gate[t] EXCEPT !.current = FALSE]
<1>1. gate[t] \in Gates \cup {None}
  BY DEF IInv, TypeOK
<1>2. g \in Gates \cup {None}
  BY <1>1 DEF Gates
<1>3. gate' = [gate EXCEPT ![t] = g]
  OBVIOUS
<1> HIDE DEF g
<1> QED BY <1>2, <1>3, GateEffect

LEMMA StartStep == ASSUME IInv, NEW t \in Tasks, Start(t) PROVE IInv'
<1>1. job[t] # None /\ job[t].status = "queued" /\ Active(t)
  BY DEF Start, Active
<1>2. prime # None => prime.task # t
  BY <1>1, NotPrimed
<1>3. /\ JobType' /\ OnlyJob(t) /\ job'[t] # None /\ job'[t].kind = job[t].kind
      /\ job'[t].status = "running"
  BY <1>1, JobStatusEffect DEF Start, JobStates, Units
<1> DEFINE w == [at |-> "begin", seen |-> None]
<1>4. w \in Works /\ w.at = "begin"
  BY DEF Works, Steps
<1>5. work' = [work EXCEPT ![t] = w]
  BY DEF Start
<1> HIDE DEF w
<1>6. WorkType' /\ OnlyWork(t) /\ work'[t] # None /\ work'[t].at = "begin"
  BY <1>4, <1>5, NotNone DEF IInv, TypeOK, WorkType, OnlyWork, Units
<1>7. Safe(job'[t], work'[t], task'[t], review'[t], gate'[t])
  <2>1. Safe(job[t], work[t], task[t], review[t], gate[t])
    BY DEF IInv, TasksSafe
  <2>2. "begin" \in StepsOf(job[t].kind)
    BY DEF StepsOf
  <2> QED BY <1>1, <1>3, <1>6, <2>1, <2>2
          DEF Start, Safe, SafeWork, SafeExecution, SafeRequest, SafeFinalize, reviews
<1> QED BY <1>1, <1>2, <1>3, <1>6, <1>7, SameValues, TaskStepKeeps DEF Start, reviews, releases

LEMMA ExecuteBeginStep == ASSUME IInv, NEW t \in Tasks, ExecuteBegin(t) PROVE IInv'
<1>1. WorkerAt(t, "execution", "begin")
  BY DEF ExecuteBegin
<1>2. /\ job[t] # None /\ job[t] \in JobRecords /\ work[t] # None /\ t \in Units
      /\ Safe(job[t], work[t], task[t], review[t], gate[t])
      /\ prime # None => prime.task # t
  BY <1>1, CurrentWork, SameValues
<1>3. /\ WorkType' /\ OnlyWork(t) /\ work'[t] # None /\ work'[t].at = "execute"
      /\ TaskType' /\ OnlyTask(t) /\ task'[t] = "implementation_in_progress"
      /\ task[t] # "accepted"
  BY <1>2, GotoEffect, SetTaskEffect DEF ExecuteBegin, ExecutionReady, MarkImplementationStarted, Steps, Statuses
<1>4. Safe(job'[t], work'[t], task'[t], review'[t], gate'[t])
  BY <1>1, <1>2, <1>3, CurrentWork, SameValues
     DEF ExecuteBegin, Safe, SafeWork, SafeExecution, SafeRequest, SafeFinalize, SafeAccepted, StepsOf, After, reviews
<1> QED BY <1>1, <1>2, <1>3, <1>4, SameValues, TaskStepKeeps DEF ExecuteBegin, reviews, releases

LEMMA ExecuteSucceedsStep == ASSUME IInv, NEW t \in Tasks, ExecuteSucceeds(t) PROVE IInv'
<1>1. WorkerAt(t, "execution", "execute")
  BY DEF ExecuteSucceeds
<1>2. /\ job[t] # None /\ job[t] \in JobRecords /\ work[t] # None /\ t \in Units
      /\ Safe(job[t], work[t], task[t], review[t], gate[t])
      /\ prime # None => prime.task # t
  BY <1>1, CurrentWork, SameValues
<1>3. /\ WorkType' /\ OnlyWork(t) /\ work'[t] # None /\ work'[t].at = "submit"
      /\ TaskType' /\ OnlyTask(t) /\ task'[t] = "tests_green"
      /\ task[t] # "accepted"
      /\ ReviewType' /\ OnlyReview(t)
      /\ GateType' /\ OnlyGate(t)
  BY <1>2, GotoEffect, SetTaskEffect, ReviewEffect, SupersededGateEffect
     DEF ExecuteSucceeds, MarkTestsGreen, MayMove, Allowed, Steps, Statuses
<1>4. Safe(job'[t], work'[t], task'[t], review'[t], gate'[t])
  BY <1>1, <1>2, <1>3, CurrentWork, SameValues
     DEF ExecuteSucceeds, Safe, SafeWork, SafeExecution, SafeRequest, SafeFinalize, SafeAccepted, StepsOf, After, reviews
<1> QED BY <1>1, <1>2, <1>3, <1>4, SameValues, TaskStepKeeps DEF ExecuteSucceeds, reviews, releases

LEMMA ExecuteFailsStep == ASSUME IInv, NEW t \in Tasks, ExecuteFails(t) PROVE IInv'
<1>1. WorkerAt(t, "execution", "execute")
  BY DEF ExecuteFails
<1>2. /\ job[t] # None /\ job[t] \in JobRecords /\ work[t] # None /\ t \in Units
      /\ Safe(job[t], work[t], task[t], review[t], gate[t])
      /\ prime # None => prime.task # t
  BY <1>1, CurrentWork, SameValues
<1>3. /\ JobType' /\ OnlyJob(t) /\ job'[t] # None /\ job'[t].kind = job[t].kind
      /\ WorkType' /\ OnlyWork(t) /\ work'[t] = None
  BY <1>2, DisposeEffect DEF ExecuteFails
<1>4. Safe(job'[t], work'[t], task'[t], review'[t], gate'[t])
  BY <1>1, <1>2, <1>3, CurrentWork, SameValues
     DEF ExecuteFails, Safe, SafeWork, SafeExecution, SafeRequest, SafeFinalize, SafeAccepted, StepsOf, After, reviews
<1> QED BY <1>1, <1>2, <1>3, <1>4, SameValues, TaskStepKeeps DEF ExecuteFails, reviews, releases

LEMMA SubmitForReviewStep == ASSUME IInv, NEW t \in Tasks, SubmitForReview(t) PROVE IInv'
<1>1. WorkerAt(t, "execution", "submit")
  BY DEF SubmitForReview
<1>2. /\ job[t] # None /\ job[t] \in JobRecords /\ work[t] # None /\ t \in Units
      /\ Safe(job[t], work[t], task[t], review[t], gate[t])
      /\ prime # None => prime.task # t
  BY <1>1, CurrentWork, SameValues
<1>3. /\ WorkType' /\ OnlyWork(t) /\ work'[t] # None /\ work'[t].at = "succeed"
      /\ TaskType' /\ OnlyTask(t) /\ task'[t] = "review_pending" /\ task[t] # "accepted"
  BY <1>1, <1>2, CurrentWork, GotoEffect, SetTaskEffect
     DEF SubmitForReview, Steps, Statuses, Safe, SafeExecution
<1>4. Safe(job'[t], work'[t], task'[t], review'[t], gate'[t])
  BY <1>1, <1>2, <1>3, CurrentWork, SameValues
     DEF SubmitForReview, Safe, SafeWork, SafeExecution, SafeRequest, SafeFinalize, SafeAccepted, StepsOf, After, reviews
<1> QED BY <1>1, <1>2, <1>3, <1>4, SameValues, TaskStepKeeps DEF SubmitForReview, reviews, releases

LEMMA MarkSucceededStep == ASSUME IInv, NEW t \in Tasks, MarkSucceeded(t) PROVE IInv'
<1>1. WorkerAt(t, "execution", "succeed") \/ WorkerAt(t, "request", "succeed")
  BY DEF MarkSucceeded
<1>2. /\ job[t] # None /\ job[t] \in JobRecords /\ work[t] # None /\ t \in Units
      /\ Safe(job[t], work[t], task[t], review[t], gate[t])
      /\ prime # None => prime.task # t
  BY <1>1, CurrentWork, SameValues
<1>3. /\ WorkType' /\ OnlyWork(t) /\ work'[t] # None /\ work'[t].at = "handover"
      /\ JobType' /\ OnlyJob(t) /\ job'[t] # None /\ job'[t].kind = job[t].kind
      /\ job'[t].status = "succeeded"
  BY <1>2, GotoEffect, JobStatusEffect DEF MarkSucceeded, Steps, JobStates
<1>4. Safe(job'[t], work'[t], task'[t], review'[t], gate'[t])
  BY <1>1, <1>2, <1>3, CurrentWork, SameValues
     DEF MarkSucceeded, Safe, SafeWork, SafeExecution, SafeRequest, SafeFinalize, SafeAccepted, StepsOf, After, reviews
<1> QED BY <1>1, <1>2, <1>3, <1>4, SameValues, TaskStepKeeps DEF MarkSucceeded, reviews, releases

LEMMA EnqueueNextStep == ASSUME IInv, NEW t \in Tasks, EnqueueNext(t) PROVE IInv'
<1> DEFINE kind == IF job[t].kind = "execution" THEN "request" ELSE "finalize"
<1>1. WorkerAt(t, "execution", "handover") \/ WorkerAt(t, "request", "handover")
  BY DEF EnqueueNext
<1>2. /\ job[t] # None /\ work[t] # None /\ t \in Units
      /\ job[t].kind = "execution" \/ job[t].kind = "request"
      /\ work[t].at = "handover"
      /\ Safe(job[t], work[t], task[t], review[t], gate[t])
      /\ prime # None => prime.task # t
  BY <1>1, CurrentWork, SameValues
<1>3. /\ Enqueued(kind) \in JobRecords /\ Enqueued(kind).kind = kind
      /\ Enqueued(kind).status = "queued"
  BY EnqueuedValues DEF Kinds
<1>4. /\ JobType' /\ OnlyJob(t) /\ job'[t] # None /\ job'[t].kind = kind
      /\ WorkType' /\ OnlyWork(t) /\ work'[t] = None
  BY <1>2, <1>3, JobEffect, LeaveEffect DEF EnqueueNext
<1>5. task[t] = "review_pending" /\ (job[t].kind = "request" => review[t] # None)
  BY <1>2 DEF Safe, SafeExecution, SafeRequest
<1>6. task'[t] = task[t] /\ review'[t] = review[t] /\ gate'[t] = gate[t]
  BY SameValues DEF EnqueueNext, reviews
<1>7. Safe(job'[t], work'[t], task'[t], review'[t], gate'[t])
  BY <1>2, <1>4, <1>5, <1>6
     DEF Safe, SafeWork, SafeExecution, SafeRequest, SafeFinalize, SafeAccepted, After
<1>8. /\ TaskType' /\ OnlyTask(t) /\ ReviewType' /\ OnlyReview(t) /\ GateType' /\ OnlyGate(t)
      /\ stage' \in Stages /\ UNCHANGED <<stage, blocks, red, releaseGate, acceptance, prime, crashes>>
  BY SameValues DEF EnqueueNext, reviews, releases
<1> HIDE DEF kind
<1> QED BY <1>2, <1>4, <1>6, <1>7, <1>8, TaskStepKeeps

LEMMA RequestReviewStep == ASSUME IInv, NEW t \in Tasks, RequestReview(t) PROVE IInv'
<1>1. WorkerAt(t, "request", "begin") /\ task[t] # "accepted"
  BY DEF RequestReview
<1>2. /\ job[t] # None /\ job[t] \in JobRecords /\ work[t] # None /\ t \in Units
      /\ job[t].kind = "request"
      /\ Safe(job[t], work[t], task[t], review[t], gate[t])
      /\ prime # None => prime.task # t
  BY <1>1, CurrentWork, SameValues
<1>3. /\ WorkType' /\ OnlyWork(t) /\ work'[t] # None /\ work'[t].at = "succeed"
      /\ TaskType' /\ OnlyTask(t) /\ task'[t] = "review_pending"
  BY <1>2, GotoEffect, SetTaskEffect DEF RequestReview, Steps, Statuses
<1>4. /\ ReviewType' /\ OnlyReview(t) /\ review'[t] # None
      /\ GateType' /\ OnlyGate(t)
  <2>1. CASE review[t] = None \/ review[t] = [verdict |-> "incomplete", applied |-> TRUE]
    <3> DEFINE r == [verdict |-> None, applied |-> FALSE]
    <3>1. r \in Reviews
      BY DEF Reviews
    <3>2. review' = [review EXCEPT ![t] = r]
      BY <2>1 DEF RequestReview
    <3> HIDE DEF r
    <3>3. GateType' /\ OnlyGate(t)
      BY <2>1, SupersededGateEffect DEF RequestReview
    <3> QED BY <3>1, <3>2, <3>3, ReviewEffect, NotNone
  <2>2. CASE ~(review[t] = None \/ review[t] = [verdict |-> "incomplete", applied |-> TRUE])
    BY <2>2, SameValues DEF RequestReview, reviews
  <2> QED BY <2>1, <2>2
<1>5. /\ JobType' /\ OnlyJob(t) /\ job'[t] = job[t] /\ job[t].status = "running"
      /\ stage' \in Stages /\ UNCHANGED <<stage, blocks, red, releaseGate, acceptance, prime, crashes>>
  BY <1>1, CurrentWork, SameValues DEF RequestReview, releases
<1>6. "succeed" \in StepsOf("request")
  BY DEF StepsOf
<1>7. Safe(job'[t], work'[t], task'[t], review'[t], gate'[t])
  BY <1>2, <1>3, <1>4, <1>5, <1>6
     DEF Safe, SafeWork, SafeExecution, SafeRequest, SafeFinalize, SafeAccepted
<1> QED BY <1>1, <1>2, <1>3, <1>4, <1>5, <1>7, TaskStepKeeps

LEMMA FinalizeBeginStep == ASSUME IInv, NEW t \in Tasks, FinalizeBegin(t) PROVE IInv'
<1> DEFINE w == [at |-> "verdict", seen |-> task[t]]
<1>1. WorkerAt(t, "finalize", "begin")
  BY DEF FinalizeBegin
<1>2. /\ job[t] # None /\ job[t] \in JobRecords /\ work[t] # None /\ t \in Units
      /\ Safe(job[t], work[t], task[t], review[t], gate[t])
      /\ prime # None => prime.task # t
  BY <1>1, CurrentWork, SameValues
<1>3. w \in Works /\ w.at = "verdict" /\ work' = [work EXCEPT ![t] = w]
  BY SameValues DEF Works, Steps, FinalizeBegin
<1> HIDE DEF w
<1>4. WorkType' /\ OnlyWork(t) /\ work'[t] # None /\ work'[t].at = "verdict"
  BY <1>2, <1>3, NotNone DEF IInv, TypeOK, WorkType, OnlyWork
<1>5. Safe(job'[t], work'[t], task'[t], review'[t], gate'[t])
  BY <1>1, <1>2, <1>4, CurrentWork, SameValues
     DEF FinalizeBegin, Safe, SafeWork, SafeExecution, SafeRequest, SafeFinalize, SafeAccepted,
         StepsOf, After, reviews
<1> QED BY <1>1, <1>2, <1>4, <1>5, SameValues, TaskStepKeeps DEF FinalizeBegin, reviews, releases

LEMMA SaveVerdictStep == ASSUME IInv, NEW t \in Tasks, SaveVerdict(t) PROVE IInv'
<1>1. WorkerAt(t, "finalize", "verdict")
  BY DEF SaveVerdict
<1>2. /\ job[t] # None /\ job[t] \in JobRecords /\ work[t] # None /\ t \in Units
      /\ job[t].kind = "finalize"
      /\ Safe(job[t], work[t], task[t], review[t], gate[t])
      /\ prime # None => prime.task # t
  BY <1>1, CurrentWork, SameValues
<1>3. WorkType' /\ OnlyWork(t) /\ work'[t] # None /\ work'[t].at = "gate"
  BY <1>2, GotoEffect DEF SaveVerdict, Steps
<1>4. review[t] \in Reviews /\ review[t] # None /\ task[t] \in After(review[t].verdict)
  BY <1>2, SameValues DEF Safe, SafeFinalize
<1>5. /\ ReviewType' /\ OnlyReview(t) /\ review'[t] # None /\ review'[t].verdict # None
      /\ task[t] \in After(review'[t].verdict)
      /\ task[t] = "accepted" => review'[t] = review[t]
  <2>1. CASE review[t].verdict \in {None, "incomplete"}
    <3>1. PICK v \in Verdicts : review' = [review EXCEPT ![t].verdict = v]
      BY <2>1 DEF SaveVerdict
    <3> DEFINE r == [review[t] EXCEPT !.verdict = v]
    <3>2. r \in Reviews /\ r.verdict = v
      BY <1>4, ReviewValues
    <3>3. review' = [review EXCEPT ![t] = r]
      BY <3>1
    <3> HIDE DEF r
    <3>4. task[t] = "review_pending"
      BY <1>4, <2>1, NotNone DEF After, Verdicts
    <3>5. task[t] \in After(v)
      BY <3>4 DEF After
    <3> QED BY <3>2, <3>3, <3>4, <3>5, ReviewEffect, NotNone
  <2>2. CASE review[t].verdict \notin {None, "incomplete"}
    BY <1>4, <2>2, SameValues DEF SaveVerdict
  <2> QED BY <2>1, <2>2
<1>6. /\ job'[t] = job[t] /\ task'[t] = task[t] /\ gate'[t] = gate[t]
      /\ JobType' /\ OnlyJob(t) /\ TaskType' /\ OnlyTask(t) /\ GateType' /\ OnlyGate(t)
  BY SameValues DEF SaveVerdict
<1>7. Safe(job'[t], work'[t], task'[t], review'[t], gate'[t])
  BY <1>1, <1>2, <1>3, <1>5, <1>6, CurrentWork
     DEF Safe, SafeWork, SafeExecution, SafeRequest, SafeFinalize, SafeAccepted, StepsOf
<1> QED BY <1>2, <1>3, <1>5, <1>6, <1>7, SameValues, TaskStepKeeps DEF SaveVerdict, releases

LEMMA RecordGateStep == ASSUME IInv, NEW t \in Tasks, RecordGate(t) PROVE IInv'
<1> DEFINE g == [verdict |-> review[t].verdict, current |-> TRUE]
<1>1. WorkerAt(t, "finalize", "gate")
  BY DEF RecordGate
<1>2. /\ job[t] # None /\ job[t] \in JobRecords /\ work[t] # None /\ t \in Units
      /\ job[t].kind = "finalize" /\ work[t].at = "gate"
      /\ Safe(job[t], work[t], task[t], review[t], gate[t])
      /\ prime # None => prime.task # t
  BY <1>1, CurrentWork, SameValues
<1>3. /\ review[t] \in Reviews /\ review[t] # None /\ review[t].verdict # None
      /\ review[t].verdict \in Verdicts
  BY <1>2, SameValues, ReviewValues DEF Safe, SafeFinalize
<1>4. g \in Gates /\ g.verdict = review[t].verdict
  BY <1>3 DEF Gates
<1>5. /\ GateType' /\ OnlyGate(t) /\ gate'[t] = g
      /\ WorkType' /\ OnlyWork(t) /\ work'[t] # None /\ work'[t].at \in {"accept", "outcome"}
  <2>1. CASE gate[t] = g
    <3> DEFINE w == [at |-> "accept", seen |-> task[t]]
    <3>1. w \in Works /\ w.at = "accept" /\ work' = [work EXCEPT ![t] = w]
      BY <2>1, SameValues DEF Works, Steps, RecordGate
    <3> HIDE DEF w
    <3>2. UNCHANGED gate
      BY <2>1 DEF RecordGate
    <3> QED BY <1>2, <2>1, <3>1, <3>2, NotNone, SameValues DEF IInv, TypeOK, WorkType, OnlyWork
  <2>2. CASE gate[t] # g
    <3>1. gate' = [gate EXCEPT ![t] = g] /\ Goto(t, "outcome")
      BY <2>2 DEF RecordGate
    <3> HIDE DEF g
    <3> QED BY <1>2, <1>4, <3>1, GateEffect, GotoEffect DEF Steps
  <2> QED BY <2>1, <2>2
<1>6. /\ job'[t] = job[t] /\ task'[t] = task[t] /\ review'[t] = review[t]
      /\ JobType' /\ OnlyJob(t) /\ TaskType' /\ OnlyTask(t) /\ ReviewType' /\ OnlyReview(t)
  BY SameValues DEF RecordGate
<1>7. task[t] = "accepted" => g = Approved
  BY <1>2 DEF Safe, SafeAccepted, Approved
<1>8. Safe(job'[t], work'[t], task'[t], review'[t], gate'[t])
  BY <1>1, <1>2, <1>3, <1>5, <1>6, <1>7, CurrentWork
     DEF Safe, SafeWork, SafeExecution, SafeRequest, SafeFinalize, SafeAccepted, StepsOf
<1> QED BY <1>2, <1>5, <1>6, <1>8, SameValues, TaskStepKeeps DEF RecordGate, releases

\* Where the worker of a finalize job is past the gate.
LEMMA PastGate ==
  ASSUME IInv, NEW t \in Tasks, NEW step, WorkerAt(t, "finalize", step),
         step \notin {"begin", "verdict", "gate"}
  PROVE  /\ job[t] # None /\ job[t] \in JobRecords /\ work[t] # None /\ t \in Units
         /\ job[t].kind = "finalize" /\ job[t].status = "running" /\ work[t].at = step
         /\ review[t] \in Reviews /\ review[t] # None /\ review[t].verdict # None
         /\ task[t] \in After(review[t].verdict)
         /\ gate[t] = [verdict |-> review[t].verdict, current |-> TRUE]
         /\ SafeAccepted(task[t], review[t], gate[t])
         /\ prime # None => prime.task # t
<1>1. Safe(job[t], work[t], task[t], review[t], gate[t])
  BY CurrentWork
<1>2. job[t] # None /\ job[t].kind = "finalize" /\ work[t] # None /\ work[t].at = step
  BY CurrentWork
<1>3. step \in StepsOf("finalize")
  BY CurrentWork
<1>4. step # "handover"
  BY <1>3 DEF StepsOf
<1> QED BY <1>1, <1>2, <1>4, CurrentWork, SameValues DEF Safe, SafeFinalize

\* What such a worker has to keep.
LEMMA PastGateKeeps ==
  ASSUME IInv, NEW t \in Tasks, NEW step, WorkerAt(t, "finalize", step),
         step \notin {"begin", "verdict", "gate"},
         JobType', OnlyJob(t), job'[t] # None, job'[t].kind = "finalize",
         WorkType', OnlyWork(t),
         TaskType', OnlyTask(t), task[t] = "accepted" => task'[t] = "accepted",
         ReviewType', OnlyReview(t), review'[t] # None, review'[t].verdict = review[t].verdict,
         task'[t] \in After(review[t].verdict),
         UNCHANGED gate,
         work'[t] # None =>
           /\ work'[t].at \in {"accept", "advance", "release", "apply", "settle"}
           /\ job'[t].status = "running"
           /\ work'[t].at = "release" => AllAccepted,
         stage' \in Stages, stage' # stage => AllAccepted,
         UNCHANGED <<blocks, red, releaseGate, acceptance, prime, crashes>>
  PROVE  IInv'
<1>1. job[t] # None /\ (prime # None => prime.task # t)
  BY PastGate
<1>2. /\ review[t].verdict # None /\ gate[t] = [verdict |-> review[t].verdict, current |-> TRUE]
      /\ SafeAccepted(task[t], review[t], gate[t])
  BY PastGate
<1>3. GateType' /\ OnlyGate(t) /\ gate'[t] = gate[t]
  BY SameValues
<1>4. task'[t] = "accepted" => review[t].verdict = "approved"
  BY DEF After
<1>5. Safe(job'[t], work'[t], task'[t], review'[t], gate'[t])
  BY <1>2, <1>3, <1>4
     DEF Safe, SafeWork, SafeExecution, SafeRequest, SafeFinalize, SafeAccepted, StepsOf, Approved
<1>6. work'[t] # None /\ work'[t].at = "release" => AllAccepted
  OBVIOUS
<1> QED BY <1>1, <1>3, <1>5, <1>6, TaskStepKeeps

LEMMA ApplyOutcomeStep == ASSUME IInv, NEW t \in Tasks, ApplyOutcome(t) PROVE IInv'
<1>1. WorkerAt(t, "finalize", "outcome")
  BY DEF ApplyOutcome
<1>2. /\ job[t] # None /\ job[t].kind = "finalize" /\ job[t].status = "running" /\ t \in Units
      /\ work[t] # None /\ work[t].at = "outcome" /\ review[t] \in Reviews /\ review[t] # None
      /\ review[t].verdict # None /\ task[t] \in After(review[t].verdict)
  BY <1>1, PastGate
<1>3. /\ WorkType' /\ OnlyWork(t) /\ work'[t] # None /\ work'[t].at = "accept"
      /\ TaskType' /\ OnlyTask(t) /\ task'[t] \in After(review[t].verdict)
      /\ task[t] = "accepted" => task'[t] = "accepted"
  <2>1. WorkType' /\ OnlyWork(t) /\ work'[t] # None /\ work'[t].at = "accept"
    BY <1>2, GotoEffect DEF ApplyOutcome, Steps
  <2>2. CASE review[t].verdict = "changes_requested"
    <3>1. OutcomeOf(review[t].verdict) = "implementation_in_progress"
      BY <2>2 DEF OutcomeOf
    <3>2. SetTask(t, "implementation_in_progress")
      BY <3>1 DEF ApplyOutcome, ReopenImplementationAfterReview
    <3> QED BY <1>2, <2>1, <2>2, <3>2, SetTaskEffect DEF After, Statuses
  <2>3. CASE review[t].verdict = "rejected"
    <3>1. OutcomeOf(review[t].verdict) = "rejected"
      BY <2>3 DEF OutcomeOf
    <3>2. SetTask(t, "rejected")
      BY <3>1 DEF ApplyOutcome, RejectTask
    <3> QED BY <1>2, <2>1, <2>3, <3>2, SetTaskEffect DEF After, Statuses
  <2>4. CASE review[t].verdict \notin {"changes_requested", "rejected"}
    <3>1. OutcomeOf(review[t].verdict) = None
      BY <2>4 DEF OutcomeOf
    <3>2. None \notin Statuses
      BY PipelineNoneAssumption
    <3>3. UNCHANGED task
      BY <3>1, <3>2 DEF ApplyOutcome, Statuses
    <3> QED BY <1>2, <2>1, <3>3, SameValues
  <2> QED BY <2>2, <2>3, <2>4
<1> QED BY <1>1, <1>2, <1>3, PastGateKeeps, SameValues DEF ApplyOutcome, reviews, releases

LEMMA AcceptTaskStep == ASSUME IInv, NEW t \in Tasks, AcceptTask(t) PROVE IInv'
<1>1. WorkerAt(t, "finalize", "accept")
  BY DEF AcceptTask
<1>2. /\ job[t] # None /\ job[t].kind = "finalize" /\ job[t].status = "running" /\ t \in Units
      /\ work[t] # None /\ work[t].at = "accept" /\ review[t] \in Reviews /\ review[t] # None
      /\ review[t].verdict # None /\ task[t] \in After(review[t].verdict)
  BY <1>1, PastGate
<1>3. /\ WorkType' /\ OnlyWork(t) /\ work'[t] # None /\ work'[t].at \in {"advance", "apply"}
      /\ TaskType' /\ OnlyTask(t) /\ task'[t] \in After(review[t].verdict)
      /\ task[t] = "accepted" => task'[t] = "accepted"
  <2>1. CASE review[t].verdict = "approved" /\ work[t].seen # "accepted"
    BY <1>2, <2>1, GotoEffect, SetTaskEffect
       DEF AcceptTask, AcceptEnvelope, Steps, Statuses, After
  <2>2. CASE ~(review[t].verdict = "approved" /\ work[t].seen # "accepted")
    BY <1>2, <2>2, GotoEffect, SameValues DEF AcceptTask, Steps
  <2> QED BY <2>1, <2>2
<1> QED BY <1>1, <1>2, <1>3, PastGateKeeps, SameValues DEF AcceptTask, reviews, releases

LEMMA AdvanceRunStep == ASSUME IInv, NEW t \in Tasks, AdvanceRun(t) PROVE IInv'
<1>1. WorkerAt(t, "finalize", "advance")
  BY DEF AdvanceRun
<1>2. /\ job[t] # None /\ job[t].kind = "finalize" /\ job[t].status = "running" /\ t \in Units
      /\ work[t] # None /\ work[t].at = "advance" /\ review[t] \in Reviews /\ review[t] # None
      /\ review[t].verdict # None /\ task[t] \in After(review[t].verdict)
  BY <1>1, PastGate
<1>3. /\ WorkType' /\ OnlyWork(t) /\ work'[t] # None /\ work'[t].at \in {"release", "apply"}
      /\ work'[t].at = "release" => AllAccepted
  <2>1. CASE stage = "task_execution" /\ AllAccepted
    BY <1>2, <2>1, GotoEffect DEF AdvanceRun, Steps
  <2>2. CASE ~(stage = "task_execution" /\ AllAccepted)
    BY <1>2, <2>2, GotoEffect DEF AdvanceRun, Steps
  <2> QED BY <2>1, <2>2
<1> QED BY <1>1, <1>2, <1>3, PastGateKeeps, SameValues DEF AdvanceRun, reviews, releases

LEMMA SaveReleaseReviewStep == ASSUME IInv, NEW t \in Tasks, SaveReleaseReview(t) PROVE IInv'
<1>1. WorkerAt(t, "finalize", "release")
  BY DEF SaveReleaseReview
<1>2. /\ job[t] # None /\ job[t].kind = "finalize" /\ job[t].status = "running" /\ t \in Units
      /\ work[t] # None /\ work[t].at = "release" /\ review[t] \in Reviews /\ review[t] # None
      /\ review[t].verdict # None /\ task[t] \in After(review[t].verdict)
  BY <1>1, PastGate
<1>3. /\ WorkType' /\ OnlyWork(t) /\ work'[t] # None /\ work'[t].at = "apply"
      /\ AllAccepted
      /\ stage' \in Stages
  <2>1. AllAccepted
    BY <1>2 DEF IInv, StageSafe
  <2> QED BY <1>2, <2>1, GotoEffect DEF SaveReleaseReview, Steps, Stages
<1> QED BY <1>1, <1>2, <1>3, PastGateKeeps, SameValues DEF SaveReleaseReview, reviews, releases

LEMMA MarkReviewAppliedStep == ASSUME IInv, NEW t \in Tasks, MarkReviewApplied(t) PROVE IInv'
<1>1. WorkerAt(t, "finalize", "apply")
  BY DEF MarkReviewApplied
<1>2. /\ job[t] # None /\ job[t].kind = "finalize" /\ job[t].status = "running" /\ t \in Units
      /\ work[t] # None /\ work[t].at = "apply" /\ review[t] \in Reviews /\ review[t] # None
      /\ review[t].verdict # None /\ task[t] \in After(review[t].verdict)
  BY <1>1, PastGate
<1>3. /\ WorkType' /\ OnlyWork(t) /\ work'[t] # None /\ work'[t].at = "settle"
      /\ ReviewType' /\ OnlyReview(t) /\ review'[t] # None
      /\ review'[t].verdict = review[t].verdict
  <2> DEFINE r == [review[t] EXCEPT !.applied = TRUE]
  <2>1. r \in Reviews /\ r.verdict = review[t].verdict
    BY <1>2, ReviewValues
  <2>2. review' = [review EXCEPT ![t] = r]
    BY DEF MarkReviewApplied
  <2> HIDE DEF r
  <2>3. ReviewType' /\ OnlyReview(t) /\ review'[t] = r
    BY <2>1, <2>2, ReviewEffect
  <2>4. WorkType' /\ OnlyWork(t) /\ work'[t] # None /\ work'[t].at = "settle"
    BY <1>2, GotoEffect DEF MarkReviewApplied, Steps
  <2> QED BY <2>1, <2>3, <2>4, NotNone
<1> QED BY <1>1, <1>2, <1>3, PastGateKeeps, SameValues DEF MarkReviewApplied, reviews, releases

LEMMA CompleteReviewJobStep == ASSUME IInv, NEW t \in Tasks, CompleteReviewJob(t) PROVE IInv'
<1>1. WorkerAt(t, "finalize", "settle")
  BY DEF CompleteReviewJob
<1>2. /\ job[t] # None /\ job[t].kind = "finalize" /\ job[t].status = "running" /\ t \in Units
      /\ work[t] # None /\ work[t].at = "settle" /\ review[t] \in Reviews /\ review[t] # None
      /\ review[t].verdict # None /\ task[t] \in After(review[t].verdict)
  BY <1>1, PastGate
<1>3. /\ JobType' /\ OnlyJob(t) /\ job'[t] # None /\ job'[t].kind = "finalize"
      /\ WorkType' /\ OnlyWork(t) /\ work'[t] = None
  <2>1. CASE review[t].verdict = "approved"
    BY <1>2, <2>1, JobStatusEffect, LeaveEffect DEF CompleteReviewJob, JobStates
  <2>2. CASE review[t].verdict # "approved"
    BY <1>2, <2>2, DisposeEffect DEF CompleteReviewJob, ForReviewFailure
  <2> QED BY <2>1, <2>2
<1> QED BY <1>1, <1>2, <1>3, PastGateKeeps, SameValues DEF CompleteReviewJob, reviews, releases

LEMMA ReviewJobFailsStep == ASSUME IInv, NEW t \in Tasks, ReviewJobFails(t) PROVE IInv'
<1>1. WorkerAt(t, "request", "begin") \/ WorkerAt(t, "finalize", "verdict")
  BY DEF ReviewJobFails
<1>2. /\ job[t] # None /\ job[t] \in JobRecords /\ work[t] # None /\ t \in Units
      /\ Safe(job[t], work[t], task[t], review[t], gate[t])
      /\ prime # None => prime.task # t
  BY <1>1, CurrentWork, SameValues
<1>3. /\ JobType' /\ OnlyJob(t) /\ job'[t] # None /\ job'[t].kind = job[t].kind
      /\ WorkType' /\ OnlyWork(t) /\ work'[t] = None
  BY <1>2, DisposeEffect DEF ReviewJobFails, ForJobError
<1>4. Safe(job'[t], work'[t], task'[t], review'[t], gate'[t])
  BY <1>1, <1>2, <1>3, CurrentWork, SameValues
     DEF ReviewJobFails, Safe, SafeWork, SafeExecution, SafeRequest, SafeFinalize, SafeAccepted,
         StepsOf, After, reviews
<1> QED BY <1>1, <1>2, <1>3, <1>4, SameValues, TaskStepKeeps DEF ReviewJobFails, reviews, releases

-----------------------------------------------------------------------------
(* The steps of the scheduler, of the release and of the process.          *)

\* A step of the scheduler changes the status of the task it primes, or enqueues a job.
LEMMA ScheduleStepKeeps ==
  ASSUME IInv, NEW t \in Tasks, work[t] = None, ~Active(t),
         task[t] \in Preparable, DependenciesAccepted(t),
         JobType', OnlyJob(t),
         \/ job'[t] = job[t]
         \/ prime' = None /\ job'[t] # None /\ job'[t].kind = "execution",
         TaskType', OnlyTask(t), task'[t] \in Preparable,
         task'[t] # task[t] => job[t] = None \/ job[t].kind = "execution",
         prime' \in Primes \cup {None}, prime' # None => prime'.task = t,
         stage' \in {stage, "task_execution"},
         red' \subseteq Tasks,
         UNCHANGED <<blocks, review, gate, releaseGate, acceptance, work, crashes>>
  PROVE  IInv'
<1>u. t \in Units /\ Tasks \subseteq Units /\ Release \in Units /\ Release # t
  BY PipelineAssumption DEF Units
<1>a. \A x \in Tasks : task[x] = "accepted" => task'[x] = "accepted"
  BY DEF OnlyTask, Preparable
<1>b. AllAccepted => AllAccepted'
  BY <1>a DEF AllAccepted
<1>1. TypeOK'
  BY DEF IInv, TypeOK, JobType, TaskType, Stages
<1>2. TasksSafe'
  <2> SUFFICES ASSUME NEW x \in Tasks
               PROVE  Safe(job'[x], work'[x], task'[x], review'[x], gate'[x])
    BY DEF TasksSafe
  <2>0. Safe(job[x], work[x], task[x], review[x], gate[x])
    BY DEF IInv, TasksSafe
  <2>1. CASE x = t
    <3>1. work'[t] = None /\ task'[t] # "accepted" /\ task[t] # "accepted"
      BY DEF Preparable
    <3>2. job'[t] # None /\ job'[t].kind \in {"request", "finalize"} => task'[t] = task[t]
      BY DEF Preparable
    <3> QED BY <2>0, <2>1, <3>1, <3>2
            DEF Safe, SafeWork, SafeExecution, SafeRequest, SafeFinalize, SafeAccepted
  <2>2. CASE x # t
    BY <1>u, <2>0, <2>2 DEF OnlyJob, OnlyTask
  <2> QED BY <2>1, <2>2
<1>3. ReleaseSafe'
  BY <1>u DEF IInv, ReleaseSafe, OnlyJob
<1>4. PrimeSafe'
  BY DEF PrimeSafe, Active
<1>5. GraphSafe'
  <2>1. blocks \subseteq Tasks \X Tasks
    BY PipelineAssumption DEF IInv, TypeOK
  <2>2. \A x \in Tasks \ {t} : Started(x)' => Started(x)
    BY <1>u DEF Started, OnlyJob, OnlyTask
  <2>3. \A edge \in blocks : edge[2] = t => task[edge[1]] = "accepted"
    BY <2>1 DEF DependenciesAccepted
  <2> QED BY <1>a, <2>1, <2>2, <2>3 DEF IInv, GraphSafe
<1>6. StageSafe'
  BY <1>b DEF IInv, StageSafe
<1> QED BY <1>1, <1>2, <1>3, <1>4, <1>5, <1>6 DEF IInv

\* What is known of the task that is being primed.
LEMMA Primed ==
  ASSUME IInv, prime # None
  PROVE  /\ prime \in Primes /\ prime.task \in Tasks /\ work[prime.task] = None
         /\ ~Active(prime.task) /\ task[prime.task] \in Preparable
         /\ DependenciesAccepted(prime.task)
<1>1. prime \in Primes /\ prime.task \in Tasks
  BY DEF IInv, TypeOK, Primes
<1>2. DependenciesAccepted(prime.task)
  <2> SUFFICES ASSUME NEW d \in Tasks, <<d, prime.task>> \in blocks
               PROVE  task[d] = "accepted"
    BY DEF DependenciesAccepted
  <2>1. Started(prime.task)
    BY DEF Started
  <2> DEFINE edge == <<d, prime.task>>
  <2>2. edge \in blocks /\ edge[1] = d /\ edge[2] = prime.task
    OBVIOUS
  <2> HIDE DEF edge
  <2> QED BY <2>1, <2>2 DEF IInv, GraphSafe
<1> QED BY <1>1, <1>2 DEF IInv, PrimeSafe

LEMMA PrimeValues ==
  ASSUME NEW p \in Primes, NEW step \in {"attach", "red", "stage", "gate", "enqueue"}
  PROVE  /\ [p EXCEPT !.at = step] \in Primes /\ [p EXCEPT !.at = step].task = p.task
         /\ [p EXCEPT !.at = step] # None
<1>1. [p EXCEPT !.at = step] \in Primes /\ [p EXCEPT !.at = step].task = p.task
  BY DEF Primes
<1> QED BY <1>1, NotNone

LEMMA PrimeBeginStep == ASSUME IInv, NEW t \in Tasks, PrimeBegin(t) PROVE IInv'
<1>1. prime = None /\ task[t] \in Preparable /\ ~Active(t) /\ DependenciesAccepted(t)
  BY DEF PrimeBegin, Runnable, Preparable
<1>2. work[t] = None
  <2> SUFFICES ASSUME work[t] # None PROVE FALSE
    OBVIOUS
  <2>1. Safe(job[t], work[t], task[t], review[t], gate[t])
    BY DEF IInv, TasksSafe
  <2>2. job[t] # None /\ job[t].status = "succeeded" /\ work[t].at = "handover"
    BY <1>1, <2>1 DEF Safe, SafeWork, Active
  <2>3. job[t] \in JobRecords /\ job[t].kind \in {"execution", "request", "finalize"}
    BY <2>1, <2>2, SameValues DEF IInv, TypeOK, JobRecords, Kinds, Safe
  <2>4. job[t].kind # "finalize"
    BY <2>1, <2>2 DEF Safe, SafeWork, StepsOf
  <2>5. task[t] = "review_pending"
    BY <2>1, <2>2, <2>3, <2>4 DEF Safe, SafeExecution, SafeRequest
  <2> QED BY <1>1, <2>5 DEF Preparable
<1>3. prime' = [task |-> t, at |-> "attach"] /\ prime' \in Primes /\ prime'.task = t
  BY DEF PrimeBegin, Primes
<1>4. /\ JobType' /\ OnlyJob(t) /\ job'[t] = job[t] /\ TaskType' /\ OnlyTask(t)
      /\ task'[t] = task[t] /\ red' \subseteq Tasks
  BY SameValues DEF PrimeBegin, IInv, TypeOK
<1> QED BY <1>1, <1>2, <1>3, <1>4, ScheduleStepKeeps DEF PrimeBegin, reviews, releases

LEMMA PrimeStep ==
  ASSUME IInv, PrimeAttach \/ PrimeRed \/ PrimeStage \/ PrimeGate \/ PrimeEnqueue
  PROVE  IInv'
<1> DEFINE t == prime.task
<1>1. prime # None
  BY DEF PrimeAttach, PrimeRed, PrimeStage, PrimeGate, PrimeEnqueue, PrimeAt
<1>2. /\ prime \in Primes /\ t \in Tasks /\ work[t] = None /\ ~Active(t)
      /\ task[t] \in Preparable /\ DependenciesAccepted(t)
  BY <1>1, Primed
<1>3. red \subseteq Tasks /\ stage \in Stages
  BY DEF IInv, TypeOK
<1>4. task[t] \in {"drafted", "tests_planned"} => job[t] = None \/ job[t].kind = "execution"
  <2>1. Safe(job[t], work[t], task[t], review[t], gate[t])
    BY <1>2 DEF IInv, TasksSafe
  <2>2. job[t] # None => job[t].kind \in Kinds
    BY <1>2, SameValues DEF IInv, TypeOK, JobRecords
  <2> QED BY <2>1, <2>2 DEF Safe, SafeRequest, SafeFinalize, After, Kinds
<1>5. CASE PrimeAttach
  <2>1. /\ TaskType' /\ OnlyTask(t) /\ task'[t] \in Preparable
        /\ task'[t] # task[t] => task[t] \in {"drafted", "tests_planned"}
    <3>1. CASE task[t] = "drafted"
      BY <1>2, <1>5, <3>1, SetTaskEffect DEF PrimeAttach, Preparable, Statuses
    <3>2. CASE task[t] # "drafted"
      BY <1>2, <1>5, <3>2, SameValues DEF PrimeAttach
    <3> QED BY <3>1, <3>2
  <2>2. prime' \in Primes /\ prime'.task = t
    BY <1>2, <1>5, PrimeValues DEF PrimeAttach, PrimeGoto
  <2>3. JobType' /\ OnlyJob(t) /\ job'[t] = job[t]
    BY <1>2, <1>5, SameValues DEF PrimeAttach
  <2> HIDE DEF t
  <2> QED BY <1>2, <1>3, <1>4, <1>5, <2>1, <2>2, <2>3, ScheduleStepKeeps
          DEF PrimeAttach, reviews, releases
<1>6. CASE PrimeRed
  <2>1. /\ TaskType' /\ OnlyTask(t) /\ task'[t] \in Preparable
        /\ task'[t] # task[t] => task[t] \in {"drafted", "tests_planned"}
    <3>1. CASE task[t] = "tests_planned"
      BY <1>2, <1>6, <3>1, SetTaskEffect DEF PrimeRed, Preparable, Statuses
    <3>2. CASE task[t] # "tests_planned"
      BY <1>2, <1>6, <3>2, SameValues DEF PrimeRed
    <3> QED BY <3>1, <3>2
  <2>2. prime' \in Primes /\ prime'.task = t
    BY <1>2, <1>6, PrimeValues DEF PrimeRed, PrimeGoto
  <2>3. JobType' /\ OnlyJob(t) /\ job'[t] = job[t]
    BY <1>2, <1>6, SameValues DEF PrimeRed
  <2> HIDE DEF t
  <2> QED BY <1>2, <1>3, <1>4, <1>6, <2>1, <2>2, <2>3, ScheduleStepKeeps
          DEF PrimeRed, reviews, releases
<1>7. CASE PrimeStage \/ PrimeGate
  <2>1. prime' \in Primes /\ prime'.task = t
    BY <1>2, <1>7, PrimeValues DEF PrimeStage, PrimeGate, PrimeGoto
  <2>2. /\ JobType' /\ OnlyJob(t) /\ job'[t] = job[t]
        /\ TaskType' /\ OnlyTask(t) /\ task'[t] = task[t]
    BY <1>2, <1>7, SameValues DEF PrimeStage, PrimeGate
  <2>3. red' \subseteq Tasks /\ stage' \in {stage, "task_execution"}
    BY <1>2, <1>3, <1>7 DEF PrimeStage, PrimeGate, releases
  <2>4. UNCHANGED <<blocks, review, gate, releaseGate, acceptance, work, crashes>>
    BY <1>7 DEF PrimeStage, PrimeGate, reviews, releases
  <2> HIDE DEF t
  <2> QED BY <1>2, <2>1, <2>2, <2>3, <2>4, ScheduleStepKeeps
<1>8. CASE PrimeEnqueue
  <2>1. /\ Enqueued("execution") \in JobRecords /\ Enqueued("execution").kind = "execution"
    BY EnqueuedValues DEF Kinds
  <2>2. JobType' /\ OnlyJob(t) /\ job'[t] # None /\ job'[t].kind = "execution"
    <3>1. t \in Units /\ job' = [job EXCEPT ![t] = Enqueued("execution")]
      BY <1>2, <1>8 DEF PrimeEnqueue, Units
    <3> HIDE DEF t
    <3> QED BY <2>1, <3>1, JobEffect
  <2>3. TaskType' /\ OnlyTask(t) /\ task'[t] = task[t]
    BY <1>2, <1>8, SameValues DEF PrimeEnqueue
  <2> HIDE DEF t
  <2> QED BY <1>2, <1>3, <1>8, <2>2, <2>3, ScheduleStepKeeps DEF PrimeEnqueue, reviews, releases
<1> QED BY <1>5, <1>6, <1>7, <1>8

\* A step of the release job leaves the tasks and their jobs alone.
LEMMA ReleaseStepKeeps ==
  ASSUME IInv,
         JobType', OnlyJob(Release), WorkType', OnlyWork(Release),
         work'[Release] # None => job'[Release] # None,
         stage' \in Stages,
         stage' \in {"release_review", "accepted"} =>
           stage \in {"release_review", "accepted"} \/ AllAccepted,
         releaseGate' \in Verdicts \cup {None}, acceptance' \in BOOLEAN,
         UNCHANGED <<blocks, task, red, review, gate, prime, crashes>>
  PROVE  IInv'
<1>u. /\ Tasks \subseteq Units /\ Release \in Units /\ Release \notin Tasks
      /\ prime # None => prime.task \in Tasks
  BY PipelineAssumption DEF Units, IInv, TypeOK, Primes
<1>1. \A x \in Tasks : job'[x] = job[x] /\ work'[x] = work[x]
  BY <1>u DEF OnlyJob, OnlyWork
<1>2. TypeOK'
  BY DEF IInv, TypeOK, JobType, WorkType
<1>3. TasksSafe'
  BY <1>1 DEF IInv, TasksSafe
<1>4. ReleaseSafe'
  BY DEF ReleaseSafe
<1>5. PrimeSafe'
  BY <1>u, <1>1 DEF IInv, PrimeSafe, Active
<1>6. GraphSafe'
  <2>1. blocks \subseteq Tasks \X Tasks
    BY PipelineAssumption DEF IInv, TypeOK
  <2>2. \A x \in Tasks : Started(x)' => Started(x)
    BY <1>1 DEF Started
  <2> QED BY <2>1, <2>2 DEF IInv, GraphSafe
<1>7. StageSafe'
  BY <1>1 DEF IInv, StageSafe, AllAccepted
<1> QED BY <1>2, <1>3, <1>4, <1>5, <1>6, <1>7 DEF IInv

LEMMA SameForRelease ==
  ASSUME IInv
  PROVE  /\ UNCHANGED job => JobType' /\ OnlyJob(Release) /\ job'[Release] = job[Release]
         /\ UNCHANGED work => WorkType' /\ OnlyWork(Release) /\ work'[Release] = work[Release]
         /\ stage \in Stages /\ Release \in Units /\ acceptance \in BOOLEAN
         /\ releaseGate \in Verdicts \cup {None}
         /\ work[Release] # None => job[Release] # None
  BY DEF IInv, TypeOK, JobType, WorkType, OnlyJob, OnlyWork, Units, ReleaseSafe

LEMMA ReadReleaseStatusIsVerdict ==
  ASSUME NEW answer PROVE ReadReleaseStatus(answer) \in Verdicts
<1>1. DOMAIN ReleaseWords = {"approved", "changes_requested", "rejected"}
  BY DEF ReleaseWords
<1>2. CASE \E v \in DOMAIN ReleaseWords : answer \in ReleaseWords[v]
  <2>1. ReadReleaseStatus(answer) \in DOMAIN ReleaseWords
    BY <1>2 DEF ReadReleaseStatus
  <2> QED BY <1>1, <2>1 DEF Verdicts
<1>3. CASE ~\E v \in DOMAIN ReleaseWords : answer \in ReleaseWords[v]
  BY <1>3 DEF ReadReleaseStatus, Verdicts
<1> QED BY <1>2, <1>3

LEMMA QueueReleaseStep == ASSUME IInv, QueueRelease PROVE IInv'
<1>1. Enqueued("release") \in JobRecords
  BY EnqueuedValues DEF Kinds
<1>2. JobType' /\ OnlyJob(Release) /\ job'[Release] # None
  BY <1>1, SameForRelease, JobEffect DEF QueueRelease
<1>3. /\ WorkType' /\ OnlyWork(Release) /\ UNCHANGED <<stage, releaseGate, acceptance>>
      /\ UNCHANGED <<blocks, task, red, review, gate, prime, crashes>>
  BY SameForRelease DEF QueueRelease, reviews, releases
<1> QED BY <1>2, <1>3, SameForRelease, ReleaseStepKeeps

LEMMA ReleaseStepStep == ASSUME IInv, ReleaseStep PROVE IInv'
<1>1. CASE Start(Release)
  <2>1. JobType' /\ OnlyJob(Release) /\ job'[Release] # None
    BY <1>1, JobStatusEffect, SameForRelease DEF Start, JobStates
  <2> DEFINE w == [at |-> "begin", seen |-> None]
  <2>2. w \in Works /\ work' = [work EXCEPT ![Release] = w]
    BY <1>1 DEF Works, Steps, Start
  <2> HIDE DEF w
  <2>3. WorkType' /\ OnlyWork(Release)
    BY <2>2, SameForRelease DEF IInv, TypeOK, WorkType, OnlyWork
  <2>4. /\ UNCHANGED <<stage, releaseGate, acceptance>>
        /\ UNCHANGED <<blocks, task, red, review, gate, prime, crashes>>
    BY <1>1 DEF Start, reviews, releases
  <2> QED BY <2>1, <2>3, <2>4, SameForRelease, ReleaseStepKeeps
<1>2. CASE ReviewRelease
  <2>1. work[Release] # None
    BY <1>2 DEF ReviewRelease, WorkerAt
  <2>2. PICK answer \in ReleaseAnswers : releaseGate' = ReadReleaseStatus(answer)
    BY <1>2 DEF ReviewRelease
  <2>3. WorkType' /\ OnlyWork(Release)
    BY <1>2, <2>1, GotoEffect, SameForRelease DEF ReviewRelease, Steps
  <2>4. JobType' /\ OnlyJob(Release) /\ job'[Release] = job[Release]
    BY <1>2, SameForRelease DEF ReviewRelease
  <2>5. /\ UNCHANGED <<stage, acceptance>>
        /\ UNCHANGED <<blocks, task, red, review, gate, prime, crashes>>
    BY <1>2 DEF ReviewRelease, reviews
  <2> QED BY <2>1, <2>2, <2>3, <2>4, <2>5, ReadReleaseStatusIsVerdict, SameForRelease,
             ReleaseStepKeeps
<1>3. CASE AcceptRun
  <2>1. work[Release] # None /\ stage = "release_review"
    BY <1>3 DEF AcceptRun, WorkerAt, RunAcceptable
  <2>2. WorkType' /\ OnlyWork(Release)
    BY <1>3, <2>1, GotoEffect, SameForRelease DEF AcceptRun, Steps
  <2>3. JobType' /\ OnlyJob(Release) /\ job'[Release] = job[Release] /\ stage' \in Stages
    BY <1>3, SameForRelease DEF AcceptRun, Stages
  <2>4. /\ UNCHANGED <<releaseGate, acceptance>>
        /\ UNCHANGED <<blocks, task, red, review, gate, prime, crashes>>
    BY <1>3 DEF AcceptRun, reviews
  <2> QED BY <2>1, <2>2, <2>3, <2>4, SameForRelease, ReleaseStepKeeps
<1>4. CASE SaveAcceptance
  <2>1. work[Release] # None
    BY <1>4 DEF SaveAcceptance, WorkerAt
  <2>2. WorkType' /\ OnlyWork(Release)
    BY <1>4, <2>1, GotoEffect, SameForRelease DEF SaveAcceptance, Steps
  <2>3. JobType' /\ OnlyJob(Release) /\ job'[Release] = job[Release] /\ acceptance' \in BOOLEAN
    BY <1>4, SameForRelease DEF SaveAcceptance
  <2>4. /\ UNCHANGED <<stage, releaseGate>>
        /\ UNCHANGED <<blocks, task, red, review, gate, prime, crashes>>
    BY <1>4 DEF SaveAcceptance, reviews
  <2> QED BY <2>1, <2>2, <2>3, <2>4, SameForRelease, ReleaseStepKeeps
<1>5. CASE CompleteReleaseJob
  <2>1. work[Release] # None /\ job[Release] # None
    BY <1>5, SameForRelease DEF CompleteReleaseJob, WorkerAt
  <2>2. /\ JobType' /\ OnlyJob(Release) /\ WorkType' /\ OnlyWork(Release)
        /\ work'[Release] = None
    <3>1. CASE releaseGate = "approved"
      BY <1>5, <2>1, <3>1, JobStatusEffect, LeaveEffect, SameForRelease
         DEF CompleteReleaseJob, JobStates
    <3>2. CASE releaseGate # "approved"
      BY <1>5, <2>1, <3>2, DisposeEffect, SameForRelease DEF CompleteReleaseJob, ForReleaseFailure
    <3> QED BY <3>1, <3>2
  <2>3. /\ UNCHANGED <<stage, releaseGate, acceptance>>
        /\ UNCHANGED <<blocks, task, red, review, gate, prime, crashes>>
    BY <1>5 DEF CompleteReleaseJob, reviews, releases
  <2> QED BY <2>1, <2>2, <2>3, SameForRelease, ReleaseStepKeeps
<1> QED BY <1>1, <1>2, <1>3, <1>4, <1>5 DEF ReleaseStep

\* The death of the process: what is on file stays, and no job is running any more.
LEMMA InterruptedValues ==
  ASSUME NEW r \in JobRecords \cup {None}
  PROVE  /\ Interrupted(r) \in JobRecords \cup {None}
         /\ r = None <=> Interrupted(r) = None
         /\ r # None => Interrupted(r).kind = r.kind
<1>1. CASE r = None
  BY <1>1 DEF Interrupted
<1>2. CASE r # None
  BY <1>2, JobValues, NotNone DEF Interrupted, JobStates
<1> QED BY <1>1, <1>2

LEMMA ProcessExitStep == ASSUME IInv, ProcessExit, crashes' \in 0 .. MaxCrashes PROVE IInv'
<1>u. Tasks \subseteq Units /\ Release \in Units
  BY DEF Units
<1>1. job' = [u \in Units |-> Interrupted(job[u])] /\ work' = [u \in Units |-> None]
  BY DEF ProcessExit
<1>2. ASSUME NEW u \in Units
      PROVE  /\ job'[u] \in JobRecords \cup {None}
             /\ job[u] = None <=> job'[u] = None
             /\ job[u] # None => job'[u].kind = job[u].kind
             /\ work'[u] = None
  <2>1. job[u] \in JobRecords \cup {None}
    BY DEF IInv, TypeOK
  <2>2. job'[u] = Interrupted(job[u]) /\ work'[u] = None
    BY <1>1
  <2> QED BY <2>1, <2>2, InterruptedValues
<1>3. prime' = None
      /\ UNCHANGED <<blocks, task, red, review, gate, stage, releaseGate, acceptance>>
  BY DEF ProcessExit, reviews, releases
<1>4. TypeOK'
  <2>1. job' \in [Units -> JobRecords \cup {None}]
    <3> DEFINE f == [u \in Units |-> Interrupted(job[u])]
    <3>1. \A u \in Units : f[u] \in JobRecords \cup {None}
      BY InterruptedValues DEF IInv, TypeOK
    <3> QED BY <1>1, <3>1
  <2>2. work' \in [Units -> Works \cup {None}]
    BY <1>1
  <2> QED BY <1>3, <2>1, <2>2 DEF IInv, TypeOK
<1>5. TasksSafe'
  <2> SUFFICES ASSUME NEW x \in Tasks
               PROVE  Safe(job'[x], work'[x], task'[x], review'[x], gate'[x])
    BY DEF TasksSafe
  <2>1. Safe(job[x], work[x], task[x], review[x], gate[x])
    BY DEF IInv, TasksSafe
  <2>2. task'[x] = task[x] /\ review'[x] = review[x] /\ gate'[x] = gate[x]
    BY <1>3
  <2>3. /\ work'[x] = None
        /\ job[x] = None <=> job'[x] = None
        /\ job[x] # None => job'[x].kind = job[x].kind
    BY <1>u, <1>2
  <2> QED BY <2>1, <2>2, <2>3
          DEF Safe, SafeWork, SafeExecution, SafeRequest, SafeFinalize, SafeAccepted
<1>6. ReleaseSafe'
  BY <1>u, <1>1 DEF ReleaseSafe
<1>7. PrimeSafe'
  BY <1>3 DEF PrimeSafe
<1>8. GraphSafe'
  <2>1. blocks \subseteq Tasks \X Tasks
    BY PipelineAssumption DEF IInv, TypeOK
  <2>2. \A x \in Tasks : Started(x)' => Started(x)
    <3> SUFFICES ASSUME NEW x \in Tasks, Started(x)' PROVE Started(x)
      OBVIOUS
    <3>1. job[x] = None <=> job'[x] = None
      BY <1>u, <1>2
    <3> QED BY <1>3, <3>1 DEF Started
  <2> QED BY <1>3, <2>1, <2>2 DEF IInv, GraphSafe
<1>9. StageSafe'
  BY <1>u, <1>1, <1>3 DEF IInv, StageSafe, AllAccepted
<1> QED BY <1>4, <1>5, <1>6, <1>7, <1>8, <1>9 DEF IInv

-----------------------------------------------------------------------------
(* The theorems.                                                           *)

LEMMA InitIInv == Init => IInv
<1> SUFFICES ASSUME Init PROVE IInv
  OBVIOUS
<1>1. TypeOK
  <2>1. /\ task \in [Tasks -> Statuses] /\ red \in SUBSET Tasks
        /\ review \in [Tasks -> Reviews \cup {None}] /\ gate \in [Tasks -> Gates \cup {None}]
        /\ job \in [Units -> JobRecords \cup {None}] /\ work \in [Units -> Works \cup {None}]
    BY DEF Init, Statuses
  <2>2. stage \in Stages /\ crashes \in 0 .. MaxCrashes /\ blocks \in TaskGraphs
    BY PipelineAssumption DEF Init, Stages
  <2> QED BY <2>1, <2>2 DEF Init, TypeOK
<1>2. TasksSafe
  BY DEF Init, TasksSafe, Units, Safe, SafeWork, SafeExecution, SafeRequest, SafeFinalize,
         SafeAccepted
<1>3. ReleaseSafe /\ PrimeSafe
  BY DEF Init, ReleaseSafe, PrimeSafe, Units
<1>4. GraphSafe
  <2>1. blocks \subseteq Tasks \X Tasks
    BY PipelineAssumption DEF Init
  <2> QED BY <2>1 DEF Init, GraphSafe, Started, Units
<1>5. StageSafe
  BY DEF Init, StageSafe, Units
<1> QED BY <1>1, <1>2, <1>3, <1>4, <1>5 DEF IInv

LEMMA NextIInv == IInv /\ [Next]_vars => IInv'
<1> SUFFICES ASSUME IInv, [Next]_vars PROVE IInv'
  OBVIOUS
<1>1. CASE Schedule
  BY <1>1, PrimeStep, PrimeBeginStep, QueueReleaseStep DEF Schedule
<1>2. CASE ReleaseStep
  BY <1>2, ReleaseStepStep
<1>3. CASE Crash
  <2>1. crashes' \in 0 .. MaxCrashes
    BY <1>3, PipelineAssumption DEF Crash, IInv, TypeOK
  <2> QED BY <1>3, <2>1, ProcessExitStep DEF Crash
<1>4. CASE JobThrows
  <2>1. crashes' \in 0 .. MaxCrashes
    BY <1>4 DEF JobThrows, IInv, TypeOK
  <2> QED BY <1>4, <2>1, ProcessExitStep DEF JobThrows
<1>5. ASSUME NEW t \in Tasks, TaskStep(t) PROVE IInv'
  BY <1>5, StartStep, ExecuteBeginStep, ExecuteSucceedsStep, ExecuteFailsStep,
     SubmitForReviewStep, MarkSucceededStep, EnqueueNextStep, RequestReviewStep,
     FinalizeBeginStep, SaveVerdictStep, RecordGateStep, ApplyOutcomeStep, AcceptTaskStep,
     AdvanceRunStep, SaveReleaseReviewStep, MarkReviewAppliedStep, CompleteReviewJobStep,
     ReviewJobFailsStep DEF TaskStep
<1>6. CASE UNCHANGED vars
  BY <1>6 DEF vars, reviews, releases, IInv, TypeOK, TasksSafe, ReleaseSafe, PrimeSafe, Active,
         GraphSafe, Started, StageSafe, AllAccepted
<1> QED BY <1>1, <1>2, <1>3, <1>4, <1>5, <1>6 DEF Next

LEMMA Inductive == Spec => []IInv
  BY InitIInv, NextIInv, PTL DEF Spec

\* Every variable keeps its type: in particular no review and no gate is ever recorded without
\* one of the four verdicts, and a job that is handed out again keeps its kind.
THEOREM PipelineTypes == Spec => []TypeOK
<1>1. IInv => TypeOK
  BY DEF IInv
<1> QED BY <1>1, Inductive, PTL

\* applyCompletedTaskReview and acceptTask: a task is accepted only by an approval of its latest
\* execution, however often its review jobs are retried or redelivered after a crash.
THEOREM AcceptanceIsApproved == Spec => []AcceptedWorkWasApproved
<1>1. IInv => AcceptedWorkWasApproved
  BY DEF IInv, TasksSafe, Safe, SafeAccepted, Approved, AcceptedWorkWasApproved
<1> QED BY <1>1, Inductive, PTL

\* computePlan: nothing is done for a task before all it depends on has been approved, and
\* the approval is never withdrawn afterwards.
THEOREM DependenciesAreApproved == Spec => []DependentsBuildOnApprovedWork
<1>1. IInv => DependentsBuildOnApprovedWork
  <2> SUFFICES ASSUME IInv, NEW edge \in blocks,
                      task[edge[2]] # "drafted" \/ job[edge[2]] # None
               PROVE  gate[edge[1]] = Approved
    BY DEF DependentsBuildOnApprovedWork, Approved
  <2>1. edge[1] \in Tasks
    BY PipelineAssumption DEF IInv, TypeOK
  <2>2. task[edge[1]] = "accepted"
    BY DEF IInv, GraphSafe, Started
  <2> QED BY <2>1, <2>2 DEF IInv, TasksSafe, Safe, SafeAccepted
<1> QED BY <1>1, Inductive, PTL

\* acceptTask and acceptRun: the run is in its release review, or accepted, only while every
\* task is accepted, although the stage is decided on a run and on tasks read earlier.
THEOREM ReleaseIsComplete == Spec => []ReleaseCoversAllTasks
<1>1. IInv => ReleaseCoversAllTasks
  BY DEF IInv, StageSafe, ReleaseCoversAllTasks
<1> QED BY <1>1, Inductive, PTL

\* processTaskReviewRequest and processTaskReviewFinalize: whenever a review job begins or goes
\* on, its task, its review and its gate are in a state in which no assertion throws.
THEOREM ReviewJobsGoOn == Spec => []ReviewJobsNeverThrow
<1>1. IInv => ReviewJobsNeverThrow
  <2> SUFFICES ASSUME IInv, NEW t \in Tasks
               PROVE  /\ WorkerAt(t, "request", "begin") =>
                           task[t] \in {"tests_green", "review_pending"}
                      /\ WorkerAt(t, "finalize", "begin") =>
                           /\ review[t] # None
                           /\ task[t] \in {"review_pending", "implementation_in_progress",
                                          "rejected", "accepted"}
                      /\ WorkerAt(t, "finalize", "outcome") /\ OutcomeOf(review[t].verdict) # None =>
                           MayMove(t, OutcomeOf(review[t].verdict))
                      /\ WorkerAt(t, "finalize", "accept") /\ review[t].verdict = "approved" =>
                           gate[t].verdict = "approved" /\ MayMove(t, "accepted")
    BY DEF ReviewJobsNeverThrow
  <2>1. ASSUME WorkerAt(t, "request", "begin") PROVE task[t] = "review_pending"
    BY <2>1, CurrentWork DEF Safe, SafeRequest
  <2>2. ASSUME WorkerAt(t, "finalize", "begin")
        PROVE  review[t] # None /\ task[t] \in After(review[t].verdict)
    BY <2>2, CurrentWork DEF Safe, SafeFinalize
  <2>3. ASSUME WorkerAt(t, "finalize", "outcome"), OutcomeOf(review[t].verdict) # None
        PROVE  MayMove(t, OutcomeOf(review[t].verdict))
    <3>1. task[t] \in After(review[t].verdict)
      BY <2>3, PastGate
    <3>2. review[t].verdict \in {"changes_requested", "rejected"}
      BY <2>3 DEF OutcomeOf
    <3> QED BY <3>1, <3>2 DEF After, OutcomeOf, MayMove, Allowed
  <2>4. ASSUME WorkerAt(t, "finalize", "accept"), review[t].verdict = "approved"
        PROVE  gate[t].verdict = "approved" /\ MayMove(t, "accepted")
    <3>1. /\ task[t] \in After(review[t].verdict)
          /\ gate[t] = [verdict |-> review[t].verdict, current |-> TRUE]
      BY <2>4, PastGate
    <3> QED BY <2>4, <3>1 DEF After, MayMove, Allowed
  <2> QED BY <2>1, <2>2, <2>3, <2>4 DEF After
<1> QED BY <1>1, Inductive, PTL
=============================================================================
