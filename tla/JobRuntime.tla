----------------------------- MODULE JobRuntime -----------------------------
(***************************************************************************)
(* The life of jobs in one orchestrator process: the daemon tick (reclaim, *)
(* list, start, lease, heartbeat), the worker handles it starts, lease     *)
(* renewal, cancellation and retry requests, drainRun, process exit and    *)
(* boot-time recovery.                                                     *)
(*                                                                         *)
(* A call of RunQueueService or RetryService is one step here (JobQueue    *)
(* opens those calls up); what the model keeps apart is everything that    *)
(* happens between two calls: a status read by a tick or by a request may  *)
(* be out of date when it is acted upon.                                   *)
(*                                                                         *)
(* Time is reduced to what the code compares it with: a lease is live or   *)
(* expired, the latest heartbeat and the start of a job are fresh or       *)
(* stale.  Jobs belong to different tasks and runs, so no quota or         *)
(* exclusive key defers them.                                              *)
(***************************************************************************)
EXTENDS Naturals, FiniteSets

CONSTANTS
  Jobs, Workers,
  Drainer,         \* the request that runs drainRun
  Budget,          \* maxAttempts of every job
  Pipeline,        \* the jobs whose success enqueues the next job of the pipeline
  Disturbances,    \* which of AllDisturbances the environment issues
  MaxDisturbances, \* bound: disturbances in one behaviour
  None

AllDisturbances == {"crash", "cancel", "retry", "stall", "drain"}
Executors == Workers \cup {Drainer}
Outcomes == {"succeeded", "transient", "permanent"}

Runnable == {"queued", "retriable"}
Terminal == {"succeeded", "failed", "cancelled"}
JobRecords == [status : Runnable \cup Terminal \cup {"running"}, attempt : Nat \ {0}]
Leases == [worker : Workers, live : BOOLEAN, released : BOOLEAN]
Stages == {"starting", "executing", "executed", "reporting", "acknowledging",
           "cancelling", "closing", "done", "handedOver"}
Handles == [job : Jobs, attempt : Nat \ {0}, stage : Stages, killed : BOOLEAN,
            outcome : Outcomes \cup {"killed", None}]
Pending == {"requested", "acknowledged"}
Requests == Pending \cup {"completed", "rejected"}

ASSUME RuntimeAssumption ==
  /\ Budget \in Nat \ {0} /\ MaxDisturbances \in Nat
  /\ Drainer \notin Workers /\ Pipeline \subseteq Jobs
  /\ Disturbances \subseteq AllDisturbances
ASSUME RuntimeNoneAssumption ==
  None \notin Jobs \cup Workers \cup Leases \cup Handles \cup Requests

VARIABLES
  process,   \* "down", "booting" or "serving"
  todo,      \* the jobs RecoveryService.recover still has to visit
  jobs,      \* the job records
  lease,     \* the lease file of each job, or None
  beat,      \* the latest heartbeat of each job: "none", "fresh" or "stale"
  overdue,   \* the jobs whose startedAt is older than the stale threshold
  tick,      \* where the tick is, and what it read
  handle,    \* what a worker, or drainRun, is doing
  request,   \* the cancellation request of each job, or None
  api,       \* the cancelJob call in progress, or None
  disturbed, \* disturbances so far (bookkeeping for MaxDisturbances)
  timely     \* no stall, and no drainRun, so far (history)

vars == <<process, todo, jobs, lease, beat, overdue, tick, handle, request, api, disturbed, timely>>
files == <<jobs, lease, beat, overdue, request>>

Quiet == [at |-> "idle", seen |-> {}, job |-> None, attempt |-> 0, worker |-> None]

TypeOK ==
  /\ process \in {"down", "booting", "serving"}
  /\ todo \subseteq Jobs
  /\ jobs \in [Jobs -> JobRecords]
  /\ lease \in [Jobs -> Leases \cup {None}]
  /\ beat \in [Jobs -> {"none", "fresh", "stale"}]
  /\ overdue \subseteq Jobs
  /\ tick.at \in {"idle", "reclaim", "settle", "cycle", "lease", "beat"}
  /\ tick.seen \subseteq [job : Jobs, attempt : Nat]
  /\ tick.job \in Jobs \cup {None} /\ tick.worker \in Workers \cup {None}
  /\ handle \in [Executors -> Handles \cup {None}]
  /\ request \in [Jobs -> Requests \cup {None}]
  /\ disturbed \in 0 .. MaxDisturbances
  /\ timely \in BOOLEAN

\* The process starts on a set of queued jobs that never ran.
Init ==
  /\ process = "down" /\ todo = {}
  /\ jobs = [j \in Jobs |-> [status |-> "queued", attempt |-> 1]]
  /\ lease = [j \in Jobs |-> None]
  /\ beat = [j \in Jobs |-> "none"]
  /\ overdue = {}
  /\ tick = Quiet
  /\ handle = [e \in Executors |-> None]
  /\ request = [j \in Jobs |-> None]
  /\ api = None
  /\ disturbed = 0 /\ timely = TRUE

-----------------------------------------------------------------------------
(* The decisions of the services.                                          *)

Status(j) == jobs[j].status

CanRetry(r) ==
  /\ r.status \in Runnable \cup {"failed", "running"}
  /\ r.status \in Runnable \/ r.attempt < Budget

RetryThrows(r) == r.status \notin Runnable /\ ~CanRetry(r)
\* Mutant: a retry does not count as an attempt.
RetriedUncounted(r) ==
  IF r.status \in Runnable THEN r ELSE [r EXCEPT !.status = "retriable"]

\* retryJob: a runnable job is only rescheduled.
Retried(r) ==
  IF r.status \in Runnable THEN r ELSE [status |-> "retriable", attempt |-> r.attempt + 1]

SetStatus(j, s) == jobs' = [jobs EXCEPT ![j].status = s]
Retry(j) == jobs' = [jobs EXCEPT ![j] = Retried(@)]

\* acquireJobLease refuses while an unexpired, unreleased lease exists.
Unreleased(j) == lease[j] # None /\ ~lease[j].released
LeaseConflict(j) == Unreleased(j) /\ lease[j].live
\* releaseLease and renewLease rewrite whatever lease the job has, whoever holds it.
Released(l) == IF l = None THEN None ELSE [l EXCEPT !.live = FALSE, !.released = TRUE]
Renewed(l) == IF l = None THEN None ELSE [l EXCEPT !.live = TRUE]

LeaseExpired(j) == Unreleased(j) /\ ~lease[j].live

\* isJobStale: the lease, else the latest heartbeat, else the time of the start.
IsStale(j) ==
  \/ LeaseExpired(j)
  \/ IF beat[j] = "none" THEN j \in overdue ELSE beat[j] = "stale"

Busy(e) == handle[e] # None
Executing(e, j) == Busy(e) /\ handle[e].job = j /\ handle[e].stage = "executing"

Disturb(d) ==
  /\ d \in Disturbances
  /\ disturbed < MaxDisturbances /\ disturbed' = disturbed + 1
  /\ timely' = (timely /\ d \notin {"stall", "drain"})

-----------------------------------------------------------------------------
(* The process.                                                            *)

\* Files stay, everything in memory is gone.  The child processes end with their parent.
ProcessExit ==
  /\ process' = "down" /\ todo' = {}
  /\ tick' = Quiet
  /\ handle' = [e \in Executors |-> None]
  /\ api' = None
  /\ UNCHANGED files

Crash == process # "down" /\ Disturb("crash") /\ ProcessExit

Boot ==
  /\ process = "down"
  /\ process' = "booting" /\ todo' = Jobs
  /\ UNCHANGED <<files, tick, handle, api, disturbed, timely>>

\* releaseTerminalLease and releaseInterruptedLease.
RecoverLease(j) ==
  /\ process = "booting" /\ j \in todo
  /\ Status(j) \in Terminal \cup {"running"}
  /\ Unreleased(j)
  /\ lease' = [lease EXCEPT ![j] = Released(@)]
  /\ UNCHANGED <<process, todo, jobs, beat, overdue, tick, handle, request, api, disturbed, timely>>

RecoverJob(j) ==
  /\ process = "booting" /\ j \in todo
  /\ Status(j) \notin Runnable => ~Unreleased(j)
  /\ todo' = todo \ {j}
  /\ CASE Status(j) = "running" /\ ~RetryThrows(jobs[j]) -> Retry(j)
       [] Status(j) = "running" /\ RetryThrows(jobs[j])  -> SetStatus(j, "failed")
       [] OTHER                                          -> UNCHANGED jobs
  /\ UNCHANGED <<process, lease, beat, overdue, tick, handle, request, api, disturbed, timely>>

Serve ==
  /\ process = "booting" /\ todo = {}
  /\ process' = "serving"
  /\ UNCHANGED <<files, todo, tick, handle, api, disturbed, timely>>

-----------------------------------------------------------------------------
(* The tick: StaleJobReclaimService.reclaim, then WorkerPoolService.runCycle. *)

TickAt(at) == process = "serving" /\ tick.at = at

Snapshot(S) == {[job |-> j, attempt |-> jobs[j].attempt] : j \in S}

TickBegin ==
  /\ TickAt("idle")
  /\ tick' = [Quiet EXCEPT !.at = "reclaim",
                           !.seen = Snapshot({j \in Jobs : Status(j) = "running"})]
  /\ UNCHANGED <<process, todo, files, handle, api, disturbed, timely>>

ReclaimSkip ==
  /\ TickAt("reclaim")
  /\ \E x \in tick.seen : ~IsStale(x.job) /\ tick' = [tick EXCEPT !.seen = @ \ {x}]
  /\ UNCHANGED <<process, todo, files, handle, api, disturbed, timely>>

\* Mutant: whatever runs is reclaimed.
ReclaimLeaseUnchecked ==
  /\ TickAt("reclaim")
  /\ \E x \in tick.seen :
       /\ lease' = [lease EXCEPT ![x.job] = Released(@)]
       /\ tick' = [tick EXCEPT !.seen = @ \ {x}, !.at = "settle",
                               !.job = x.job, !.attempt = x.attempt]
  /\ UNCHANGED <<process, todo, jobs, beat, overdue, handle, request, api, disturbed, timely>>

\* A stale job's lease is released first ...
ReclaimLease ==
  /\ TickAt("reclaim")
  /\ \E x \in tick.seen :
       /\ IsStale(x.job)
       /\ lease' = [lease EXCEPT ![x.job] = Released(@)]
       /\ tick' = [tick EXCEPT !.seen = @ \ {x}, !.at = "settle",
                               !.job = x.job, !.attempt = x.attempt]
  /\ UNCHANGED <<process, todo, jobs, beat, overdue, handle, request, api, disturbed, timely>>

\* ... then the record of the listing decides between retryJob and markFailed.
ReclaimJob ==
  /\ TickAt("settle")
  /\ LET j == tick.job IN
       IF tick.attempt < Budget
       THEN /\ ~RetryThrows(jobs[j])
            /\ Retry(j)
       ELSE SetStatus(j, "failed")
  /\ tick' = [tick EXCEPT !.at = "reclaim", !.job = None, !.attempt = 0]
  /\ UNCHANGED <<process, todo, lease, beat, overdue, handle, request, api, disturbed, timely>>

TickList ==
  /\ TickAt("reclaim") /\ tick.seen = {}
  /\ tick' = [tick EXCEPT !.at = "cycle",
                          !.seen = Snapshot({j \in Jobs : Status(j) \in Runnable})]
  /\ UNCHANGED <<process, todo, files, handle, api, disturbed, timely>>

TickStart(w) ==
  /\ TickAt("cycle") /\ ~Busy(w)
  /\ \E x \in tick.seen :
       /\ Status(x.job) \in Runnable
       /\ SetStatus(x.job, "running")
       /\ overdue' = overdue \ {x.job}
       /\ tick' = [tick EXCEPT !.seen = @ \ {x}, !.at = "lease",
                               !.job = x.job, !.worker = w]
  /\ UNCHANGED <<process, todo, lease, beat, handle, request, api, disturbed, timely>>

\* Mutant: the lease file is written without a look at the lease it replaces.
TickLeaseUnchecked ==
  /\ TickAt("lease")
  /\ lease' = [lease EXCEPT ![tick.job] =
                 [worker |-> tick.worker, live |-> TRUE, released |-> FALSE]]
  /\ tick' = [tick EXCEPT !.at = "beat"]
  /\ UNCHANGED <<process, todo, jobs, beat, overdue, handle, request, api, disturbed, timely>>

TickLease ==
  /\ TickAt("lease") /\ ~LeaseConflict(tick.job)
  /\ lease' = [lease EXCEPT ![tick.job] =
                 [worker |-> tick.worker, live |-> TRUE, released |-> FALSE]]
  /\ tick' = [tick EXCEPT !.at = "beat"]
  /\ UNCHANGED <<process, todo, jobs, beat, overdue, handle, request, api, disturbed, timely>>

TickHandle ==
  /\ TickAt("beat")
  /\ beat' = [beat EXCEPT ![tick.job] = "fresh"]
  /\ handle' = [handle EXCEPT ![tick.worker] =
                  [job |-> tick.job, attempt |-> jobs[tick.job].attempt,
                   stage |-> "starting", killed |-> FALSE, outcome |-> None]]
  /\ tick' = [tick EXCEPT !.at = "cycle", !.job = None, !.worker = None]
  /\ UNCHANGED <<process, todo, jobs, lease, overdue, request, api, disturbed, timely>>

TickEnd ==
  /\ TickAt("cycle")
  /\ tick.seen = {} \/ \A w \in Workers : Busy(w)
  /\ tick' = Quiet
  /\ UNCHANGED <<process, todo, files, handle, api, disturbed, timely>>

\* retryJob, startJob or acquireJobLease throws; `void this.tick()` has no catch.
TickThrows ==
  /\ \/ TickAt("settle") /\ tick.attempt < Budget /\ RetryThrows(jobs[tick.job])
     \/ /\ TickAt("cycle") /\ \E w \in Workers : ~Busy(w)
        /\ \E x \in tick.seen : Status(x.job) \notin Runnable
     \/ TickAt("lease") /\ LeaseConflict(tick.job)
  /\ ProcessExit
  /\ UNCHANGED <<disturbed, timely>>

-----------------------------------------------------------------------------
(* Processing a job: WorkerService.processJob and what the pool does after. *)

WorkerAt(e, stage) == process = "serving" /\ Busy(e) /\ handle[e].stage = stage
Goto(e, stage) == handle' = [handle EXCEPT ![e].stage = stage]
CancelPending(e) == request[handle[e].job] \in Pending

\* cancelIfRequested before the execution, and again after it.
CheckBefore(e) ==
  /\ WorkerAt(e, "starting")
  /\ Goto(e, IF CancelPending(e) THEN "acknowledging" ELSE "executing")
  /\ UNCHANGED <<process, todo, files, tick, api, disturbed, timely>>

CheckAfter(e) ==
  /\ WorkerAt(e, "executed")
  /\ Goto(e, IF CancelPending(e) THEN "acknowledging" ELSE "reporting")
  /\ UNCHANGED <<process, todo, files, tick, api, disturbed, timely>>

Execute(e) ==
  /\ WorkerAt(e, "executing")
  /\ \E o \in IF handle[e].killed THEN {"killed"} ELSE Outcomes :
       handle' = [handle EXCEPT ![e].stage = "executed", ![e].outcome = o]
  /\ UNCHANGED <<process, todo, files, tick, api, disturbed, timely>>

\* acknowledgeCancellation leaves a request that is no longer 'requested' alone.
Acknowledge(e) ==
  /\ WorkerAt(e, "acknowledging")
  /\ request' = [request EXCEPT ![handle[e].job] = IF @ = "requested" THEN "acknowledged" ELSE @]
  /\ Goto(e, "cancelling")
  /\ UNCHANGED <<process, todo, jobs, lease, beat, overdue, tick, api, disturbed, timely>>

\* finalizeRunningCancellation: the job first, then the request.
FinalizeJob(e) ==
  /\ WorkerAt(e, "cancelling")
  /\ IF CancelPending(e)
     THEN SetStatus(handle[e].job, "cancelled") /\ Goto(e, "closing")
     ELSE UNCHANGED jobs /\ Goto(e, "done")
  /\ UNCHANGED <<process, todo, lease, beat, overdue, tick, request, api, disturbed, timely>>

FinalizeRequest(e) ==
  /\ WorkerAt(e, "closing")
  /\ request' = [request EXCEPT ![handle[e].job] = "completed"]
  /\ Goto(e, "done")
  /\ UNCHANGED <<process, todo, jobs, lease, beat, overdue, tick, api, disturbed, timely>>

WantsRetry(e) == handle[e].outcome = "transient" /\ handle[e].attempt < Budget

\* The disposition of the outcome; none of the mark* calls looks at the current status.
Report(e) ==
  /\ WorkerAt(e, "reporting")
  /\ LET j == handle[e].job IN
       CASE handle[e].outcome = "succeeded" -> SetStatus(j, "succeeded")
         [] handle[e].outcome = "killed"    -> SetStatus(j, "cancelled")
         [] WantsRetry(e)                   -> ~RetryThrows(jobs[j]) /\ Retry(j)
         [] OTHER                           -> SetStatus(j, "failed")
  /\ Goto(e, IF handle[e].outcome = "succeeded" /\ handle[e].job \in Pipeline
             THEN "handedOver" ELSE "done")
  /\ UNCHANGED <<process, todo, lease, beat, overdue, tick, request, api, disturbed, timely>>

\* handle.jobPromise has no catch either; in drainRun the request fails instead.
ReportThrows(e) ==
  /\ WorkerAt(e, "reporting") /\ WantsRetry(e) /\ RetryThrows(jobs[handle[e].job])
  /\ IF e = Drainer
     THEN handle' = [handle EXCEPT ![e] = None]
          /\ UNCHANGED <<process, todo, files, tick, api>>
     ELSE ProcessExit
  /\ UNCHANGED <<disturbed, timely>>

\* The pool releases the lease of the job that processJob returned.  After a success in
\* the pipeline that is the enqueued follow-up, which has no lease yet.
Leave(e) ==
  /\ WorkerAt(e, "done") \/ WorkerAt(e, "handedOver")
  /\ lease' = IF e = Drainer \/ handle[e].stage = "handedOver" THEN lease
              ELSE [lease EXCEPT ![handle[e].job] = Released(@)]
  /\ handle' = [handle EXCEPT ![e] = None]
  /\ UNCHANGED <<process, todo, jobs, beat, overdue, tick, request, api, disturbed, timely>>

\* The timer of a handle; a renewal that is in flight when its handle ends is left out.
Renew(w) ==
  /\ process = "serving" /\ Busy(w)
  /\ lease' = [lease EXCEPT ![handle[w].job] = Renewed(@)]
  /\ beat' = [beat EXCEPT ![handle[w].job] = "fresh"]
  /\ UNCHANGED <<process, todo, jobs, overdue, tick, handle, request, api, disturbed, timely>>

-----------------------------------------------------------------------------
(* Time and requests.                                                      *)

\* Something renews the job's lease, or is about to.
Attended(j) ==
  \/ \E w \in Workers : Busy(w) /\ handle[w].job = j
  \/ tick.at \in {"lease", "beat"} /\ tick.job = j

Neglected(S) ==
  /\ lease' = [j \in Jobs |-> IF j \in S /\ lease[j] # None
                              THEN [lease[j] EXCEPT !.live = FALSE] ELSE lease[j]]
  /\ beat' = [j \in Jobs |-> IF j \in S /\ beat[j] # "none" THEN "stale" ELSE beat[j]]
  /\ overdue' = overdue \cup S

\* Nobody renews: the lease expires, the latest heartbeat and the start get old.
TimePasses(j) ==
  /\ ~Attended(j)
  /\ Neglected({j})
  /\ UNCHANGED <<process, todo, jobs, tick, handle, request, api, disturbed, timely>>

\* The event loop, or the machine, stands still for longer than the lease lasts.
Stall ==
  /\ process = "serving" /\ Disturb("stall")
  /\ Neglected(Jobs)
  /\ UNCHANGED <<process, todo, jobs, tick, handle, request, api>>

\* POST /api/jobs/:jobId/retry
ApiRetry(j) ==
  /\ process = "serving" /\ ~RetryThrows(jobs[j]) /\ Status(j) \notin Runnable
  /\ Disturb("retry")
  /\ Retry(j)
  /\ UNCHANGED <<process, todo, lease, beat, overdue, tick, handle, request, api>>

\* POST /api/jobs/:jobId/cancel, at most once per job: read the job ...
CancelRead(j) ==
  /\ process = "serving" /\ api = None /\ request[j] = None
  /\ Disturb("cancel")
  /\ api' = [job |-> j, seen |-> Status(j), at |-> "save"]
  /\ UNCHANGED <<process, todo, files, tick, handle>>

RequestFor(status) ==
  CASE status = "running"    -> "requested"
    [] status \in Terminal   -> "rejected"
    [] OTHER                 -> "completed"

\* ... save the request ...
CancelSave ==
  /\ process = "serving" /\ api # None /\ api.at = "save"
  /\ request' = [request EXCEPT ![api.job] = RequestFor(api.seen)]
  /\ api' = [api EXCEPT !.at = "act"]
  /\ UNCHANGED <<process, todo, jobs, lease, beat, overdue, tick, handle, disturbed, timely>>

\* ... cancel the job or terminate its child process, by the status read at first ...
CancelAct ==
  /\ process = "serving" /\ api # None /\ api.at = "act"
  /\ IF api.seen \in Runnable THEN SetStatus(api.job, "cancelled") ELSE UNCHANGED jobs
  /\ handle' = IF api.seen # "running" THEN handle
               ELSE [e \in Executors |-> IF Executing(e, api.job)
                                         THEN [handle[e] EXCEPT !.killed = TRUE]
                                         ELSE handle[e]]
  /\ api' = [api EXCEPT !.at = "result"]
  /\ UNCHANGED <<process, todo, lease, beat, overdue, tick, request, disturbed, timely>>

\* ... and save the result, with the request as it was when it was created.
CancelResult ==
  /\ process = "serving" /\ api # None /\ api.at = "result"
  /\ request' = [request EXCEPT ![api.job] = RequestFor(api.seen)]
  /\ api' = None
  /\ UNCHANGED <<process, todo, jobs, lease, beat, overdue, tick, handle, disturbed, timely>>

\* drainRun dequeues a job and processes it inside the request: no lease, no heartbeat.
DrainStart ==
  /\ process = "serving" /\ ~Busy(Drainer)
  /\ Disturb("drain")
  /\ \E j \in Jobs :
       /\ Status(j) \in Runnable
       /\ SetStatus(j, "running")
       /\ overdue' = overdue \ {j}
       /\ handle' = [handle EXCEPT ![Drainer] =
                       [job |-> j, attempt |-> jobs[j].attempt, stage |-> "starting",
                        killed |-> FALSE, outcome |-> None]]
  /\ UNCHANGED <<process, todo, lease, beat, tick, request, api>>

-----------------------------------------------------------------------------
BootStep == Boot \/ Serve \/ \E j \in Jobs : RecoverLease(j) \/ RecoverJob(j)
TickStep ==
  \/ TickBegin \/ ReclaimSkip \/ ReclaimLease \/ ReclaimJob \/ TickList
  \/ TickLease \/ TickHandle \/ TickEnd \/ TickThrows
  \/ \E w \in Workers : TickStart(w)
WorkerStep(e) ==
  \/ CheckBefore(e) \/ Execute(e) \/ CheckAfter(e) \/ Acknowledge(e) \/ FinalizeJob(e)
  \/ FinalizeRequest(e) \/ Report(e) \/ ReportThrows(e) \/ Leave(e)
ApiStep == CancelSave \/ CancelAct \/ CancelResult

Next ==
  \/ BootStep \/ TickStep \/ ApiStep
  \/ \E e \in Executors : WorkerStep(e)
  \/ \E w \in Workers : Renew(w)
  \/ \E j \in Jobs : TimePasses(j) \/ ApiRetry(j) \/ CancelRead(j)
  \/ Crash \/ Stall \/ DrainStart

Spec == Init /\ [][Next]_vars

\* The event loop runs every chain that can go on; executors are bounded by a timeout;
\* time passes.  Renewals and disturbances need not happen.
Fairness ==
  /\ WF_vars(BootStep) /\ WF_vars(TickStep) /\ WF_vars(ApiStep)
  /\ \A e \in Executors : WF_vars(WorkerStep(e))
  /\ \A j \in Jobs : WF_vars(TimePasses(j))

FairSpec == Spec /\ Fairness

-----------------------------------------------------------------------------
(* Properties.                                                             *)

\* Where every renewal is in time and no drainRun works beside the daemon: while a worker
\* executes a job, the lease file says that this worker owns it, and the lease can neither be
\* taken nor reclaimed.
ExecutingWorkerOwnsLease ==
  timely => \A w \in Workers, j \in Jobs : Executing(w, j) =>
    LeaseConflict(j) /\ lease[j].worker = w

\* There no job is executed twice at once either, whatever cancellations, retries and crashes
\* interfere.
NoDoubleExecution ==
  timely => \A d, e \in Executors, j \in Jobs : Executing(d, j) /\ Executing(e, j) => d = e

\* Once the disturbances are over, every job reaches a terminal status and keeps it.
EveryJobSettles == \A j \in Jobs : <>[](Status(j) \in Terminal)
=============================================================================
