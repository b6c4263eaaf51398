------------------------------ MODULE JobQueue ------------------------------
(***************************************************************************)
(* The persisted job queue of the orchestrator, at the granularity of its  *)
(* files.  One run owns a directory with one JSON file per job and one     *)
(* queue-state.json.  Every file is replaced by a rename, so one read or   *)
(* one write is atomic; a call of RunQueueService or RetryService is a     *)
(* chain of such accesses with an await between each two, and any other    *)
(* promise chain of the process may run at each await.                     *)
(*                                                                         *)
(* The chains ("agents") are the daemon (boot-time recovery, then one tick *)
(* at a time), the worker handles it starts, and the requests of the HTTP  *)
(* API.  The process may die at any moment: the files stay, every chain is *)
(* lost, and the next boot runs RecoveryService before anything else.      *)
(*                                                                         *)
(* Leases, heartbeats and cancellation requests are in JobRuntime.         *)
(***************************************************************************)
EXTENDS Naturals, FiniteSets

CONSTANTS
  Jobs,       \* job identities (random UUIDs in the code)
  Workers,    \* the worker slots of the pool
  Clients,    \* API requests that may be in progress at the same time
  Daemon,     \* the agent of boot and tick
  Budget,     \* maxAttempts of every job
  Stimuli,    \* which of AllStimuli the environment issues
  Outcomes,   \* the terminal statuses that processing a job may end in
  MaxStimuli, \* bound: stimuli issued in one behaviour
  None        \* no call, no handle, no record

AllStimuli == {"enqueue", "retry", "cancel", "drain", "reclaim"}

VARIABLES
  process,  \* "down", "booting" (RecoveryService.recover) or "serving"
  jobs,     \* jobs/<jobId>.json: a record, or None when there is no file
  queue,    \* the jobIds of queue-state.json
  call,     \* the service call an agent is in the middle of, or None
  listed,   \* the runnable jobs an agent read at the start of its cycle
  handle,   \* what an executor (worker handle or drainRun) is processing
  todo,     \* the jobs RecoveryService.recover still has to visit
  issued    \* how many stimuli there were (bookkeeping for MaxStimuli)

vars == <<process, jobs, queue, call, listed, handle, todo, issued>>

Executors == Workers \cup Clients
Agents == {Daemon} \cup Executors

Runnable == {"queued", "retriable"}
Terminal == {"succeeded", "failed", "blocked", "cancelled", "manual_attention_required"}
Statuses == Runnable \cup Terminal \cup {"running"}
JobRecords == [status : Statuses, attempt : Nat \ {0}]

Operations == {"enqueueJob", "listRunnableJobs", "startJob", "completeJob", "retryJob",
               "markRetriable", "rescheduleJob", "restoreQueuedJob", "annotateJob",
               "cancelJob"}
Accesses == {"getJob", "getJobs", "saveJob", "getQueueState", "saveQueueState"}
Calls == [op : Operations, at : Accesses, job : Jobs \cup {None},
          rec : JobRecords \cup {None}, items : SUBSET Jobs,
          to : Terminal \cup {None}, by : Executors \cup {None}]
Handles == [job : Jobs, attempt : Nat \ {0}, stage : {"executing", "succeeded", "ended"}]

ASSUME BudgetAssumption == Budget \in Nat \ {0} /\ MaxStimuli \in Nat
ASSUME EnvironmentAssumption == Stimuli \subseteq AllStimuli /\ Outcomes \subseteq Terminal
ASSUME AgentsAssumption ==
  /\ Workers \cap Clients = {}
  /\ Daemon \notin Executors
ASSUME NoneAssumption ==
  /\ None \notin Jobs \cup Executors \cup Terminal
  /\ None \notin JobRecords
  /\ None \notin Calls
  /\ None \notin Handles

TypeOK ==
  /\ process \in {"down", "booting", "serving"}
  /\ jobs \in [Jobs -> JobRecords \cup {None}]
  /\ queue \in SUBSET Jobs
  /\ call \in [Agents -> Calls \cup {None}]
  /\ listed \in [Agents -> SUBSET Jobs]
  /\ handle \in [Executors -> Handles \cup {None}]
  /\ todo \in SUBSET Jobs
  /\ issued \in Nat

Init ==
  /\ process = "down"
  /\ jobs = [j \in Jobs |-> None]
  /\ queue = {}
  /\ call = [a \in Agents |-> None]
  /\ listed = [a \in Agents |-> {}]
  /\ handle = [e \in Executors |-> None]
  /\ todo = {}
  /\ issued = 0

-----------------------------------------------------------------------------
(* What the operations compute from what they have read.                   *)

\* Mutant: the last attempt counted as one that may be repeated.
CanRetryOffByOne(r) ==
  /\ r.status \in {"failed", "blocked", "retriable", "queued", "running"}
  /\ r.status \in Runnable \/ r.attempt <= Budget

CanRetry(r) ==
  /\ r.status \in {"failed", "blocked", "retriable", "queued", "running"}
  /\ r.status \in Runnable \/ r.attempt < Budget

\* Mutant: startJob writes back the record it read.
RunningJobUnmarked(r) == r

EnqueuedJob == [status |-> "queued", attempt |-> 1]
RunningJob(r) == [r EXCEPT !.status = "running"]
CompletedJob(r, to) == [r EXCEPT !.status = to]
RetriableJob(r) == [status |-> "retriable", attempt |-> r.attempt + 1]

\* startJob and completeJob take the item out, the others go through upsertQueueItem.
QueueAfter(c) ==
  IF c.op \in {"startJob", "completeJob"} THEN c.items \ {c.job} ELSE c.items \cup {c.job}

JobAfter(c) ==
  CASE c.op = "enqueueJob"    -> EnqueuedJob
    [] c.op = "startJob"      -> RunningJob(c.rec)
    [] c.op = "completeJob"   -> CompletedJob(c.rec, c.to)
    [] c.op = "markRetriable" -> RetriableJob(c.rec)
    [] OTHER                  -> c.rec      \* rescheduleJob, annotateJob

\* The calls that throw on the job record they read.
Refuses(op, r) ==
  \/ op \in {"startJob", "rescheduleJob"} /\ r.status \notin Runnable
  \/ op = "retryJob" /\ r.status \notin Runnable /\ ~CanRetry(r)

\* Mutant: enqueueJob goes to the queue file without its job file.
FirstAccessQueueFirst(op) ==
  CASE op \in {"enqueueJob", "restoreQueuedJob", "listRunnableJobs"} -> "getQueueState"
    [] OTHER -> "getJob"

FirstAccess(op) ==
  CASE op = "enqueueJob"                              -> "saveJob"
    [] op \in {"restoreQueuedJob", "listRunnableJobs"} -> "getQueueState"
    [] OTHER                                          -> "getJob"

Call(op, j, to, by) ==
  [op |-> op, at |-> FirstAccess(op), job |-> j, rec |-> None, items |-> {},
   to |-> to, by |-> by]

Begin(a, op, j, to, by) == call' = [call EXCEPT ![a] = Call(op, j, to, by)]

Idle(a) == call[a] = None
At(a, access) == call[a] # None /\ call[a].at = access

-----------------------------------------------------------------------------
(* The file accesses of a call.                                            *)

\* retryJob and cancelJob decide on the record they read, and the call they then make
\* reads the file again.
AfterDecision(c, r) ==
  CASE c.op = "retryJob" ->
         Call(IF r.status \in Runnable THEN "rescheduleJob" ELSE "markRetriable",
              c.job, None, None)
    [] c.op = "cancelJob" /\ r.status \in Runnable \cup {"blocked"} ->
         Call("completeJob", c.job, "cancelled", None)
    [] c.op = "cancelJob" /\ r.status = "running" ->
         Call("annotateJob", c.job, None, None)
    [] OTHER -> None

AfterGetJob(c, r) ==
  CASE c.op \in {"startJob", "completeJob"} ->
         [c EXCEPT !.rec = r, !.at = "getQueueState"]
    [] c.op \in {"markRetriable", "rescheduleJob", "annotateJob"} ->
         [c EXCEPT !.rec = r, !.at = "saveJob"]
    [] OTHER -> AfterDecision(c, r)

GetJob(a) ==
  /\ At(a, "getJob")
  /\ LET c == call[a] IN
       /\ ~Refuses(c.op, jobs[c.job])
       /\ call' = [call EXCEPT ![a] = AfterGetJob(c, jobs[c.job])]
  /\ UNCHANGED <<issued, process, jobs, queue, listed, handle, todo>>

\* completeJob writes the queue only when it finds the job in it.
GetQueueState(a) ==
  /\ At(a, "getQueueState")
  /\ LET c == call[a] IN
       call' = [call EXCEPT ![a] =
                  [c EXCEPT !.items = queue,
                            !.at = CASE c.op = "listRunnableJobs" -> "getJobs"
                                     [] c.op = "completeJob" /\ c.job \notin queue -> "saveJob"
                                     [] OTHER -> "saveQueueState"]]
  /\ UNCHANGED <<issued, process, jobs, queue, listed, handle, todo>>

SaveQueueState(a) ==
  /\ At(a, "saveQueueState")
  /\ LET c == call[a] IN
       /\ queue' = QueueAfter(c)
       /\ call' = [call EXCEPT ![a] =
                     IF c.op \in {"startJob", "completeJob"}
                     THEN [c EXCEPT !.at = "saveJob", !.items = {}] ELSE None]
  /\ UNCHANGED <<issued, process, jobs, listed, handle, todo>>

\* The write of a started job is the last access of startJob: its executor begins.
SaveJob(a) ==
  /\ At(a, "saveJob")
  /\ LET c == call[a] IN
       /\ jobs' = [jobs EXCEPT ![c.job] = JobAfter(c)]
       /\ call' = [call EXCEPT ![a] =
                     IF c.op \in {"enqueueJob", "markRetriable", "rescheduleJob"}
                     THEN [c EXCEPT !.at = "getQueueState", !.rec = None] ELSE None]
       /\ handle' = IF c.op = "startJob"
                    THEN [handle EXCEPT ![c.by] = [job |-> c.job, attempt |-> c.rec.attempt,
                                                   stage |-> "executing"]]
                    ELSE handle
  /\ UNCHANGED <<issued, process, queue, listed, todo>>

\* listRunnableJobs loads the job of every item it found in the queue.
GetJobs(a) ==
  /\ At(a, "getJobs")
  /\ \A j \in call[a].items : jobs[j] # None
  /\ listed' = [listed EXCEPT ![a] = {j \in call[a].items : jobs[j].status \in Runnable}]
  /\ call' = [call EXCEPT ![a] = None]
  /\ UNCHANGED <<issued, process, jobs, queue, handle, todo>>

-----------------------------------------------------------------------------
(* The process: crash, exceptions nobody catches, boot and recovery.       *)

\* The files survive, every promise chain is gone.
ProcessExit ==
  /\ process' = "down"
  /\ call' = [a \in Agents |-> None]
  /\ listed' = [a \in Agents |-> {}]
  /\ handle' = [e \in Executors |-> None]
  /\ todo' = {}
  /\ UNCHANGED <<issued, jobs, queue>>

Crash == process # "down" /\ ProcessExit

Throws(a) ==
  \/ At(a, "getJob") /\ Refuses(call[a].op, jobs[call[a].job])
  \/ At(a, "getJobs") /\ \E j \in call[a].items : jobs[j] = None

\* In a request the rejection becomes an error response.
RequestFails(c) ==
  /\ c \in Clients /\ Throws(c)
  /\ call' = [call EXCEPT ![c] = None]
  /\ listed' = [listed EXCEPT ![c] = {}]
  /\ handle' = [handle EXCEPT ![c] = None]
  /\ UNCHANGED <<issued, process, jobs, queue, todo>>

\* `void this.tick()` and handle.jobPromise have no catch: an unhandled rejection.
UnhandledRejection(a) ==
  /\ a \in {Daemon} \cup Workers /\ Throws(a)
  /\ process = "serving"
  /\ ProcessExit

\* recover catches what retryJob throws and fails the job.
RecoveryGivesUp ==
  /\ process = "booting" /\ Throws(Daemon)
  /\ Begin(Daemon, "completeJob", call[Daemon].job, "failed", None)
  /\ UNCHANGED <<issued, process, jobs, queue, listed, handle, todo>>

Boot ==
  /\ process = "down"
  /\ process' = "booting"
  /\ todo' = {j \in Jobs : jobs[j] # None}
  /\ UNCHANGED <<issued, jobs, queue, call, listed, handle>>

\* Mutant: only interrupted and never-started jobs are visited.
RecoverJobNotRetriable(j) ==
  /\ process = "booting" /\ Idle(Daemon) /\ j \in todo
  /\ todo' = todo \ {j}
  /\ CASE jobs[j].status = "running" -> Begin(Daemon, "retryJob", j, None, None)
       [] jobs[j].status = "queued"  -> Begin(Daemon, "restoreQueuedJob", j, None, None)
       [] OTHER                      -> UNCHANGED call
  /\ UNCHANGED <<issued, process, jobs, queue, listed, handle>>

\* Mutant: whatever did not succeed counts as interrupted.
RecoverJobUnsuccessful(j) ==
  /\ process = "booting" /\ Idle(Daemon) /\ j \in todo
  /\ todo' = todo \ {j}
  /\ CASE jobs[j].status \in Runnable  -> Begin(Daemon, "restoreQueuedJob", j, None, None)
       [] jobs[j].status # "succeeded" -> Begin(Daemon, "retryJob", j, None, None)
       [] OTHER                        -> UNCHANGED call
  /\ UNCHANGED <<issued, process, jobs, queue, listed, handle>>

\* A running record always lacks finishedAt: startJob clears it and is the only writer
\* of that status, so `running && !finishedAt` is the status alone.
RecoverJob(j) ==
  /\ process = "booting" /\ Idle(Daemon) /\ j \in todo
  /\ todo' = todo \ {j}
  /\ CASE jobs[j].status = "running"  -> Begin(Daemon, "retryJob", j, None, None)
       [] jobs[j].status \in Runnable -> Begin(Daemon, "restoreQueuedJob", j, None, None)
       [] OTHER                       -> UNCHANGED call
  /\ UNCHANGED <<issued, process, jobs, queue, listed, handle>>

Serve ==
  /\ process = "booting" /\ todo = {} /\ Idle(Daemon)
  /\ process' = "serving"
  /\ UNCHANGED <<issued, jobs, queue, call, listed, handle, todo>>

-----------------------------------------------------------------------------
(* The callers while the process serves.                                   *)

Ready(a) == process = "serving" /\ Idle(a)

Stimulus(s) == s \in Stimuli /\ issued < MaxStimuli /\ issued' = issued + 1

\* A fresh UUID: no file and no enqueueJob in progress has it.
Fresh(j) ==
  /\ jobs[j] = None
  /\ \A a \in Agents : call[a] # None => call[a].job # j

\* A tick, and drainRun between two jobs, may enqueue the tasks that became runnable.
TickEnqueue(j) ==
  /\ Ready(Daemon) /\ listed[Daemon] = {} /\ Fresh(j)
  /\ Begin(Daemon, "enqueueJob", j, None, None)
  /\ UNCHANGED <<issued, process, jobs, queue, listed, handle, todo>>

TickList ==
  /\ Ready(Daemon) /\ listed[Daemon] = {}
  /\ Begin(Daemon, "listRunnableJobs", None, None, None)
  /\ UNCHANGED <<issued, process, jobs, queue, listed, handle, todo>>

\* runCycle gives a free worker a listed job, or postpones the job for its quota or for
\* concurrency; a job is claimed once per cycle.
TickStart(w, j) ==
  /\ Ready(Daemon) /\ j \in listed[Daemon] /\ handle[w] = None
  /\ listed' = [listed EXCEPT ![Daemon] = @ \ {j}]
  /\ Begin(Daemon, "startJob", j, None, w)
  /\ UNCHANGED <<issued, process, jobs, queue, handle, todo>>

TickDefer(j) ==
  /\ Ready(Daemon) /\ j \in listed[Daemon] /\ \E w \in Workers : handle[w] = None
  /\ listed' = [listed EXCEPT ![Daemon] = @ \ {j}]
  /\ Begin(Daemon, "rescheduleJob", j, None, None)
  /\ UNCHANGED <<issued, process, jobs, queue, handle, todo>>

TickEnd ==
  /\ Ready(Daemon) /\ listed[Daemon] # {}
  /\ listed' = [listed EXCEPT ![Daemon] = {}]
  /\ UNCHANGED <<issued, process, jobs, queue, call, handle, todo>>

\* StaleJobReclaimService on a job it finds running and stale (when a job is stale is the
\* subject of JobRuntime).
TickReclaim(j) ==
  /\ Stimulus("reclaim")
  /\ Ready(Daemon) /\ listed[Daemon] = {}
  /\ jobs[j] # None /\ jobs[j].status = "running"
  /\ IF CanRetry(jobs[j]) THEN Begin(Daemon, "retryJob", j, None, None)
                          ELSE Begin(Daemon, "completeJob", j, "failed", None)
  /\ UNCHANGED <<process, jobs, queue, listed, handle, todo>>

\* An executor reports how its job ended; JobDispositionService offers a retry only
\* below the attempt budget of the record the job was started with.
Report(e) ==
  /\ Ready(e) /\ handle[e] # None /\ handle[e].stage = "executing"
  /\ \/ \E to \in Outcomes :
          /\ Begin(e, "completeJob", handle[e].job, to, None)
          /\ handle' = [handle EXCEPT ![e].stage = IF to = "succeeded" THEN to ELSE "ended"]
     \/ /\ handle[e].attempt < Budget
        /\ Begin(e, "retryJob", handle[e].job, None, None)
        /\ handle' = [handle EXCEPT ![e].stage = "ended"]
  /\ UNCHANGED <<issued, process, jobs, queue, listed, todo>>

\* After markSucceeded the worker enqueues the job that follows in the pipeline.
EnqueueFollowUp(e, j) ==
  /\ Ready(e) /\ handle[e] # None /\ handle[e].stage = "succeeded"
  /\ Fresh(j)
  /\ Begin(e, "enqueueJob", j, None, None)
  /\ handle' = [handle EXCEPT ![e] = None]
  /\ UNCHANGED <<issued, process, jobs, queue, listed, todo>>

Finish(e) ==
  /\ Ready(e) /\ handle[e] # None /\ handle[e].stage \in {"succeeded", "ended"}
  /\ handle' = [handle EXCEPT ![e] = None]
  /\ UNCHANGED <<issued, process, jobs, queue, call, listed, todo>>

Request(c) ==
  /\ Ready(c) /\ handle[c] = None /\ listed[c] = {}
  /\ \E j \in Jobs :
       \/ Stimulus("enqueue") /\ Fresh(j) /\ Begin(c, "enqueueJob", j, None, None)
       \/ Stimulus("retry") /\ jobs[j] # None /\ Begin(c, "retryJob", j, None, None)
       \/ Stimulus("cancel") /\ jobs[j] # None /\ Begin(c, "cancelJob", j, None, None)
  /\ UNCHANGED <<process, jobs, queue, listed, handle, todo>>

\* drainRun dequeues and processes jobs inside the request, next to the daemon.
DrainList(c) ==
  /\ Stimulus("drain")
  /\ Ready(c) /\ handle[c] = None /\ listed[c] = {}
  /\ Begin(c, "listRunnableJobs", None, None, None)
  /\ UNCHANGED <<process, jobs, queue, listed, handle, todo>>

DrainStart(c) ==
  /\ Ready(c) /\ handle[c] = None
  /\ \E j \in listed[c] : Begin(c, "startJob", j, None, c)
  /\ listed' = [listed EXCEPT ![c] = {}]
  /\ UNCHANGED <<issued, process, jobs, queue, handle, todo>>

-----------------------------------------------------------------------------
Next ==
  \/ \E a \in Agents :
       \/ GetJob(a) \/ GetQueueState(a) \/ SaveQueueState(a) \/ SaveJob(a) \/ GetJobs(a)
       \/ UnhandledRejection(a)
  \/ Crash \/ Boot \/ RecoveryGivesUp \/ Serve
  \/ TickList \/ TickEnd
  \/ \E j \in Jobs :
       \/ RecoverJob(j) \/ TickEnqueue(j) \/ TickDefer(j) \/ TickReclaim(j)
       \/ \E w \in Workers : TickStart(w, j)
       \/ \E e \in Executors : EnqueueFollowUp(e, j)
  \/ \E e \in Executors : Report(e) \/ Finish(e)
  \/ \E c \in Clients : RequestFails(c) \/ Request(c) \/ DrainList(c) \/ DrainStart(c)

Spec == Init /\ [][Next]_vars

-----------------------------------------------------------------------------
(* Properties that hold whatever the agents do.                            *)

\* Every queue item names a job whose file exists, at every instant and therefore after
\* every crash.  listRunnableJobs throws on the first item that does not resolve, and that
\* stops the dispatch of all jobs.
QueueItemsResolve == \A j \in queue : jobs[j] # None

\* When recovery ends and the daemon starts to serve, no job is left running without an
\* executor and every runnable job is in the queue again, whatever lost update, crash or
\* interrupted recovery came before.
BootRebuildsQueue ==
  [][process = "booting" /\ process' = "serving" =>
       \A j \in Jobs : jobs[j] # None =>
         /\ jobs[j].status # "running"
         /\ jobs[j].status \in Runnable => j \in queue]_vars

\* Recovery rewrites only jobs it found interrupted, and never spends an attempt beyond
\* the budget, however often it is itself interrupted and run again.
RecoveryRespectsRecords ==
  [][process = "booting" => \A j \in Jobs : jobs'[j] # jobs[j] =>
       /\ jobs[j].status = "running"
       /\ jobs'[j].attempt = jobs[j].attempt \/ jobs'[j].attempt \in 1 .. Budget]_vars

-----------------------------------------------------------------------------
(* Properties of the daemon and its workers left to themselves: they fail   *)
(* when an API request or a reclaim touches a job that a worker has.        *)

\* The records go through the life JobLifecycle promises: no interleaving of ticks, workers,
\* crashes and recoveries runs a settled job again, gives it another outcome, starts a
\* running job, or repeats a job beyond its budget.
Lifecycle == INSTANCE JobLifecycle WITH jobs <- jobs
RefinesLifecycle == Lifecycle!Spec

\* No two executors execute the same job, although the queue file may name a job that is
\* already running (a lost update puts it back).
OneExecutorPerJob ==
  \A d, e \in Executors :
    d # e /\ handle[d] # None /\ handle[e] # None
          /\ handle[d].stage = "executing" /\ handle[e].stage = "executing"
    => handle[d].job # handle[e].job
=============================================================================
