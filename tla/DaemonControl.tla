---------------------------- MODULE DaemonControl ----------------------------
(***************************************************************************)
(* The daemon: one state file, written by control calls (pause, resume,    *)
(* drain, shutdown) that read it first, and by the tick that finds a       *)
(* shutdown complete; and the tick that gives queued jobs to the pool      *)
(* within the quota and concurrency limits.                                *)
(*                                                                         *)
(* Calls may overlap each other and the tick; ticks never overlap, because *)
(* tick() hands out the promise of the one under way.  Jobs that the API   *)
(* runs itself (drainRun) start and end besides, and a retry, a            *)
(* cancellation or a reclaim takes a running job away from whoever         *)
(* executes it.  What the limits and the shutdown look at are job records; *)
(* a worker has its handle for some time after its record has left         *)
(* "running".  The model begins when start() has saved the state as        *)
(* running.                                                                *)
(*                                                                         *)
(* A call of RunQueueService is one step (JobQueue opens those up).  Of    *)
(* the leases (JobRuntime) only this is left: the lease of a job may be    *)
(* refused while another worker still has a handle on the job.             *)
(***************************************************************************)
EXTENDS Integers, FiniteSets

CONSTANTS
  Jobs, Clients,
  RunOf, KindOf, KeysOf,   \* of each job: its run, its kind, its concurrency keys
  WorkerCount,
  GlobalLimit, RunLimit,   \* maxConcurrentJobsGlobal, maxConcurrentJobsPerRun
  KindLimit,               \* maxConcurrentJobsPerKind
  MaxCalls,                \* bound: API calls and late heartbeats
  None

Workers == 1 .. WorkerCount
Ops == {"pause", "resume", "drain", "shutdown"}
States == {"running", "paused", "draining", "stopped"}
Files == [state : States, shutdown : BOOLEAN]
Handles == [job : Jobs, settled : BOOLEAN]

ASSUME DaemonAssumption ==
  /\ IsFiniteSet(Jobs) /\ None \notin Jobs \cup Workers \cup Handles
  /\ WorkerCount \in Nat \ {0}
  /\ {GlobalLimit, RunLimit, MaxCalls} \subseteq Nat
  /\ \A j \in Jobs : KindLimit[KindOf[j]] \in Nat

VARIABLES
  file,     \* the saved state; shutdown is metadata.shutdownRequested
  polling,  \* pollTimer is set
  status,   \* of each job
  heldBy,   \* the worker for which the pool has started the job's record, while that runs
  handles,  \* the job each worker of the pool executes, and whether it has settled it
  inline,   \* the jobs that drainRun executes
  tick,     \* the tick under way
  call,     \* the control call of each client
  calls,    \* so far (bookkeeping for MaxCalls)
  alive     \* the process runs

vars == <<file, polling, status, heldBy, handles, inline, tick, call, calls, alive>>

NoTick == [at |-> "none", saw |-> [state |-> "running", shutdown |-> FALSE],
           worker |-> 1, job |-> None, todo |-> {}, active |-> {}, running |-> 0]
NoCall == [op |-> "pause", at |-> "none", saw |-> [state |-> "running", shutdown |-> FALSE]]

TypeOK ==
  /\ file \in Files
  /\ polling \in BOOLEAN
  /\ status \in [Jobs -> {"queued", "running", "done"}]
  /\ heldBy \in [Jobs -> Workers \cup {None}]
  /\ handles \in [Workers -> Handles \cup {None}]
  /\ inline \in SUBSET Jobs
  /\ tick \in [at : {"none", "reclaim", "list", "active", "pick", "lease", "measure", "check",
                     "stop", "unpoll"},
               saw : Files, worker : 1 .. WorkerCount + 1, job : Jobs \cup {None},
               todo : SUBSET Jobs, active : SUBSET Jobs, running : 0 .. Cardinality(Jobs)]
  /\ call \in [Clients -> [op : Ops, at : {"none", "save", "save_again", "tick", "wait"},
                         saw : Files]]
  /\ calls \in 0 .. MaxCalls
  /\ alive \in BOOLEAN

Init ==
  /\ file = [state |-> "running", shutdown |-> FALSE]
  /\ polling = TRUE
  /\ status = [j \in Jobs |-> "queued"]
  /\ heldBy = [j \in Jobs |-> None]
  /\ handles = [w \in Workers |-> None]
  /\ inline = {}
  /\ tick = NoTick
  /\ call = [c \in Clients |-> NoCall]
  /\ calls = 0
  /\ alive = TRUE

Running == {j \in Jobs : status[j] = "running"}
Held == {j \in Jobs : heldBy[j] # None}

\* The record of the job leaves "running", or stays out of it.
Leaves(j, next) ==
  /\ status' = [status EXCEPT ![j] = next]
  /\ heldBy' = [heldBy EXCEPT ![j] = None]

-----------------------------------------------------------------------------
(* The control calls.                                                      *)

\* What a call makes of the state it read.
Saved(op, saw) ==
  CASE op = "pause"  -> [saw EXCEPT !.state = "paused"]
    [] op = "resume" -> [saw EXCEPT !.state = "running"]
    [] op = "drain"  -> [saw EXCEPT !.state = "draining"]
    [] OTHER         -> [state |-> "draining", shutdown |-> TRUE]

CallReads(c) ==
  /\ call[c].at = "none" /\ calls < MaxCalls
  /\ \E op \in Ops : call' = [call EXCEPT ![c] = [op |-> op, at |-> "save", saw |-> file]]
  /\ calls' = calls + 1
  /\ UNCHANGED <<file, polling, status, heldBy, handles, inline, tick, alive>>

CallSaves(c) ==
  /\ call[c].at = "save"
  /\ file' = Saved(call[c].op, call[c].saw)
  /\ call' = [call EXCEPT ![c] =
       CASE @.op = "drain"    -> [@ EXCEPT !.at = "save_again"]
         [] @.op = "shutdown" -> [@ EXCEPT !.at = "tick"]
         [] OTHER             -> NoCall]
  /\ UNCHANGED <<polling, status, heldBy, handles, inline, tick, calls, alive>>

\* drain saves what it has saved before once more.
CallSavesAgain(c) ==
  /\ call[c].at = "save_again"
  /\ file' = Saved(call[c].op, call[c].saw)
  /\ call' = [call EXCEPT ![c] = NoCall]
  /\ UNCHANGED <<polling, status, heldBy, handles, inline, tick, calls, alive>>

\* runTick reads the state, and lists the running jobs to see which of them are stale.
Begin == tick' = [NoTick EXCEPT !.at = "reclaim", !.saw = file, !.active = Running]

\* shutdown waits for a tick: the one under way if there is one.
CallTicks(c) ==
  /\ call[c].at = "tick"
  /\ call' = [call EXCEPT ![c].at = "wait"]
  /\ IF tick.at = "none" THEN Begin ELSE UNCHANGED tick
  /\ UNCHANGED <<file, polling, status, heldBy, handles, inline, calls, alive>>

-----------------------------------------------------------------------------
(* The tick.                                                               *)

TimerTicks ==
  /\ polling /\ tick.at = "none"
  /\ Begin
  /\ UNCHANGED <<file, polling, status, heldBy, handles, inline, call, calls, alive>>

\* The tick ends, and so do the calls that wait for it.
TickEnds ==
  /\ tick' = NoTick
  /\ call' = [c \in Clients |-> IF call[c].at = "wait" THEN NoCall ELSE call[c]]

\* Nobody executes the job: no heartbeat renews what the record says, and it gets stale.
Orphaned(j) ==
  /\ status[j] = "running" /\ j \notin inline
  /\ \A w \in Workers : handles[w] # None => handles[w].job # j

\* A stale job that still runs is retried, or fails. Others than orphaned jobs are stale when a
\* heartbeat was late, or when drainRun executes them, which sends none.
TickReclaims(j) ==
  /\ tick.at = "reclaim" /\ j \in tick.active /\ status[j] = "running"
  /\ IF Orphaned(j) THEN UNCHANGED calls ELSE calls < MaxCalls /\ calls' = calls + 1
  /\ \E next \in {"queued", "done"} : Leaves(j, next)
  /\ tick' = [tick EXCEPT !.active = @ \ {j}]
  /\ UNCHANGED <<file, polling, handles, inline, call, alive>>

\* The others are not stale.
TickReclaimed ==
  /\ tick.at = "reclaim"
  /\ tick' = [tick EXCEPT !.at = "list", !.active = {}]
  /\ UNCHANGED <<file, polling, status, heldBy, handles, inline, call, calls, alive>>

\* runCycle: the runnable jobs are listed once, if new work is accepted ...
TickLists ==
  /\ tick.at = "list"
  /\ tick' = IF tick.saw.state = "running"
             THEN [NoTick EXCEPT !.at = "active", !.todo = {j \in Jobs : status[j] = "queued"}]
             ELSE [NoTick EXCEPT !.at = "measure"]
  /\ UNCHANGED <<file, polling, status, heldBy, handles, inline, call, calls, alive>>

\* ... and then, once, the active jobs.
TickListsActive ==
  /\ tick.at = "active"
  /\ tick' = [tick EXCEPT !.at = "pick", !.active = Running]
  /\ UNCHANGED <<file, polling, status, heldBy, handles, inline, call, calls, alive>>

OfRun(r, js) == {j \in js : RunOf[j] = r}
OfKind(k, js) == {j \in js : KindOf[j] = k}

\* May the job start beside the active ones?
WithinQuota(j, active) ==
  /\ Cardinality(active) < GlobalLimit
  /\ Cardinality(OfRun(RunOf[j], active)) < RunLimit
  /\ Cardinality(OfKind(KindOf[j], active)) < KindLimit[KindOf[j]]
KeysFree(j, active) == \A k \in active : KeysOf[j] \cap KeysOf[k] = {}
Allowed(j, active) == WithinQuota(j, active) /\ KeysFree(j, active)

Candidates == {j \in tick.todo : Allowed(j, tick.active)}

\* Mutant: the cycle does not count what it has started itself.
ForgetStarted(j) == tick.active
WithStarted(j) == tick.active \cup {j}

\* The next worker has a handle, or there is no job for it: those that are not allowed are
\* deferred, which writes their queued records again.
WorkerPasses ==
  /\ tick.at = "pick" /\ tick.worker \in Workers
  /\ handles[tick.worker] = None =>
       Candidates = {} /\ \A j \in tick.todo : status[j] = "queued"
  /\ tick' = [tick EXCEPT !.worker = @ + 1,
                          !.todo = IF handles[tick.worker] # None THEN @ ELSE {}]
  /\ UNCHANGED <<file, polling, status, heldBy, handles, inline, call, calls, alive>>

\* The next worker takes one of the others, which nobody has started since: startJob ...
WorkerTakes ==
  /\ tick.at = "pick" /\ tick.worker \in Workers /\ handles[tick.worker] = None
  /\ \E j \in Candidates :
       /\ status[j] = "queued"
       /\ status' = [status EXCEPT ![j] = "running"]
       /\ heldBy' = [heldBy EXCEPT ![j] = tick.worker]
       /\ tick' = [tick EXCEPT !.at = "lease", !.job = j, !.todo = Candidates \ {j}]
  /\ UNCHANGED <<file, polling, handles, inline, call, calls, alive>>

\* ... the lease, and startWorkerHandle, even if the job was taken away in between.
WorkerBegins ==
  /\ tick.at = "lease"
  /\ handles' = [handles EXCEPT ![tick.worker] = [job |-> tick.job, settled |-> FALSE]]
  /\ tick' = [tick EXCEPT !.at = "pick", !.worker = @ + 1, !.job = None,
                          !.active = WithStarted(tick.job)]
  /\ UNCHANGED <<file, polling, status, heldBy, inline, call, calls, alive>>

\* retryJob refuses a job that has succeeded since the listing, startJob and rescheduleJob one
\* that is no longer queued, acquireJobLease one whose lease another worker has. Nobody catches
\* this for a tick of the timer, and the process ends; for the tick of a call the client is told.
\* What startJob has saved stays.
TickFails ==
  /\ \/ tick.at = "reclaim" /\ \E j \in tick.active : status[j] = "done"
     \/ /\ tick.at = "pick" /\ tick.worker \in Workers /\ handles[tick.worker] = None
        /\ \E j \in tick.todo : status[j] # "queued"
     \/ /\ tick.at = "lease"
        /\ \E w \in Workers : handles[w] # None /\ handles[w].job = tick.job
  /\ TickEnds
  /\ alive' \in BOOLEAN
  /\ UNCHANGED <<file, polling, status, heldBy, handles, inline, calls>>

\* refreshMetrics, when every worker has been asked.
TickMeasures ==
  /\ \/ tick.at = "measure"
     \/ tick.at = "pick" /\ tick.worker \notin Workers
  /\ tick' = [NoTick EXCEPT !.at = "check", !.running = Cardinality(Running)]
  /\ UNCHANGED <<file, polling, status, heldBy, handles, inline, call, calls, alive>>

\* Mutant: a shutdown does not wait for the jobs that run.
NotWaitedFor == TRUE
\* Mutant: what is queued is waited for as well.
NothingLeft == tick.running = 0 /\ \A j \in Jobs : status[j] = "done"
Drained == tick.running = 0

\* maybeFinalizeDraining: the state is read again; a drain without shutdown only writes its
\* summary.
TickChecks ==
  /\ tick.at = "check"
  /\ IF file.state = "draining" /\ Drained /\ file.shutdown
     THEN tick' = [tick EXCEPT !.at = "stop", !.saw = file] /\ UNCHANGED call
     ELSE TickEnds
  /\ UNCHANGED <<file, polling, status, heldBy, handles, inline, calls, alive>>

\* It saves the state it has checked, as stopped (or degraded, when the reclaim of this tick
\* has failed a job), and some file accesses later it clears the timer.
TickStops ==
  /\ tick.at = "stop"
  /\ file' = [tick.saw EXCEPT !.state = "stopped"]
  /\ tick' = [tick EXCEPT !.at = "unpoll"]
  /\ UNCHANGED <<polling, status, heldBy, handles, inline, call, calls, alive>>
TickStopsPolling ==
  /\ tick.at = "unpoll"
  /\ polling' = FALSE
  /\ TickEnds
  /\ UNCHANGED <<file, status, heldBy, handles, inline, calls, alive>>

-----------------------------------------------------------------------------
(* Jobs.                                                                   *)

\* The worker writes the outcome of its job, whoever the record belongs to by now ...
JobSettles(w) ==
  /\ handles[w] # None /\ ~handles[w].settled
  /\ \E next \in {"done", "queued"} : Leaves(handles[w].job, next)
  /\ handles' = [handles EXCEPT ![w].settled = TRUE]
  /\ UNCHANGED <<file, polling, inline, tick, call, calls, alive>>

\* ... unless retryJob refuses a job that somebody else has settled: nobody catches that.
SettleFails(w) ==
  /\ handles[w] # None /\ ~handles[w].settled /\ status[handles[w].job] = "done"
  /\ alive' = FALSE
  /\ UNCHANGED <<file, polling, status, heldBy, handles, inline, tick, call, calls>>

\* The follow-up job is enqueued, the lease released and the worker saved; then the handle goes.
HandleEnds(w) ==
  /\ handles[w] # None /\ handles[w].settled
  /\ handles' = [handles EXCEPT ![w] = None]
  /\ UNCHANGED <<file, polling, status, heldBy, inline, tick, call, calls, alive>>

\* drainRun, inside an API call, whatever the daemon does.
InlineStarts(j) ==
  /\ status[j] = "queued"
  /\ calls < MaxCalls /\ calls' = calls + 1
  /\ status' = [status EXCEPT ![j] = "running"]
  /\ inline' = inline \cup {j}
  /\ UNCHANGED <<file, polling, heldBy, handles, tick, call, alive>>
InlineEnds(j) ==
  /\ j \in inline
  /\ \E next \in {"done", "queued"} : Leaves(j, next)
  /\ inline' = inline \ {j}
  /\ UNCHANGED <<file, polling, handles, tick, call, calls, alive>>

\* POST retry of a job that runs, or a cancellation that has read it while it was queued.
ApiTakes(j) ==
  /\ status[j] = "running"
  /\ calls < MaxCalls /\ calls' = calls + 1
  /\ \E next \in {"queued", "done"} : Leaves(j, next)
  /\ UNCHANGED <<file, polling, handles, inline, tick, call, alive>>

Call(c) == CallSaves(c) \/ CallSavesAgain(c) \/ CallTicks(c)

Tick ==
  \/ TickReclaimed \/ TickLists \/ TickListsActive
  \/ WorkerPasses \/ WorkerTakes \/ WorkerBegins \/ TickFails
  \/ TickMeasures \/ TickChecks \/ TickStops \/ TickStopsPolling

Next ==
  /\ alive
  /\ \/ TimerTicks \/ Tick
     \/ \E c \in Clients : CallReads(c) \/ Call(c)
     \/ \E w \in Workers : JobSettles(w) \/ SettleFails(w) \/ HandleEnds(w)
     \/ \E j \in Jobs : TickReclaims(j) \/ InlineStarts(j) \/ InlineEnds(j) \/ ApiTakes(j)

Spec == Init /\ [][Next]_vars

\* The timer fires, file accesses come back, and jobs end; of the jobs nobody executes, each
\* tick reclaims those that have got stale.
FairSpec ==
  /\ Spec
  /\ WF_vars(alive /\ TimerTicks) /\ WF_vars(alive /\ Tick)
  /\ \A c \in Clients : WF_vars(alive /\ Call(c))
  /\ \A w \in Workers : WF_vars(alive /\ JobSettles(w)) /\ WF_vars(alive /\ HandleEnds(w))
  /\ \A j \in Jobs : /\ WF_vars(alive /\ InlineEnds(j))
                     /\ SF_vars(alive /\ Orphaned(j) /\ TickReclaims(j))

-----------------------------------------------------------------------------
(* Properties.                                                             *)

\* The jobs that run for workers of the pool, by their records, are within the limits, although
\* the active jobs are listed only once in a cycle and other jobs start, end and are taken away
\* besides. A worker whose job was taken away, or that has settled it, is not counted: more
\* workers than this may be busy.
LimitsRespected ==
  /\ Cardinality(Held) <= GlobalLimit
  /\ \A j \in Held :
       /\ Cardinality(OfRun(RunOf[j], Held)) <= RunLimit
       /\ Cardinality(OfKind(KindOf[j], Held)) <= KindLimit[KindOf[j]]
       /\ \A k \in Held \ {j} : KeysOf[j] \cap KeysOf[k] = {}

\* The daemon becomes stopped only when no record says that a job runs for a worker, whatever
\* calls came between the tick's readings and its writing: a worker that is still busy has
\* settled its job, or lost it to a retry or a reclaim.
StoppedIsIdle == [][file'.state = "stopped" /\ file.state # "stopped" => Held' = {}]_vars

\* While the timer lives, a saved shutdown ends in stopped, unless another call is made after
\* it: also when a job was taken from its worker, or was started and then refused its lease.
Calling == \E c \in Clients : call[c].at \in {"save", "save_again"}
ShutdownCompletes ==
  (file.state = "draining" /\ file.shutdown /\ polling /\ tick.at # "unpoll")
    ~> (file.state = "stopped" \/ Calling \/ ~alive)
=============================================================================
