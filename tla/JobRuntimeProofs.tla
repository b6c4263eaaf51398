-------------------------- MODULE JobRuntimeProofs --------------------------
(***************************************************************************)
(* Theorems about JobRuntime: types, and the ownership of jobs by leases.  *)
(*                                                                         *)
(* While nothing is late and no drainRun works beside the daemon, a worker *)
(* holds the lease of its job from the write of the lease to the end of    *)
(* its handle.  The queue does not matter to that: a retry or a reclaim    *)
(* may well make a job runnable that a worker has in hand.                 *)
(***************************************************************************)
EXTENDS JobRuntime, TLAPS

Ticks == [at : {"idle", "reclaim", "settle", "cycle", "lease", "beat"},
          seen : SUBSET [job : Jobs, attempt : Nat], job : Jobs \cup {None},
          attempt : Nat, worker : Workers \cup {None}]

Typed == TypeOK /\ tick \in Ticks

Owns(w, j) == lease[j] = [worker |-> w, live |-> TRUE, released |-> FALSE]

\* A process that does not serve has nothing in memory.
NothingInMemory ==
  process # "serving" => tick = Quiet /\ \A e \in Executors : handle[e] = None

\* The worker the tick has chosen waits for its job.
ChosenIsFree ==
  tick.at \in {"lease", "beat"} =>
    tick.job \in Jobs /\ tick.worker \in Workers /\ handle[tick.worker] = None

\* Every job in a worker's hands, and the one it is about to get, is leased to it, and shows a
\* heartbeat.
InHand(w, j) == handle[w] # None /\ handle[w].job = j
AboutToGet(w, j) == tick.at = "beat" /\ tick.worker = w /\ tick.job = j
Owned ==
  /\ handle[Drainer] = None
  /\ \A w \in Workers, j \in Jobs :
       /\ InHand(w, j) => Owns(w, j) /\ beat[j] = "fresh"
       /\ AboutToGet(w, j) => Owns(w, j)

IInv == Typed /\ NothingInMemory /\ ChosenIsFree /\ (timely => Owned)

USE RuntimeAssumption, RuntimeNoneAssumption

-----------------------------------------------------------------------------
(* Types.                                                                  *)

LEMMA NewRecords ==
  ASSUME NEW r \in JobRecords
  PROVE  /\ Retried(r) \in JobRecords
         /\ \A s \in Terminal \cup {"running"} : [r EXCEPT !.status = s] \in JobRecords
<1>1. Retried(r) \in JobRecords
  BY DEF Retried, JobRecords, Runnable
<1>2. \A s \in Terminal \cup {"running"} : [r EXCEPT !.status = s] \in JobRecords
  BY DEF JobRecords
<1>. QED BY <1>1, <1>2

LEMMA NewJobs ==
  ASSUME TypeOK, NEW j
  PROVE  /\ Retry(j) => jobs' \in [Jobs -> JobRecords]
         /\ \A s \in Terminal \cup {"running"} : SetStatus(j, s) => jobs' \in [Jobs -> JobRecords]
         /\ UNCHANGED jobs => jobs' \in [Jobs -> JobRecords]
<1>1. CASE j \in Jobs
  <2>1. jobs[j] \in JobRecords
    BY <1>1 DEF TypeOK
  <2>. QED BY <2>1, NewRecords DEF TypeOK, Retry, SetStatus
<1>2. CASE j \notin Jobs
  BY <1>2 DEF TypeOK, Retry, SetStatus
<1>. QED BY <1>1, <1>2

LEMMA NewLeases ==
  ASSUME TypeOK, NEW j
  PROVE  /\ [lease EXCEPT ![j] = Released(@)] \in [Jobs -> Leases \cup {None}]
         /\ [lease EXCEPT ![j] = Renewed(@)] \in [Jobs -> Leases \cup {None}]
         /\ \A w \in Workers : [lease EXCEPT ![j] = [worker |-> w, live |-> TRUE, released |-> FALSE]]
                                 \in [Jobs -> Leases \cup {None}]
<1>1. \A l \in Leases \cup {None} : {Released(l), Renewed(l)} \subseteq Leases \cup {None}
  BY DEF Released, Renewed, Leases
<1>2. \A w \in Workers : [worker |-> w, live |-> TRUE, released |-> FALSE] \in Leases
  BY DEF Leases
<1>. QED BY <1>1, <1>2 DEF TypeOK

\* What the environment does counts, and may end the time in which nothing is late.
LEMMA DisturbTypes ==
  ASSUME TypeOK, NEW d, Disturb(d)
  PROVE  disturbed' \in 0 .. MaxDisturbances /\ timely' \in BOOLEAN /\ (timely' => timely)
BY DEF TypeOK, Disturb

LEMMA InitTyped == Init => Typed
<1> SUFFICES ASSUME Init PROVE Typed
  OBVIOUS
<1>1. jobs \in [Jobs -> JobRecords]
  BY DEF Init, JobRecords, Runnable
<1>2. tick \in Ticks
  BY DEF Init, Quiet, Ticks
<1>3. lease \in [Jobs -> Leases \cup {None}] /\ beat \in [Jobs -> {"none", "fresh", "stale"}]
      /\ handle \in [Executors -> Handles \cup {None}] /\ request \in [Jobs -> Requests \cup {None}]
  BY DEF Init
<1>. QED BY <1>1, <1>2, <1>3 DEF Init, Typed, TypeOK, Ticks

\* A step types the variables, or leaves them alone: what else is there to a type.
LEMMA TypedBy ==
  ASSUME process' \in {"down", "booting", "serving"}, todo' \subseteq Jobs,
         jobs' \in [Jobs -> JobRecords], lease' \in [Jobs -> Leases \cup {None}],
         beat' \in [Jobs -> {"none", "fresh", "stale"}], overdue' \subseteq Jobs,
         tick' \in Ticks, handle' \in [Executors -> Handles \cup {None}],
         request' \in [Jobs -> Requests \cup {None}], disturbed' \in 0 .. MaxDisturbances,
         timely' \in BOOLEAN
  PROVE  Typed'
BY DEF Typed, TypeOK, Ticks

LEMMA ExitTyped ==
  ASSUME Typed, ProcessExit, disturbed' \in 0 .. MaxDisturbances, timely' \in BOOLEAN
  PROVE  Typed'
<1>1. tick' \in Ticks /\ handle' \in [Executors -> Handles \cup {None}]
  BY DEF ProcessExit, Quiet, Ticks
<1>. QED BY <1>1, TypedBy DEF Typed, TypeOK, ProcessExit, files

LEMMA BootTyped ==
  ASSUME Typed, BootStep
  PROVE  Typed'
<1>1. CASE Boot
  BY <1>1, TypedBy DEF Typed, TypeOK, Boot, files
<1>2. CASE Serve
  BY <1>2, TypedBy DEF Typed, TypeOK, Serve, files
<1>3. ASSUME NEW j \in Jobs, RecoverLease(j) PROVE Typed'
  BY <1>3, TypedBy, NewLeases DEF Typed, TypeOK, RecoverLease
<1>4. ASSUME NEW j \in Jobs, RecoverJob(j) PROVE Typed'
  <2>1. jobs' \in [Jobs -> JobRecords]
    BY <1>4, NewJobs DEF Typed, RecoverJob, Terminal
  <2>. QED BY <1>4, <2>1, TypedBy DEF Typed, TypeOK, RecoverJob
<1>. QED BY <1>1, <1>2, <1>3, <1>4 DEF BootStep

LEMMA SnapshotTyped ==
  ASSUME TypeOK, NEW S \in SUBSET Jobs
  PROVE  Snapshot(S) \subseteq [job : Jobs, attempt : Nat]
BY DEF TypeOK, Snapshot, JobRecords

LEMMA TickTyped ==
  ASSUME Typed, ChosenIsFree, TickStep
  PROVE  Typed'
<1>1. CASE TickBegin \/ TickList \/ ReclaimSkip \/ TickEnd
  <2>1. /\ Snapshot({j \in Jobs : Status(j) = "running"}) \subseteq [job : Jobs, attempt : Nat]
        /\ Snapshot({j \in Jobs : Status(j) \in Runnable}) \subseteq [job : Jobs, attempt : Nat]
    BY SnapshotTyped DEF Typed
  <2>2. tick' \in Ticks
    <3>1. CASE TickBegin
      BY <3>1, <2>1 DEF TickBegin, Quiet, Ticks
    <3>2. CASE TickList
      BY <3>2, <2>1 DEF Typed, TickList, Ticks
    <3>3. CASE ReclaimSkip
      BY <3>3 DEF Typed, ReclaimSkip, Ticks
    <3>4. CASE TickEnd
      BY <3>4 DEF TickEnd, Quiet, Ticks
    <3>. QED BY <1>1, <3>1, <3>2, <3>3, <3>4
  <2>. QED BY <1>1, <2>2, TypedBy
           DEF Typed, TypeOK, TickBegin, TickList, ReclaimSkip, TickEnd, files
<1>2. CASE ReclaimLease
  <2>1. lease' \in [Jobs -> Leases \cup {None}]
    BY <1>2, NewLeases DEF Typed, ReclaimLease
  <2>2. PICK x \in tick.seen :
              tick' = [tick EXCEPT !.seen = @ \ {x}, !.at = "settle", !.job = x.job, !.attempt = x.attempt]
    BY <1>2 DEF ReclaimLease
  <2>3. x.job \in Jobs /\ x.attempt \in Nat
    BY DEF Typed, Ticks
  <2>4. tick' \in Ticks
    BY <2>2, <2>3 DEF Typed, Ticks
  <2>. QED BY <1>2, <2>1, <2>4, TypedBy DEF Typed, TypeOK, ReclaimLease
<1>3. CASE ReclaimJob
  <2>1. jobs' \in [Jobs -> JobRecords]
    BY <1>3, NewJobs DEF Typed, ReclaimJob, Terminal
  <2>2. tick' \in Ticks
    BY <1>3 DEF Typed, ReclaimJob, Ticks
  <2>. QED BY <1>3, <2>1, <2>2, TypedBy DEF Typed, TypeOK, ReclaimJob
<1>4. ASSUME NEW w \in Workers, TickStart(w) PROVE Typed'
  <2>1. jobs' \in [Jobs -> JobRecords]
    BY <1>4, NewJobs DEF Typed, TickStart
  <2>2. PICK x \in tick.seen :
              tick' = [tick EXCEPT !.seen = @ \ {x}, !.at = "lease", !.job = x.job, !.worker = w]
    BY <1>4 DEF TickStart
  <2>3. x.job \in Jobs
    BY DEF Typed, Ticks
  <2>4. tick' \in Ticks
    BY <2>2, <2>3 DEF Typed, Ticks
  <2>. QED BY <1>4, <2>1, <2>4, TypedBy DEF Typed, TypeOK, TickStart
<1>5. CASE TickLease
  <2>. tick.worker \in Workers
    BY <1>5 DEF TickLease, TickAt, ChosenIsFree
  <2>1. lease' \in [Jobs -> Leases \cup {None}]
    BY <1>5, NewLeases DEF Typed, TickLease
  <2>2. tick' \in Ticks
    BY <1>5 DEF Typed, TickLease, Ticks
  <2>. QED BY <1>5, <2>1, <2>2, TypedBy DEF Typed, TypeOK, TickLease
<1>6. CASE TickHandle
  <2>1. tick.job \in Jobs /\ tick.worker \in Workers
    BY <1>6 DEF TickHandle, TickAt, ChosenIsFree
  <2>2. [job |-> tick.job, attempt |-> jobs[tick.job].attempt, stage |-> "starting",
         killed |-> FALSE, outcome |-> None] \in Handles
    BY <2>1 DEF Typed, TypeOK, JobRecords, Handles, Stages
  <2>3. handle' \in [Executors -> Handles \cup {None}]
    BY <1>6, <2>2 DEF Typed, TypeOK, TickHandle
  <2>4. tick' \in Ticks
    BY <1>6 DEF Typed, TickHandle, Ticks
  <2>5. beat' \in [Jobs -> {"none", "fresh", "stale"}]
    BY <1>6 DEF Typed, TypeOK, TickHandle
  <2>. QED BY <1>6, <2>3, <2>4, <2>5, TypedBy DEF Typed, TypeOK, TickHandle
<1>7. CASE TickThrows
  BY <1>7, ExitTyped DEF Typed, TypeOK, TickThrows
<1>. QED BY <1>1, <1>2, <1>3, <1>4, <1>5, <1>6, <1>7 DEF TickStep

\* A handle goes on: it stays that of its job and attempt.
LEMMA HandleGoesOn ==
  ASSUME TypeOK, NEW e \in Executors, handle[e] # None, NEW s \in Stages
  PROVE  /\ handle[e] \in Handles
         /\ [handle[e] EXCEPT !.stage = s] \in Handles
         /\ \A o \in Outcomes \cup {"killed"} : [handle[e] EXCEPT !.stage = s, !.outcome = o] \in Handles
<1>1. handle[e] \in Handles
  BY DEF TypeOK
<1>. QED BY <1>1 DEF Handles

LEMMA GotoTyped ==
  ASSUME TypeOK, NEW e \in Executors, handle[e] # None, NEW s \in Stages, Goto(e, s)
  PROVE  handle' \in [Executors -> Handles \cup {None}]
BY HandleGoesOn DEF TypeOK, Goto

LEMMA WorkerTyped ==
  ASSUME Typed, NEW e \in Executors, WorkerStep(e)
  PROVE  Typed'
<1>1. CASE CheckBefore(e) \/ CheckAfter(e)
  <2>1. handle[e] # None /\ \E s \in Stages : Goto(e, s)
    BY <1>1 DEF CheckBefore, CheckAfter, WorkerAt, Busy, Stages
  <2>. QED BY <1>1, <2>1, GotoTyped, TypedBy DEF Typed, TypeOK, CheckBefore, CheckAfter, files
<1>2. CASE Execute(e)
  <2>1. handle[e] # None
    BY <1>2 DEF Execute, WorkerAt, Busy
  <2>2. PICK o \in Outcomes \cup {"killed"} :
              handle' = [handle EXCEPT ![e].stage = "executed", ![e].outcome = o]
    BY <1>2 DEF Execute
  <2>3. handle' \in [Executors -> Handles \cup {None}]
    BY <2>1, <2>2, HandleGoesOn DEF Typed, TypeOK, Stages
  <2>. QED BY <1>2, <2>3, TypedBy DEF Typed, TypeOK, Execute, files
<1>3. CASE Acknowledge(e)
  <2>1. handle[e] # None /\ Goto(e, "cancelling")
    BY <1>3 DEF Acknowledge, WorkerAt, Busy
  <2>2. handle' \in [Executors -> Handles \cup {None}]
    BY <2>1, GotoTyped DEF Typed, Stages
  <2>3. request' \in [Jobs -> Requests \cup {None}]
    BY <1>3 DEF Typed, TypeOK, Acknowledge, Requests, Pending
  <2>. QED BY <1>3, <2>2, <2>3, TypedBy DEF Typed, TypeOK, Acknowledge
<1>4. CASE FinalizeJob(e)
  <2>1. handle[e] # None /\ \E s \in Stages : Goto(e, s)
    BY <1>4 DEF FinalizeJob, WorkerAt, Busy, Stages
  <2>2. handle' \in [Executors -> Handles \cup {None}]
    BY <2>1, GotoTyped DEF Typed
  <2>3. jobs' \in [Jobs -> JobRecords]
    BY <1>4, NewJobs DEF Typed, FinalizeJob, Terminal
  <2>. QED BY <1>4, <2>2, <2>3, TypedBy DEF Typed, TypeOK, FinalizeJob
<1>5. CASE FinalizeRequest(e)
  <2>1. handle[e] # None /\ Goto(e, "done")
    BY <1>5 DEF FinalizeRequest, WorkerAt, Busy
  <2>2. handle' \in [Executors -> Handles \cup {None}]
    BY <2>1, GotoTyped DEF Typed, Stages
  <2>3. request' \in [Jobs -> Requests \cup {None}]
    BY <1>5 DEF Typed, TypeOK, FinalizeRequest, Requests
  <2>. QED BY <1>5, <2>2, <2>3, TypedBy DEF Typed, TypeOK, FinalizeRequest
<1>6. CASE Report(e)
  <2>1. handle[e] # None /\ \E s \in Stages : Goto(e, s)
    BY <1>6 DEF Report, WorkerAt, Busy, Stages
  <2>2. handle' \in [Executors -> Handles \cup {None}]
    BY <2>1, GotoTyped DEF Typed
  <2>3. \/ Retry(handle[e].job)
        \/ \E s \in Terminal : SetStatus(handle[e].job, s)
    BY <1>6 DEF Report, Terminal
  <2>4. jobs' \in [Jobs -> JobRecords]
    BY <2>3, NewJobs DEF Typed
  <2>. QED BY <1>6, <2>2, <2>4, TypedBy DEF Typed, TypeOK, Report
<1>7. CASE ReportThrows(e)
  <2>1. CASE ProcessExit
    BY <1>7, <2>1, ExitTyped DEF Typed, TypeOK, ReportThrows
  <2>2. CASE ~ProcessExit
    <3>1. handle' \in [Executors -> Handles \cup {None}]
      BY <1>7, <2>2 DEF Typed, TypeOK, ReportThrows
    <3>. QED BY <1>7, <2>2, <3>1, TypedBy DEF Typed, TypeOK, ReportThrows, files
  <2>. QED BY <2>1, <2>2
<1>8. CASE Leave(e)
  <2>1. lease' \in [Jobs -> Leases \cup {None}]
    <3>1. lease' = lease \/ lease' = [lease EXCEPT ![handle[e].job] = Released(@)]
      BY <1>8 DEF Leave
    <3>. QED BY <3>1, NewLeases DEF Typed, TypeOK
  <2>2. handle' \in [Executors -> Handles \cup {None}]
    BY <1>8 DEF Typed, TypeOK, Leave
  <2>. QED BY <1>8, <2>1, <2>2, TypedBy DEF Typed, TypeOK, Leave
<1>. QED BY <1>1, <1>2, <1>3, <1>4, <1>5, <1>6, <1>7, <1>8 DEF WorkerStep

LEMMA ApiTyped ==
  ASSUME Typed, ApiStep
  PROVE  Typed'
<1>1. \A seen : RequestFor(seen) \in Requests
  BY DEF RequestFor, Requests, Pending
<1>2. CASE CancelSave \/ CancelResult
  <2>1. request' \in [Jobs -> Requests \cup {None}]
    BY <1>1, <1>2 DEF Typed, TypeOK, CancelSave, CancelResult
  <2>. QED BY <1>2, <2>1, TypedBy DEF Typed, TypeOK, CancelSave, CancelResult
<1>3. CASE CancelAct
  <2>1. jobs' \in [Jobs -> JobRecords]
    BY <1>3, NewJobs DEF Typed, CancelAct, Terminal
  <2>0. \A h \in Handles : [h EXCEPT !.killed = TRUE] \in Handles
    BY DEF Handles
  <2>2. \A e \in Executors : handle[e] # None => [handle[e] EXCEPT !.killed = TRUE] \in Handles
    BY <2>0 DEF Typed, TypeOK
  <2>3. handle' \in [Executors -> Handles \cup {None}]
    BY <1>3, <2>2 DEF Typed, TypeOK, CancelAct, Executing, Busy
  <2>. QED BY <1>3, <2>1, <2>3, TypedBy DEF Typed, TypeOK, CancelAct
<1>. QED BY <1>2, <1>3 DEF ApiStep

LEMMA NeglectTyped ==
  ASSUME TypeOK, NEW S \in SUBSET Jobs, Neglected(S)
  PROVE  /\ lease' \in [Jobs -> Leases \cup {None}]
         /\ beat' \in [Jobs -> {"none", "fresh", "stale"}]
         /\ overdue' \subseteq Jobs
<1>0. \A l \in Leases : [l EXCEPT !.live = FALSE] \in Leases
  BY DEF Leases
<1>1. \A j \in Jobs : lease[j] # None => [lease[j] EXCEPT !.live = FALSE] \in Leases
  BY <1>0 DEF TypeOK
<1>. QED BY <1>1 DEF TypeOK, Neglected

LEMMA EnvironmentTyped ==
  ASSUME Typed,
         \/ \E w \in Workers : Renew(w)
         \/ \E j \in Jobs : TimePasses(j) \/ ApiRetry(j) \/ CancelRead(j)
         \/ Crash \/ Stall \/ DrainStart
  PROVE  Typed'
<1>1. ASSUME NEW w \in Workers, Renew(w) PROVE Typed'
  <2>1. lease' \in [Jobs -> Leases \cup {None}]
    BY <1>1, NewLeases DEF Typed, Renew
  <2>2. beat' \in [Jobs -> {"none", "fresh", "stale"}]
    BY <1>1 DEF Typed, TypeOK, Renew
  <2>. QED BY <1>1, <2>1, <2>2, TypedBy DEF Typed, TypeOK, Renew
<1>2. ASSUME NEW j \in Jobs, TimePasses(j) PROVE Typed'
  <2>1. /\ lease' \in [Jobs -> Leases \cup {None}] /\ beat' \in [Jobs -> {"none", "fresh", "stale"}]
        /\ overdue' \subseteq Jobs
    BY <1>2, NeglectTyped DEF Typed, TimePasses
  <2>. QED BY <1>2, <2>1, TypedBy DEF Typed, TypeOK, TimePasses
<1>3. CASE Stall
  <2>1. /\ lease' \in [Jobs -> Leases \cup {None}] /\ beat' \in [Jobs -> {"none", "fresh", "stale"}]
        /\ overdue' \subseteq Jobs
    BY <1>3, NeglectTyped DEF Typed, Stall
  <2>2. disturbed' \in 0 .. MaxDisturbances /\ timely' \in BOOLEAN
    BY <1>3, DisturbTypes DEF Typed, Stall
  <2>. QED BY <1>3, <2>1, <2>2, TypedBy DEF Typed, TypeOK, Stall
<1>4. ASSUME NEW j \in Jobs, ApiRetry(j) PROVE Typed'
  <2>1. jobs' \in [Jobs -> JobRecords]
    BY <1>4, NewJobs DEF Typed, ApiRetry
  <2>2. disturbed' \in 0 .. MaxDisturbances /\ timely' \in BOOLEAN
    BY <1>4, DisturbTypes DEF Typed, ApiRetry
  <2>. QED BY <1>4, <2>1, <2>2, TypedBy DEF Typed, TypeOK, ApiRetry
<1>5. ASSUME NEW j \in Jobs, CancelRead(j) PROVE Typed'
  <2>1. disturbed' \in 0 .. MaxDisturbances /\ timely' \in BOOLEAN
    BY <1>5, DisturbTypes DEF Typed, CancelRead
  <2>. QED BY <1>5, <2>1, TypedBy DEF Typed, TypeOK, CancelRead, files
<1>6. CASE Crash
  <2>1. disturbed' \in 0 .. MaxDisturbances /\ timely' \in BOOLEAN
    BY <1>6, DisturbTypes DEF Typed, Crash
  <2>. QED BY <1>6, <2>1, ExitTyped DEF Crash
<1>7. CASE DrainStart
  <2>1. disturbed' \in 0 .. MaxDisturbances /\ timely' \in BOOLEAN
    BY <1>7, DisturbTypes DEF Typed, DrainStart
  <2>2. PICK j \in Jobs :
          /\ SetStatus(j, "running") /\ overdue' = overdue \ {j}
          /\ handle' = [handle EXCEPT ![Drainer] =
                          [job |-> j, attempt |-> jobs[j].attempt, stage |-> "starting",
                           killed |-> FALSE, outcome |-> None]]
    BY <1>7 DEF DrainStart
  <2>3. jobs' \in [Jobs -> JobRecords]
    BY <2>2, NewJobs DEF Typed
  <2>4. [job |-> j, attempt |-> jobs[j].attempt, stage |-> "starting",
         killed |-> FALSE, outcome |-> None] \in Handles
    BY DEF Typed, TypeOK, JobRecords, Handles, Stages
  <2>5. handle' \in [Executors -> Handles \cup {None}]
    BY <2>2, <2>4 DEF Typed, TypeOK
  <2>. QED BY <1>7, <2>1, <2>2, <2>3, <2>5, TypedBy DEF Typed, TypeOK, DrainStart
<1>. QED BY <1>1, <1>2, <1>3, <1>4, <1>5, <1>6, <1>7

-----------------------------------------------------------------------------
(* Ownership.                                                              *)

MemoryInv == NothingInMemory /\ ChosenIsFree

Executor == Drainer \in Executors /\ Workers \subseteq Executors /\ Drainer \notin Workers

LEMMA ExecutorFacts == Executor
  BY DEF Executors, Executor

\* The process ends, and nobody has anything in hand.
LEMMA ExitOwns ==
  ASSUME ProcessExit
  PROVE  MemoryInv' /\ Owned'
<1>1. /\ tick' = Quiet /\ tick'.at = "idle"
      /\ \A e \in Executors : handle'[e] = None
  BY DEF ProcessExit, Quiet
<1>. QED BY <1>1, ExecutorFacts
         DEF Executor, MemoryInv, NothingInMemory, ChosenIsFree, Owned, InHand, AboutToGet

\* Nobody gets a job and the tick does not come to a lease: what is on file of the jobs that
\* remain in hand decides.
LEMMA NothingTaken ==
  ASSUME IInv, process = "serving", process' = "serving", timely' => timely,
         tick' = tick \/ tick'.at \notin {"lease", "beat"},
         \A e \in Executors : handle[e] = None => handle'[e] = None,
         \A w \in Workers, j \in Jobs : InHand(w, j)' => InHand(w, j),
         \A w \in Workers, j \in Jobs : timely' /\ (InHand(w, j)' \/ AboutToGet(w, j)) =>
           lease'[j] = lease[j] /\ beat'[j] \in {beat[j], "fresh"}
  PROVE  MemoryInv' /\ (timely' => Owned')
<1>1. MemoryInv'
  BY ExecutorFacts DEF Executor, IInv, MemoryInv, NothingInMemory, ChosenIsFree
<1>2. ASSUME timely', NEW w \in Workers, NEW j \in Jobs, InHand(w, j)'
      PROVE  Owns(w, j)' /\ beat'[j] = "fresh"
  BY <1>2 DEF IInv, Owned, Owns
<1>3. ASSUME timely', NEW w \in Workers, NEW j \in Jobs, AboutToGet(w, j)'
      PROVE  Owns(w, j)'
  BY <1>3 DEF IInv, Owned, Owns, AboutToGet
<1>4. timely' => handle'[Drainer] = None
  BY ExecutorFacts DEF Executor, IInv, Owned
<1>. QED BY <1>1, <1>2, <1>3, <1>4 DEF Owned

\* The usual case: what is on file of leases and heartbeats stays.
LEMMA FilesStay ==
  ASSUME IInv, process = "serving", process' = "serving", timely' => timely,
         UNCHANGED <<lease, beat>>,
         tick' = tick \/ tick'.at \notin {"lease", "beat"},
         \A e \in Executors : handle[e] = None => handle'[e] = None,
         \A w \in Workers, j \in Jobs : InHand(w, j)' => InHand(w, j)
  PROVE  MemoryInv' /\ (timely' => Owned')
BY NothingTaken

LEMMA BootOwns ==
  ASSUME IInv, BootStep
  PROVE  MemoryInv' /\ (timely' => Owned')
<1>1. process # "serving" /\ UNCHANGED <<tick, handle, timely>>
  BY DEF BootStep, Boot, Serve, RecoverLease, RecoverJob
<1>2. tick = Quiet /\ tick.at = "idle" /\ \A e \in Executors : handle[e] = None
  BY <1>1 DEF IInv, NothingInMemory, Quiet
<1>. QED BY <1>1, <1>2, ExecutorFacts
         DEF Executor, MemoryInv, NothingInMemory, ChosenIsFree, Owned, InHand, AboutToGet

\* A job in hand is leased and shows a heartbeat: nothing about it is stale.
LEMMA InHandIsNotStale ==
  ASSUME IInv, timely, NEW w \in Workers, NEW j \in Jobs, InHand(w, j)
  PROVE  ~IsStale(j) /\ LeaseConflict(j)
<1>1. Owns(w, j) /\ beat[j] = "fresh"
  BY DEF IInv, Owned
<1>2. [worker |-> w, live |-> TRUE, released |-> FALSE] \in Leases
  BY DEF Leases
<1>3. lease[j] # None
  BY <1>1, <1>2, RuntimeNoneAssumption DEF Owns
<1>. QED BY <1>1, <1>3 DEF IsStale, LeaseExpired, LeaseConflict, Unreleased, Owns

LEMMA TickOwns ==
  ASSUME IInv, TickStep
  PROVE  MemoryInv' /\ (timely' => Owned')
<1>1. CASE TickBegin \/ ReclaimSkip \/ ReclaimJob \/ TickList \/ TickEnd
  <2>1. tick \in Ticks /\ tick'.at \in {"idle", "reclaim", "cycle"}
    <3>1. CASE TickBegin
      <4>1. Quiet \in Ticks
        BY DEF Quiet, Ticks
      <4>2. \E seen : tick' = [Quiet EXCEPT !.at = "reclaim", !.seen = seen]
        BY <3>1 DEF TickBegin
      <4>. QED BY <4>1, <4>2 DEF IInv, Typed, Ticks
    <3>4. CASE TickEnd
      BY <3>4 DEF IInv, Typed, TickEnd, Quiet
    <3>2. CASE ReclaimSkip
      BY <3>2 DEF IInv, Typed, ReclaimSkip, TickAt, Ticks
    <3>3. CASE ReclaimJob \/ TickList
      BY <3>3 DEF IInv, Typed, ReclaimJob, TickList, Ticks
    <3>. QED BY <1>1, <3>1, <3>2, <3>3, <3>4
  <2>2. process = "serving" /\ UNCHANGED <<process, lease, beat, handle, timely>>
    BY <1>1 DEF TickBegin, ReclaimSkip, ReclaimJob, TickList, TickEnd, TickAt, files
  <2>. QED BY <2>1, <2>2, FilesStay DEF InHand
<1>2. CASE ReclaimLease
  <2>1. PICK x \in tick.seen :
          /\ IsStale(x.job)
          /\ lease' = [lease EXCEPT ![x.job] = Released(@)]
          /\ tick' = [tick EXCEPT !.seen = @ \ {x}, !.at = "settle", !.job = x.job, !.attempt = x.attempt]
    BY <1>2 DEF ReclaimLease
  <2>2. /\ process = "serving" /\ process' = "serving" /\ UNCHANGED <<handle, beat, timely>>
        /\ tick.at = "reclaim" /\ tick'.at = "settle"
    BY <1>2, <2>1 DEF ReclaimLease, TickAt, IInv, Typed, Ticks
  <2>3. ASSUME timely, NEW w \in Workers, NEW j \in Jobs, InHand(w, j)
        PROVE  lease'[j] = lease[j]
    <3>1. j # x.job
      BY <2>1, <2>3, InHandIsNotStale
    <3>. QED BY <2>1, <3>1 DEF IInv, Typed, TypeOK
  <2>. QED BY <2>2, <2>3, NothingTaken DEF InHand, AboutToGet
<1>3. ASSUME NEW v \in Workers, TickStart(v) PROVE MemoryInv' /\ (timely' => Owned')
  <2>1. PICK x \in tick.seen :
          tick' = [tick EXCEPT !.seen = @ \ {x}, !.at = "lease", !.job = x.job, !.worker = v]
    BY <1>3 DEF TickStart
  <2>2. /\ process' = "serving" /\ UNCHANGED <<handle, lease, beat, timely>>
        /\ handle[v] = None
    BY <1>3 DEF TickStart, TickAt, Busy
  <2>3. tick'.at = "lease" /\ tick'.worker = v /\ tick'.job = x.job /\ x.job \in Jobs
    BY <2>1 DEF IInv, Typed, Ticks
  <2>4. MemoryInv'
    BY <2>2, <2>3 DEF MemoryInv, NothingInMemory, ChosenIsFree
  <2>. QED BY <2>2, <2>3, <2>4 DEF IInv, Owned, Owns, InHand, AboutToGet
<1>4. CASE TickLease
  <2>1. /\ process' = "serving" /\ UNCHANGED <<handle, beat, timely>> /\ ~LeaseConflict(tick.job)
        /\ lease' = [lease EXCEPT ![tick.job] = [worker |-> tick.worker, live |-> TRUE, released |-> FALSE]]
        /\ tick' = [tick EXCEPT !.at = "beat"] /\ tick.at = "lease"
    BY <1>4 DEF TickLease, TickAt
  <2>2. tick'.at = "beat" /\ tick'.job = tick.job /\ tick'.worker = tick.worker
    BY <2>1 DEF IInv, Typed, Ticks
  <2>3. tick.job \in Jobs /\ tick.worker \in Workers /\ handle[tick.worker] = None
    BY <2>1 DEF IInv, ChosenIsFree
  <2>4. MemoryInv'
    BY <2>1, <2>2, <2>3 DEF MemoryInv, NothingInMemory, ChosenIsFree
  <2>5. ASSUME timely, NEW w \in Workers, NEW j \in Jobs, InHand(w, j)'
        PROVE  Owns(w, j)' /\ beat'[j] = "fresh"
    <3>1. InHand(w, j)
      BY <2>1, <2>5 DEF InHand
    <3>2. Owns(w, j) /\ beat[j] = "fresh"
      BY <2>5, <3>1 DEF IInv, Owned
    <3>3. j # tick.job
      BY <2>1, <2>5, <3>1, InHandIsNotStale
    <3>. QED BY <2>1, <3>2, <3>3 DEF Owns, IInv, Typed, TypeOK
  <2>6. ASSUME NEW w \in Workers, NEW j \in Jobs, AboutToGet(w, j)'
        PROVE  Owns(w, j)'
    <3>1. w = tick.worker /\ j = tick.job
      BY <2>2, <2>6 DEF AboutToGet
    <3>. QED BY <2>1, <3>1 DEF Owns, IInv, Typed, TypeOK
  <2>. QED BY <2>1, <2>4, <2>5, <2>6 DEF IInv, Owned
<1>5. CASE TickHandle
  <2>1. tick.job \in Jobs /\ tick.worker \in Workers /\ handle[tick.worker] = None
    BY <1>5 DEF IInv, ChosenIsFree, TickHandle, TickAt
  <2>2. PICK new \in Handles :
          /\ new.job = tick.job
          /\ handle' = [handle EXCEPT ![tick.worker] = new]
    <3> DEFINE new == [job |-> tick.job, attempt |-> jobs[tick.job].attempt,
                       stage |-> "starting", killed |-> FALSE, outcome |-> None]
    <3>1. new \in Handles
      BY <2>1 DEF IInv, Typed, TypeOK, JobRecords, Handles, Stages
    <3>. QED BY <1>5, <3>1 DEF TickHandle
  <2>3. /\ process' = "serving" /\ UNCHANGED <<lease, timely>> /\ tick'.at = "cycle" /\ tick.at = "beat"
        /\ beat' = [beat EXCEPT ![tick.job] = "fresh"]
    BY <1>5 DEF TickHandle, TickAt, IInv, Typed, Ticks
  <2>4. /\ handle'[tick.worker] = new
        /\ \A e \in Executors \ {tick.worker} : handle'[e] = handle[e]
    BY <2>1, <2>2, ExecutorFacts DEF Executor, IInv, Typed, TypeOK
  <2>5. \A j \in Jobs : beat'[j] = IF j = tick.job THEN "fresh" ELSE beat[j]
    BY <2>3 DEF IInv, Typed, TypeOK
  <2>6. MemoryInv'
    BY <2>3 DEF MemoryInv, NothingInMemory, ChosenIsFree
  <2>7. timely => handle'[Drainer] = None
    BY <2>1, <2>4, ExecutorFacts DEF Executor, IInv, Owned
  <2>8. ASSUME timely, NEW w \in Workers, NEW j \in Jobs, InHand(w, j)'
        PROVE  Owns(w, j)' /\ beat'[j] = "fresh"
    <3>1. CASE w = tick.worker
      <4>1. j = tick.job
        BY <2>2, <2>4, <2>8, <3>1 DEF InHand
      <4>2. AboutToGet(w, j)
        BY <2>3, <3>1, <4>1 DEF AboutToGet
      <4>. QED BY <2>3, <2>5, <2>8, <4>1, <4>2 DEF IInv, Owned, Owns
    <3>2. CASE w # tick.worker
      <4>1. InHand(w, j)
        BY <2>4, <2>8, <3>2, ExecutorFacts DEF Executor, InHand
      <4>. QED BY <2>3, <2>5, <2>8, <4>1 DEF IInv, Owned, Owns
    <3>. QED BY <3>1, <3>2
  <2>9. \A w \in Workers, j \in Jobs : ~AboutToGet(w, j)'
    BY <2>3 DEF AboutToGet
  <2>. QED BY <2>3, <2>6, <2>7, <2>8, <2>9 DEF Owned
<1>6. CASE TickThrows
  BY <1>6, ExitOwns DEF TickThrows
<1>. QED BY <1>1, <1>2, <1>3, <1>4, <1>5, <1>6 DEF TickStep

LEMMA WorkerOwns ==
  ASSUME IInv, NEW e \in Executors, WorkerStep(e)
  PROVE  MemoryInv' /\ (timely' => Owned')
<1>1. CASE \/ CheckBefore(e) \/ CheckAfter(e) \/ Execute(e) \/ Acknowledge(e) \/ FinalizeJob(e)
           \/ FinalizeRequest(e) \/ Report(e)
  <2>1. /\ process = "serving" /\ handle[e] # None
        /\ UNCHANGED <<process, lease, beat, tick, timely>>
    BY <1>1 DEF CheckBefore, CheckAfter, Execute, Acknowledge, FinalizeJob, FinalizeRequest, Report,
                WorkerAt, Busy, files
  <2>2. PICK s, o : \/ handle' = [handle EXCEPT ![e].stage = s]
                    \/ handle' = [handle EXCEPT ![e].stage = s, ![e].outcome = o]
    BY <1>1 DEF CheckBefore, CheckAfter, Execute, Acknowledge, FinalizeJob, FinalizeRequest, Report,
                Goto, Stages
  <2>3. handle[e] \in Handles
    BY <2>1 DEF IInv, Typed, TypeOK
  <2>4. /\ [handle[e] EXCEPT !.stage = s].job = handle[e].job
        /\ [handle[e] EXCEPT !.stage = s, !.outcome = o].job = handle[e].job
    BY <2>3 DEF Handles
  <2>5. handle'[e].job = handle[e].job /\ \A d \in Executors \ {e} : handle'[d] = handle[d]
    BY <2>2, <2>4 DEF IInv, Typed, TypeOK
  <2>6. \A w \in Workers, j \in Jobs : InHand(w, j)' => InHand(w, j)
    BY <2>1, <2>5, ExecutorFacts DEF Executor, InHand
  <2>7. \A d \in Executors : handle[d] = None => handle'[d] = None
    BY <2>1, <2>5
  <2>. QED BY <2>1, <2>6, <2>7, FilesStay
<1>2. CASE ReportThrows(e)
  <2>1. CASE ProcessExit
    BY <2>1, ExitOwns
  <2>2. CASE ~ProcessExit
    <3>1. /\ process = "serving" /\ UNCHANGED <<process, lease, beat, tick, timely>>
          /\ handle' = [handle EXCEPT ![e] = None]
      BY <1>2, <2>2 DEF ReportThrows, WorkerAt, files
    <3>2. \A d \in Executors : handle'[d] \in {None, handle[d]}
      BY <3>1 DEF IInv, Typed, TypeOK
    <3>. QED BY <3>1, <3>2, FilesStay, ExecutorFacts DEF Executor, InHand
  <2>. QED BY <2>1, <2>2
<1>3. CASE Leave(e)
  <2>1. /\ process = "serving" /\ UNCHANGED <<process, beat, tick, timely>> /\ handle[e] # None
        /\ lease' = IF e = Drainer \/ handle[e].stage = "handedOver" THEN lease
                    ELSE [lease EXCEPT ![handle[e].job] = Released(@)]
        /\ handle' = [handle EXCEPT ![e] = None]
    BY <1>3 DEF Leave, WorkerAt, Busy
  <2>2. handle'[e] = None /\ \A d \in Executors \ {e} : handle'[d] = handle[d]
    BY <2>1 DEF IInv, Typed, TypeOK
  <2>3. ASSUME timely, NEW w \in Workers, NEW j \in Jobs, InHand(w, j)' \/ AboutToGet(w, j)
        PROVE  lease'[j] = lease[j]
    <3>1. CASE lease' # lease
      <4>1. PICK k \in Jobs : k = handle[e].job
        BY <2>1 DEF IInv, Typed, TypeOK, Handles
      <4>2. e \in Workers /\ lease' = [lease EXCEPT ![k] = Released(@)]
        BY <2>1, <3>1, <4>1 DEF Executors
      <4>3. Owns(e, k)
        BY <2>1, <2>3, <4>1, <4>2 DEF IInv, Owned, InHand
      <4>4. Owns(w, j) /\ w # e
        <5>1. CASE InHand(w, j)'
          BY <2>2, <2>3, <5>1, ExecutorFacts DEF Executor, InHand, IInv, Owned
        <5>2. CASE AboutToGet(w, j)
          BY <2>1, <2>3, <5>2 DEF AboutToGet, IInv, Owned, ChosenIsFree
        <5>. QED BY <2>3, <5>1, <5>2
      <4>5. j # k
        BY <4>3, <4>4 DEF Owns
      <4>. QED BY <4>2, <4>5 DEF IInv, Typed, TypeOK
    <3>. QED BY <3>1
  <2>4. \A w \in Workers, j \in Jobs : InHand(w, j)' => InHand(w, j)
    BY <2>2, ExecutorFacts DEF Executor, InHand
  <2>5. \A d \in Executors : handle[d] = None => handle'[d] = None
    BY <2>2
  <2>. QED BY <2>1, <2>3, <2>4, <2>5, NothingTaken
<1>. QED BY <1>1, <1>2, <1>3 DEF WorkerStep

LEMMA ApiOwns ==
  ASSUME IInv, ApiStep
  PROVE  MemoryInv' /\ (timely' => Owned')
<1>1. process = "serving" /\ UNCHANGED <<process, lease, beat, tick, timely>>
  BY DEF ApiStep, CancelSave, CancelAct, CancelResult
<1>2. CASE CancelSave \/ CancelResult
  <2>1. UNCHANGED handle
    BY <1>2 DEF CancelSave, CancelResult
  <2>. QED BY <1>1, <2>1, FilesStay DEF InHand
<1>3. CASE CancelAct
  <2>1. \A e \in Executors : \/ handle'[e] = handle[e]
                             \/ handle[e] # None /\ handle'[e] = [handle[e] EXCEPT !.killed = TRUE]
    BY <1>3 DEF CancelAct, Executing, Busy
  <2>2. \A e \in Executors : handle[e] # None => [handle[e] EXCEPT !.killed = TRUE].job = handle[e].job
    BY DEF IInv, Typed, TypeOK, Handles
  <2>3. \A w \in Workers, j \in Jobs : InHand(w, j)' => InHand(w, j)
    BY <2>1, <2>2, ExecutorFacts DEF Executor, InHand
  <2>4. \A e \in Executors : handle[e] = None => handle'[e] = None
    BY <2>1
  <2>. QED BY <1>1, <2>3, <2>4, FilesStay
<1>. QED BY <1>2, <1>3 DEF ApiStep

\* Renewing a lease that is live changes nothing of it.
LEMMA LiveLeaseIsKept ==
  ASSUME NEW l \in Leases, l.live = TRUE
  PROVE  [l EXCEPT !.live = TRUE] = l
BY DEF Leases

LEMMA EnvironmentOwns ==
  ASSUME IInv,
         \/ \E w \in Workers : Renew(w)
         \/ \E j \in Jobs : TimePasses(j) \/ ApiRetry(j) \/ CancelRead(j)
         \/ Crash \/ Stall \/ DrainStart
  PROVE  MemoryInv' /\ (timely' => Owned')
<1>1. ASSUME NEW v \in Workers, Renew(v) PROVE MemoryInv' /\ (timely' => Owned')
  <2>1. /\ process = "serving" /\ UNCHANGED <<process, handle, tick, timely>> /\ handle[v] # None
        /\ lease' = [lease EXCEPT ![handle[v].job] = Renewed(@)]
        /\ beat' = [beat EXCEPT ![handle[v].job] = "fresh"]
    BY <1>1 DEF Renew, Busy
  <2>2. PICK k \in Jobs : k = handle[v].job
    BY <2>1, ExecutorFacts DEF Executor, IInv, Typed, TypeOK, Handles
  <2>3. timely => lease' = lease
    <3>1. timely => Owns(v, k)
      BY <2>1, <2>2 DEF IInv, Owned, InHand
    <3>2. timely => Renewed(lease[k]) = lease[k]
      <4>. SUFFICES ASSUME timely PROVE Renewed(lease[k]) = lease[k]
        OBVIOUS
      <4> DEFINE held == [worker |-> v, live |-> TRUE, released |-> FALSE]
      <4>1. lease[k] = held
        BY <3>1 DEF Owns
      <4>2. held \in Leases /\ held.live = TRUE
        BY DEF Leases
      <4>3. held # None
        BY <4>2, RuntimeNoneAssumption
      <4> HIDE DEF held
      <4>. QED BY <4>1, <4>2, <4>3, LiveLeaseIsKept DEF Renewed
    <3>. QED BY <2>1, <2>2, <3>2 DEF IInv, Typed, TypeOK
  <2>4. \A j \in Jobs : beat'[j] \in {beat[j], "fresh"}
    BY <2>1 DEF IInv, Typed, TypeOK
  <2>. QED BY <2>1, <2>3, <2>4, NothingTaken DEF InHand
<1>2. ASSUME NEW k \in Jobs, TimePasses(k) PROVE MemoryInv' /\ (timely' => Owned')
  <2>1. /\ UNCHANGED <<process, handle, tick, timely>>
        /\ \A j \in Jobs \ {k} : lease'[j] = lease[j] /\ beat'[j] = beat[j]
    BY <1>2 DEF TimePasses, Neglected
  <2>2. \A w \in Workers : ~InHand(w, k) /\ ~AboutToGet(w, k)
    BY <1>2 DEF TimePasses, Attended, InHand, AboutToGet, Busy
  <2>3. MemoryInv'
    BY <2>1 DEF IInv, MemoryInv, NothingInMemory, ChosenIsFree
  <2>. QED BY <2>1, <2>2, <2>3 DEF IInv, Owned, Owns, InHand, AboutToGet
<1>3. CASE Stall
  <2>1. ~timely' /\ UNCHANGED <<process, handle, tick>>
    BY <1>3 DEF Stall, Disturb
  <2>. QED BY <2>1 DEF IInv, MemoryInv, NothingInMemory, ChosenIsFree
<1>4. CASE \E j \in Jobs : ApiRetry(j) \/ CancelRead(j)
  <2>1. process = "serving" /\ UNCHANGED <<process, handle, tick, lease, beat>> /\ (timely' => timely)
    BY <1>4 DEF ApiRetry, CancelRead, Disturb, files
  <2>. QED BY <2>1, FilesStay DEF InHand
<1>5. CASE Crash
  BY <1>5, ExitOwns DEF Crash
<1>6. CASE DrainStart
  <2>1. ~timely' /\ process = "serving" /\ UNCHANGED <<process, tick>>
        /\ \E new : handle' = [handle EXCEPT ![Drainer] = new]
    BY <1>6 DEF DrainStart, Disturb
  <2>2. \A w \in Workers : handle'[w] = handle[w]
    BY <2>1, ExecutorFacts DEF Executor, IInv, Typed, TypeOK
  <2>. QED BY <2>1, <2>2 DEF IInv, MemoryInv, NothingInMemory, ChosenIsFree
<1>. QED BY <1>1, <1>2, <1>3, <1>4, <1>5, <1>6

-----------------------------------------------------------------------------
(* The theorems.                                                           *)

LEMMA Initially == Init => IInv
<1> SUFFICES ASSUME Init PROVE IInv
  OBVIOUS
<1>1. tick = Quiet /\ tick.at = "idle" /\ \A e \in Executors : handle[e] = None
  BY DEF Init, Quiet
<1>2. Typed
  BY InitTyped
<1>. QED BY <1>1, <1>2, ExecutorFacts
         DEF Executor, IInv, NothingInMemory, ChosenIsFree, Owned, InHand, AboutToGet

LEMMA Preserved == IInv /\ [Next]_vars => IInv'
<1> SUFFICES ASSUME IInv, [Next]_vars PROVE IInv'
  OBVIOUS
<1>1. CASE BootStep
  BY <1>1, BootTyped, BootOwns DEF IInv, MemoryInv
<1>2. CASE TickStep
  BY <1>2, TickTyped, TickOwns DEF IInv, MemoryInv
<1>3. CASE ApiStep
  BY <1>3, ApiTyped, ApiOwns DEF IInv, MemoryInv
<1>4. CASE \E e \in Executors : WorkerStep(e)
  BY <1>4, WorkerTyped, WorkerOwns DEF IInv, MemoryInv
<1>5. CASE \/ \E w \in Workers : Renew(w)
           \/ \E j \in Jobs : TimePasses(j) \/ ApiRetry(j) \/ CancelRead(j)
           \/ Crash \/ Stall \/ DrainStart
  BY <1>5, EnvironmentTyped, EnvironmentOwns DEF IInv, MemoryInv
<1>6. CASE UNCHANGED vars
  BY <1>6 DEF vars, IInv, Typed, TypeOK, NothingInMemory, ChosenIsFree, Owned, Owns, InHand, AboutToGet
<1>. QED BY <1>1, <1>2, <1>3, <1>4, <1>5, <1>6 DEF Next

LEMMA Invariant == Spec => []IInv
  BY Initially, Preserved, PTL DEF Spec

\* The files, the tick and the handles stay well formed.
THEOREM RuntimeTypes == Spec => []TypeOK
<1>1. IInv => TypeOK
  BY DEF IInv, Typed
<1>. QED BY <1>1, Invariant, PTL

\* acquireJobLease, the renewals and reclaim: a worker executes a job only while the lease file
\* names it and the lease can neither be taken nor reclaimed, whatever retries, cancellations and
\* crashes do to the record of the job.
THEOREM WorkersOwnTheirLeases == Spec => []ExecutingWorkerOwnsLease
<1>1. IInv => ExecutingWorkerOwnsLease
  <2> SUFFICES ASSUME IInv, timely, NEW w \in Workers, NEW j \in Jobs, Executing(w, j)
               PROVE  LeaseConflict(j) /\ lease[j].worker = w
    BY DEF ExecutingWorkerOwnsLease
  <2>1. InHand(w, j)
    BY DEF Executing, Busy, InHand
  <2>2. Owns(w, j)
    BY <2>1 DEF IInv, Owned
  <2>. QED BY <2>1, <2>2, InHandIsNotStale DEF Owns
<1>. QED BY <1>1, Invariant, PTL

\* startJob and acquireJobLease: while renewals are in time and no drainRun works beside the daemon,
\* no job is executed by two workers at once, though a retry may make it runnable while it runs.
\* The second start meets the lease.
THEOREM NothingRunsTwice == Spec => []NoDoubleExecution
<1>1. IInv => NoDoubleExecution
  <2> SUFFICES ASSUME IInv, timely, NEW d \in Executors, NEW e \in Executors, NEW j \in Jobs,
                      Executing(d, j), Executing(e, j)
               PROVE  d = e
    BY DEF NoDoubleExecution
  <2>1. d \in Workers /\ e \in Workers
    BY DEF IInv, Owned, Executing, Busy, Executors
  <2>2. Owns(d, j) /\ Owns(e, j)
    BY <2>1 DEF IInv, Owned, InHand, Executing, Busy
  <2>. QED BY <2>2 DEF Owns
<1>. QED BY <1>1, Invariant, PTL
=============================================================================
