--------------------------- MODULE JobQueueProofs ---------------------------
(***************************************************************************)
(* Proofs about JobQueue and JobLifecycle.                                 *)
(*                                                                         *)
(* First, for whoever calls: the type invariant, and that every queue item *)
(* names a job whose file exists.  Both follow from IInv, which refines    *)
(* the type invariant: whatever an agent has in its memory (the job and    *)
(* the queue items of its call, its listing, its handle) names jobs that   *)
(* have a file, because no operation ever deletes one.  The only call for  *)
(* a job without a file is an enqueueJob about to write it; it reads the   *)
(* queue afterwards, and that order is what the invariant rests on.  Then, *)
(* for the daemon and its workers alone, what DInv says of ownership.      *)
(***************************************************************************)
EXTENDS JobQueue, TLAPS

\* The jobs that have a file.
Saved == {j \in Jobs : jobs[j] # None}

\* The file accesses each operation is a chain of.
Path(op) ==
  CASE op = "enqueueJob"                    -> {"saveJob", "getQueueState", "saveQueueState"}
    [] op = "restoreQueuedJob"              -> {"getQueueState", "saveQueueState"}
    [] op = "listRunnableJobs"              -> {"getQueueState", "getJobs"}
    [] op \in {"startJob", "completeJob", "markRetriable", "rescheduleJob"} ->
         {"getJob", "saveJob", "getQueueState", "saveQueueState"}
    [] op = "annotateJob"                   -> {"getJob", "saveJob"}
    [] OTHER                                -> {"getJob"}

\* The call has read the record that it is going to write from.
HasRecord(c) ==
  \/ c.op \in {"startJob", "completeJob"} /\ c.at # "getJob"
  \/ c.op \in {"markRetriable", "rescheduleJob", "annotateJob"} /\ c.at = "saveJob"

\* The jobs a call may be about when those in S have a file.
Subjects(c, S) ==
  CASE c.op = "listRunnableJobs"                 -> {None}
    [] c.op = "enqueueJob" /\ c.at = "saveJob"   -> Jobs
    [] OTHER                                     -> S

SafeCall(c, S) ==
  /\ c.at \in Path(c.op)
  /\ c.items \subseteq S
  /\ c.job \in Subjects(c, S)
  /\ HasRecord(c) => c.rec # None
  /\ c.op = "completeJob" => c.to # None
  /\ c.op = "startJob" => c.by # None

SafeCalls(S) == {c \in Calls : SafeCall(c, S)}
SafeHandles(S) == {h \in Handles : h.job \in S}

IInv ==
  /\ process \in {"down", "booting", "serving"}
  /\ jobs \in [Jobs -> JobRecords \cup {None}]
  /\ queue \in SUBSET Saved
  /\ call \in [Agents -> SafeCalls(Saved) \cup {None}]
  /\ listed \in [Agents -> SUBSET Saved]
  /\ handle \in [Executors -> SafeHandles(Saved) \cup {None}]
  /\ todo \in SUBSET Saved
  /\ issued \in Nat

-----------------------------------------------------------------------------
(* What the invariant says, and when it is kept.                           *)

LEMMA IInvImplies == IInv => TypeOK /\ QueueItemsResolve
  BY DEF IInv, TypeOK, QueueItemsResolve, Saved, SafeCalls, SafeHandles

LEMMA InitIInv == Init => IInv
  BY DEF Init, IInv, Saved

\* What is safe stays safe when more jobs have a file.
LEMMA SafeMonotone ==
  ASSUME NEW S, NEW T, S \subseteq T
  PROVE  SafeCalls(S) \subseteq SafeCalls(T) /\ SafeHandles(S) \subseteq SafeHandles(T)
<1>1. ASSUME NEW c \in Calls, SafeCall(c, S) PROVE SafeCall(c, T)
  <2>1. c.job \in Subjects(c, T)
    BY <1>1 DEF SafeCall, Subjects
  <2> QED BY <1>1, <2>1 DEF SafeCall
<1> QED BY <1>1 DEF SafeCalls, SafeHandles

\* A step that leaves the job files alone keeps the invariant if what it writes is safe.
LEMMA Frame ==
  ASSUME IInv, UNCHANGED jobs,
         process' \in {"down", "booting", "serving"},
         queue' \in SUBSET Saved,
         call' \in [Agents -> SafeCalls(Saved) \cup {None}],
         listed' \in [Agents -> SUBSET Saved],
         handle' \in [Executors -> SafeHandles(Saved) \cup {None}],
         todo' \in SUBSET Saved,
         issued' \in Nat
  PROVE  IInv'
<1>1. Saved' = Saved
  BY DEF Saved
<1> QED BY <1>1 DEF IInv

-----------------------------------------------------------------------------
(* The calls that are begun are safe.                                      *)

LEMMA CallBasics ==
  ASSUME NEW op \in Operations, NEW j \in Jobs \cup {None},
         NEW to \in Terminal \cup {None}, NEW by \in Executors \cup {None}
  PROVE  Call(op, j, to, by) \in Calls
<1>1. FirstAccess(op) \in Accesses
  BY DEF FirstAccess, Accesses
<1> QED BY <1>1 DEF Call, Calls

LEMMA CallSafe ==
  ASSUME NEW S \in SUBSET Jobs, NEW op \in Operations, NEW j \in Jobs \cup {None},
         NEW to \in Terminal \cup {None}, NEW by \in Executors \cup {None},
         \/ op = "enqueueJob" /\ j \in Jobs
         \/ op = "listRunnableJobs" /\ j = None
         \/ op \notin {"enqueueJob", "listRunnableJobs"} /\ j \in S,
         op = "completeJob" => to # None,
         op = "startJob" => by # None
  PROVE  Call(op, j, to, by) \in SafeCalls(S)
<1> DEFINE c == Call(op, j, to, by)
<1>1. c \in Calls
  BY CallBasics
<1>2. c.op = op /\ c.job = j /\ c.to = to /\ c.by = by /\ c.items = {} /\ c.at = FirstAccess(op)
  BY DEF Call
<1>3. FirstAccess(op) \in Path(op)
  BY DEF FirstAccess, Path, Operations
<1>4. j \in Subjects(c, S)
  <2>1. CASE op = "enqueueJob"
    BY <1>2, <2>1 DEF Subjects, FirstAccess
  <2>2. CASE op = "listRunnableJobs"
    BY <1>2, <2>2 DEF Subjects
  <2>3. CASE op \notin {"enqueueJob", "listRunnableJobs"}
    BY <1>2, <2>3 DEF Subjects
  <2> QED BY <2>1, <2>2, <2>3
<1>5. ~HasRecord(c)
  BY <1>2 DEF HasRecord, FirstAccess
<1> HIDE DEF c
<1>6. SafeCall(c, S)
  BY <1>2, <1>3, <1>4, <1>5 DEF SafeCall
<1> QED BY <1>1, <1>6 DEF SafeCalls, c

LEMMA BeginSafe ==
  ASSUME IInv, NEW a \in Agents, NEW op, NEW j, NEW to, NEW by,
         Call(op, j, to, by) \in SafeCalls(Saved), Begin(a, op, j, to, by)
  PROVE  call' \in [Agents -> SafeCalls(Saved) \cup {None}]
  BY DEF IInv, Begin

-----------------------------------------------------------------------------
(* The file accesses keep the invariant.                                   *)

LEMMA CurrentCall ==
  ASSUME IInv, NEW a \in Agents, NEW access, At(a, access)
  PROVE  /\ call[a] \in Calls /\ SafeCall(call[a], Saved) /\ call[a].at = access
         /\ access \in Path(call[a].op)
<1>1. call[a] \in SafeCalls(Saved)
  BY DEF IInv, At
<1> QED BY <1>1 DEF SafeCalls, SafeCall, At

LEMMA SavedRecord ==
  ASSUME IInv, NEW j \in Saved
  PROVE  j \in Jobs /\ jobs[j] \in JobRecords /\ jobs[j] # None
  BY DEF IInv, Saved

LEMMA GetJobStep == ASSUME IInv, NEW a \in Agents, GetJob(a) PROVE IInv'
<1> DEFINE c == call[a]
           r == jobs[c.job]
           next == AfterGetJob(c, r)
<1>1. /\ c \in Calls /\ SafeCall(c, Saved) /\ c.at = "getJob"
      /\ "getJob" \in Path(c.op)
  BY CurrentCall DEF GetJob
<1>2. c.op \in Operations
  BY <1>1 DEF Calls
<1>3. c.op \notin {"enqueueJob", "listRunnableJobs", "restoreQueuedJob"}
  BY <1>1 DEF Path
<1>4. c.job \in Saved
  BY <1>1, <1>3 DEF SafeCall, Subjects
<1>5. r \in JobRecords /\ r # None
  BY <1>4, SavedRecord
<1>6. next \in SafeCalls(Saved) \cup {None}
  <2>1. CASE c.op \in {"startJob", "completeJob"}
    <3> DEFINE d == [c EXCEPT !.rec = r, !.at = "getQueueState"]
    <3>1. d \in Calls
      BY <1>1, <1>5 DEF Calls, Accesses
    <3>2. /\ d.op = c.op /\ d.job = c.job /\ d.items = c.items /\ d.to = c.to
          /\ d.by = c.by /\ d.at = "getQueueState" /\ d.rec = r
      BY <1>1 DEF Calls
    <3>3. next = d
      BY <2>1 DEF AfterGetJob
    <3> HIDE DEF d, next
    <3>4. SafeCall(d, Saved)
      BY <1>1, <1>4, <1>5, <2>1, <3>2 DEF SafeCall, Subjects, Path
    <3> QED BY <3>1, <3>3, <3>4 DEF SafeCalls
  <2>2. CASE c.op \in {"markRetriable", "rescheduleJob", "annotateJob"}
    <3> DEFINE d == [c EXCEPT !.rec = r, !.at = "saveJob"]
    <3>1. d \in Calls
      BY <1>1, <1>5 DEF Calls, Accesses
    <3>2. /\ d.op = c.op /\ d.job = c.job /\ d.items = c.items /\ d.to = c.to
          /\ d.by = c.by /\ d.at = "saveJob" /\ d.rec = r
      BY <1>1 DEF Calls
    <3>3. next = d
      BY <2>2 DEF AfterGetJob
    <3> HIDE DEF d, next
    <3>4. SafeCall(d, Saved)
      BY <1>1, <1>4, <1>5, <2>2, <3>2 DEF SafeCall, Subjects, Path
    <3> QED BY <3>1, <3>3, <3>4 DEF SafeCalls
  <2>3. CASE c.op \in {"retryJob", "cancelJob"}
    <3>1. next = AfterDecision(c, r)
      BY <2>3 DEF AfterGetJob
    <3>2. \/ next = Call("rescheduleJob", c.job, None, None)
          \/ next = Call("markRetriable", c.job, None, None)
          \/ next = Call("completeJob", c.job, "cancelled", None)
          \/ next = Call("annotateJob", c.job, None, None)
          \/ next = None
      BY <3>1 DEF AfterDecision
    <3>3. "cancelled" \in Terminal /\ "cancelled" # None
      BY NoneAssumption DEF Terminal
    <3>4. Saved \in SUBSET Jobs
      BY DEF Saved
    <3>5. \A op \in {"rescheduleJob", "markRetriable", "annotateJob"} :
            Call(op, c.job, None, None) \in SafeCalls(Saved)
      BY <1>4, <3>4, CallSafe DEF Operations
    <3>6. Call("completeJob", c.job, "cancelled", None) \in SafeCalls(Saved)
      BY <1>4, <3>3, <3>4, CallSafe DEF Operations
    <3> QED BY <3>2, <3>5, <3>6
  <2> QED BY <1>2, <1>3, <2>1, <2>2, <2>3 DEF Operations
<1>7. call' = [call EXCEPT ![a] = next]
  BY DEF GetJob
<1> HIDE DEF next
<1>8. call' \in [Agents -> SafeCalls(Saved) \cup {None}]
  BY <1>6, <1>7 DEF IInv
<1> QED BY <1>8, Frame DEF GetJob, IInv

LEMMA GetQueueStateStep == ASSUME IInv, NEW a \in Agents, GetQueueState(a) PROVE IInv'
<1> DEFINE c == call[a]
           at == CASE c.op = "listRunnableJobs" -> "getJobs"
                   [] c.op = "completeJob" /\ c.job \notin queue -> "saveJob"
                   [] OTHER -> "saveQueueState"
           d == [c EXCEPT !.items = queue, !.at = at]
<1>1. /\ c \in Calls /\ SafeCall(c, Saved) /\ c.at = "getQueueState"
      /\ "getQueueState" \in Path(c.op)
  BY CurrentCall DEF GetQueueState
<1>2. at \in Accesses /\ at \in Path(c.op) /\ (at = "saveJob" => c.op = "completeJob")
  BY <1>1 DEF Accesses, Path
<1>3. queue \in SUBSET Saved /\ queue \in SUBSET Jobs
  BY DEF IInv, Saved
<1>4. call' = [call EXCEPT ![a] = d]
  BY DEF GetQueueState
<1> HIDE DEF at
<1>5. d \in Calls
  BY <1>1, <1>2, <1>3 DEF Calls
<1>6. /\ d.op = c.op /\ d.job = c.job /\ d.items = queue /\ d.to = c.to
      /\ d.by = c.by /\ d.at = at /\ d.rec = c.rec
  BY <1>1 DEF Calls
<1> HIDE DEF d
<1>7. d.job \in Subjects(d, Saved)
  BY <1>1, <1>2, <1>6 DEF SafeCall, Subjects
<1>8. HasRecord(d) => d.rec # None
  BY <1>1, <1>2, <1>6 DEF SafeCall, HasRecord
<1>9. SafeCall(d, Saved)
  BY <1>1, <1>2, <1>3, <1>6, <1>7, <1>8 DEF SafeCall
<1>10. call' \in [Agents -> SafeCalls(Saved) \cup {None}]
  BY <1>4, <1>5, <1>9 DEF IInv, SafeCalls
<1> QED BY <1>10, Frame DEF GetQueueState, IInv

LEMMA SaveQueueStateStep == ASSUME IInv, NEW a \in Agents, SaveQueueState(a) PROVE IInv'
<1> DEFINE c == call[a]
           d == [c EXCEPT !.at = "saveJob", !.items = {}]
<1>1. /\ c \in Calls /\ SafeCall(c, Saved) /\ c.at = "saveQueueState"
      /\ "saveQueueState" \in Path(c.op)
  BY CurrentCall DEF SaveQueueState
<1>2. c.op # "listRunnableJobs"
  BY <1>1 DEF Path
<1>3. c.job \in Saved /\ c.items \subseteq Saved
  BY <1>1, <1>2 DEF SafeCall, Subjects
<1>4. queue' \in SUBSET Saved
  BY <1>3 DEF SaveQueueState, QueueAfter
<1>5. ASSUME c.op \in {"startJob", "completeJob"} PROVE d \in SafeCalls(Saved)
  <2>1. d \in Calls
    BY <1>1 DEF Calls, Accesses
  <2>2. /\ d.op = c.op /\ d.job = c.job /\ d.items = {} /\ d.to = c.to
        /\ d.by = c.by /\ d.at = "saveJob" /\ d.rec = c.rec
    BY <1>1 DEF Calls
  <2> HIDE DEF d
  <2>3. d.job \in Subjects(d, Saved)
    BY <1>3, <1>5, <2>2 DEF Subjects
  <2>4. d.rec # None
    BY <1>1, <1>5, <2>2 DEF SafeCall, HasRecord
  <2>5. SafeCall(d, Saved)
    BY <1>1, <1>5, <2>2, <2>3, <2>4 DEF SafeCall, Path
  <2> QED BY <2>1, <2>5 DEF SafeCalls
<1>6. call' \in [Agents -> SafeCalls(Saved) \cup {None}]
  <2>1. call' = [call EXCEPT ![a] = IF c.op \in {"startJob", "completeJob"} THEN d ELSE None]
    BY DEF SaveQueueState
  <2> HIDE DEF d
  <2> QED BY <1>5, <2>1 DEF IInv
<1> QED BY <1>4, <1>6, Frame DEF SaveQueueState, IInv

LEMMA GetJobsStep == ASSUME IInv, NEW a \in Agents, GetJobs(a) PROVE IInv'
<1>1. SafeCall(call[a], Saved)
  BY CurrentCall DEF GetJobs
<1>2. listed' \in [Agents -> SUBSET Saved]
  BY <1>1 DEF GetJobs, SafeCall, IInv
<1>3. call' \in [Agents -> SafeCalls(Saved) \cup {None}]
  BY DEF GetJobs, IInv
<1> QED BY <1>2, <1>3, Frame DEF GetJobs, IInv

\* The record that saveJob writes.
LEMMA WrittenRecord ==
  ASSUME NEW c \in Calls, NEW S \in SUBSET Jobs, SafeCall(c, S), c.at = "saveJob"
  PROVE  JobAfter(c) \in JobRecords
<1>1. /\ "queued" \in Statuses /\ "running" \in Statuses /\ "retriable" \in Statuses
      /\ Terminal \subseteq Statuses
  BY DEF Statuses, Runnable
<1>2. c.op \in {"enqueueJob", "startJob", "completeJob", "markRetriable", "rescheduleJob",
               "annotateJob"}
  BY DEF SafeCall, Path
<1>3. CASE c.op = "enqueueJob"
  BY <1>1, <1>3 DEF JobAfter, EnqueuedJob, JobRecords
<1>4. CASE c.op # "enqueueJob"
  <2>1. c.rec \in JobRecords
    BY <1>2, <1>4 DEF SafeCall, HasRecord, Calls
  <2>2. c.rec.attempt \in Nat \ {0}
    BY <2>1 DEF JobRecords
  <2>3. CASE c.op = "startJob"
    BY <1>1, <2>1, <2>3 DEF JobAfter, RunningJob, JobRecords
  <2>4. CASE c.op = "completeJob"
    <3>1. c.to \in Statuses
      BY <1>1, <2>4 DEF SafeCall, Calls
    <3> QED BY <2>1, <2>4, <3>1 DEF JobAfter, CompletedJob, JobRecords
  <2>5. CASE c.op = "markRetriable"
    BY <1>1, <2>2, <2>5 DEF JobAfter, RetriableJob, JobRecords
  <2>6. CASE c.op \in {"rescheduleJob", "annotateJob"}
    BY <2>1, <2>6 DEF JobAfter
  <2> QED BY <1>2, <1>4, <2>3, <2>4, <2>5, <2>6
<1> QED BY <1>3, <1>4

LEMMA SaveJobStep == ASSUME IInv, NEW a \in Agents, SaveJob(a) PROVE IInv'
<1> DEFINE c == call[a]
           d == [c EXCEPT !.at = "getQueueState", !.rec = None]
           h == [job |-> c.job, attempt |-> c.rec.attempt, stage |-> "executing"]
<1>1. /\ c \in Calls /\ SafeCall(c, Saved) /\ c.at = "saveJob"
      /\ "saveJob" \in Path(c.op)
  BY CurrentCall DEF SaveJob
<1>2. c.op # "listRunnableJobs"
  BY <1>1 DEF Path
<1>3. Saved \in SUBSET Jobs
  BY DEF Saved
<1>4. c.job \in Jobs
  BY <1>1, <1>2, <1>3 DEF SafeCall, Subjects
<1>5. JobAfter(c) \in JobRecords /\ JobAfter(c) # None
  BY <1>1, <1>3, WrittenRecord, NoneAssumption
<1>6. jobs' = [jobs EXCEPT ![c.job] = JobAfter(c)]
  BY DEF SaveJob
<1>7. jobs' \in [Jobs -> JobRecords \cup {None}]
  BY <1>4, <1>5, <1>6 DEF IInv
<1>8. Saved' = Saved \cup {c.job}
  BY <1>4, <1>5, <1>6 DEF IInv, Saved
<1>9. SafeCalls(Saved) \subseteq SafeCalls(Saved') /\ SafeHandles(Saved) \subseteq SafeHandles(Saved')
  BY <1>8, SafeMonotone
<1>10. ASSUME c.op \in {"enqueueJob", "markRetriable", "rescheduleJob"}
       PROVE  d \in SafeCalls(Saved')
  <2>1. d \in Calls
    BY <1>1 DEF Calls, Accesses
  <2>2. /\ d.op = c.op /\ d.job = c.job /\ d.items = c.items /\ d.to = c.to
        /\ d.by = c.by /\ d.at = "getQueueState"
    BY <1>1 DEF Calls
  <2> HIDE DEF d
  <2>3. d.job \in Subjects(d, Saved')
    BY <1>8, <1>10, <2>2 DEF Subjects
  <2>4. ~HasRecord(d)
    BY <1>10, <2>2 DEF HasRecord
  <2>5. d.items \subseteq Saved'
    BY <1>1, <1>8, <2>2 DEF SafeCall
  <2>6. SafeCall(d, Saved')
    BY <1>10, <2>2, <2>3, <2>4, <2>5 DEF SafeCall, Path
  <2> QED BY <2>1, <2>6 DEF SafeCalls
<1>11. call' \in [Agents -> SafeCalls(Saved') \cup {None}]
  <2>1. call' = [call EXCEPT ![a] =
                   IF c.op \in {"enqueueJob", "markRetriable", "rescheduleJob"}
                   THEN d ELSE None]
    BY DEF SaveJob
  <2> HIDE DEF d
  <2> QED BY <1>9, <1>10, <2>1 DEF IInv
<1>12. ASSUME c.op = "startJob" PROVE h \in SafeHandles(Saved') /\ c.by \in Executors
  <2>1. c.rec \in JobRecords /\ c.by \in Executors
    BY <1>1, <1>12 DEF SafeCall, HasRecord, Calls
  <2>2. c.rec.attempt \in Nat \ {0}
    BY <2>1 DEF JobRecords
  <2>3. h \in Handles
    BY <1>4, <2>2 DEF Handles
  <2> QED BY <1>8, <2>1, <2>3 DEF SafeHandles
<1>13. handle' \in [Executors -> SafeHandles(Saved') \cup {None}]
  <2>1. handle' = IF c.op = "startJob" THEN [handle EXCEPT ![c.by] = h] ELSE handle
    BY DEF SaveJob
  <2> HIDE DEF h
  <2> QED BY <1>9, <1>12, <2>1 DEF IInv
<1>14. queue' \in SUBSET Saved' /\ todo' \in SUBSET Saved'
       /\ listed' \in [Agents -> SUBSET Saved']
  BY <1>8 DEF SaveJob, IInv
<1> QED BY <1>7, <1>11, <1>13, <1>14 DEF IInv, SaveJob

-----------------------------------------------------------------------------
(* The process and the callers keep the invariant.                         *)

LEMMA ProcessExitStep == ASSUME IInv, ProcessExit PROVE IInv'
  BY Frame DEF ProcessExit, IInv

LEMMA RequestFailsStep == ASSUME IInv, NEW c \in Clients, RequestFails(c) PROVE IInv'
<1>1. c \in Agents /\ c \in Executors
  BY DEF Agents, Executors
<1> QED BY <1>1, Frame DEF RequestFails, IInv

\* Only a refused record can make recovery give up: its items all have a file.
LEMMA RecoveryGivesUpStep == ASSUME IInv, RecoveryGivesUp PROVE IInv'
<1> DEFINE c == call[Daemon]
<1>1. Daemon \in Agents
  BY DEF Agents
<1>2. ~At(Daemon, "getJobs") \/ \A j \in c.items : jobs[j] # None
  BY <1>1, CurrentCall DEF SafeCall, Saved
<1>3. At(Daemon, "getJob")
  BY <1>2 DEF RecoveryGivesUp, Throws
<1>4. c.job \in Saved
  BY <1>1, <1>3, CurrentCall DEF SafeCall, Subjects, Path
<1>5. Call("completeJob", c.job, "failed", None) \in SafeCalls(Saved)
  BY <1>4, NoneAssumption, CallSafe DEF Operations, Terminal, Saved
<1>6. call' \in [Agents -> SafeCalls(Saved) \cup {None}]
  BY <1>1, <1>5, BeginSafe DEF RecoveryGivesUp
<1> QED BY <1>6, Frame DEF RecoveryGivesUp, IInv

LEMMA BootSteps == ASSUME IInv, Boot \/ Serve PROVE IInv'
  BY Frame DEF Boot, Serve, IInv, Saved

\* The calls that concern a job with a file, and the two that need none.
LEMMA JobCallSafe ==
  ASSUME NEW j \in Saved, NEW op \in Operations \ {"enqueueJob", "listRunnableJobs",
                                                  "startJob", "completeJob"}
  PROVE  Call(op, j, None, None) \in SafeCalls(Saved)
  BY CallSafe DEF Saved

LEMMA CompleteCallSafe ==
  ASSUME NEW j \in Saved, NEW to \in Terminal
  PROVE  Call("completeJob", j, to, None) \in SafeCalls(Saved)
  BY CallSafe, NoneAssumption DEF Saved, Operations

LEMMA StartCallSafe ==
  ASSUME NEW j \in Saved, NEW e \in Executors
  PROVE  Call("startJob", j, None, e) \in SafeCalls(Saved)
  BY CallSafe, NoneAssumption DEF Saved, Operations

LEMMA EnqueueCallSafe ==
  ASSUME NEW j \in Jobs PROVE Call("enqueueJob", j, None, None) \in SafeCalls(Saved)
  BY CallSafe DEF Saved, Operations

LEMMA ListCallSafe == Call("listRunnableJobs", None, None, None) \in SafeCalls(Saved)
  BY CallSafe DEF Saved, Operations

LEMMA RecoverJobStep == ASSUME IInv, NEW j \in Jobs, RecoverJob(j) PROVE IInv'
<1>1. Daemon \in Agents /\ j \in Saved
  BY DEF Agents, RecoverJob, IInv
<1>2. Call("retryJob", j, None, None) \in SafeCalls(Saved)
      /\ Call("restoreQueuedJob", j, None, None) \in SafeCalls(Saved)
  BY <1>1, JobCallSafe DEF Operations
<1>3. call' \in [Agents -> SafeCalls(Saved) \cup {None}]
  <2>1. CASE UNCHANGED call
    BY <2>1 DEF IInv
  <2>2. CASE Begin(Daemon, "retryJob", j, None, None)
    BY <1>1, <1>2, <2>2, BeginSafe
  <2>3. CASE Begin(Daemon, "restoreQueuedJob", j, None, None)
    BY <1>1, <1>2, <2>3, BeginSafe
  <2> QED BY <2>1, <2>2, <2>3 DEF RecoverJob
<1> QED BY <1>3, Frame DEF RecoverJob, IInv

LEMMA TickListSteps == ASSUME IInv, TickList \/ TickEnd PROVE IInv'
<1>1. Daemon \in Agents
  BY DEF Agents
<1>2. CASE TickList
  <2>1. call' \in [Agents -> SafeCalls(Saved) \cup {None}]
    BY <1>1, <1>2, ListCallSafe, BeginSafe DEF TickList
  <2> QED BY <1>2, <2>1, Frame DEF TickList, IInv
<1>3. CASE TickEnd
  <2>1. listed' \in [Agents -> SUBSET Saved]
    BY <1>1, <1>3 DEF TickEnd, IInv
  <2> QED BY <1>3, <2>1, Frame DEF TickEnd, IInv
<1> QED BY <1>2, <1>3

LEMMA TickSteps ==
  ASSUME IInv, NEW j \in Jobs, TickEnqueue(j) \/ TickDefer(j) \/ TickReclaim(j)
  PROVE  IInv'
<1>1. Daemon \in Agents
  BY DEF Agents
<1>2. CASE TickEnqueue(j)
  <2>1. call' \in [Agents -> SafeCalls(Saved) \cup {None}]
    BY <1>1, <1>2, EnqueueCallSafe, BeginSafe DEF TickEnqueue
  <2> QED BY <1>2, <2>1, Frame DEF TickEnqueue, IInv
<1>3. CASE TickDefer(j)
  <2>1. j \in Saved
    BY <1>1, <1>3 DEF TickDefer, IInv
  <2>2. call' \in [Agents -> SafeCalls(Saved) \cup {None}]
    BY <1>1, <1>3, <2>1, JobCallSafe, BeginSafe DEF TickDefer, Operations
  <2>3. listed' \in [Agents -> SUBSET Saved]
    BY <1>1, <1>3 DEF TickDefer, IInv
  <2> QED BY <1>3, <2>2, <2>3, Frame DEF TickDefer, IInv
<1>4. CASE TickReclaim(j)
  <2>1. j \in Saved /\ "failed" \in Terminal
    BY <1>4 DEF TickReclaim, Saved, Terminal
  <2>2. call' \in [Agents -> SafeCalls(Saved) \cup {None}]
    BY <1>1, <1>4, <2>1, JobCallSafe, CompleteCallSafe, BeginSafe
       DEF TickReclaim, Operations
  <2>3. issued' \in Nat
    BY <1>4 DEF TickReclaim, Stimulus, IInv
  <2> QED BY <1>4, <2>2, <2>3, Frame DEF TickReclaim, IInv
<1> QED BY <1>2, <1>3, <1>4

LEMMA TickStartStep ==
  ASSUME IInv, NEW j \in Jobs, NEW w \in Workers, TickStart(w, j) PROVE IInv'
<1>1. Daemon \in Agents /\ w \in Executors
  BY DEF Agents, Executors
<1>2. j \in Saved
  BY <1>1 DEF TickStart, IInv
<1>3. call' \in [Agents -> SafeCalls(Saved) \cup {None}]
  BY <1>1, <1>2, StartCallSafe, BeginSafe DEF TickStart
<1>4. listed' \in [Agents -> SUBSET Saved]
  BY <1>1 DEF TickStart, IInv
<1> QED BY <1>3, <1>4, Frame DEF TickStart, IInv

\* What an executor does with its handle.
LEMMA ExecutorSteps ==
  ASSUME IInv, NEW e \in Executors,
         Report(e) \/ Finish(e) \/ \E j \in Jobs : EnqueueFollowUp(e, j)
  PROVE  IInv'
<1>1. e \in Agents
  BY DEF Agents
<1>2. handle[e] # None
  BY DEF Report, Finish, EnqueueFollowUp
<1>3. handle[e] \in Handles /\ handle[e].job \in Saved
  BY <1>2 DEF IInv, SafeHandles
<1>4. \A s \in {"executing", "succeeded", "ended"} :
        [handle[e] EXCEPT !.stage = s] \in SafeHandles(Saved)
  BY <1>3 DEF Handles, SafeHandles
<1>5. CASE Report(e)
  <2>1. /\ call' \in [Agents -> SafeCalls(Saved) \cup {None}]
        /\ handle' \in [Executors -> SafeHandles(Saved) \cup {None}]
    <3>1. CASE \E to \in Outcomes :
                 /\ Begin(e, "completeJob", handle[e].job, to, None)
                 /\ handle' = [handle EXCEPT ![e].stage =
                                 IF to = "succeeded" THEN to ELSE "ended"]
      <4>1. PICK to \in Outcomes :
                 /\ Begin(e, "completeJob", handle[e].job, to, None)
                 /\ handle' = [handle EXCEPT ![e].stage =
                                 IF to = "succeeded" THEN to ELSE "ended"]
        BY <3>1
      <4>2. to \in Terminal
        BY EnvironmentAssumption
      <4>3. call' \in [Agents -> SafeCalls(Saved) \cup {None}]
        BY <1>1, <1>3, <4>1, <4>2, CompleteCallSafe, BeginSafe
      <4>4. handle' \in [Executors -> SafeHandles(Saved) \cup {None}]
        BY <1>4, <4>1 DEF IInv
      <4> QED BY <4>3, <4>4
    <3>2. CASE /\ Begin(e, "retryJob", handle[e].job, None, None)
               /\ handle' = [handle EXCEPT ![e].stage = "ended"]
      <4>1. call' \in [Agents -> SafeCalls(Saved) \cup {None}]
        BY <1>1, <1>3, <3>2, JobCallSafe, BeginSafe DEF Operations
      <4>2. handle' \in [Executors -> SafeHandles(Saved) \cup {None}]
        BY <1>4, <3>2 DEF IInv
      <4> QED BY <4>1, <4>2
    <3> QED BY <1>5, <3>1, <3>2 DEF Report
  <2> QED BY <1>5, <2>1, Frame DEF Report, IInv
<1>6. CASE Finish(e)
  <2>1. handle' \in [Executors -> SafeHandles(Saved) \cup {None}]
    BY <1>6 DEF Finish, IInv
  <2> QED BY <1>6, <2>1, Frame DEF Finish, IInv
<1>7. CASE \E j \in Jobs : EnqueueFollowUp(e, j)
  <2>1. PICK j \in Jobs : EnqueueFollowUp(e, j)
    BY <1>7
  <2>2. call' \in [Agents -> SafeCalls(Saved) \cup {None}]
    BY <1>1, <2>1, EnqueueCallSafe, BeginSafe DEF EnqueueFollowUp
  <2>3. handle' \in [Executors -> SafeHandles(Saved) \cup {None}]
    BY <2>1 DEF EnqueueFollowUp, IInv
  <2> QED BY <2>1, <2>2, <2>3, Frame DEF EnqueueFollowUp, IInv
<1> QED BY <1>5, <1>6, <1>7

LEMMA ClientSteps ==
  ASSUME IInv, NEW c \in Clients, Request(c) \/ DrainList(c) \/ DrainStart(c)
  PROVE  IInv'
<1>1. c \in Agents /\ c \in Executors
  BY DEF Agents, Executors
<1>2. CASE Request(c)
  <2>1. PICK j \in Jobs :
          /\ issued' = issued + 1
          /\ \/ Begin(c, "enqueueJob", j, None, None)
             \/ jobs[j] # None /\ Begin(c, "retryJob", j, None, None)
             \/ jobs[j] # None /\ Begin(c, "cancelJob", j, None, None)
    BY <1>2 DEF Request, Stimulus
  <2>2. CASE Begin(c, "enqueueJob", j, None, None)
    <3>1. call' \in [Agents -> SafeCalls(Saved) \cup {None}]
      BY <1>1, <2>2, EnqueueCallSafe, BeginSafe
    <3> QED BY <1>2, <2>1, <3>1, Frame DEF Request, IInv
  <2>3. CASE /\ jobs[j] # None
             /\ \/ Begin(c, "retryJob", j, None, None)
                \/ Begin(c, "cancelJob", j, None, None)
    <3>1. j \in Saved
      BY <2>3 DEF Saved
    <3>2. call' \in [Agents -> SafeCalls(Saved) \cup {None}]
      BY <1>1, <2>3, <3>1, JobCallSafe, BeginSafe DEF Operations
    <3> QED BY <1>2, <2>1, <3>2, Frame DEF Request, IInv
  <2> QED BY <2>1, <2>2, <2>3
<1>3. CASE DrainList(c)
  <2>1. call' \in [Agents -> SafeCalls(Saved) \cup {None}]
    BY <1>1, <1>3, ListCallSafe, BeginSafe DEF DrainList
  <2>2. issued' \in Nat
    BY <1>3 DEF DrainList, Stimulus, IInv
  <2> QED BY <1>3, <2>1, <2>2, Frame DEF DrainList, IInv
<1>4. CASE DrainStart(c)
  <2>1. PICK j \in listed[c] : Begin(c, "startJob", j, None, c)
    BY <1>4 DEF DrainStart
  <2>2. j \in Saved
    BY <1>1, <2>1 DEF IInv
  <2>3. call' \in [Agents -> SafeCalls(Saved) \cup {None}]
    BY <1>1, <2>1, <2>2, StartCallSafe, BeginSafe
  <2>4. listed' \in [Agents -> SUBSET Saved]
    BY <1>1, <1>4 DEF DrainStart, IInv
  <2> QED BY <1>4, <2>3, <2>4, Frame DEF DrainStart, IInv
<1> QED BY <1>2, <1>3, <1>4

-----------------------------------------------------------------------------
(* Recovery.  Until the daemon serves, it is the only agent, and one call  *)
(* after another brings a job to where the queue needs it.                 *)

\* What recovery leaves of a job: it does not run, and if it can it is queued.
Restored(j) ==
  /\ jobs[j].status # "running"
  /\ jobs[j].status \in Runnable => j \in queue

\* What a call of recovery is about, when r is the record of its job: one that was interrupted, or
\* that waits for its place in the queue. What it read of the queue is what the queue is.
RecoveryCall(c, r) ==
  /\ c.op \in {"restoreQueuedJob", "retryJob", "markRetriable", "completeJob"}
  /\ c.job \notin todo
  /\ c.op = "restoreQueuedJob" \/ (c.op = "markRetriable" /\ c.at \in {"getQueueState", "saveQueueState"}) =>
       r.status # "running"
  /\ c.op \in {"retryJob", "completeJob"} \/ (c.op = "markRetriable" /\ c.at \in {"getJob", "saveJob"}) =>
       r.status = "running"
  /\ HasRecord(c) => c.rec = r
  /\ c.op = "markRetriable" /\ c.at \in {"getJob", "saveJob"} => r.attempt < Budget
  /\ c.at = "saveQueueState" => c.items = queue

RInv ==
  /\ process # "serving" => \A a \in Agents \ {Daemon} : call[a] = None
  /\ process = "down" => call[Daemon] = None
  /\ process = "booting" =>
       /\ call[Daemon] # None => RecoveryCall(call[Daemon], jobs[call[Daemon].job])
       /\ \A j \in Saved \ todo : Restored(j) \/ (call[Daemon] # None /\ call[Daemon].job = j)

LEMMA RecoveryFacts ==
  ASSUME IInv, RInv, process = "booting", call[Daemon] # None
  PROVE LET c == call[Daemon]
            r == jobs[c.job] IN
        /\ c \in Calls /\ SafeCall(c, Saved) /\ RecoveryCall(c, r)
        /\ c.job \in Saved /\ r \in JobRecords /\ r # None
<1> DEFINE c == call[Daemon]
<1>1. Daemon \in Agents
  BY DEF Agents
<1>2. c \in Calls /\ SafeCall(c, Saved)
  BY <1>1 DEF IInv, SafeCalls
<1>3. RecoveryCall(c, jobs[c.job])
  BY DEF RInv
<1>4. c.job \in Saved
  BY <1>2, <1>3 DEF SafeCall, Subjects, RecoveryCall
<1>. QED BY <1>2, <1>3, <1>4, SavedRecord

\* Recovery goes on to the call d, with the files as they were.
LEMMA RecoveryGoesOn ==
  ASSUME IInv, RInv, process = "booting", NEW d,
         UNCHANGED <<process, jobs, queue, todo>>, call' = [call EXCEPT ![Daemon] = d],
         d # None, call[Daemon] # None, d.job = call[Daemon].job, RecoveryCall(d, jobs[d.job])
  PROVE RInv'
<1>1. Saved' = Saved
  BY DEF Saved
<1>2. call'[Daemon] = d /\ \A a \in Agents \ {Daemon} : call'[a] = call[a]
  BY DEF IInv, Agents
<1>3. RecoveryCall(d, jobs[d.job])'
  BY DEF RecoveryCall, HasRecord
<1>4. RecoveryCall(call[Daemon], jobs[call[Daemon].job])'
  BY <1>2, <1>3 DEF RecoveryCall, HasRecord
<1>5. \A j \in Saved \ todo : Restored(j)' \/ d.job = j
  BY DEF RInv, Restored
<1>. QED BY <1>1, <1>2, <1>4, <1>5 DEF RInv

\* Recovery is through with a job.
LEMMA RecoveryDone ==
  ASSUME IInv, RInv, process = "booting", UNCHANGED <<process, todo>>,
         call' = [call EXCEPT ![Daemon] = None], call[Daemon] # None,
         Saved' = Saved,
         \A j \in Saved : Restored(j) \/ j = call[Daemon].job => Restored(j)'
  PROVE RInv'
<1>1. call'[Daemon] = None /\ \A a \in Agents \ {Daemon} : call'[a] = call[a]
  BY DEF IInv, Agents
<1>2. \A j \in Saved \ todo : Restored(j)'
  BY DEF RInv
<1>. QED BY <1>1, <1>2 DEF RInv

LEMMA RecoveryReadsJob ==
  ASSUME IInv, RInv, process = "booting", GetJob(Daemon)
  PROVE RInv'
<1> DEFINE c == call[Daemon]
           r == jobs[c.job]
           d == AfterGetJob(c, r)
<1>1. /\ c # None /\ c.at = "getJob" /\ ~Refuses(c.op, r)
      /\ UNCHANGED <<process, jobs, queue, todo>> /\ call' = [call EXCEPT ![Daemon] = d]
  BY DEF GetJob, At
<1>2. /\ c \in Calls /\ SafeCall(c, Saved) /\ RecoveryCall(c, r) /\ r \in JobRecords
  BY <1>1, RecoveryFacts
<1>3. c.op \in {"retryJob", "completeJob", "markRetriable"}
  BY <1>1, <1>2 DEF SafeCall, Path, RecoveryCall
<1>4. None \notin Calls
  BY NoneAssumption
<1>5. CASE c.op \in {"completeJob", "markRetriable"}
  <2>1. d = [c EXCEPT !.rec = r, !.at = IF c.op = "completeJob" THEN "getQueueState" ELSE "saveJob"]
    BY <1>5 DEF AfterGetJob
  <2>2. d \in Calls
    BY <1>2, <2>1 DEF Calls, Accesses
  <2>3. /\ d.op = c.op /\ d.job = c.job /\ d.rec = r
        /\ d.at = IF c.op = "completeJob" THEN "getQueueState" ELSE "saveJob"
    BY <1>2, <2>1 DEF Calls
  <2> HIDE DEF d
  <2>4. RecoveryCall(d, r)
    BY <1>1, <1>2, <1>5, <2>3 DEF RecoveryCall
  <2>. QED BY <1>1, <1>4, <2>2, <2>3, <2>4, RecoveryGoesOn
<1>6. CASE c.op = "retryJob"
  <2>1. r.status = "running" /\ r.status \notin Runnable
    BY <1>2, <1>6 DEF RecoveryCall, Runnable
  <2>2. r.attempt < Budget
    BY <1>1, <1>6, <2>1 DEF Refuses, CanRetry
  <2>3. d = Call("markRetriable", c.job, None, None)
    BY <1>6, <2>1 DEF AfterGetJob, AfterDecision
  <2>4. d # None
    <3>1. c.job \in Jobs \cup {None} /\ "markRetriable" \in Operations
      BY <1>2 DEF Operations, Calls
    <3>2. Call("markRetriable", c.job, None, None) \in Calls
      BY <3>1, CallBasics
    <3>. QED BY <1>4, <2>3, <3>2
  <2>5. d.op = "markRetriable" /\ d.job = c.job /\ d.at = "getJob"
    BY <2>3 DEF Call, FirstAccess
  <2> HIDE DEF d
  <2>6. RecoveryCall(d, r)
    BY <1>2, <2>1, <2>2, <2>5 DEF RecoveryCall, HasRecord
  <2>. QED BY <1>1, <2>4, <2>5, <2>6, RecoveryGoesOn
<1>. QED BY <1>3, <1>5, <1>6

LEMMA RecoveryReadsQueue ==
  ASSUME IInv, RInv, process = "booting", GetQueueState(Daemon)
  PROVE RInv'
<1> DEFINE c == call[Daemon]
           r == jobs[c.job]
           at == CASE c.op = "listRunnableJobs" -> "getJobs"
                   [] c.op = "completeJob" /\ c.job \notin queue -> "saveJob"
                   [] OTHER -> "saveQueueState"
           d == [c EXCEPT !.items = queue, !.at = at]
<1>1. /\ c # None /\ c.at = "getQueueState"
      /\ UNCHANGED <<process, jobs, queue, todo>> /\ call' = [call EXCEPT ![Daemon] = d]
  BY DEF GetQueueState, At
<1>2. c \in Calls /\ SafeCall(c, Saved) /\ RecoveryCall(c, r)
  BY <1>1, RecoveryFacts
<1>3. \/ at = "saveQueueState"
      \/ at = "saveJob" /\ c.op = "completeJob"
  BY <1>2 DEF RecoveryCall
<1> HIDE DEF at
<1>4. d.op = c.op /\ d.job = c.job /\ d.rec = c.rec /\ d.at = at /\ d.items = queue
  BY <1>2 DEF Calls
<1>5. d # None
  <2>2. at \in Accesses
    BY <1>3 DEF Accesses
  <2>3. queue \in SUBSET Jobs
    BY DEF IInv, Saved
  <2>1. d \in Calls
    BY <1>2, <2>2, <2>3 DEF Calls
  <2>. QED BY <2>1, NoneAssumption
<1> HIDE DEF d
<1>6. HasRecord(d) => HasRecord(c)
  BY <1>1, <1>3, <1>4 DEF HasRecord
<1>7. RecoveryCall(d, r)
  BY <1>1, <1>2, <1>3, <1>4, <1>6 DEF RecoveryCall
<1>. QED BY <1>1, <1>4, <1>5, <1>7, RecoveryGoesOn

\* What recovery read of the queue is still so when it writes it.
LEMMA RecoveryWritesQueue ==
  ASSUME IInv, RInv, process = "booting", SaveQueueState(Daemon)
  PROVE RInv'
<1> DEFINE c == call[Daemon]
           r == jobs[c.job]
           next == [c EXCEPT !.at = "saveJob", !.items = {}]
<1>1. /\ c # None /\ c.at = "saveQueueState" /\ UNCHANGED <<process, jobs, todo>>
      /\ queue' = QueueAfter(c)
  BY DEF SaveQueueState, At
<1>2. /\ c \in Calls /\ SafeCall(c, Saved) /\ RecoveryCall(c, r) /\ c.job \in Saved
  BY <1>1, RecoveryFacts
<1>3. c.items = queue /\ c.op \in {"restoreQueuedJob", "markRetriable", "completeJob"}
  BY <1>1, <1>2 DEF RecoveryCall, SafeCall, Path
<1>4. Saved' = Saved
  BY <1>1 DEF Saved
<1>5. \A j \in Saved \ {c.job} : Restored(j) => Restored(j)'
  BY <1>1, <1>3 DEF Restored, QueueAfter
<1>6. CASE c.op = "completeJob"
  <2>1. next.op = c.op /\ next.job = c.job /\ next.rec = c.rec /\ next.at = "saveJob"
    BY <1>2 DEF Calls
  <2>2. next # None
    <3>1. next \in Calls
      BY <1>2 DEF Calls, Accesses
    <3>. QED BY <3>1, NoneAssumption
  <2>3. call' = [call EXCEPT ![Daemon] = next]
    BY <1>6 DEF SaveQueueState
  <2> HIDE DEF next
  <2>4. call'[Daemon] = next /\ \A a \in Agents \ {Daemon} : call'[a] = call[a]
    BY <2>3 DEF IInv, Agents
  <2>5. RecoveryCall(next, r)
    BY <1>1, <1>2, <1>6, <2>1 DEF RecoveryCall, HasRecord
  <2>6. RecoveryCall(call[Daemon], jobs[call[Daemon].job])'
    BY <1>1, <2>1, <2>4, <2>5 DEF RecoveryCall, HasRecord
  <2>7. \A j \in Saved \ todo : Restored(j)' \/ next.job = j
    BY <1>5, <2>1 DEF RInv
  <2>. QED BY <1>1, <1>4, <2>2, <2>4, <2>6, <2>7 DEF RInv
<1>7. CASE c.op # "completeJob"
  <2>1. call' = [call EXCEPT ![Daemon] = None]
    BY <1>3, <1>7 DEF SaveQueueState
  <2>2. r.status # "running"
    BY <1>1, <1>2, <1>3, <1>7 DEF RecoveryCall
  <2>3. PICK i \in Saved : i = c.job
    BY <1>2
  <2>4. Restored(i)'
    BY <1>1, <1>3, <1>7, <2>2, <2>3 DEF Restored, QueueAfter
  <2>5. \A j \in Saved : Restored(j) \/ j = c.job => Restored(j)'
    BY <1>5, <2>3, <2>4
  <2> HIDE DEF r, next
  <2>. QED BY <1>1, <1>4, <2>1, <2>5, RecoveryDone
<1>. QED BY <1>6, <1>7

\* The record that recovery writes: of a job it found running, settled or back for another attempt.
LEMMA RecoveryRecord ==
  ASSUME IInv, RInv, process = "booting", SaveJob(Daemon)
  PROVE LET c == call[Daemon]
            r == jobs[c.job] IN
        /\ c # None /\ c.at = "saveJob" /\ c \in Calls /\ c.job \in Saved /\ RecoveryCall(c, r)
        /\ r \in JobRecords /\ r.status = "running"
        /\ \A j \in Jobs : jobs'[j] = IF j = c.job THEN JobAfter(c) ELSE jobs[j]
        /\ Saved' = Saved
        /\ \/ /\ c.op = "completeJob" /\ JobAfter(c).status \in Terminal
              /\ JobAfter(c).attempt = r.attempt
           \/ /\ c.op = "markRetriable" /\ JobAfter(c).status = "retriable"
              /\ JobAfter(c).attempt \in 1 .. Budget
<1> DEFINE c == call[Daemon]
           r == jobs[c.job]
<1>1. c # None /\ c.at = "saveJob" /\ jobs' = [jobs EXCEPT ![c.job] = JobAfter(c)]
  BY DEF SaveJob, At
<1>2. c \in Calls /\ SafeCall(c, Saved) /\ RecoveryCall(c, r) /\ c.job \in Saved /\ r \in JobRecords
  BY <1>1, RecoveryFacts
<1>3. c.op \in {"completeJob", "markRetriable"}
  BY <1>1, <1>2 DEF RecoveryCall, SafeCall, Path
<1>4. r.status = "running" /\ c.rec = r
  BY <1>1, <1>2, <1>3 DEF RecoveryCall, HasRecord
<1>5. c.op = "markRetriable" => r.attempt < Budget
  BY <1>1, <1>2 DEF RecoveryCall
<1>6. c.op = "completeJob" => c.to \in Terminal
  BY <1>2 DEF SafeCall, Calls
<1>7. Saved \in SUBSET Jobs
  BY DEF Saved
<1>8. JobAfter(c) \in JobRecords
  BY <1>1, <1>2, <1>7, WrittenRecord
<1>9. \A j \in Jobs : jobs'[j] = IF j = c.job THEN JobAfter(c) ELSE jobs[j]
  BY <1>1 DEF IInv
<1>10. Saved' = Saved
  BY <1>2, <1>8, <1>9, NoneAssumption DEF Saved
<1>11. r.attempt \in Nat \ {0}
  BY <1>2 DEF JobRecords
<1>12. CASE c.op = "completeJob"
  <2>1. JobAfter(c) = [r EXCEPT !.status = c.to]
    BY <1>4, <1>12 DEF JobAfter, CompletedJob
  <2>2. JobAfter(c).status = c.to /\ JobAfter(c).attempt = r.attempt
    BY <1>2, <2>1 DEF JobRecords
  <2>. QED BY <1>1, <1>2, <1>4, <1>6, <1>9, <1>10, <1>12, <2>2
<1>13. CASE c.op = "markRetriable"
  <2>1. JobAfter(c).status = "retriable" /\ JobAfter(c).attempt = r.attempt + 1
    BY <1>4, <1>13 DEF JobAfter, RetriableJob
  <2>2. JobAfter(c).attempt \in 1 .. Budget
    BY <1>5, <1>11, <1>13, <2>1, BudgetAssumption
  <2>. QED BY <1>1, <1>2, <1>4, <1>9, <1>10, <1>13, <2>1, <2>2
<1>. QED BY <1>3, <1>12, <1>13

LEMMA RecoveryWritesJob ==
  ASSUME IInv, RInv, process = "booting", SaveJob(Daemon)
  PROVE RInv'
<1> DEFINE c == call[Daemon]
           r == jobs[c.job]
           new == JobAfter(c)
           next == [c EXCEPT !.at = "getQueueState", !.rec = None]
<1>1. /\ c # None /\ c.at = "saveJob" /\ c \in Calls /\ c.job \in Saved /\ RecoveryCall(c, r)
      /\ \A j \in Jobs : jobs'[j] = IF j = c.job THEN new ELSE jobs[j]
      /\ Saved' = Saved
      /\ \/ c.op = "completeJob" /\ new.status \in Terminal
         \/ c.op = "markRetriable" /\ new.status = "retriable"
  BY RecoveryRecord
<1> HIDE DEF new
<1>2. UNCHANGED <<process, queue, todo>>
  BY DEF SaveJob
<1>3. \A j \in Saved \ {c.job} : Restored(j) => Restored(j)'
  BY <1>1, <1>2 DEF Restored, Saved
<1>4. jobs'[c.job] = new
  BY <1>1 DEF Saved
<1>5. CASE c.op = "completeJob"
  <2>1. call' = [call EXCEPT ![Daemon] = None]
    BY <1>5 DEF SaveJob
  <2>2. PICK i \in Saved : i = c.job
    BY <1>1
  <2>3. jobs'[i].status \in Terminal
    BY <1>1, <1>4, <1>5, <2>2
  <2>4. Restored(i)'
    BY <2>3 DEF Restored, Runnable, Terminal
  <2>5. \A j \in Saved : Restored(j) \/ j = c.job => Restored(j)'
    BY <1>3, <2>2, <2>4
  <2> HIDE DEF r, next
  <2>. QED BY <1>1, <1>2, <2>1, <2>5, RecoveryDone
<1>6. CASE c.op = "markRetriable"
  <2>1. next.op = c.op /\ next.job = c.job /\ next.at = "getQueueState"
    BY <1>1 DEF Calls
  <2>2. next # None
    <3>1. next \in Calls
      BY <1>1 DEF Calls, Accesses
    <3>. QED BY <3>1, NoneAssumption
  <2>3. call' = [call EXCEPT ![Daemon] = next]
    BY <1>6 DEF SaveJob
  <2> HIDE DEF next
  <2>4. call'[Daemon] = next /\ \A a \in Agents \ {Daemon} : call'[a] = call[a]
    BY <2>3 DEF IInv, Agents
  <2>5. RecoveryCall(next, new)
    BY <1>1, <1>6, <2>1 DEF RecoveryCall, HasRecord
  <2>6. RecoveryCall(call[Daemon], jobs[call[Daemon].job])'
    BY <1>2, <1>4, <2>1, <2>4, <2>5 DEF RecoveryCall, HasRecord
  <2>7. \A j \in Saved \ todo : Restored(j)' \/ next.job = j
    BY <1>3, <2>1 DEF RInv
  <2>. QED BY <1>1, <1>2, <2>2, <2>4, <2>6, <2>7 DEF RInv
<1>. QED BY <1>1, <1>5, <1>6

\* Recovery takes up a job, or gives one up.
LEMMA RecoveryBegins ==
  ASSUME IInv, RInv, RecoveryGivesUp \/ \E j \in Jobs : RecoverJob(j)
  PROVE RInv'
<1>0. Daemon \in Agents
  BY DEF Agents
<1>1. CASE RecoveryGivesUp
  <2> DEFINE c == call[Daemon]
             d == Call("completeJob", c.job, "failed", None)
  <2>1. c # None /\ process = "booting"
    BY <1>1 DEF RecoveryGivesUp, Throws, At
  <2>2. /\ c \in Calls /\ SafeCall(c, Saved) /\ RecoveryCall(c, jobs[c.job])
    BY <2>1, RecoveryFacts
  <2>3. c.at = "getJob"
    BY <1>1, <2>2 DEF RecoveryGivesUp, Throws, At, RecoveryCall, SafeCall, Path
  <2>4. jobs[c.job].status = "running" /\ c.job \notin todo
    BY <2>2, <2>3 DEF RecoveryCall, SafeCall, Path
  <2>5. d.op = "completeJob" /\ d.job = c.job /\ d.at = "getJob"
    BY DEF Call, FirstAccess
  <2>6. d # None
    <3>1. d \in Calls
      BY <2>2, CallBasics DEF Operations, Terminal, Calls
    <3>. QED BY <3>1, NoneAssumption
  <2>7. call' = [call EXCEPT ![Daemon] = d] /\ UNCHANGED <<process, jobs, queue, todo>>
    BY <1>1 DEF RecoveryGivesUp, Begin
  <2> HIDE DEF d
  <2>8. RecoveryCall(d, jobs[d.job])
    BY <2>4, <2>5 DEF RecoveryCall, HasRecord
  <2>. QED BY <2>1, <2>5, <2>6, <2>7, <2>8, RecoveryGoesOn
<1>2. ASSUME NEW j \in Jobs, RecoverJob(j) PROVE RInv'
  <2>1. /\ process = "booting" /\ call[Daemon] = None /\ j \in todo /\ todo' = todo \ {j}
        /\ UNCHANGED <<process, jobs, queue>>
    BY <1>2 DEF RecoverJob, Idle
  <2>2. Saved' = Saved /\ todo \subseteq Saved
    BY <2>1 DEF Saved, IInv
  <2>3. \A i \in Saved \ todo : Restored(i)'
    BY <2>1 DEF RInv, Restored
  <2>4. CASE /\ jobs[j].status \notin Runnable \cup {"running"} /\ UNCHANGED call
    <3>1. Restored(j)'
      BY <2>1, <2>4 DEF Restored
    <3>. QED BY <2>1, <2>2, <2>3, <2>4, <3>1 DEF RInv
  <2>5. ASSUME NEW op \in {"retryJob", "restoreQueuedJob"}, Begin(Daemon, op, j, None, None),
               op = "retryJob" <=> jobs[j].status = "running"
        PROVE RInv'
    <3> DEFINE d == Call(op, j, None, None)
    <3>1. d.op = op /\ d.job = j /\ d.at \in {"getJob", "getQueueState"}
      BY DEF Call, FirstAccess
    <3>2. d \in Calls
      BY CallBasics DEF Operations
    <3>3. call' = [call EXCEPT ![Daemon] = d]
      BY <2>5 DEF Begin
    <3> HIDE DEF d
    <3>4. call'[Daemon] = d /\ d # None /\ \A a \in Agents \ {Daemon} : call'[a] = call[a]
      BY <1>0, <3>2, <3>3, NoneAssumption DEF IInv
    <3>5. ~HasRecord(d)
      BY <3>1 DEF HasRecord
    <3>6. RecoveryCall(call[Daemon], jobs[call[Daemon].job])'
      BY <2>1, <2>5, <3>1, <3>4, <3>5 DEF RecoveryCall, HasRecord
    <3>. QED BY <2>1, <2>2, <2>3, <3>1, <3>4, <3>6 DEF RInv
  <2>6. \/ jobs[j].status = "running" /\ Begin(Daemon, "retryJob", j, None, None)
        \/ jobs[j].status \in Runnable /\ Begin(Daemon, "restoreQueuedJob", j, None, None)
        \/ jobs[j].status \notin Runnable \cup {"running"} /\ UNCHANGED call
    BY <1>2 DEF RecoverJob
  <2>. QED BY <2>4, <2>5, <2>6 DEF Runnable
<1>. QED BY <1>1, <1>2

LEMMA StepRInv == ASSUME IInv, RInv, [Next]_vars PROVE RInv'
<1>0. Daemon \in Agents
  BY DEF Agents
<1>1. CASE UNCHANGED vars
  BY <1>1 DEF vars, RInv, Saved, Restored, RecoveryCall, HasRecord
<1>2. CASE ProcessExit
  BY <1>0, <1>2 DEF ProcessExit, RInv
<1>3. CASE Boot
  <2>1. /\ process = "down" /\ UNCHANGED <<call, jobs>> /\ todo' = {j \in Jobs : jobs[j] # None}
        /\ process' = "booting"
    BY <1>3 DEF Boot
  <2>2. Saved' \ todo' = {}
    BY <2>1 DEF Saved
  <2>. QED BY <2>1, <2>2 DEF RInv
<1>4. CASE RecoveryGivesUp \/ \E j \in Jobs : RecoverJob(j)
  BY <1>4, RecoveryBegins
<1>5. CASE process' = "serving"
  BY <1>5 DEF RInv
<1>6. ASSUME process # "serving", NEW a \in Agents,
             GetJob(a) \/ GetQueueState(a) \/ SaveQueueState(a) \/ SaveJob(a) \/ GetJobs(a)
      PROVE RInv'
  <2>1. call[a] # None
    BY <1>6 DEF GetJob, GetQueueState, SaveQueueState, SaveJob, GetJobs, At
  <2>2. a = Daemon /\ process = "booting"
    BY <1>6, <2>1 DEF RInv, IInv
  <2>3. ~GetJobs(a)
    <3>1. RecoveryCall(call[a], jobs[call[a].job]) /\ SafeCall(call[a], Saved)
      BY <2>1, <2>2, RecoveryFacts
    <3>2. call[a].at # "getJobs"
      BY <3>1 DEF RecoveryCall, SafeCall, Path
    <3>. QED BY <3>2 DEF GetJobs, At
  <2>. QED BY <1>6, <2>2, <2>3, RecoveryReadsJob, RecoveryReadsQueue, RecoveryWritesQueue,
              RecoveryWritesJob
<1>7. CASE Next /\ process = "serving" /\ ~ProcessExit
  <2>1. process' = process
    BY <1>7 DEF Next, GetJob, GetQueueState, SaveQueueState, SaveJob, GetJobs, UnhandledRejection,
       Crash, Boot, RecoveryGivesUp, Serve, TickList, TickEnd, RecoverJob, TickEnqueue, TickDefer,
       TickReclaim, TickStart, EnqueueFollowUp, Report, Finish, RequestFails, Request, DrainList,
       DrainStart
  <2>. QED BY <1>5, <1>7, <2>1
<1>8. CASE Next /\ process # "serving"
  <2>1. CASE \E a \in Agents :
               \/ GetJob(a) \/ GetQueueState(a) \/ SaveQueueState(a) \/ SaveJob(a) \/ GetJobs(a)
               \/ UnhandledRejection(a)
    BY <1>2, <1>6, <1>8, <2>1 DEF UnhandledRejection
  <2>2. CASE Crash \/ Boot \/ RecoveryGivesUp \/ Serve
    BY <1>2, <1>3, <1>4, <1>5, <2>2 DEF Crash, Serve
  <2>3. ASSUME NEW c \in Clients, RequestFails(c) PROVE RInv'
    <3>1. call[c] # None /\ c \in Agents /\ c # Daemon
      BY <2>3, AgentsAssumption DEF RequestFails, Throws, At, Agents, Executors
    <3>. QED BY <1>8, <3>1 DEF RInv
  <2>4. ~ (\/ TickList \/ TickEnd
           \/ \E j \in Jobs : \/ TickEnqueue(j) \/ TickDefer(j) \/ TickReclaim(j)
                              \/ \E w \in Workers : TickStart(w, j)
                              \/ \E e \in Executors : EnqueueFollowUp(e, j)
           \/ \E e \in Executors : Report(e) \/ Finish(e)
           \/ \E c \in Clients : Request(c) \/ DrainList(c) \/ DrainStart(c))
    BY <1>8 DEF TickList, TickEnd, TickEnqueue, TickDefer, TickReclaim, TickStart, EnqueueFollowUp,
       Report, Finish, Request, DrainList, DrainStart, Ready
  <2>. QED BY <1>4, <1>8, <2>1, <2>2, <2>3, <2>4 DEF Next
<1>. QED BY <1>1, <1>2, <1>7, <1>8

-----------------------------------------------------------------------------
(* The theorems.                                                           *)

LEMMA StepIInv == ASSUME IInv, [Next]_vars PROVE IInv'
<1>1. CASE UNCHANGED vars
  BY <1>1 DEF vars, IInv, Saved
<1>2. CASE \E a \in Agents :
             \/ GetJob(a) \/ GetQueueState(a) \/ SaveQueueState(a) \/ SaveJob(a) \/ GetJobs(a)
             \/ UnhandledRejection(a)
  BY <1>2, GetJobStep, GetQueueStateStep, SaveQueueStateStep, SaveJobStep, GetJobsStep,
     ProcessExitStep DEF UnhandledRejection
<1>3. CASE Crash \/ Boot \/ RecoveryGivesUp \/ Serve
  BY <1>3, ProcessExitStep, BootSteps, RecoveryGivesUpStep DEF Crash
<1>4. CASE TickList \/ TickEnd
  BY <1>4, TickListSteps
<1>5. CASE \E j \in Jobs :
             \/ RecoverJob(j) \/ TickEnqueue(j) \/ TickDefer(j) \/ TickReclaim(j)
             \/ \E w \in Workers : TickStart(w, j)
             \/ \E e \in Executors : EnqueueFollowUp(e, j)
  BY <1>5, RecoverJobStep, TickSteps, TickStartStep, ExecutorSteps
<1>6. CASE \E e \in Executors : Report(e) \/ Finish(e)
  BY <1>6, ExecutorSteps
<1>7. CASE \E c \in Clients : RequestFails(c) \/ Request(c) \/ DrainList(c) \/ DrainStart(c)
  BY <1>7, RequestFailsStep, ClientSteps
<1> QED BY <1>1, <1>2, <1>3, <1>4, <1>5, <1>6, <1>7 DEF Next

LEMMA SpecIInv == Spec => []IInv
<1>1. IInv /\ [Next]_vars => IInv'
  BY StepIInv
<1> QED BY <1>1, InitIInv, PTL DEF Spec

\* Files, calls, listings and handles have their types, in every behaviour.
THEOREM QueueTypeOK == Spec => []TypeOK
<1>1. IInv => TypeOK
  BY IInvImplies
<1> QED BY <1>1, SpecIInv, PTL

\* Every item of queue-state.json names a job whose file exists, at every instant, and
\* therefore after every crash: listRunnableJobs never throws on an item.
THEOREM QueueItemsAlwaysResolve == Spec => []QueueItemsResolve
<1>1. IInv => QueueItemsResolve
  BY IInvImplies
<1> QED BY <1>1, SpecIInv, PTL

LEMMA SpecRInv == Spec => [](IInv /\ RInv)
<1>1. Init => RInv
  BY DEF Init, RInv, Agents
<1>2. IInv /\ RInv /\ [Next]_vars => RInv'
  BY StepRInv
<1> QED BY <1>1, <1>2, SpecIInv, PTL DEF Spec

\* RecoveryService.recover leaves no job running and every runnable one queued, however many
\* recoveries were themselves cut short, and whatever the queue file had lost before.
THEOREM RecoveryRebuildsQueue == Spec => BootRebuildsQueue
<1> DEFINE Rebuilt == process = "booting" /\ process' = "serving" =>
                        \A j \in Jobs : jobs[j] # None =>
                          /\ jobs[j].status # "running"
                          /\ jobs[j].status \in Runnable => j \in queue
<1>1. IInv /\ RInv /\ [Next]_vars => [Rebuilt]_vars
  <2> SUFFICES ASSUME RInv, Next, process = "booting", process' = "serving",
                      NEW j \in Jobs, jobs[j] # None
               PROVE Restored(j)
    BY DEF Restored
  <2>1. Serve
    BY DEF Next, GetJob, GetQueueState, SaveQueueState, SaveJob, GetJobs, UnhandledRejection,
       ProcessExit, Crash, Boot, RecoveryGivesUp, TickList, TickEnd, RecoverJob, TickEnqueue,
       TickDefer, TickReclaim, TickStart, EnqueueFollowUp, Report, Finish, RequestFails, Request,
       DrainList, DrainStart
  <2>2. todo = {} /\ call[Daemon] = None /\ j \in Saved
    BY <2>1 DEF Serve, Idle, Saved
  <2>. QED BY <2>2 DEF RInv
<1> QED BY <1>1, SpecRInv, PTL DEF Spec, BootRebuildsQueue

\* Recovery writes the records of interrupted jobs only, and its retries stay within maxAttempts.
THEOREM RecoveryKeepsRecords == Spec => RecoveryRespectsRecords
<1> DEFINE Respected == process = "booting" => \A j \in Jobs : jobs'[j] # jobs[j] =>
                          /\ jobs[j].status = "running"
                          /\ jobs'[j].attempt = jobs[j].attempt \/ jobs'[j].attempt \in 1 .. Budget
<1>1. IInv /\ RInv /\ [Next]_vars => [Respected]_vars
  <2> SUFFICES ASSUME IInv, RInv, Next, process = "booting", NEW j \in Jobs, jobs'[j] # jobs[j]
               PROVE /\ jobs[j].status = "running"
                     /\ jobs'[j].attempt = jobs[j].attempt \/ jobs'[j].attempt \in 1 .. Budget
    OBVIOUS
  <2>1. \E a \in Agents : SaveJob(a)
    BY DEF Next, GetJob, GetQueueState, SaveQueueState, GetJobs, UnhandledRejection, ProcessExit,
       Crash, Boot, RecoveryGivesUp, Serve, TickList, TickEnd, RecoverJob, TickEnqueue, TickDefer,
       TickReclaim, TickStart, EnqueueFollowUp, Report, Finish, RequestFails, Request, DrainList,
       DrainStart
  <2>2. SaveJob(Daemon)
    <3>1. PICK a \in Agents : SaveJob(a)
      BY <2>1
    <3>2. call[a] # None
      BY <3>1 DEF SaveJob, At
    <3>3. a = Daemon
      BY <3>2 DEF RInv
    <3>. QED BY <3>1, <3>3
  <2>. QED BY <2>2, RecoveryRecord
<1> QED BY <1>1, SpecRInv, PTL DEF Spec, RecoveryRespectsRecords

-----------------------------------------------------------------------------
(* The daemon and its workers left to themselves: no API request, and no   *)
(* reclaim of a job that its worker still has.  Then the queue implements  *)
(* JobLifecycle, and no two workers execute the same job, for any number   *)
(* of jobs and workers and any budget, through every crash and recovery.   *)
(*                                                                         *)
(* The argument is one of ownership.  An agent that is going to write a    *)
(* job's record knows what the record is: none for enqueueJob, a runnable  *)
(* one for startJob, a running one for whoever settles the job.  So two    *)
(* agents about to write the same record are of the same kind; and of one  *)
(* kind there is only one, since an executor has its job to itself.        *)


DaemonAlone == Clients = {} /\ "reclaim" \notin Stimuli

Enqueues(c) == c.op = "enqueueJob" /\ c.at = "saveJob"
Settles(c) ==
  \/ c.op \in {"completeJob", "retryJob"}
  \/ c.op = "markRetriable" /\ c.at \in {"getJob", "saveJob"}

\* What a call that is going to write knows of the record it writes, when r is that record.
KnowsRecord(c, r) ==
  /\ Enqueues(c) => r = None
  /\ c.op \in {"startJob", "rescheduleJob"} /\ HasRecord(c) =>
       r = c.rec /\ r # None /\ r.status \in Runnable
  /\ Settles(c) => r # None /\ r.status = "running" /\ (HasRecord(c) => r = c.rec)
  /\ c.op = "markRetriable" /\ c.at \in {"getJob", "saveJob"} => r.attempt < Budget

\* A worker's call is about the job of its handle, which it executes no more.
WorkerCall(w, c) ==
  /\ c.op \in {"enqueueJob", "completeJob", "retryJob", "markRetriable"}
  /\ Settles(c) => handle[w] # None /\ handle[w].job = c.job /\ handle[w].stage # "executing"

\* The daemon starts and postpones jobs when it serves, and settles the interrupted ones when it
\* boots, before any worker has a handle.
DaemonCall(c) ==
  IF process = "serving"
  THEN /\ c.op \in {"enqueueJob", "listRunnableJobs", "startJob", "rescheduleJob"}
       /\ c.op = "startJob" => c.by \in Workers /\ handle[c.by] = None
  ELSE c.op \in {"completeJob", "retryJob", "markRetriable", "restoreQueuedJob"}

Executing(w) == handle[w] # None /\ handle[w].stage = "executing"
Settling(w) == call[w] # None /\ Settles(call[w])
Owns(w, j) == (Executing(w) \/ Settling(w)) /\ handle[w].job = j

CallsKnow == \A a \in Agents : call[a] # None => KnowsRecord(call[a], jobs[call[a].job])
WorkersCall == \A w \in Workers : call[w] # None => WorkerCall(w, call[w])
DaemonCalls == call[Daemon] # None => DaemonCall(call[Daemon])
ExecutorsRun ==
  \A w \in Workers : Executing(w) =>
    jobs[handle[w].job] = [status |-> "running", attempt |-> handle[w].attempt]
NoWorkBeforeServing ==
  process # "serving" => \A w \in Workers : call[w] = None /\ handle[w] = None
OwnersDiffer ==
  \A v, w \in Workers : v # w => \A j \in Jobs : ~ (Owns(v, j) /\ Owns(w, j))
EnqueuersDiffer ==
  \A a, b \in Agents :
    a # b /\ call[a] # None /\ call[b] # None /\ Enqueues(call[a]) /\ Enqueues(call[b]) =>
      call[a].job # call[b].job

Ownership ==
  /\ CallsKnow /\ WorkersCall /\ DaemonCalls /\ ExecutorsRun /\ NoWorkBeforeServing
  /\ OwnersDiffer /\ EnqueuersDiffer

DInv == IInv /\ Ownership

-----------------------------------------------------------------------------
(* Steps that leave the job files alone.                                   *)

LEMMA Alone ==
  ASSUME DaemonAlone
  PROVE Executors = Workers /\ Agents = {Daemon} \cup Workers /\ Daemon \notin Workers
BY AgentsAssumption DEF DaemonAlone, Executors, Agents

\* What is known of the call and the handle of an agent.
LEMMA AgentFacts ==
  ASSUME DaemonAlone, DInv, NEW a \in Agents, call[a] # None
  PROVE /\ call[a] \in Calls /\ SafeCall(call[a], Saved)
        /\ KnowsRecord(call[a], jobs[call[a].job])
        /\ a = Daemon => DaemonCall(call[a])
        /\ a # Daemon => a \in Workers /\ WorkerCall(a, call[a]) /\ process = "serving"
<1>1. call[a] \in SafeCalls(Saved)
  BY DEF DInv, IInv
<1>2. a # Daemon => a \in Workers
  BY Alone
<1>. QED BY <1>1, <1>2 DEF DInv, Ownership, SafeCalls, CallsKnow, WorkersCall, DaemonCalls, NoWorkBeforeServing

\* One agent goes on to the call d, or has none any more.
LEMMA CallKeeps ==
  ASSUME DaemonAlone, DInv, NEW a \in Agents, NEW d,
         UNCHANGED <<process, jobs, handle>>, call' = [call EXCEPT ![a] = d],
         d # None =>
           /\ KnowsRecord(d, jobs[d.job])
           /\ a = Daemon => DaemonCall(d)
           /\ a # Daemon => WorkerCall(a, d) /\ process = "serving" /\ (Settles(d) => Settling(a))
           /\ Enqueues(d) => \A b \in Agents \ {a} : call[b] # None => call[b].job # d.job
  PROVE Ownership'
<1>0. /\ \A b \in Agents : call'[b] = IF b = a THEN d ELSE call[b]
      /\ Agents = {Daemon} \cup Workers /\ Daemon \notin Workers
  BY Alone DEF DInv, IInv
<1>1. CallsKnow'
  <2> SUFFICES ASSUME NEW b \in Agents, call'[b] # None PROVE KnowsRecord(call'[b], jobs[call'[b].job])
    BY DEF CallsKnow, KnowsRecord
  <2>. QED BY <1>0 DEF DInv, Ownership, CallsKnow
<1>2. WorkersCall'
  <2> SUFFICES ASSUME NEW w \in Workers, call'[w] # None PROVE WorkerCall(w, call'[w])
    BY DEF WorkersCall, WorkerCall
  <2>. QED BY <1>0 DEF DInv, Ownership, WorkersCall
<1>3. DaemonCalls'
  <2> SUFFICES ASSUME call'[Daemon] # None PROVE DaemonCall(call'[Daemon])
    BY DEF DaemonCalls, DaemonCall
  <2>. QED BY <1>0 DEF DInv, Ownership, DaemonCalls
<1>4. ExecutorsRun'
  BY DEF DInv, Ownership, ExecutorsRun, Executing
<1>5. NoWorkBeforeServing'
  BY <1>0 DEF DInv, Ownership, NoWorkBeforeServing
<1>6. OwnersDiffer'
  <2>1. ASSUME NEW w \in Workers, NEW j, Owns(w, j)' PROVE Owns(w, j)
    BY <1>0, <2>1 DEF Owns, Executing, Settling
  <2>. QED BY <2>1 DEF DInv, Ownership, OwnersDiffer
<1>7. EnqueuersDiffer'
  BY <1>0 DEF DInv, Ownership, EnqueuersDiffer
<1>. QED BY <1>1, <1>2, <1>3, <1>4, <1>5, <1>6, <1>7 DEF Ownership

\* The call that a step begins.
LEMMA BegunCall ==
  ASSUME NEW op \in Operations, NEW j, NEW to, NEW by
  PROVE LET d == Call(op, j, to, by) IN
        /\ d.op = op /\ d.job = j /\ d.by = by /\ d.to = to /\ d.at = FirstAccess(op)
        /\ ~HasRecord(d)
        /\ Enqueues(d) <=> op = "enqueueJob"
        /\ Settles(d) <=> op \in {"completeJob", "retryJob", "markRetriable"}
BY DEF Call, FirstAccess, HasRecord, Enqueues, Settles, Operations

LEMMA GetJobOwns == ASSUME DaemonAlone, DInv, NEW a \in Agents, GetJob(a) PROVE Ownership'
<1> DEFINE c == call[a]
           r == jobs[c.job]
           d == AfterGetJob(c, r)
<1>1. /\ c # None /\ c.at = "getJob" /\ ~Refuses(c.op, r)
      /\ UNCHANGED <<process, jobs, handle>> /\ call' = [call EXCEPT ![a] = d]
  BY DEF GetJob, At
<1>2. /\ c \in Calls /\ SafeCall(c, Saved) /\ KnowsRecord(c, r)
      /\ a = Daemon => DaemonCall(c)
      /\ a # Daemon => a \in Workers /\ WorkerCall(a, c) /\ process = "serving"
  BY <1>1, AgentFacts
<1>3. c.op \in {"startJob", "completeJob", "retryJob", "markRetriable", "rescheduleJob"}
  BY <1>1, <1>2 DEF SafeCall, Path, DaemonCall, WorkerCall
<1>4. r \in JobRecords /\ r # None
  <2>1. c.job \in Saved
    BY <1>2, <1>3 DEF SafeCall, Subjects
  <2>. QED BY <2>1, SavedRecord DEF DInv
<1>5. Settling(a) <=> Settles(c)
  BY <1>1 DEF Settling
<1>6. CASE c.op \in {"startJob", "completeJob", "markRetriable", "rescheduleJob"}
  <2>1. d = [c EXCEPT !.rec = r, !.at = IF c.op \in {"startJob", "completeJob"}
                                         THEN "getQueueState" ELSE "saveJob"]
    BY <1>6 DEF AfterGetJob
  <2>2. /\ d.op = c.op /\ d.job = c.job /\ d.by = c.by /\ d.rec = r
        /\ d.at = IF c.op \in {"startJob", "completeJob"} THEN "getQueueState" ELSE "saveJob"
    BY <1>2, <2>1 DEF Calls
  <2> HIDE DEF d
  <2>3. KnowsRecord(d, r)
    <3>1. c.op \in {"startJob", "rescheduleJob"} => r.status \in Runnable
      BY <1>1 DEF Refuses
    <3>. QED BY <1>1, <1>2, <1>4, <1>6, <2>2, <3>1 DEF KnowsRecord, Enqueues, Settles, HasRecord
  <2>4. (Settles(d) <=> Settles(c)) /\ ~Enqueues(d)
    BY <1>1, <1>6, <2>2 DEF Settles, Enqueues
  <2>5. a = Daemon => DaemonCall(d)
    BY <1>2, <2>2 DEF DaemonCall
  <2>6. a # Daemon => WorkerCall(a, d)
    BY <1>2, <2>2, <2>4 DEF WorkerCall
  <2>7. r = jobs[d.job]
    BY <2>2
  <2> HIDE DEF c, r
  <2>. QED BY <1>1, <1>2, <1>5, <2>3, <2>4, <2>5, <2>6, <2>7, CallKeeps
<1>7. CASE c.op = "retryJob"
  <2>1. r.status = "running"
    BY <1>2, <1>7 DEF KnowsRecord, Settles
  <2>2. r.status \notin Runnable /\ r.attempt < Budget
    BY <1>1, <1>7, <2>1 DEF Refuses, CanRetry, Runnable
  <2>3. d = Call("markRetriable", c.job, None, None)
    BY <1>7, <2>2 DEF AfterGetJob, AfterDecision
  <2> HIDE DEF d
  <2>4. d.op = "markRetriable" /\ d.job = c.job /\ ~HasRecord(d) /\ Settles(d) /\ ~Enqueues(d)
    BY <2>3, BegunCall DEF Operations
  <2>5. KnowsRecord(d, r)
    BY <1>4, <2>1, <2>2, <2>4 DEF KnowsRecord
  <2>6. a = Daemon => DaemonCall(d)
    BY <1>2, <1>7, <2>4 DEF DaemonCall
  <2>7. a # Daemon => WorkerCall(a, d)
    BY <1>2, <1>7, <2>4 DEF WorkerCall, Settles
  <2>8. Settles(c) /\ r = jobs[d.job]
    BY <1>7, <2>4 DEF Settles
  <2> HIDE DEF c, r
  <2>. QED BY <1>1, <1>2, <1>5, <2>4, <2>5, <2>6, <2>7, <2>8, CallKeeps
<1>. QED BY <1>3, <1>6, <1>7

LEMMA QueueAccessOwns ==
  ASSUME DaemonAlone, DInv, NEW a \in Agents, GetQueueState(a) \/ SaveQueueState(a)
  PROVE Ownership'
<1> DEFINE c == call[a]
<1>1. /\ c # None /\ c.at \in {"getQueueState", "saveQueueState"}
      /\ UNCHANGED <<process, jobs, handle>>
  BY DEF GetQueueState, SaveQueueState, At
<1>2. /\ c \in Calls /\ SafeCall(c, Saved) /\ KnowsRecord(c, jobs[c.job])
      /\ a = Daemon => DaemonCall(c)
      /\ a # Daemon => a \in Workers /\ WorkerCall(a, c) /\ process = "serving"
  BY <1>1, AgentFacts
<1>3. PICK d : /\ call' = [call EXCEPT ![a] = d]
               /\ d # None =>
                    /\ d.op = c.op /\ d.job = c.job /\ d.by = c.by /\ d.rec = c.rec
                    /\ \/ d.at \in {"getJobs", "saveQueueState"}
                       \/ d.at = "saveJob" /\ c.op \in {"startJob", "completeJob"}
  <2>1. CASE GetQueueState(a)
    <3> DEFINE at == CASE c.op = "listRunnableJobs" -> "getJobs"
                       [] c.op = "completeJob" /\ c.job \notin queue -> "saveJob"
                       [] OTHER -> "saveQueueState"
               d == [c EXCEPT !.items = queue, !.at = at]
    <3>1. call' = [call EXCEPT ![a] = d]
      BY <2>1 DEF GetQueueState
    <3>2. d.op = c.op /\ d.job = c.job /\ d.by = c.by /\ d.rec = c.rec /\ d.at = at
      BY <1>2 DEF Calls
    <3>3. \/ at \in {"getJobs", "saveQueueState"}
          \/ at = "saveJob" /\ c.op \in {"startJob", "completeJob"}
      OBVIOUS
    <3> HIDE DEF d, c, at
    <3>. QED BY <3>1, <3>2, <3>3
  <2>2. CASE SaveQueueState(a)
    <3> DEFINE next == [c EXCEPT !.at = "saveJob", !.items = {}]
               d == IF c.op \in {"startJob", "completeJob"} THEN next ELSE None
    <3>1. call' = [call EXCEPT ![a] = d]
      BY <2>2 DEF SaveQueueState
    <3>2. next.op = c.op /\ next.job = c.job /\ next.by = c.by /\ next.rec = c.rec /\ next.at = "saveJob"
      BY <1>2 DEF Calls
    <3> HIDE DEF next, c
    <3>. QED BY <3>1, <3>2
  <2>. QED BY <2>1, <2>2
<1>4. ASSUME d # None
      PROVE /\ KnowsRecord(d, jobs[d.job]) /\ ~Enqueues(d)
            /\ Settles(d) => Settles(c)
            /\ a = Daemon => DaemonCall(d)
            /\ a # Daemon => WorkerCall(a, d)
  <2>1. /\ d.op = c.op /\ d.job = c.job /\ d.by = c.by /\ d.rec = c.rec
        /\ \/ d.at \in {"getJobs", "saveQueueState"}
           \/ d.at = "saveJob" /\ c.op \in {"startJob", "completeJob"}
    BY <1>3, <1>4
  <2>2. (HasRecord(d) => HasRecord(c)) /\ (Settles(d) => Settles(c)) /\ ~Enqueues(d)
    BY <1>1, <2>1 DEF HasRecord, Settles, Enqueues
  <2>3. ~(d.op = "markRetriable" /\ d.at \in {"getJob", "saveJob"})
    BY <2>1
  <2>4. KnowsRecord(d, jobs[d.job])
    BY <1>2, <2>1, <2>2, <2>3 DEF KnowsRecord
  <2>5. a = Daemon => DaemonCall(d)
    BY <1>2, <2>1 DEF DaemonCall
  <2>6. a # Daemon => WorkerCall(a, d)
    BY <1>2, <2>1, <2>2 DEF WorkerCall
  <2>. QED BY <2>2, <2>4, <2>5, <2>6
<1>5. Settles(c) => Settling(a)
  BY <1>1 DEF Settling
<1> HIDE DEF c
<1>. QED BY <1>1, <1>2, <1>3, <1>4, <1>5, CallKeeps

LEMMA GetJobsOwns == ASSUME DaemonAlone, DInv, NEW a \in Agents, GetJobs(a) PROVE Ownership'
BY CallKeeps DEF GetJobs

\* The daemon begins a call, or takes note that there is nothing to do.
LEMMA DaemonOwns ==
  ASSUME DaemonAlone, DInv,
         \/ RecoveryGivesUp \/ TickList \/ TickEnd
         \/ \E j \in Jobs : \/ RecoverJob(j) \/ TickEnqueue(j) \/ TickDefer(j)
                            \/ \E w \in Workers : TickStart(w, j)
  PROVE Ownership'
<1>0. Daemon \in Agents
  BY Alone
<1>1. ASSUME UNCHANGED <<process, jobs, handle>>, NEW op \in Operations, NEW j, NEW to, NEW by,
             Begin(Daemon, op, j, to, by),
             DaemonCall(Call(op, j, to, by)),
             op \in {"completeJob", "retryJob"} => jobs[j] # None /\ jobs[j].status = "running",
             op # "markRetriable",
             op = "enqueueJob" => Fresh(j)
      PROVE Ownership'
  <2> DEFINE d == Call(op, j, to, by)
  <2>1. /\ d.op = op /\ d.job = j /\ ~HasRecord(d)
        /\ Enqueues(d) <=> op = "enqueueJob"
        /\ Settles(d) <=> op \in {"completeJob", "retryJob", "markRetriable"}
    BY BegunCall
  <2>2. call' = [call EXCEPT ![Daemon] = d] /\ DaemonCall(d)
    BY <1>1 DEF Begin
  <2> HIDE DEF d
  <2>3. KnowsRecord(d, jobs[d.job])
    BY <1>1, <2>1 DEF KnowsRecord, Fresh
  <2>4. Enqueues(d) => \A b \in Agents \ {Daemon} : call[b] # None => call[b].job # d.job
    BY <1>1, <2>1 DEF Fresh
  <2>. QED BY <1>0, <1>1, <2>2, <2>3, <2>4, CallKeeps
<1>2. CASE TickEnd
  <2>1. UNCHANGED <<process, jobs, handle, call>>
    BY <1>2 DEF TickEnd
  <2>2. call' = [call EXCEPT ![Daemon] = None] /\ None = None
    BY <1>0, <1>2 DEF TickEnd, Ready, Idle, DInv, IInv
  <2>. QED BY <1>0, <2>1, <2>2, CallKeeps
<1>3. CASE TickList
  <2>1. DaemonCall(Call("listRunnableJobs", None, None, None))
    BY <1>3, BegunCall DEF TickList, Ready, DaemonCall, Operations
  <2>. QED BY <1>1, <1>3, <2>1 DEF TickList, Operations
<1>4. CASE RecoveryGivesUp
  <2> DEFINE c == call[Daemon]
  <2>1. c # None /\ c.at = "getJob" /\ Refuses(c.op, jobs[c.job]) /\ process = "booting"
    <3>1. c # None /\ Throws(Daemon) /\ process = "booting"
      BY <1>4 DEF RecoveryGivesUp, Throws, At
    <3>2. SafeCall(c, Saved) /\ DaemonCall(c)
      BY <1>0, <3>1, AgentFacts
    <3>3. c.at # "getJobs"
      BY <3>1, <3>2 DEF SafeCall, DaemonCall, Path
    <3>. QED BY <3>1, <3>3 DEF Throws, At
  <2>2. KnowsRecord(c, jobs[c.job]) /\ DaemonCall(c) /\ SafeCall(c, Saved)
    BY <1>0, <2>1, AgentFacts
  <2>3. c.op \in {"completeJob", "retryJob", "markRetriable"}
    BY <2>1, <2>2 DEF DaemonCall, SafeCall, Path
  <2>4. jobs[c.job] # None /\ jobs[c.job].status = "running"
    BY <2>1, <2>2, <2>3 DEF KnowsRecord, Settles
  <2>5. DaemonCall(Call("completeJob", c.job, "failed", None))
    BY <2>1, BegunCall DEF DaemonCall, Operations
  <2>. QED BY <1>1, <1>4, <2>4, <2>5 DEF RecoveryGivesUp, Operations
<1>5. ASSUME NEW j \in Jobs, RecoverJob(j) PROVE Ownership'
  <2>1. /\ process = "booting" /\ UNCHANGED <<process, jobs, handle>> /\ call[Daemon] = None
        /\ j \in Saved
    BY <1>5 DEF RecoverJob, Idle, DInv, IInv
  <2>2. jobs[j] # None
    BY <2>1 DEF Saved
  <2>3. \A op \in {"retryJob", "restoreQueuedJob"} : DaemonCall(Call(op, j, None, None))
    BY <2>1, BegunCall DEF DaemonCall, Operations
  <2>4. \/ jobs[j].status = "running" /\ Begin(Daemon, "retryJob", j, None, None)
        \/ Begin(Daemon, "restoreQueuedJob", j, None, None)
        \/ UNCHANGED call
    BY <1>5 DEF RecoverJob
  <2>5. CASE UNCHANGED call
    <3>1. call' = [call EXCEPT ![Daemon] = None]
      BY <1>0, <2>1, <2>5 DEF DInv, IInv
    <3>. QED BY <1>0, <2>1, <3>1, CallKeeps
  <2>. QED BY <1>1, <2>1, <2>2, <2>3, <2>4, <2>5 DEF Operations
<1>6. ASSUME NEW j \in Jobs, TickEnqueue(j) PROVE Ownership'
  <2>1. DaemonCall(Call("enqueueJob", j, None, None))
    BY <1>6, BegunCall DEF TickEnqueue, Ready, DaemonCall, Operations
  <2>. QED BY <1>1, <1>6, <2>1 DEF TickEnqueue, Operations
<1>7. ASSUME NEW j \in Jobs, TickDefer(j) PROVE Ownership'
  <2>1. DaemonCall(Call("rescheduleJob", j, None, None))
    BY <1>7, BegunCall DEF TickDefer, Ready, DaemonCall, Operations
  <2>. QED BY <1>1, <1>7, <2>1 DEF TickDefer, Operations
<1>8. ASSUME NEW j \in Jobs, NEW w \in Workers, TickStart(w, j) PROVE Ownership'
  <2>1. DaemonCall(Call("startJob", j, None, w))
    BY <1>8, BegunCall DEF TickStart, Ready, DaemonCall, Operations
  <2>. QED BY <1>1, <1>8, <2>1 DEF TickStart, Operations
<1>. QED BY <1>2, <1>3, <1>4, <1>5, <1>6, <1>7, <1>8

-----------------------------------------------------------------------------
(* What executors do with their handles, and the process with its agents.  *)

\* A worker reports what it executes, or what follows it.
LEMMA WorkerOwns ==
  ASSUME DaemonAlone, DInv, NEW e \in Workers,
         Report(e) \/ Finish(e) \/ \E j \in Jobs : EnqueueFollowUp(e, j)
  PROVE Ownership'
<1>0. e \in Agents /\ e # Daemon /\ e \in Executors /\ Agents = {Daemon} \cup Workers
  BY Alone
<1>1. /\ process = "serving" /\ call[e] = None /\ handle[e] # None
      /\ UNCHANGED <<process, jobs>>
  BY DEF Report, Finish, EnqueueFollowUp, Ready, Idle
<1>2. handle[e] \in Handles /\ handle[e].job \in Saved /\ None \notin Handles
  BY <1>0, <1>1, NoneAssumption DEF DInv, IInv, SafeHandles
\* the call that is begun, if any, and what becomes of the handle
<1>3. /\ \/ call' = call
         \/ \E op \in {"completeJob", "retryJob"} : \E to :
              Begin(e, op, handle[e].job, to, None) /\ Executing(e)
         \/ \E j \in Jobs : Begin(e, "enqueueJob", j, None, None) /\ Fresh(j)
      /\ ~Executing(e)' /\ \A w \in Workers \ {e} : handle'[w] = handle[w]
      /\ Executing(e) => handle'[e] # None /\ handle'[e].job = handle[e].job
                         /\ handle'[e].stage # "executing"
  <2>1. CASE Report(e)
    <3>1. PICK stage \in {"succeeded", "ended"} : handle' = [handle EXCEPT ![e].stage = stage]
      BY <2>1 DEF Report
    <3>2. handle'[e] = [handle[e] EXCEPT !.stage = stage]
      BY <1>0, <3>1 DEF DInv, IInv
    <3>3. handle'[e] \in Handles /\ handle'[e].stage = stage /\ handle'[e].job = handle[e].job
      BY <1>2, <3>2 DEF Handles
    <3>4. ~Executing(e)'
      BY <3>3 DEF Executing
    <3>5. \E op \in {"completeJob", "retryJob"} : \E to : Begin(e, op, handle[e].job, to, None)
      BY <2>1 DEF Report
    <3>6. Executing(e)
      BY <1>1, <2>1 DEF Report, Executing
    <3>. QED BY <1>2, <3>1, <3>3, <3>4, <3>5, <3>6
  <2>2. CASE Finish(e) \/ \E j \in Jobs : EnqueueFollowUp(e, j)
    <3>1. handle' = [handle EXCEPT ![e] = None] /\ handle[e].stage # "executing"
      BY <2>2 DEF Finish, EnqueueFollowUp
    <3>2. ~Executing(e)' /\ ~Executing(e)
      BY <1>0, <3>1 DEF Executing, DInv, IInv
    <3>. QED BY <2>2, <3>1, <3>2 DEF Finish, EnqueueFollowUp
  <2>. QED BY <2>1, <2>2
<1>4. PICK d : /\ call' = [call EXCEPT ![e] = d]
               /\ d # None =>
                    /\ KnowsRecord(d, jobs[d.job])
                    /\ d.op \in {"enqueueJob", "completeJob", "retryJob"}
                    /\ Settles(d) => Executing(e) /\ d.job = handle[e].job
                    /\ Enqueues(d) => \A b \in Agents : call[b] # None => call[b].job # d.job
  <2>1. CASE call' = call
    <3>1. call' = [call EXCEPT ![e] = None]
      BY <1>0, <1>1, <2>1 DEF DInv, IInv
    <3>. QED BY <3>1
  <2>2. ASSUME NEW op \in {"completeJob", "retryJob"}, NEW to,
               Begin(e, op, handle[e].job, to, None), Executing(e)
        PROVE \E d : /\ call' = [call EXCEPT ![e] = d]
                     /\ KnowsRecord(d, jobs[d.job])
                     /\ d.op \in {"enqueueJob", "completeJob", "retryJob"}
                     /\ Settles(d) => Executing(e) /\ d.job = handle[e].job
                     /\ ~Enqueues(d)
    <3> DEFINE d == Call(op, handle[e].job, to, None)
    <3>1. /\ d.op = op /\ d.job = handle[e].job /\ ~HasRecord(d)
          /\ Enqueues(d) <=> op = "enqueueJob"
      BY BegunCall DEF Operations
    <3>2. call' = [call EXCEPT ![e] = d]
      BY <2>2 DEF Begin
    <3> HIDE DEF d
    <3>3. jobs[d.job] # None /\ jobs[d.job].status = "running"
      <4>1. jobs[handle[e].job] = [status |-> "running", attempt |-> handle[e].attempt]
        BY <2>2 DEF DInv, Ownership, ExecutorsRun
      <4>2. jobs[handle[e].job] # None
        BY <1>2 DEF Saved
      <4>. QED BY <3>1, <4>1, <4>2
    <3>4. KnowsRecord(d, jobs[d.job])
      BY <3>1, <3>3 DEF KnowsRecord
    <3>. QED BY <2>2, <3>1, <3>2, <3>4
  <2>3. ASSUME NEW j \in Jobs, Begin(e, "enqueueJob", j, None, None), Fresh(j)
        PROVE \E d : /\ call' = [call EXCEPT ![e] = d]
                     /\ KnowsRecord(d, jobs[d.job])
                     /\ d.op \in {"enqueueJob", "completeJob", "retryJob"}
                     /\ ~Settles(d)
                     /\ \A b \in Agents : call[b] # None => call[b].job # d.job
    <3> DEFINE d == Call("enqueueJob", j, None, None)
    <3>1. d.op = "enqueueJob" /\ d.job = j /\ ~HasRecord(d) /\ ~Settles(d)
      BY BegunCall DEF Operations
    <3>2. call' = [call EXCEPT ![e] = d]
      BY <2>3 DEF Begin
    <3> HIDE DEF d
    <3>3. KnowsRecord(d, jobs[d.job])
      BY <2>3, <3>1 DEF KnowsRecord, Fresh
    <3>. QED BY <2>3, <3>1, <3>2, <3>3 DEF Fresh
  <2>. QED BY <1>3, <2>1, <2>2, <2>3
<1>5. \A b \in Agents : call'[b] = IF b = e THEN d ELSE call[b]
  BY <1>4 DEF DInv, IInv
<1>6. ASSUME NEW w \in Workers, NEW j, Owns(w, j)' PROVE Owns(w, j)
  <2>1. CASE w = e
    <3>1. d # None /\ Settles(d) /\ handle'[e].job = j
      BY <1>0, <1>3, <1>5, <1>6, <2>1 DEF Owns, Settling
    <3>. QED BY <1>3, <1>4, <2>1, <3>1 DEF Owns
  <2>2. CASE w # e
    BY <1>0, <1>3, <1>5, <1>6, <2>2 DEF Owns, Settling, Executing
  <2>. QED BY <2>1, <2>2
<1>7. CallsKnow'
  <2> SUFFICES ASSUME NEW b \in Agents, call'[b] # None PROVE KnowsRecord(call'[b], jobs[call'[b].job])
    BY <1>1 DEF CallsKnow, KnowsRecord
  <2>. QED BY <1>4, <1>5 DEF DInv, Ownership, CallsKnow
<1>8. WorkersCall'
  <2>1. d # None => WorkerCall(e, d)'
    BY <1>3, <1>4 DEF WorkerCall, Settles
  <2> SUFFICES ASSUME NEW w \in Workers, call'[w] # None PROVE WorkerCall(w, call[w])'
    BY DEF WorkersCall
  <2>2. CASE w = e
    <3>1. call'[w] = d
      BY <1>0, <1>5, <2>2
    <3>. QED BY <2>1, <2>2, <3>1 DEF WorkerCall
  <2>3. CASE w # e
    <3>1. call'[w] = call[w] /\ handle'[w] = handle[w]
      BY <1>0, <1>3, <1>5, <2>3
    <3>. QED BY <3>1 DEF WorkerCall, DInv, Ownership, WorkersCall
  <2>. QED BY <2>2, <2>3
<1>9. DaemonCalls'
  <2>1. call'[Daemon] = call[Daemon]
    BY <1>0, <1>5
  <2>2. \A w \in Workers : handle[w] = None => handle'[w] = None
    BY <1>1, <1>3
  <2>. QED BY <1>1, <2>1, <2>2 DEF DaemonCalls, DaemonCall, DInv, Ownership
<1>10. ExecutorsRun'
  <2> SUFFICES ASSUME NEW w \in Workers, Executing(w)'
               PROVE jobs[handle'[w].job] = [status |-> "running", attempt |-> handle'[w].attempt]
    BY <1>1 DEF ExecutorsRun
  <2>1. handle'[w] = handle[w] /\ Executing(w)
    BY <1>3 DEF Executing
  <2>. QED BY <2>1 DEF DInv, Ownership, ExecutorsRun
<1>11. NoWorkBeforeServing'
  BY <1>1 DEF NoWorkBeforeServing
<1>12. OwnersDiffer'
  BY <1>6 DEF DInv, Ownership, OwnersDiffer
<1>13. EnqueuersDiffer'
  BY <1>4, <1>5 DEF DInv, Ownership, EnqueuersDiffer
<1>. QED BY <1>7, <1>8, <1>9, <1>10, <1>11, <1>12, <1>13 DEF Ownership

\* A dead process has no agents; one that boots or begins to serve has none at work.
LEMMA ProcessOwns ==
  ASSUME DaemonAlone, DInv, ProcessExit \/ Boot \/ Serve
  PROVE Ownership'
<1>0. Agents = {Daemon} \cup Workers /\ Executors = Workers
  BY Alone
<1>1. CASE ProcessExit
  <2>1. /\ \A a \in Agents : call'[a] = None
        /\ \A w \in Workers : handle'[w] = None
    BY <1>0, <1>1 DEF ProcessExit
  <2>. QED BY <1>0, <2>1 DEF Ownership, CallsKnow, WorkersCall, DaemonCalls, ExecutorsRun,
             NoWorkBeforeServing, OwnersDiffer, EnqueuersDiffer, Owns, Executing, Settling
<1>2. CASE Boot \/ Serve
  <2>1. /\ UNCHANGED <<jobs, call, handle>> /\ process # "serving"
        /\ process' = "serving" => call[Daemon] = None
    BY <1>2 DEF Boot, Serve, Idle
  <2>2. \A w \in Workers : call[w] = None /\ handle[w] = None
    BY <2>1 DEF DInv, Ownership, NoWorkBeforeServing
  <2>3. DaemonCalls'
    BY <2>1 DEF DInv, Ownership, DaemonCalls, DaemonCall
  <2>4. CallsKnow'
    BY <2>1 DEF DInv, Ownership, CallsKnow
  <2>5. EnqueuersDiffer'
    BY <2>1 DEF DInv, Ownership, EnqueuersDiffer
  <2>. QED BY <2>1, <2>2, <2>3, <2>4, <2>5 DEF Ownership, WorkersCall, ExecutorsRun,
             NoWorkBeforeServing, OwnersDiffer, Owns, Executing, Settling
<1>. QED BY <1>1, <1>2

-----------------------------------------------------------------------------
(* The write of a job's record.                                            *)

\* A job that has an owner is running.
LEMMA OwnedIsRunning ==
  ASSUME DaemonAlone, DInv, NEW w \in Workers, NEW j, Owns(w, j)
  PROVE jobs[j] # None /\ jobs[j].status = "running"
<1>0. w \in Agents /\ w \in Executors /\ w # Daemon
  BY Alone
<1>1. CASE Executing(w)
  <2>1. handle[w].job \in Saved
    BY <1>0, <1>1 DEF DInv, IInv, SafeHandles, Executing
  <2>2. jobs[handle[w].job] = [status |-> "running", attempt |-> handle[w].attempt]
    BY <1>1 DEF DInv, Ownership, ExecutorsRun
  <2>. QED BY <2>1, <2>2 DEF Owns, Saved
<1>2. CASE Settling(w)
  <2>1. KnowsRecord(call[w], jobs[call[w].job]) /\ WorkerCall(w, call[w])
    BY <1>0, <1>2, AgentFacts DEF Settling
  <2>2. call[w].job = j
    BY <1>2, <2>1 DEF Settling, WorkerCall, Owns
  <2>. QED BY <1>2, <2>1, <2>2 DEF KnowsRecord, Settling
<1>. QED BY <1>1, <1>2 DEF Owns

\* What a call about to write writes: a job that is new, starts, ends, comes back, or stays.
LEMMA WriteFacts ==
  ASSUME DaemonAlone, DInv, NEW a \in Agents, SaveJob(a)
  PROVE LET c == call[a]
            r == jobs[c.job] IN
        /\ c \in Calls /\ c # None /\ c.at = "saveJob" /\ c.job \in Jobs
        /\ a = Daemon => DaemonCall(c)
        /\ a # Daemon => a \in Workers /\ WorkerCall(a, c) /\ process = "serving"
        /\ \/ c.op = "enqueueJob" /\ r = None /\ Enqueues(c)
           \/ /\ c.op \in {"startJob", "rescheduleJob"} /\ a = Daemon /\ process = "serving"
              /\ r = c.rec /\ r \in JobRecords /\ r # None /\ r.status \in Runnable
           \/ /\ c.op \in {"completeJob", "markRetriable"} /\ Settles(c)
              /\ r = c.rec /\ r \in JobRecords /\ r # None /\ r.status = "running"
        /\ c.op = "markRetriable" => r.attempt < Budget
        /\ c.op = "completeJob" => c.to \in Terminal
<1> DEFINE c == call[a]
           r == jobs[c.job]
<1>1. c # None /\ c.at = "saveJob"
  BY DEF SaveJob, At
<1>2. /\ c \in Calls /\ SafeCall(c, Saved) /\ KnowsRecord(c, r)
      /\ a = Daemon => DaemonCall(c)
      /\ a # Daemon => a \in Workers /\ WorkerCall(a, c) /\ process = "serving"
  BY <1>1, AgentFacts
<1>3. c.op \in {"enqueueJob", "startJob", "rescheduleJob", "completeJob", "markRetriable"}
  BY <1>1, <1>2 DEF SafeCall, Path, WorkerCall, DaemonCall
<1>4. c.job \in Jobs
  BY <1>2, <1>3 DEF SafeCall, Subjects, Saved
<1>5. r \in JobRecords \cup {None}
  BY <1>4 DEF DInv, IInv
<1>6. c.op = "completeJob" => c.to \in Terminal
  BY <1>2 DEF SafeCall, Calls
<1>7. CASE c.op = "enqueueJob"
  BY <1>1, <1>2, <1>4, <1>7 DEF KnowsRecord, Enqueues
<1>8. CASE c.op \in {"startJob", "rescheduleJob"}
  <2>1. a = Daemon
    BY <1>2, <1>8 DEF WorkerCall
  <2>2. process = "serving"
    BY <1>2, <1>8, <2>1 DEF DaemonCall
  <2>3. HasRecord(c)
    BY <1>1, <1>8 DEF HasRecord
  <2>. QED BY <1>1, <1>2, <1>4, <1>5, <1>8, <2>1, <2>2, <2>3 DEF KnowsRecord
<1>9. CASE c.op \in {"completeJob", "markRetriable"}
  <2>1. Settles(c) /\ HasRecord(c)
    BY <1>1, <1>9 DEF Settles, HasRecord
  <2>2. c.op = "markRetriable" => r.attempt < Budget
    BY <1>1, <1>2 DEF KnowsRecord
  <2>. QED BY <1>1, <1>2, <1>4, <1>5, <1>6, <1>9, <2>1, <2>2 DEF KnowsRecord
<1>. QED BY <1>3, <1>7, <1>8, <1>9

\* Nobody else is about to write a record that is written, unless it stays as it was.
LEMMA WriterIsAlone ==
  ASSUME DaemonAlone, DInv, NEW a \in Agents, SaveJob(a), call[a].op # "rescheduleJob",
         NEW b \in Agents, b # a, call[b] # None, call[b].job = call[a].job
  PROVE /\ ~Enqueues(call[b]) /\ ~Settles(call[b])
        /\ ~(call[b].op \in {"startJob", "rescheduleJob"} /\ HasRecord(call[b]))
<1> DEFINE c == call[a]
           r == jobs[c.job]
           o == call[b]
<1>1. /\ c # None /\ c.job \in Jobs
      /\ a = Daemon => DaemonCall(c)
      /\ a # Daemon => a \in Workers /\ WorkerCall(a, c) /\ process = "serving"
      /\ \/ c.op = "enqueueJob" /\ r = None /\ Enqueues(c)
         \/ /\ c.op \in {"startJob", "rescheduleJob"} /\ a = Daemon /\ process = "serving"
            /\ r # None /\ r.status \in Runnable
         \/ /\ c.op \in {"completeJob", "markRetriable"} /\ Settles(c)
            /\ r # None /\ r.status = "running"
  BY WriteFacts
<1>2. /\ KnowsRecord(o, r)
      /\ b = Daemon => DaemonCall(o)
      /\ b # Daemon => b \in Workers /\ WorkerCall(b, o) /\ process = "serving"
  BY AgentFacts
<1>3. "running" \notin Runnable
  BY DEF Runnable
<1>4. CASE c.op = "enqueueJob"
  <2>1. ~Enqueues(o)
    BY <1>1, <1>4 DEF DInv, Ownership, EnqueuersDiffer
  <2>. QED BY <1>1, <1>2, <1>4, <2>1 DEF KnowsRecord
<1>5. CASE c.op = "startJob"
  <2>1. WorkerCall(b, o) /\ r # None /\ r.status \in Runnable
    BY <1>1, <1>2, <1>5
  <2>. QED BY <1>2, <1>3, <2>1 DEF KnowsRecord, WorkerCall
<1>6. CASE c.op \in {"completeJob", "markRetriable"}
  <2>1. r # None /\ r.status = "running" /\ Settles(c)
    BY <1>1, <1>6
  <2>2. ~Enqueues(o) /\ ~(o.op \in {"startJob", "rescheduleJob"} /\ HasRecord(o))
    BY <1>2, <1>3, <2>1 DEF KnowsRecord
  <2>3. ASSUME Settles(o) PROVE FALSE
    <3>1. CASE process = "serving"
      <4>1. a # Daemon
        BY <1>1, <1>6, <3>1 DEF DaemonCall
      <4>2. b # Daemon
        BY <1>2, <2>3, <3>1 DEF DaemonCall, Settles
      <4>3. Owns(a, c.job) /\ Owns(b, c.job)
        BY <1>1, <1>2, <2>1, <2>3, <4>1, <4>2 DEF Owns, Settling, WorkerCall
      <4>. QED BY <1>1, <1>2, <4>1, <4>2, <4>3 DEF DInv, Ownership, OwnersDiffer
    <3>2. CASE process # "serving"
      BY <1>1, <1>2, <3>2
    <3>. QED BY <3>1, <3>2
  <2>. QED BY <2>2, <2>3
<1>. QED BY <1>1, <1>4, <1>5, <1>6

\* Nor does anybody execute the job.
LEMMA WrittenIsNotExecuted ==
  ASSUME DaemonAlone, DInv, NEW a \in Agents, SaveJob(a), call[a].op # "rescheduleJob",
         NEW w \in Workers, Executing(w)
  PROVE handle[w].job # call[a].job
<1> DEFINE c == call[a]
           r == jobs[c.job]
<1> SUFFICES ASSUME handle[w].job = c.job PROVE FALSE
  OBVIOUS
<1>1. /\ c # None /\ c.job \in Jobs
      /\ a # Daemon => a \in Workers /\ WorkerCall(a, c)
      /\ a = Daemon => DaemonCall(c)
      /\ \/ c.op = "enqueueJob" /\ r = None
         \/ c.op \in {"startJob", "rescheduleJob"} /\ r.status \in Runnable
         \/ c.op \in {"completeJob", "markRetriable"} /\ Settles(c)
  BY WriteFacts
<1>2. Owns(w, c.job)
  BY DEF Owns
<1>3. r # None /\ r.status = "running" /\ "running" \notin Runnable
  BY <1>2, OwnedIsRunning DEF Runnable
<1>4. c.op \in {"completeJob", "markRetriable"} /\ Settles(c)
  BY <1>1, <1>3
<1>5. process = "serving"
  BY DEF DInv, Ownership, NoWorkBeforeServing, Executing
<1>6. a \in Workers /\ WorkerCall(a, c)
  BY <1>1, <1>4, <1>5 DEF DaemonCall
<1>7. Owns(a, c.job) /\ a # w
  BY <1>1, <1>4, <1>6 DEF Owns, Settling, WorkerCall, Executing
<1>. QED BY <1>1, <1>2, <1>6, <1>7 DEF DInv, Ownership, OwnersDiffer

\* The call that is left of a write knows nothing any more.
LEMMA CallAfterWrite ==
  ASSUME DaemonAlone, DInv, NEW a \in Agents, SaveJob(a)
  PROVE \E d : /\ call' = [call EXCEPT ![a] = d]
               /\ d # None => /\ d.op = call[a].op /\ d.by = call[a].by
                              /\ d.op \in {"enqueueJob", "markRetriable", "rescheduleJob"}
                              /\ ~Settles(d) /\ ~Enqueues(d) /\ ~HasRecord(d)
                              /\ \A r : KnowsRecord(d, r)
<1> DEFINE c == call[a]
           next == [c EXCEPT !.at = "getQueueState", !.rec = None]
           d == IF c.op \in {"enqueueJob", "markRetriable", "rescheduleJob"} THEN next ELSE None
<1>1. c \in Calls
  BY WriteFacts
<1>2. next.op = c.op /\ next.by = c.by /\ next.at = "getQueueState"
  BY <1>1 DEF Calls
<1>3. call' = [call EXCEPT ![a] = d]
  BY DEF SaveJob
<1> HIDE DEF next, c
<1>4. d # None => /\ d = next /\ d.op = c.op /\ d.by = c.by
                  /\ d.op \in {"enqueueJob", "markRetriable", "rescheduleJob"}
                  /\ d.at = "getQueueState"
  BY <1>2
<1> HIDE DEF d
<1>5. d # None => ~Settles(d) /\ ~Enqueues(d) /\ ~HasRecord(d) /\ \A r : KnowsRecord(d, r)
  BY <1>4 DEF Settles, Enqueues, HasRecord, KnowsRecord
<1>. QED BY <1>3, <1>4, <1>5 DEF c

LEMMA SaveJobOwns == ASSUME DaemonAlone, DInv, NEW a \in Agents, SaveJob(a) PROVE Ownership'
<1> DEFINE c == call[a]
           j == c.job
           r == jobs[j]
           h == [job |-> j, attempt |-> c.rec.attempt, stage |-> "executing"]
<1>0. Agents = {Daemon} \cup Workers /\ Daemon \notin Workers /\ Executors = Workers
  BY Alone
<1>1. /\ c \in Calls /\ c # None /\ j \in Jobs
      /\ a = Daemon => DaemonCall(c)
      /\ a # Daemon => a \in Workers /\ WorkerCall(a, c) /\ process = "serving"
      /\ c.op \in {"startJob", "rescheduleJob"} =>
           a = Daemon /\ process = "serving" /\ r = c.rec /\ r \in JobRecords /\ r # None
           /\ r.status \in Runnable
  BY WriteFacts
<1>2. PICK d : /\ call' = [call EXCEPT ![a] = d]
               /\ d # None => /\ d.op = c.op /\ d.by = c.by
                              /\ d.op \in {"enqueueJob", "markRetriable", "rescheduleJob"}
                              /\ ~Settles(d) /\ ~Enqueues(d) /\ ~HasRecord(d)
                              /\ \A x : KnowsRecord(d, x)
  BY CallAfterWrite
<1>3. /\ \A b \in Agents : call'[b] = IF b = a THEN d ELSE call[b]
      /\ process' = process /\ jobs' = [jobs EXCEPT ![j] = JobAfter(c)]
      /\ handle' = IF c.op = "startJob" THEN [handle EXCEPT ![c.by] = h] ELSE handle
  BY <1>2 DEF SaveJob, DInv, IInv
<1>4. \A k : k # j => jobs'[k] = jobs[k]
  BY <1>3 DEF DInv, IInv
<1>5. c.op = "rescheduleJob" => jobs' = jobs
  BY <1>1, <1>3 DEF JobAfter, DInv, IInv
<1>6. c.op = "startJob" => c.by \in Workers /\ handle[c.by] = None
  BY <1>1 DEF DaemonCall
<1>7. /\ \A w \in Workers : (c.op # "startJob" \/ w # c.by) => handle'[w] = handle[w]
      /\ c.op = "startJob" => handle'[c.by] = h
  BY <1>0, <1>3, <1>6 DEF DInv, IInv
<1>8. c.op = "startJob" => jobs'[j] = [status |-> "running", attempt |-> c.rec.attempt]
  <2>1. c.op = "startJob" => jobs'[j] = RunningJob(c.rec)
    BY <1>1, <1>3 DEF JobAfter, DInv, IInv
  <2>2. c.op = "startJob" => RunningJob(c.rec) = [status |-> "running", attempt |-> c.rec.attempt]
    BY <1>1 DEF RunningJob, JobRecords
  <2>. QED BY <2>1, <2>2
<1>9. h.job = j /\ h.attempt = c.rec.attempt /\ h.stage = "executing"
  OBVIOUS
<1> HIDE DEF h
<1>10. CallsKnow'
  <2> SUFFICES ASSUME NEW b \in Agents, call'[b] # None PROVE KnowsRecord(call'[b], jobs'[call'[b].job])
    BY DEF CallsKnow, KnowsRecord
  <2>1. CASE b = a
    BY <1>2, <1>3, <2>1
  <2>2. CASE b # a
    <3>1. call'[b] = call[b] /\ call[b] # None
      BY <1>3, <2>2
    <3>2. KnowsRecord(call[b], jobs[call[b].job])
      BY <3>1, AgentFacts
    <3>3. CASE call[b].job # j \/ c.op = "rescheduleJob"
      BY <1>4, <1>5, <3>1, <3>2, <3>3
    <3>4. CASE call[b].job = j /\ c.op # "rescheduleJob"
      <4>1. /\ ~Enqueues(call[b]) /\ ~Settles(call[b])
            /\ ~(call[b].op \in {"startJob", "rescheduleJob"} /\ HasRecord(call[b]))
        BY <2>2, <3>1, <3>4, WriterIsAlone
      <4>2. \A x : KnowsRecord(call[b], x)
        BY <4>1 DEF KnowsRecord, Settles
      <4>. QED BY <3>1, <4>2
    <3>. QED BY <3>3, <3>4
  <2>. QED BY <2>1, <2>2
<1>11. WorkersCall'
  <2> SUFFICES ASSUME NEW w \in Workers, call'[w] # None PROVE WorkerCall(w, call[w])'
    BY DEF WorkersCall
  <2>1. CASE w = a
    <3>1. call'[w] = d /\ d.op = c.op /\ ~Settles(d) /\ WorkerCall(a, c)
      BY <1>0, <1>1, <1>2, <1>3, <2>1
    <3>. QED BY <3>1 DEF WorkerCall, Settles
  <2>2. CASE w # a
    <3>1. call'[w] = call[w] /\ WorkerCall(w, call[w])
      BY <1>0, <1>3, <2>2 DEF DInv, Ownership, WorkersCall
    <3>2. Settles(call[w]) => handle'[w] = handle[w]
      BY <1>6, <1>7, <3>1 DEF WorkerCall
    <3>. QED BY <3>1, <3>2 DEF WorkerCall, Settles
  <2>. QED BY <2>1, <2>2
<1>12. DaemonCalls'
  <2> SUFFICES ASSUME call'[Daemon] # None PROVE DaemonCall(call[Daemon])'
    BY DEF DaemonCalls
  <2>1. CASE a = Daemon
    <3>1. call'[Daemon] = d /\ d.op = c.op /\ d.op # "startJob" /\ DaemonCall(c)
      BY <1>0, <1>1, <1>2, <1>3, <2>1
    <3>. QED BY <1>3, <3>1 DEF DaemonCall
  <2>2. CASE a # Daemon
    <3>1. call'[Daemon] = call[Daemon] /\ DaemonCall(call[Daemon]) /\ handle' = handle
      BY <1>0, <1>1, <1>3, <2>2 DEF DInv, Ownership, DaemonCalls
    <3>. QED BY <1>3, <3>1 DEF DaemonCall
  <2>. QED BY <2>1, <2>2
<1>13. ExecutorsRun'
  <2> SUFFICES ASSUME NEW w \in Workers, Executing(w)'
               PROVE jobs'[handle'[w].job] = [status |-> "running", attempt |-> handle'[w].attempt]
    BY DEF ExecutorsRun
  <2>1. CASE c.op = "startJob" /\ w = c.by
    BY <1>7, <1>8, <1>9, <2>1
  <2>2. CASE c.op # "startJob" \/ w # c.by
    <3>1. handle'[w] = handle[w] /\ Executing(w)
      BY <1>7, <2>2 DEF Executing
    <3>2. jobs[handle[w].job] = [status |-> "running", attempt |-> handle[w].attempt]
      BY <3>1 DEF DInv, Ownership, ExecutorsRun
    <3>3. handle[w].job # j \/ c.op = "rescheduleJob"
      BY <3>1, WrittenIsNotExecuted
    <3>. QED BY <1>4, <1>5, <3>1, <3>2, <3>3
  <2>. QED BY <2>1, <2>2
<1>14. NoWorkBeforeServing'
  <2> SUFFICES ASSUME process # "serving", NEW w \in Workers PROVE call'[w] = None /\ handle'[w] = None
    BY <1>3 DEF NoWorkBeforeServing
  <2>1. call[w] = None /\ handle[w] = None /\ a = Daemon /\ c.op # "startJob"
    BY <1>1 DEF DInv, Ownership, NoWorkBeforeServing
  <2>. QED BY <1>0, <1>3, <1>7, <2>1
<1>15. OwnersDiffer'
  <2>1. ASSUME NEW w \in Workers, NEW k, Owns(w, k)'
        PROVE \/ Owns(w, k)
              \/ c.op = "startJob" /\ w = c.by /\ k = j
    <3>1. Settling(w)' => Settling(w)
      BY <1>0, <1>2, <1>3 DEF Settling
    <3>2. CASE c.op = "startJob" /\ w = c.by
      BY <1>7, <1>9, <2>1, <3>2 DEF Owns
    <3>3. CASE c.op # "startJob" \/ w # c.by
      BY <1>7, <2>1, <3>1, <3>3 DEF Owns, Executing
    <3>. QED BY <3>2, <3>3
  <2>2. c.op = "startJob" => \A w \in Workers : ~Owns(w, j)
    <3>1. c.op = "startJob" => r.status # "running"
      BY <1>1 DEF Runnable
    <3>. QED BY <3>1, OwnedIsRunning
  <2>3. \A v, w \in Workers : v # w => \A k \in Jobs : ~ (Owns(v, k)' /\ Owns(w, k)')
    BY <2>1, <2>2 DEF DInv, Ownership, OwnersDiffer
  <2>. QED BY <2>3 DEF OwnersDiffer
<1>16. EnqueuersDiffer'
  BY <1>2, <1>3 DEF DInv, Ownership, EnqueuersDiffer
<1>. QED BY <1>10, <1>11, <1>12, <1>13, <1>14, <1>15, <1>16 DEF Ownership

-----------------------------------------------------------------------------
(* The theorems.                                                           *)

LEMMA StepOwns == ASSUME DaemonAlone, DInv, [Next]_vars PROVE Ownership'
<1>1. CASE UNCHANGED vars
  BY <1>1 DEF vars, DInv, Ownership, CallsKnow, WorkersCall, DaemonCalls, ExecutorsRun,
              NoWorkBeforeServing, OwnersDiffer, EnqueuersDiffer, WorkerCall, DaemonCall, Owns,
              Executing, Settling
<1>2. CASE \E a \in Agents :
             \/ GetJob(a) \/ GetQueueState(a) \/ SaveQueueState(a) \/ SaveJob(a) \/ GetJobs(a)
             \/ UnhandledRejection(a)
  BY <1>2, GetJobOwns, QueueAccessOwns, SaveJobOwns, GetJobsOwns, ProcessOwns DEF UnhandledRejection
<1>3. CASE Crash \/ Boot \/ Serve
  BY <1>3, ProcessOwns DEF Crash
<1>4. CASE RecoveryGivesUp \/ TickList \/ TickEnd
  BY <1>4, DaemonOwns
<1>5. CASE \E j \in Jobs :
             \/ RecoverJob(j) \/ TickEnqueue(j) \/ TickDefer(j) \/ TickReclaim(j)
             \/ \E w \in Workers : TickStart(w, j)
             \/ \E e \in Executors : EnqueueFollowUp(e, j)
  <2>1. \A j \in Jobs : ~TickReclaim(j)
    BY DEF TickReclaim, Stimulus, DaemonAlone
  <2>. QED BY <1>5, <2>1, DaemonOwns, WorkerOwns, Alone
<1>6. CASE \E e \in Executors : Report(e) \/ Finish(e)
  BY <1>6, WorkerOwns, Alone
<1>7. CASE \E c \in Clients : RequestFails(c) \/ Request(c) \/ DrainList(c) \/ DrainStart(c)
  BY <1>7 DEF DaemonAlone
<1>. QED BY <1>1, <1>2, <1>3, <1>4, <1>5, <1>6, <1>7 DEF Next

LEMMA SpecDInv == ASSUME DaemonAlone PROVE Spec => []DInv
<1>1. Init => DInv
  <2> SUFFICES ASSUME Init PROVE DInv
    OBVIOUS
  <2>1. Workers \subseteq Agents /\ Workers \subseteq Executors
    BY Alone
  <2>2. /\ \A a \in Agents : call[a] = None
        /\ \A w \in Workers : handle[w] = None
        /\ Daemon \in Agents
    BY <2>1 DEF Init, Agents
  <2>3. CallsKnow /\ WorkersCall /\ DaemonCalls /\ EnqueuersDiffer /\ NoWorkBeforeServing
    BY <2>1, <2>2 DEF CallsKnow, WorkersCall, DaemonCalls, EnqueuersDiffer, NoWorkBeforeServing
  <2>4. ExecutorsRun /\ OwnersDiffer
    BY <2>1, <2>2 DEF ExecutorsRun, OwnersDiffer, Owns, Executing, Settling
  <2>. QED BY <2>3, <2>4, InitIInv DEF DInv, Ownership
<1>2. DInv /\ [Next]_vars => DInv'
  BY StepIInv, StepOwns DEF DInv
<1>. QED BY <1>1, <1>2, PTL DEF Spec

\* WorkerPoolService never has two workers on one job, even when a lost update of
\* queue-state.json lists a job that is running: startJob refuses a job that is not runnable.
THEOREM WorkersHaveTheirOwnJobs == ASSUME DaemonAlone PROVE Spec => []OneExecutorPerJob
<1>1. DInv => OneExecutorPerJob
  <2> SUFFICES ASSUME DInv, NEW d \in Executors, NEW e \in Executors, d # e, Executing(d), Executing(e),
                      handle[d].job = handle[e].job
               PROVE FALSE
    BY DEF OneExecutorPerJob, Executing
  <2>1. Owns(d, handle[d].job) /\ Owns(e, handle[d].job)
    BY DEF Owns
  <2>2. handle[d].job \in Jobs
    BY DEF DInv, IInv, SafeHandles, Handles, Executing
  <2>. QED BY <2>1, <2>2, Alone DEF DInv, Ownership, OwnersDiffer
<1>. QED BY <1>1, SpecDInv, PTL

\* A write to a job's file is a step of the job's life, and nothing else touches the files.
LEMMA WriteImplements ==
  ASSUME DaemonAlone, DInv, NEW a \in Agents, SaveJob(a)
  PROVE Lifecycle!Next \/ UNCHANGED jobs
<1> DEFINE c == call[a]
           j == c.job
           r == jobs[j]
<1>1. /\ c \in Calls /\ j \in Jobs
      /\ \/ c.op = "enqueueJob" /\ r = None
         \/ /\ c.op \in {"startJob", "rescheduleJob"}
            /\ r = c.rec /\ r \in JobRecords /\ r # None /\ r.status \in Runnable
         \/ /\ c.op \in {"completeJob", "markRetriable"}
            /\ r = c.rec /\ r \in JobRecords /\ r # None /\ r.status = "running"
      /\ c.op = "markRetriable" => r.attempt < Budget
      /\ c.op = "completeJob" => c.to \in Terminal
  BY WriteFacts
<1>2. jobs' = [jobs EXCEPT ![j] = JobAfter(c)] /\ jobs \in [Jobs -> JobRecords \cup {None}]
  BY DEF SaveJob, DInv, IInv
<1> HIDE DEF c
<1>3. CASE c.op = "enqueueJob"
  <2>1. Lifecycle!Enqueue(j)
    BY <1>1, <1>2, <1>3 DEF Lifecycle!Enqueue, JobAfter, EnqueuedJob
  <2>. QED BY <1>1, <2>1 DEF Lifecycle!Next
<1>4. CASE c.op = "startJob"
  <2>1. Lifecycle!Start(j)
    BY <1>1, <1>2, <1>4 DEF Lifecycle!Start, Lifecycle!Exists, Lifecycle!Runnable, Runnable, JobAfter, RunningJob
  <2>. QED BY <1>1, <2>1 DEF Lifecycle!Next
<1>5. CASE c.op = "rescheduleJob"
  BY <1>1, <1>2, <1>5 DEF JobAfter
<1>6. CASE c.op = "completeJob"
  <2>1. c.to \in Lifecycle!Terminal
    BY <1>1, <1>6 DEF Terminal, Lifecycle!Terminal
  <2>2. Lifecycle!Settle(j)
    BY <1>1, <1>2, <1>6, <2>1 DEF Lifecycle!Settle, Lifecycle!Exists, JobAfter, CompletedJob
  <2>. QED BY <1>1, <2>2 DEF Lifecycle!Next
<1>7. CASE c.op = "markRetriable"
  <2>1. Lifecycle!Retry(j)
    BY <1>1, <1>2, <1>7 DEF Lifecycle!Retry, Lifecycle!Exists, JobAfter, RetriableJob
  <2>. QED BY <1>1, <2>1 DEF Lifecycle!Next
<1>. QED BY <1>1, <1>3, <1>4, <1>5, <1>6, <1>7

\* RunQueueService and RetryService, called by the daemon and its workers alone, implement the
\* life of a job: whatever crash cut a call short, a settled job stays settled, a running one is
\* not started again, and none is repeated beyond its budget.
THEOREM QueueImplementsLifecycle == ASSUME DaemonAlone PROVE Spec => RefinesLifecycle
<1>1. Init => Lifecycle!Init
  BY DEF Init, Lifecycle!Init
<1>2. DInv /\ [Next]_vars => [Lifecycle!Next]_jobs
  <2> SUFFICES ASSUME DInv, Next PROVE Lifecycle!Next \/ UNCHANGED jobs
    BY DEF vars
  <2>1. CASE \E a \in Agents : SaveJob(a)
    BY <2>1, WriteImplements
  <2>2. CASE \E a \in Agents : GetJob(a) \/ GetQueueState(a) \/ SaveQueueState(a) \/ GetJobs(a)
                               \/ UnhandledRejection(a)
    BY <2>2 DEF GetJob, GetQueueState, SaveQueueState, GetJobs, UnhandledRejection, ProcessExit
  <2>3. CASE Crash \/ Boot \/ RecoveryGivesUp \/ Serve \/ TickList \/ TickEnd
    BY <2>3 DEF Crash, ProcessExit, Boot, RecoveryGivesUp, Serve, TickList, TickEnd
  <2>4. CASE \E j \in Jobs :
               \/ RecoverJob(j) \/ TickEnqueue(j) \/ TickDefer(j) \/ TickReclaim(j)
               \/ \E w \in Workers : TickStart(w, j)
               \/ \E e \in Executors : EnqueueFollowUp(e, j)
    BY <2>4 DEF RecoverJob, TickEnqueue, TickDefer, TickReclaim, TickStart, EnqueueFollowUp
  <2>5. CASE \E e \in Executors : Report(e) \/ Finish(e)
    BY <2>5 DEF Report, Finish
  <2>6. CASE \E d \in Clients : RequestFails(d) \/ Request(d) \/ DrainList(d) \/ DrainStart(d)
    BY <2>6 DEF DaemonAlone
  <2>. QED BY <2>1, <2>2, <2>3, <2>4, <2>5, <2>6 DEF Next
<1>. QED BY <1>1, <1>2, SpecDInv, PTL DEF Spec, RefinesLifecycle, Lifecycle!Spec

-----------------------------------------------------------------------------
(* What the life of a job promises, and so the queue.  The budget is       *)
(* inductive together with the type of the records: Retry compares an      *)
(* attempt with the budget before it adds one.                             *)

LifecycleInv == Lifecycle!TypeOK /\ Lifecycle!AttemptsWithinBudget

LEMMA LifecycleAssumed == Lifecycle!LifecycleAssumption
  BY BudgetAssumption, NoneAssumption
     DEF Lifecycle!LifecycleAssumption, Lifecycle!JobRecords, Lifecycle!Runnable, Lifecycle!Terminal,
         JobRecords, Statuses, Runnable, Terminal

LEMMA LifecycleInitially == ASSUME Lifecycle!Init PROVE LifecycleInv
  BY DEF Lifecycle!Init, LifecycleInv, Lifecycle!TypeOK, Lifecycle!AttemptsWithinBudget, Lifecycle!Exists

\* A step writes one record: of a new job or of an unsettled one, with an attempt that is
\* the same or within the budget.
WritesRecord(j, r) ==
  /\ jobs' = [jobs EXCEPT ![j] = r]
  /\ jobs[j] # None => jobs[j].status \notin Lifecycle!Terminal /\ r.attempt >= jobs[j].attempt
  /\ r.attempt <= Budget \/ (jobs[j] # None /\ r.attempt = jobs[j].attempt)

LEMMA StepRecord ==
  ASSUME Lifecycle!TypeOK, NEW j \in Jobs,
         Lifecycle!Enqueue(j) \/ Lifecycle!Start(j) \/ Lifecycle!Settle(j) \/ Lifecycle!Retry(j)
  PROVE  \E r \in Lifecycle!JobRecords : WritesRecord(j, r)
<1>0. Lifecycle!Runnable \cup Lifecycle!Terminal \cup {"running"} =
        {"queued", "retriable", "running", "succeeded", "failed", "blocked", "cancelled",
         "manual_attention_required"}
  BY DEF Lifecycle!Runnable, Lifecycle!Terminal
<1>1. CASE Lifecycle!Enqueue(j)
  <2>1. [status |-> "queued", attempt |-> 1] \in Lifecycle!JobRecords
    BY <1>0 DEF Lifecycle!JobRecords
  <2> DEFINE r == [status |-> "queued", attempt |-> 1]
  <2>2. WritesRecord(j, r)
    BY LifecycleAssumed, <1>1 DEF Lifecycle!Enqueue, Lifecycle!LifecycleAssumption, WritesRecord
  <2> QED BY <2>1, <2>2
<1>2. CASE Lifecycle!Start(j)
  <2>1. jobs[j] \in Lifecycle!JobRecords
    BY <1>2 DEF Lifecycle!Start, Lifecycle!Exists, Lifecycle!TypeOK
  <2>2. [jobs[j] EXCEPT !.status = "running"] \in Lifecycle!JobRecords
    BY <1>0, <2>1 DEF Lifecycle!JobRecords
  <2>3. [jobs[j] EXCEPT !.status = "running"].attempt = jobs[j].attempt
    BY <2>1 DEF Lifecycle!JobRecords
  <2>4. jobs[j].attempt \in Nat
    BY <2>1 DEF Lifecycle!JobRecords
  <2> DEFINE r == [jobs[j] EXCEPT !.status = "running"]
  <2>5. jobs' = [jobs EXCEPT ![j] = r]
    BY <1>2 DEF Lifecycle!Start
  <2>6. jobs[j] # None /\ jobs[j].status \notin Lifecycle!Terminal
    BY <1>2 DEF Lifecycle!Start, Lifecycle!Exists, Lifecycle!Runnable, Lifecycle!Terminal
  <2>7. r \in Lifecycle!JobRecords /\ r.attempt = jobs[j].attempt
    BY <2>2, <2>3
  <2> HIDE DEF r
  <2>8. WritesRecord(j, r)
    BY <2>4, <2>5, <2>6, <2>7 DEF WritesRecord
  <2> QED BY <2>7, <2>8
<1>3. CASE Lifecycle!Settle(j)
  <2>1. PICK to \in Lifecycle!Terminal : jobs' = [jobs EXCEPT ![j].status = to]
    BY <1>3 DEF Lifecycle!Settle
  <2>2. jobs[j] \in Lifecycle!JobRecords
    BY <1>3 DEF Lifecycle!Settle, Lifecycle!Exists, Lifecycle!TypeOK
  <2> DEFINE r == [jobs[j] EXCEPT !.status = to]
  <2>3. r \in Lifecycle!JobRecords /\ r.attempt = jobs[j].attempt /\ r.attempt \in Nat
    BY <1>0, <2>1, <2>2 DEF Lifecycle!JobRecords, Lifecycle!Terminal
  <2>4. jobs' = [jobs EXCEPT ![j] = r]
    BY <2>1
  <2>5. jobs[j] # None /\ jobs[j].status \notin Lifecycle!Terminal
    BY <1>3 DEF Lifecycle!Settle, Lifecycle!Exists, Lifecycle!Terminal
  <2> HIDE DEF r
  <2>6. WritesRecord(j, r)
    BY <2>3, <2>4, <2>5 DEF WritesRecord
  <2> QED BY <2>3, <2>6
<1>4. CASE Lifecycle!Retry(j)
  <2>1. jobs[j] \in Lifecycle!JobRecords
    BY <1>4 DEF Lifecycle!Retry, Lifecycle!Exists, Lifecycle!TypeOK
  <2> DEFINE r == [status |-> "retriable", attempt |-> jobs[j].attempt + 1]
  <2>2. jobs[j].attempt \in Nat \ {0}
    BY <2>1 DEF Lifecycle!JobRecords
  <2>3. r \in Lifecycle!JobRecords
    BY <1>0, <2>2 DEF Lifecycle!JobRecords
  <2>4. jobs' = [jobs EXCEPT ![j] = r]
    BY <1>4 DEF Lifecycle!Retry
  <2>5. jobs[j] # None /\ jobs[j].status \notin Lifecycle!Terminal /\ jobs[j].attempt < Budget
    BY <1>4 DEF Lifecycle!Retry, Lifecycle!Exists, Lifecycle!Terminal
  <2>6. r.attempt >= jobs[j].attempt /\ r.attempt <= Budget
    BY LifecycleAssumed, <2>2, <2>5 DEF Lifecycle!LifecycleAssumption
  <2> HIDE DEF r
  <2>7. WritesRecord(j, r)
    BY <2>4, <2>5, <2>6 DEF WritesRecord
  <2> QED BY <2>3, <2>7
<1> QED BY <1>1, <1>2, <1>3, <1>4

LEMMA LifecycleStep == ASSUME LifecycleInv, [Lifecycle!Next]_jobs PROVE LifecycleInv'
<1>1. CASE UNCHANGED jobs
  BY <1>1 DEF LifecycleInv, Lifecycle!TypeOK, Lifecycle!AttemptsWithinBudget, Lifecycle!Exists
<1>2. CASE Lifecycle!Next
  <2>1. PICK j \in Jobs : Lifecycle!Enqueue(j) \/ Lifecycle!Start(j) \/ Lifecycle!Settle(j) \/ Lifecycle!Retry(j)
    BY <1>2 DEF Lifecycle!Next
  <2>2. PICK r \in Lifecycle!JobRecords : WritesRecord(j, r)
    BY <2>1, StepRecord DEF LifecycleInv
  <2>3. Lifecycle!TypeOK'
    BY <2>2 DEF LifecycleInv, Lifecycle!TypeOK, WritesRecord
  <2>4. ASSUME NEW k \in Jobs, jobs'[k] # None PROVE jobs'[k].attempt <= Budget
    <3>1. CASE k = j
      BY <2>2, <3>1 DEF LifecycleInv, Lifecycle!TypeOK, Lifecycle!AttemptsWithinBudget, Lifecycle!Exists, WritesRecord
    <3>2. CASE k # j
      BY <2>2, <2>4, <3>2 DEF LifecycleInv, Lifecycle!TypeOK, Lifecycle!AttemptsWithinBudget, Lifecycle!Exists, WritesRecord
    <3> QED BY <3>1, <3>2
  <2> QED BY <2>3, <2>4 DEF LifecycleInv, Lifecycle!AttemptsWithinBudget, Lifecycle!Exists
<1> QED BY <1>1, <1>2

\* JobLifecycle by itself: the records have the type of job records, and no record exceeds its
\* budget.
THEOREM LifecycleWithinBudget ==
  Lifecycle!Spec => [](Lifecycle!TypeOK /\ Lifecycle!AttemptsWithinBudget)
<1>1. Lifecycle!Init => LifecycleInv
  BY LifecycleInitially
<1>2. LifecycleInv /\ [Lifecycle!Next]_jobs => LifecycleInv'
  BY LifecycleStep
<1> QED BY <1>1, <1>2, PTL DEF Lifecycle!Spec, LifecycleInv

\* A job that is settled stays as it is, and no attempt number ever goes back.
THEOREM LifecycleAdvances == Lifecycle!Spec => Lifecycle!RecordsAdvance
<1> DEFINE Advances == \A j \in Jobs : Lifecycle!Exists(j) =>
             /\ jobs'[j] # None
             /\ jobs'[j].attempt >= jobs[j].attempt
             /\ jobs[j].status \in Lifecycle!Terminal => jobs'[j] = jobs[j]
<1>1. Lifecycle!TypeOK /\ [Lifecycle!Next]_jobs => [Advances]_jobs
  <2> SUFFICES ASSUME Lifecycle!TypeOK, Lifecycle!Next, NEW k \in Jobs, Lifecycle!Exists(k)
               PROVE  /\ jobs'[k] # None
                      /\ jobs'[k].attempt >= jobs[k].attempt
                      /\ jobs[k].status \in Lifecycle!Terminal => jobs'[k] = jobs[k]
    OBVIOUS
  <2>1. PICK j \in Jobs : Lifecycle!Enqueue(j) \/ Lifecycle!Start(j) \/ Lifecycle!Settle(j) \/ Lifecycle!Retry(j)
    BY DEF Lifecycle!Next
  <2>2. PICK r \in Lifecycle!JobRecords : WritesRecord(j, r)
    BY <2>1, StepRecord
  <2>3. CASE k = j
    BY LifecycleAssumed, <2>2, <2>3 DEF Lifecycle!TypeOK, Lifecycle!Exists, Lifecycle!LifecycleAssumption, WritesRecord
  <2>4. CASE k # j
    <3>1. jobs'[k] = jobs[k] /\ jobs[k] \in Lifecycle!JobRecords
      BY <2>2, <2>4 DEF Lifecycle!TypeOK, Lifecycle!Exists, WritesRecord
    <3>2. jobs[k].attempt \in Nat
      BY <3>1 DEF Lifecycle!JobRecords
    <3> QED BY <3>1, <3>2 DEF Lifecycle!Exists
  <2> QED BY <2>3, <2>4
<1>2. Lifecycle!Spec => []Lifecycle!TypeOK
  BY LifecycleWithinBudget, PTL
<1> QED BY <1>1, <1>2, PTL DEF Lifecycle!Spec, Lifecycle!RecordsAdvance

\* What RetryService says of itself, that it prevents infinite retry loops: with the daemon alone,
\* whatever was interrupted where, no file of a job ever has an attempt beyond its budget.
THEOREM QueueKeepsBudget == ASSUME DaemonAlone PROVE Spec => []Lifecycle!AttemptsWithinBudget
  BY QueueImplementsLifecycle, LifecycleWithinBudget, PTL DEF RefinesLifecycle

\* With the daemon alone, a file of a job is never written again once it is settled, none is
\* deleted, and none starts over with an earlier attempt.
THEOREM QueueRecordsAdvance == ASSUME DaemonAlone PROVE Spec => Lifecycle!RecordsAdvance
  BY QueueImplementsLifecycle, LifecycleAdvances, PTL DEF RefinesLifecycle
=============================================================================
