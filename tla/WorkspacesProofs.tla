-------------------------- MODULE WorkspacesProofs --------------------------
(***************************************************************************)
(* Proofs about Workspaces and Remediation and, below, about Execution.    *)
(*                                                                         *)
(* What CleanedIsGone needs is that everybody who is about to save that a  *)
(* workspace is cleaned has removed its worktree, and that nobody adds it  *)
(* again: a number is given to one workspace, and every lifecycle, listing *)
(* and claim is about a workspace that was made.  What OrphanIsLeftAlone   *)
(* needs is the status of an orphan's workspace, which can no longer       *)
(* become retained: only a worker that has claimed it could write that.    *)
(***************************************************************************)
EXTENDS Workspaces, Execution, WellFoundedInduction, TLAPS

Made == 1 .. made

ExecutionSteps == {"register", "activate", "run", "succeeded", "failed", "hand_over"}

\* A worker at work and a review have a workspace.
Busy ==
  /\ at # "idle" \/ job.kind = "review" => ws # None
  /\ at \in ExecutionSteps => job.kind = "execution"
Claimed == ws \in Made \cup {None} /\ Busy

\* Only of workspaces that were made are there lifecycles, and only of lifecycles listings.
FilesKnown ==
  /\ \A w \in Ids : life[w] # None => w \in Made
  /\ expired \subseteq {w \in Ids : life[w] # None}
PassesKnown ==
  \A g \in Collectors : gc[g].todo \subseteq Made /\ (gc[g].at \in Removals => gc[g].of \in Made)

\* Who has removed a worktree and has not saved it yet.
RemovedIsGone ==
  /\ at = "removed" => ws \notin worktree
  /\ \A g \in Collectors : gc[g].at = "removed" => gc[g].of \notin worktree

\* The status of a workspace from the start of its child on: the worker and the collector change it.
InUse == {"active", "cleaned", "cleanup_failed"}
OrphansInUse == orphans \subseteq {w \in Made : life[w] \in InUse}
WorkerIsAlone == ws \notin orphans /\ (at = "run" => life[ws] \in InUse)

FilesTyped ==
  /\ made \in 0 .. MaxWorkspaces
  /\ worktree \subseteq 1 .. made
  /\ strays \subseteq Ids
  /\ life \in [Ids -> Lifecycles \cup {None}]
  /\ expired \subseteq Ids

IInv ==
  /\ TypeOK /\ Claimed /\ FilesKnown /\ PassesKnown
  /\ RemovedIsGone /\ OrphansInUse /\ WorkerIsAlone /\ CleanedIsGone

USE WorkspaceAssumption

\* Of some numbers one is the greatest.
LEMMA GreatestNumber ==
  ASSUME NEW n \in Nat, NEW S \in SUBSET (1 .. n), S # {}
  PROVE  Max(S) \in S
<1> DEFINE T == {u \in Nat : \A x \in S : x <= u}
<1>1. n \in T
  OBVIOUS
<1>2. PICK u \in T : \A y \in T : ~ (<<y, u>> \in OpToRel(<, Nat))
  <2>1. T \subseteq Nat /\ T # {}
    BY <1>1
  <2> HIDE DEF T
  <2> QED BY <2>1, NatLessThanWellFounded, WFMin
<1>3. \A y \in T : ~ (y < u)
  BY <1>2 DEF OpToRel
<1>4. u \in S
  <2> SUFFICES ASSUME u \notin S PROVE FALSE
    OBVIOUS
  <2>1. u \in Nat /\ \A x \in S : x \in Nat /\ x > 0 /\ x < u
    <3>1. u \in Nat /\ \A x \in S : x <= u
      BY <1>2
    <3>2. \A x \in S : x \in Nat /\ x > 0 /\ x # u
      OBVIOUS
    <3> HIDE DEF T
    <3> QED BY <3>1, <3>2
  <2>2. PICK x \in S : TRUE
    OBVIOUS
  <2>3. u - 1 \in Nat /\ u - 1 < u /\ \A y \in S : y <= u - 1
    BY <2>1, <2>2
  <2> QED BY <1>3, <2>3
<1>5. \A y \in S : u >= y
  BY <1>2
<1> QED BY <1>4, <1>5 DEF Max

\* The newest retained workspace is a retained workspace.
LEMMA NewestReusable == ASSUME Reusable # {} PROVE Max(Reusable) \in Reusable
<1>1. Reusable \in SUBSET (1 .. MaxWorkspaces) /\ MaxWorkspaces \in Nat
  BY DEF Reusable, Ids, WorkspaceAssumption
<1> QED BY <1>1, GreatestNumber

-----------------------------------------------------------------------------
(* What the steps have in common.                                          *)

LEMMA MadeAreIds == ASSUME TypeOK PROVE Made \subseteq Ids /\ None \notin Made
BY DEF WorkspaceAssumption, TypeOK, Made, Ids

\* A save of a workspace that was made, by whoever knows whether its worktree is gone, leaves
\* the files as the invariant has them.
LEMMA SaveKeepsFiles ==
  ASSUME IInv, NEW w \in Made, NEW status \in Lifecycles, Save(w, status), UNCHANGED <<orphans, crashes>>,
         status = "cleaned" => w \notin worktree,
         w \in orphans => status \in InUse
  PROVE  /\ FilesTyped' /\ FilesKnown' /\ CleanedIsGone' /\ OrphansInUse'
         /\ Made' = Made /\ worktree' = worktree
         /\ life'[w] = status /\ \A v \in Ids : v # w => life'[v] = life[v]
<1>1. w \in Ids /\ status # None
  BY MadeAreIds DEF IInv, WorkspaceAssumption
<1>2. /\ life' = [life EXCEPT ![w] = status] /\ expired' = expired \ {w}
      /\ made' = made /\ worktree' = worktree /\ strays' = strays /\ orphans' = orphans
  BY DEF Save
<1>3. life \in [Ids -> Lifecycles \cup {None}]
  BY DEF IInv, TypeOK
<1>4. life'[w] = status /\ \A v \in Ids : v # w => life'[v] = life[v]
  BY <1>1, <1>2, <1>3
<1>5. Made' = Made
  BY <1>2 DEF Made
<1>6. FilesKnown'
  BY <1>1, <1>2, <1>4, <1>5 DEF IInv, FilesKnown
<1>7. CleanedIsGone'
  BY <1>2, <1>4 DEF IInv, CleanedIsGone
<1>8. OrphansInUse'
  BY <1>1, <1>2, <1>4, <1>5, MadeAreIds DEF IInv, OrphansInUse
<1>9. FilesTyped'
  BY <1>1, <1>2, <1>3 DEF IInv, TypeOK, FilesTyped
<1> QED
  BY <1>2, <1>4, <1>5, <1>6, <1>7, <1>8, <1>9

\* A step of the worker that touches no file.
LEMMA PlainKeeps ==
  ASSUME IInv, UNCHANGED files, Others,
         job' \in Jobs, at' \in Steps, at' # "removed",
         ws' \in Made \cup {None}, ws' \notin orphans, verdict' \in Verdicts \cup {None}, Busy',
         at' = "run" => life[ws'] \in InUse
  PROVE  IInv'
<1>1. Made' = Made
  BY DEF Made, files
<1>2. TypeOK'
  BY MadeAreIds DEF IInv, TypeOK, Others, files
<1>3. Claimed' /\ FilesKnown' /\ PassesKnown'
  BY <1>1 DEF IInv, Claimed, FilesKnown, PassesKnown, Others, files
<1>4. RemovedIsGone' /\ OrphansInUse' /\ WorkerIsAlone' /\ CleanedIsGone'
  BY <1>1 DEF IInv, RemovedIsGone, OrphansInUse, WorkerIsAlone, CleanedIsGone, Others, files
<1> QED
  BY <1>2, <1>3, <1>4 DEF IInv

\* A step of the worker that saves its workspace.
LEMMA SavingKeeps ==
  ASSUME IInv, NEW status \in Lifecycles, Save(ws, status), UNCHANGED <<job, ws, verdict>>, Others,
         at # "idle", at' \in Steps, at' # "removed", Busy',
         at' = "run" => status = "active",
         status = "cleaned" => ws \notin worktree
  PROVE  IInv'
<1>1. ws \in Made /\ ws \notin orphans
  BY DEF IInv, Claimed, Busy, WorkerIsAlone
<1>2. UNCHANGED <<orphans, crashes>> /\ gc' = gc
  BY DEF Others
<1>3. /\ FilesTyped' /\ FilesKnown' /\ CleanedIsGone' /\ OrphansInUse'
      /\ Made' = Made /\ worktree' = worktree /\ life'[ws] = status
  BY <1>1, <1>2, SaveKeepsFiles
<1>4. TypeOK'
  BY <1>2, <1>3 DEF IInv, TypeOK, FilesTyped
<1>5. Claimed' /\ PassesKnown'
  BY <1>1, <1>2, <1>3 DEF IInv, Claimed, PassesKnown
<1>6. RemovedIsGone' /\ WorkerIsAlone'
  BY <1>1, <1>2, <1>3 DEF IInv, RemovedIsGone, WorkerIsAlone, InUse
<1> QED
  BY <1>3, <1>4, <1>5, <1>6 DEF IInv

LEMMA RetriedJobs ==
  ASSUME NEW j \in Jobs
  PROVE  /\ Retried(j) \in Jobs
         /\ Retried(j).kind \in {j.kind, "none"}
         /\ FirstJob \in Jobs /\ NoJob \in Jobs /\ FirstJob.kind = "execution" /\ NoJob.kind = "none"
<1>1. j.attempt \in 1 .. MaxAttempts /\ j.kind \in {"execution", "review", "none"}
  BY DEF Jobs
<1>2. FirstJob \in Jobs /\ NoJob \in Jobs /\ FirstJob.kind = "execution" /\ NoJob.kind = "none"
  BY DEF FirstJob, NoJob, Jobs, WorkspaceAssumption
<1>3. CASE j.attempt < MaxAttempts
  <2>1. j.attempt + 1 \in 1 .. MaxAttempts
    BY <1>1, <1>3 DEF WorkspaceAssumption
  <2>2. [j EXCEPT !.attempt = @ + 1] \in Jobs /\ [j EXCEPT !.attempt = @ + 1].kind = j.kind
    BY <2>1 DEF Jobs
  <2> QED BY <1>2, <1>3, <2>2 DEF Retried
<1>4. CASE ~(j.attempt < MaxAttempts)
  BY <1>2, <1>4 DEF Retried
<1> QED BY <1>3, <1>4

\* The worker lets go, or goes on with the same review.
LEMMA GoOnKeeps ==
  ASSUME IInv, NEW next \in Jobs, GoOn(next), next.kind = "review" => job.kind = "review"
  PROVE  /\ job' \in Jobs /\ at' = "idle" /\ ws' \in {ws, None} /\ verdict' \in Verdicts \cup {None}
         /\ job'.kind = "review" => ws' # None
<1>1. CASE next.kind = "review"
  BY <1>1 DEF GoOn, IInv, TypeOK, Busy, Claimed
<1>2. CASE next.kind # "review"
  BY <1>2 DEF GoOn, Done
<1> QED BY <1>1, <1>2

LEMMA GoOnKeepsAll ==
  ASSUME IInv, NEW next \in Jobs, GoOn(next), next.kind = "review" => job.kind = "review",
         UNCHANGED files, Others
  PROVE  IInv'
<1>1. None \notin orphans
  BY MadeAreIds DEF IInv, OrphansInUse
<1>2. ws' \in Made \cup {None} /\ ws' \notin orphans
  BY <1>1, GoOnKeeps DEF IInv, Claimed, WorkerIsAlone
<1>3. Busy'
  BY GoOnKeeps DEF Busy, ExecutionSteps
<1> QED
  BY <1>2, <1>3, GoOnKeeps, PlainKeeps DEF Steps

-----------------------------------------------------------------------------
(* One lemma for each step.                                                *)

LEMMA ReuseKeeps == ASSUME IInv, ReuseWorkspace PROVE IInv'
<1>1. /\ at = "idle" /\ at' = "activate" /\ job.kind = "execution" /\ ws' = Max(Reusable)
      /\ UNCHANGED <<files, job, verdict>> /\ Others /\ Reusable # {}
  BY DEF ReuseWorkspace, Step
<1>2. ws' \in Reusable
  BY <1>1, NewestReusable
<1>3. ws' \in Ids /\ life[ws'] = "retained"
  BY <1>2 DEF Reusable
<1>4. ws' \in Made /\ ws' \notin orphans
  BY <1>3 DEF IInv, FilesKnown, OrphansInUse, InUse, WorkspaceAssumption, Lifecycles
<1>5. Busy'
  BY <1>1, <1>4, MadeAreIds DEF IInv, Busy
<1> QED
  BY <1>1, <1>4, <1>5, PlainKeeps DEF IInv, TypeOK, Steps

LEMMA PrepareKeeps == ASSUME IInv, PrepareWorkspace PROVE IInv'
<1>1. /\ job.kind = "execution" /\ at' = "register" /\ made < MaxWorkspaces /\ made' = made + 1
      /\ ws' = made + 1 /\ worktree' = worktree \cup {made + 1}
      /\ strays' = strays /\ life' = life /\ expired' = expired /\ job' = job /\ verdict' = verdict
      /\ gc' = gc /\ orphans' = orphans /\ crashes' = crashes /\ made \in Nat
  BY DEF PrepareWorkspace, NeedsWorkspace, Step, Others, IInv, TypeOK
<1>2. /\ Made' = Made \cup {made + 1} /\ made + 1 \notin Made /\ made + 1 \in Ids
      /\ worktree \subseteq Made
  BY <1>1 DEF Made, Ids, WorkspaceAssumption, IInv, TypeOK
<1>3. life[made + 1] = None
  BY <1>2 DEF IInv, FilesKnown
<1>4. TypeOK'
  <2>1. made' \in 0 .. MaxWorkspaces /\ worktree' \subseteq 1 .. made'
    BY <1>1, <1>2 DEF WorkspaceAssumption, Made
  <2> QED
    BY <1>1, <1>2, <2>1 DEF IInv, TypeOK, Steps
<1>5. Claimed'
  BY <1>1, <1>2 DEF Claimed, Busy, WorkspaceAssumption
<1>6. FilesKnown' /\ PassesKnown' /\ OrphansInUse'
  BY <1>1, <1>2 DEF IInv, FilesKnown, PassesKnown, OrphansInUse
<1>7. RemovedIsGone'
  BY <1>1, <1>2 DEF IInv, RemovedIsGone, PassesKnown, Removals
<1>8. WorkerIsAlone' /\ CleanedIsGone'
  BY <1>1, <1>2, <1>3
     DEF IInv, WorkerIsAlone, OrphansInUse, CleanedIsGone, WorkspaceAssumption, Lifecycles
<1> QED
  BY <1>4, <1>5, <1>6, <1>7, <1>8 DEF IInv

LEMMA RegisterKeeps == ASSUME IInv, RegisterWorkspace PROVE IInv'
  BY SavingKeeps DEF RegisterWorkspace, Step, IInv, Claimed, Busy, ExecutionSteps, Lifecycles, Steps

LEMMA ActivateKeeps == ASSUME IInv, ActivateAndSync PROVE IInv'
<1>1. /\ at = "activate" /\ at' = "run" /\ life' = [life EXCEPT ![ws] = "active"]
      /\ expired' = expired \ {ws} /\ strays' = Overlay(ws) /\ made' = made /\ worktree' = worktree
      /\ job' = job /\ ws' = ws /\ verdict' = verdict /\ UNCHANGED <<gc, orphans, crashes>>
  BY DEF ActivateAndSync, Step, Others
<1>2. ws \in Made /\ ws \in Ids /\ ws \notin orphans /\ Made' = Made /\ job.kind = "execution"
  BY <1>1, MadeAreIds DEF IInv, Claimed, Busy, WorkerIsAlone, ExecutionSteps, Made
<1>3. life \in [Ids -> Lifecycles \cup {None}] /\ strays \subseteq Ids
  BY DEF IInv, TypeOK
<1>4. life'[ws] = "active" /\ (\A v \in Ids : v # ws => life'[v] = life[v]) /\ strays' \subseteq Ids
  BY <1>1, <1>2, <1>3 DEF Overlay
<1>5. TypeOK'
  BY <1>1, <1>2, <1>3, <1>4 DEF IInv, TypeOK, Lifecycles, Steps
<1>6. Claimed' /\ PassesKnown' /\ RemovedIsGone'
  BY <1>1, <1>2 DEF IInv, Claimed, Busy, PassesKnown, RemovedIsGone
<1>7. FilesKnown' /\ OrphansInUse' /\ WorkerIsAlone' /\ CleanedIsGone'
  BY <1>1, <1>2, <1>4, MadeAreIds
     DEF IInv, FilesKnown, OrphansInUse, WorkerIsAlone, CleanedIsGone, InUse
<1> QED BY <1>5, <1>6, <1>7 DEF IInv

LEMMA ExecuteKeeps == ASSUME IInv, Execute PROVE IInv'
<1>1. PICK result \in {"succeeded", "failed"} : at = "run" /\ at' = result
  BY DEF Execute, Step
<1>2. UNCHANGED <<files, job, ws, verdict>> /\ Others
  BY DEF Execute
<1>3. Busy'
  BY <1>1, <1>2 DEF IInv, Claimed, Busy, ExecutionSteps
<1> QED
  BY <1>1, <1>2, <1>3, PlainKeeps DEF IInv, TypeOK, Claimed, WorkerIsAlone, Steps

LEMMA SucceededKeeps == ASSUME IInv, FinalizeSucceeded PROVE IInv'
  BY SavingKeeps DEF FinalizeSucceeded, Step, IInv, Claimed, Busy, ExecutionSteps, Lifecycles, Steps

\* What becomes of failed and of refused work.
LEMMA RetainKeeps ==
  ASSUME IInv, at # "idle", Retain, UNCHANGED <<job, ws, verdict>>, Others
  PROVE  IInv'
<1>1. PICK policy \in Policies :
        IF policy = "clean" THEN at' = "remove" /\ UNCHANGED files
        ELSE /\ at' = "settle"
             /\ Save(ws, IF policy = "retain" THEN "retained" ELSE "cleanup_pending")
  BY DEF Retain
<1>2. CASE policy = "clean"
  <2>1. Busy'
    BY <1>1, <1>2 DEF IInv, Claimed, Busy, ExecutionSteps
  <2> QED
    BY <1>1, <1>2, <2>1, PlainKeeps DEF IInv, TypeOK, Claimed, WorkerIsAlone, Steps
<1>3. CASE policy # "clean"
  <2> DEFINE status == IF policy = "retain" THEN "retained" ELSE "cleanup_pending"
  <2>1. status \in Lifecycles \ {"cleaned"}
    BY DEF Lifecycles
  <2>2. at' = "settle" /\ Save(ws, status)
    BY <1>1, <1>3
  <2>3. Busy'
    BY <2>2 DEF IInv, Claimed, Busy, ExecutionSteps
  <2> HIDE DEF status
  <2> QED
    BY <2>1, <2>2, <2>3, SavingKeeps DEF Steps
<1> QED BY <1>2, <1>3

LEMMA FailedKeeps == ASSUME IInv, FinalizeFailed PROVE IInv'
  BY RetainKeeps DEF FinalizeFailed

LEMMA HandOverKeeps == ASSUME IInv, HandOver PROVE IInv'
<1>1. /\ at = "hand_over" /\ at' = "idle" /\ job' = [kind |-> "review", attempt |-> 1]
      /\ UNCHANGED <<files, ws, verdict>> /\ Others
  BY DEF HandOver, Step
<1>2. job' \in Jobs
  BY <1>1 DEF Jobs, WorkspaceAssumption
<1>3. Busy'
  BY <1>1 DEF IInv, Claimed, Busy, ExecutionSteps
<1> QED
  BY <1>1, <1>2, <1>3, PlainKeeps DEF IInv, TypeOK, Claimed, WorkerIsAlone, Steps

LEMMA DecideKeeps == ASSUME IInv, Decide PROVE IInv'
<1>1. job.kind = "review" /\ at = "idle" /\ UNCHANGED files /\ Others
  BY DEF Decide
<1>2. CASE Done(NoJob)
  <2>1. GoOn(NoJob) /\ NoJob \in Jobs /\ NoJob.kind = "none"
    BY <1>2, RetriedJobs DEF GoOn, IInv, TypeOK, NoJob
  <2> QED BY <1>1, <2>1, GoOnKeepsAll
<1>3. CASE /\ verdict' \in IF verdict = None THEN Verdicts ELSE {verdict}
           /\ at' = "verdict" /\ UNCHANGED <<job, ws>>
  <2>1. Busy'
    BY <1>1, <1>3 DEF IInv, Claimed, Busy, ExecutionSteps
  <2>2. verdict' \in Verdicts \cup {None}
    BY <1>3 DEF IInv, TypeOK
  <2> QED
    BY <1>1, <1>3, <2>1, <2>2, PlainKeeps DEF IInv, TypeOK, Claimed, WorkerIsAlone, Steps
<1> QED BY <1>2, <1>3 DEF Decide

LEMMA DescribeKeeps == ASSUME IInv, Describe PROVE IInv'
<1>1. at = "verdict" /\ at' = "finalize" /\ UNCHANGED <<files, job, ws, verdict>> /\ Others
  BY DEF Describe, Step
<1>2. Busy'
  BY <1>1 DEF IInv, Claimed, Busy, ExecutionSteps
<1> QED
  BY <1>1, <1>2, PlainKeeps DEF IInv, TypeOK, Claimed, WorkerIsAlone, Steps

LEMMA AfterReviewKeeps == ASSUME IInv, FinalizeAfterReview PROVE IInv'
<1>1. at = "finalize" /\ UNCHANGED <<job, ws, verdict>> /\ Others
  BY DEF FinalizeAfterReview
<1>2. CASE at' = "remove" /\ UNCHANGED files
  <2>1. Busy'
    BY <1>1, <1>2 DEF IInv, Claimed, Busy, ExecutionSteps
  <2> QED
    BY <1>1, <1>2, <2>1, PlainKeeps DEF IInv, TypeOK, Claimed, WorkerIsAlone, Steps
<1>3. CASE Retain
  BY <1>1, <1>3, RetainKeeps
<1>4. CASE at' = "settle" /\ Save(ws, "cleanup_pending")
  BY <1>1, <1>4, SavingKeeps DEF IInv, Claimed, Busy, ExecutionSteps, Lifecycles, Steps
<1> QED BY <1>2, <1>3, <1>4 DEF FinalizeAfterReview

LEMMA RemoveKeeps == ASSUME IInv, RemoveWorktree PROVE IInv'
<1>1. /\ at = "remove" /\ at' = Removal(ws) /\ worktree' = worktree \ {ws}
      /\ made' = made /\ strays' = strays /\ life' = life /\ expired' = expired
      /\ UNCHANGED <<job, ws, verdict>> /\ gc' = gc /\ orphans' = orphans /\ crashes' = crashes
  BY DEF RemoveWorktree, Step, Remove, Others
<1>2. Made' = Made /\ at' \in Removals
  BY <1>1 DEF Made, Removal, Removals
<1>3. TypeOK'
  BY <1>1, <1>2 DEF IInv, TypeOK, Steps
<1>4. Claimed'
  BY <1>1, <1>2 DEF IInv, Claimed, Busy, ExecutionSteps, Removals
<1>5. FilesKnown' /\ PassesKnown' /\ OrphansInUse' /\ RemovedIsGone' /\ CleanedIsGone'
  BY <1>1, <1>2 DEF IInv, FilesKnown, PassesKnown, OrphansInUse, RemovedIsGone, CleanedIsGone
<1>6. WorkerIsAlone'
  BY <1>1, <1>2 DEF IInv, WorkerIsAlone, Removals
<1> QED BY <1>3, <1>4, <1>5, <1>6 DEF IInv

LEMMA SaveRemovalKeeps == ASSUME IInv, SaveRemoval PROVE IInv'
<1>1. /\ at \in Removals /\ at' = "settle" /\ Save(ws, Outcome(at))
      /\ UNCHANGED <<job, ws, verdict>> /\ Others
  BY DEF SaveRemoval
<1>2. Outcome(at) \in Lifecycles /\ (Outcome(at) = "cleaned" => ws \notin worktree)
  BY DEF IInv, Outcome, Lifecycles, RemovedIsGone
<1>3. Busy'
  BY <1>1 DEF IInv, Claimed, Busy, ExecutionSteps, Removals
<1> QED
  BY <1>1, <1>2, <1>3, SavingKeeps DEF Removals, Steps

LEMMA SettleKeeps == ASSUME IInv, Settle PROVE IInv'
<1>1. PICK next \in IF job.kind = "execution" THEN {Retried(job), FirstJob, NoJob}
                    ELSE IF verdict = "changes_requested" THEN {FirstJob}
                    ELSE IF verdict = "incomplete" THEN {Retried(job), NoJob} ELSE {NoJob} :
        GoOn(next)
  BY DEF Settle
<1>2. job \in Jobs
  BY DEF IInv, TypeOK
<1>3. next \in {Retried(job), FirstJob, NoJob}
  BY <1>1
<1>4. next \in Jobs /\ (next.kind = "review" => job.kind = "review")
  BY <1>2, <1>3, RetriedJobs
<1> QED
  BY <1>1, <1>4, GoOnKeepsAll DEF Settle

LEMMA ExpireKeeps == ASSUME IInv, NEW w \in Ids, Expire(w) PROVE IInv'
<1>1. /\ life[w] # None /\ expired' = expired \cup {w} /\ made' = made /\ worktree' = worktree /\ strays' = strays /\ life' = life
      /\ UNCHANGED <<job, at, ws, verdict>> /\ UNCHANGED <<gc, orphans, crashes>>
  BY DEF Expire, work, Others
<1>2. Made' = Made
  BY <1>1 DEF Made
<1>3. TypeOK' /\ Claimed'
  BY <1>1, <1>2 DEF IInv, TypeOK, Claimed, Busy
<1> QED
  BY <1>1, <1>2, <1>3
     DEF IInv, FilesKnown, PassesKnown, OrphansInUse, RemovedIsGone, WorkerIsAlone, CleanedIsGone

-----------------------------------------------------------------------------
(* The collector, and the death of the orchestrator.                       *)

\* A pass changes its own record only.
LEMMA PassKeeps ==
  ASSUME IInv, NEW g \in Collectors, NEW pass \in Pass, Collecting(g, pass),
         pass.todo \subseteq Made, pass.at \in Removals => pass.of \in Made,
         pass.at = "removed" => pass.of \notin worktree',
         worktree' \subseteq worktree, Made' = Made
  PROVE  /\ gc' \in [Collectors -> Pass] /\ PassesKnown' /\ RemovedIsGone'
<1>1. gc \in [Collectors -> Pass] /\ gc' = [gc EXCEPT ![g] = pass] /\ UNCHANGED <<at, ws>>
  BY DEF IInv, TypeOK, Collecting, work
<1>2. gc'[g] = pass /\ \A f \in Collectors : f # g => gc'[f] = gc[f]
  BY <1>1
<1>3. gc' \in [Collectors -> Pass]
  BY <1>1
<1>4. PassesKnown'
  BY <1>2 DEF IInv, PassesKnown
<1>5. RemovedIsGone'
  BY <1>1, <1>2 DEF IInv, RemovedIsGone
<1> QED BY <1>3, <1>4, <1>5

LEMMA BeginKeeps == ASSUME IInv, NEW g \in Collectors, BeginPass(g) PROVE IInv'
<1> DEFINE pass == [Idle EXCEPT !.todo = ToCollect]
<1>1. Collecting(g, pass) /\ UNCHANGED files
  BY DEF BeginPass
<1>2. ToCollect \subseteq Made
  BY DEF ToCollect, IInv, FilesKnown
<1>3. pass \in Pass /\ pass.todo = ToCollect /\ pass.at = "idle"
  BY <1>2, MadeAreIds DEF Idle, Pass, IInv
<1>4. Made' = Made /\ worktree' = worktree
  BY <1>1 DEF Made, files
<1> HIDE DEF pass
<1>5. gc' \in [Collectors -> Pass] /\ PassesKnown' /\ RemovedIsGone'
  BY <1>1, <1>2, <1>3, <1>4, PassKeeps DEF Removals
<1>6. UNCHANGED <<job, at, ws, verdict, orphans, crashes>>
  BY <1>1 DEF Collecting, work
<1> QED
  BY <1>1, <1>4, <1>5, <1>6
     DEF IInv, TypeOK, Claimed, Busy, FilesKnown, OrphansInUse, WorkerIsAlone, CleanedIsGone, files

LEMMA CollectKeeps == ASSUME IInv, NEW g \in Collectors, RemoveCollected(g) PROVE IInv'
<1>1. PICK w \in gc[g].todo :
        Remove(w) /\ Collecting(g, [todo |-> gc[g].todo \ {w}, at |-> Removal(w), of |-> w])
  BY DEF RemoveCollected
<1> DEFINE pass == [todo |-> gc[g].todo \ {w}, at |-> Removal(w), of |-> w]
<1>2. gc[g] \in Pass /\ gc[g].todo \subseteq Made /\ w \in Made
  BY <1>1 DEF IInv, TypeOK, PassesKnown
<1>3. /\ pass \in Pass /\ pass.todo \subseteq Made /\ pass.of = w
  BY <1>2, MadeAreIds DEF IInv, Pass, Removal, Removals
<1>4. /\ worktree' = worktree \ {w} /\ made' = made /\ strays' = strays /\ life' = life /\ expired' = expired /\ Made' = Made
      /\ Collecting(g, pass)
  BY <1>1 DEF Remove, Made
<1> HIDE DEF pass
<1>5. gc' \in [Collectors -> Pass] /\ PassesKnown' /\ RemovedIsGone'
  BY <1>2, <1>3, <1>4, PassKeeps
<1>6. UNCHANGED <<job, at, ws, verdict, orphans, crashes>>
  BY <1>4 DEF Collecting, work
<1>7. TypeOK' /\ Claimed'
  BY <1>4, <1>5, <1>6 DEF IInv, TypeOK, Claimed, Busy
<1> QED
  BY <1>4, <1>5, <1>6, <1>7 DEF IInv, FilesKnown, OrphansInUse, WorkerIsAlone, CleanedIsGone

LEMMA SaveCollectedKeeps == ASSUME IInv, NEW g \in Collectors, SaveCollected(g) PROVE IInv'
<1>1. /\ gc[g].at \in Removals /\ Save(gc[g].of, Outcome(gc[g].at))
      /\ Collecting(g, [gc[g] EXCEPT !.at = "idle", !.of = None])
  BY DEF SaveCollected
<1>2. gc[g] \in Pass /\ gc[g].todo \subseteq Made /\ gc[g].of \in Made
  BY <1>1 DEF IInv, TypeOK, PassesKnown
<1> DEFINE pass == [gc[g] EXCEPT !.at = "idle", !.of = None]
<1>3. pass \in Pass /\ pass.todo = gc[g].todo /\ pass.at = "idle"
  BY <1>2 DEF Pass
<1>4. Outcome(gc[g].at) \in Lifecycles /\ Outcome(gc[g].at) \in InUse
  BY DEF Outcome, Lifecycles, InUse
<1>5. Outcome(gc[g].at) = "cleaned" => gc[g].of \notin worktree
  BY DEF Outcome, IInv, RemovedIsGone
<1>6. UNCHANGED <<job, at, ws, verdict, orphans, crashes>> /\ Collecting(g, pass)
  BY <1>1 DEF Collecting, work
<1>7. /\ FilesTyped' /\ FilesKnown' /\ CleanedIsGone' /\ OrphansInUse' /\ Made' = Made
      /\ worktree' = worktree /\ life'[gc[g].of] = Outcome(gc[g].at)
      /\ \A v \in Ids : v # gc[g].of => life'[v] = life[v]
  BY <1>1, <1>2, <1>4, <1>5, <1>6, SaveKeepsFiles
<1> HIDE DEF pass
<1>8. gc' \in [Collectors -> Pass] /\ PassesKnown' /\ RemovedIsGone'
  BY <1>2, <1>3, <1>6, <1>7, PassKeeps DEF Removals
<1>9. TypeOK' /\ Claimed'
  BY <1>6, <1>7, <1>8 DEF IInv, TypeOK, FilesTyped, Claimed, Busy
<1>10. WorkerIsAlone'
  <2>1. at = "run" => ws \in Ids
    BY MadeAreIds DEF IInv, Claimed, Busy
  <2> QED
    BY <1>4, <1>6, <1>7, <2>1 DEF IInv, WorkerIsAlone
<1> QED
  BY <1>7, <1>8, <1>9, <1>10 DEF IInv

\* A child that ran becomes an orphan, and the worker has let go of its workspace.
LEMMA DieKeeps ==
  ASSUME IInv, Die, crashes' \in 0 .. MaxCrashes
  PROVE  IInv'
<1> DEFINE next == IF at = "idle" THEN job ELSE Retried(job)
<1>1. GoOn(next) /\ UNCHANGED files /\ gc' = [g \in Collectors |-> Idle]
  BY DEF Die
<1>2. next \in Jobs /\ (next.kind = "review" => job.kind = "review")
  BY RetriedJobs DEF IInv, TypeOK
<1>3. at = "run" => next.kind # "review" /\ ws \in Made
  BY <1>2 DEF IInv, Claimed, Busy, ExecutionSteps
<1> HIDE DEF next
<1>4. /\ job' \in Jobs /\ at' = "idle" /\ ws' \in {ws, None} /\ verdict' \in Verdicts \cup {None}
      /\ (job'.kind = "review" => ws' # None)
  BY <1>1, <1>2, GoOnKeeps
<1>5. at = "run" => ws' = None
  BY <1>1, <1>3 DEF GoOn, Done
<1>6. /\ Made' = Made /\ worktree' = worktree /\ strays' = strays /\ life' = life
      /\ expired' = expired /\ made' = made
  BY <1>1 DEF Made, files
<1>7. orphans' = IF at = "run" THEN orphans \cup {ws} ELSE orphans
  BY DEF Die
<1>8. OrphansInUse'
  BY <1>3, <1>6, <1>7, MadeAreIds DEF IInv, OrphansInUse, WorkerIsAlone
<1>9. None \notin orphans'
  BY <1>6, <1>8, MadeAreIds DEF IInv, OrphansInUse
<1>10. WorkerIsAlone'
  BY <1>4, <1>5, <1>7, <1>9 DEF IInv, WorkerIsAlone
<1>11. Idle \in Pass
  BY DEF Idle, Pass
<1>12. gc' \in [Collectors -> Pass] /\ PassesKnown' /\ RemovedIsGone'
  BY <1>1, <1>4, <1>11 DEF Idle, PassesKnown, RemovedIsGone, Removals
<1>13. TypeOK'
  BY <1>4, <1>6, <1>8, <1>12, MadeAreIds DEF IInv, TypeOK, Steps, OrphansInUse
<1>14. Claimed'
  BY <1>4, <1>6 DEF IInv, Claimed, Busy, ExecutionSteps
<1> QED
  BY <1>6, <1>8, <1>10, <1>12, <1>13, <1>14 DEF IInv, FilesKnown, CleanedIsGone

LEMMA CrashKeeps == ASSUME IInv, Crash PROVE IInv'
<1>1. crashes' \in 0 .. MaxCrashes
  BY DEF Crash, IInv, TypeOK, WorkspaceAssumption
<1> QED BY <1>1, DieKeeps DEF Crash

LEMMA DescribeFailsKeeps == ASSUME IInv, DescribeFails PROVE IInv'
<1>1. crashes' \in 0 .. MaxCrashes
  BY DEF DescribeFails, IInv, TypeOK
<1> QED BY <1>1, DieKeeps DEF DescribeFails

LEMMA OrphanKeeps == ASSUME IInv, OrphanExits PROVE IInv'
<1>1. orphans' \subseteq orphans /\ UNCHANGED <<files, work, gc, crashes>>
  BY DEF OrphanExits
<1>2. Made' = Made
  BY <1>1 DEF Made, files
<1>3. TypeOK' /\ Claimed'
  BY <1>1, <1>2 DEF IInv, TypeOK, Claimed, Busy, files, work
<1> QED
  BY <1>1, <1>2, <1>3
     DEF IInv, FilesKnown, PassesKnown, OrphansInUse, RemovedIsGone, WorkerIsAlone, CleanedIsGone, files, work

-----------------------------------------------------------------------------
(* The theorems.                                                           *)

LEMMA Initially == Init => IInv
<1> SUFFICES ASSUME Init PROVE IInv
  OBVIOUS
<1>1. Made = {} /\ Idle \in Pass /\ FirstJob \in Jobs /\ FirstJob.kind = "execution"
  BY DEF Init, Made, Idle, Pass, FirstJob, Jobs, WorkspaceAssumption
<1>2. TypeOK
  BY <1>1 DEF Init, TypeOK, Steps, WorkspaceAssumption
<1>3. Claimed /\ WorkerIsAlone
  BY <1>1 DEF Init, Claimed, Busy, ExecutionSteps, WorkerIsAlone
<1>4. FilesKnown /\ PassesKnown /\ OrphansInUse /\ RemovedIsGone /\ CleanedIsGone
  BY <1>1 DEF Init, FilesKnown, PassesKnown, OrphansInUse, RemovedIsGone, CleanedIsGone, Idle, Removals
<1> QED BY <1>2, <1>3, <1>4 DEF IInv

LEMMA Preserved == IInv /\ [Next]_vars => IInv'
<1> SUFFICES ASSUME IInv, [Next]_vars PROVE IInv'
  OBVIOUS
<1>1. CASE UNCHANGED vars
  BY <1>1 DEF vars, files, work, IInv, TypeOK, Claimed, Busy, FilesKnown, PassesKnown, OrphansInUse,
              RemovedIsGone, WorkerIsAlone, CleanedIsGone, Made
<1>2. CASE Worker
  BY <1>2, ReuseKeeps, PrepareKeeps, RegisterKeeps, ActivateKeeps, ExecuteKeeps, SucceededKeeps,
     FailedKeeps, HandOverKeeps, DecideKeeps, DescribeKeeps, DescribeFailsKeeps, AfterReviewKeeps,
     RemoveKeeps, SaveRemovalKeeps, SettleKeeps DEF Worker
<1>3. CASE Crash \/ OrphanExits
  BY <1>3, CrashKeeps, OrphanKeeps
<1>4. CASE \E w \in Ids : Expire(w)
  BY <1>4, ExpireKeeps
<1>5. CASE \E g \in Collectors : Collector(g) \/ ExecuteRemediation(g)
  BY <1>5, BeginKeeps, CollectKeeps, SaveCollectedKeeps DEF Collector, ExecuteRemediation
<1> QED BY <1>1, <1>2, <1>3, <1>4, <1>5 DEF Next

LEMMA Invariant == Spec => []IInv
  BY Initially, Preserved, PTL DEF Spec

\* The status cleaned is only ever written after git has removed the worktree, and a worktree
\* that is removed is never added again: whichever of the worker, the passes of the collector and
\* the orchestrators that died saves the lifecycle last, git has no worktree of a workspace that
\* is recorded as cleaned.  (A directory that the copy of files makes again is none.)
THEOREM CleanedWorkspacesAreGone == Spec => []CleanedIsGone
<1>1. IInv => CleanedIsGone
  BY DEF IInv
<1> QED BY <1>1, Invariant, PTL

\* A workspace whose attempt died is never handed out again, so that no attempt works beside the
\* child of a dead orchestrator, however many of them died and whatever the collector did since.
THEOREM OrphansAreLeftAlone == Spec => []OrphanIsLeftAlone
<1>1. IInv => OrphanIsLeftAlone
  BY DEF IInv, WorkerIsAlone, OrphanIsLeftAlone
<1> QED BY <1>1, Invariant, PTL

-----------------------------------------------------------------------------
(* What can be said of every report.                                       *)

\* Whatever is reported, a playbook is found for it.
LEMMA EveryReportHasAPlaybook ==
  ASSUME NEW r \in Reports PROVE Match(r) \in Categories
BY DEF Match, Categories, AutoAllowed, ReviewRequired

\* Two tables kept apart agree: the policy lets a remediation run by itself only if its playbook
\* says that it may and that its risk is low.
THEOREM OnlyEligibleIsAutomatic ==
  ASSUME NEW r \in Reports, Propose(r).decision = "auto_allowed"
  PROVE  Playbook(Propose(r).category).automatic /\ Playbook(Propose(r).category).risk = "low"
<1>1. Match(r) \in AutoAllowed
  BY DEF Propose, Decision
<1>2. \A c \in AutoAllowed : Playbook(c).automatic /\ Playbook(c).risk = "low"
  BY DEF AutoAllowed, Playbook, Play
<1> QED
  BY <1>1, <1>2 DEF Propose

\* No playbook names a protected file, so the look for one in a proposal never finds any.
LEMMA NoProposalNamesCoreRules ==
  \A c \in Categories : AllowedFiles(c) \cap Protected = {}
BY DEF Categories, AutoAllowed, ReviewRequired, AllowedFiles, Playbook, Play, Protected

\* And yet the files of gates and of the final acceptance lie in a directory that a remediation
\* may touch without anybody's consent: SELF_REPAIR_PREREQUISITES.md calls them protected.
THEOREM CoreRulesAreInReach ==
  ASSUME NEW r \in Reports, Match(r) = "evidence_gap_repair"
  PROVE  /\ Propose(r).decision = "auto_allowed"
         /\ \E path \in Protected : Directory(path) \in AllowedFiles(Propose(r).category)
<1>1. AllowedFiles("evidence_gap_repair") = {"services", "storage", "utils"}
  BY DEF AllowedFiles, Playbook, Play
<1>2. Propose(r).decision = "auto_allowed"
  <2>1. {"services", "storage", "utils"} \cap Protected = {}
    BY DEF Protected
  <2> QED
    BY <1>1, <2>1 DEF Propose, Decision, AutoAllowed
<1>3. "services/gate-evaluator.ts" \in Protected /\ Directory("services/gate-evaluator.ts") = "services"
  BY DEF Protected, Directory
<1>4. Propose(r).category = "evidence_gap_repair"
  BY DEF Propose
<1> QED
  BY <1>1, <1>2, <1>3, <1>4

-----------------------------------------------------------------------------
(* The child processes of a job and what becomes of it (Execution), for    *)
(* any number of attempts and troubles.                                    *)
(*                                                                         *)
(* What ended a child is told twice before it shows in the job: in the     *)
(* ending that waits for its file, and in the result of the promise.  Both *)
(* are true when they are written, and stay true because a request for     *)
(* termination reaches the process of the map, which has not finished      *)
(* (Consistent).                                                           *)

\* What an outcome must say of a process that was asked to terminate.
Tells(outcome, a) == a.requested => outcome = "cancelled" \/ (outcome = "timeout" /\ a.flagged)

\* What a process, the status in its file and its place in the map say of each other.
Consistent(a, status, mapped) ==
  /\ a.child = "none" => a = NotStarted /\ status = Nil
  /\ a.child = "alive" => status \in {Nil, "running"}
  /\ a.ending # Nil => a.child = "dead"
  /\ a.ending # Nil \/ a.result # Nil => a.finished
  /\ mapped => a.child # "none" /\ ~a.finished
  /\ a.ending # Nil => Tells(a.ending.outcome, a)
  /\ a.result # Nil => Tells(a.result, a)

ProcessesConsistent == \A p \in Procs : Consistent(proc[p], file[p], active = p)

StoppedHasResult == \A p \in stopped : proc[p].result # Nil

ExecutionIInv ==
  /\ ExecutionTypeOK /\ ProcessesConsistent
  /\ StoppedHasResult /\ AcceptedTerminationShows

\* A result stays, and the flag of a process that has one.
Later(a, b) == a.result # Nil => b.result # Nil /\ (a.flagged => b.flagged)

-----------------------------------------------------------------------------
(* Steps of the processes.                                                 *)

\* A step that leaves every process consistent and takes no result away keeps the invariant.
LEMMA ConsistentSteps ==
  ASSUME ExecutionIInv, ProcessTypeOK', UNCHANGED worker,
         \A q \in Procs : Consistent(proc'[q], file'[q], active' = q) /\ Later(proc[q], proc'[q])
  PROVE  ExecutionIInv'
<1>1. ExecutionTypeOK'
  BY DEF ExecutionIInv, ExecutionTypeOK, worker
<1>2. ProcessesConsistent'
  BY DEF ProcessesConsistent
<1>3. StoppedHasResult'
  BY DEF ExecutionIInv, StoppedHasResult, worker, Later, ExecutionTypeOK
<1>4. AcceptedTerminationShows'
  BY DEF ExecutionIInv, StoppedHasResult, AcceptedTerminationShows, worker, Later, ExecutionTypeOK
<1> QED BY <1>1, <1>2, <1>3, <1>4 DEF ExecutionIInv

\* A step of one process, that may enter the map or leave it.
LEMMA SingleSteps ==
  ASSUME ExecutionIInv, NEW p \in Procs, NEW new \in ActiveProcess,
         proc' = [proc EXCEPT ![p] = new],
         file' \in [Procs -> Statuses \cup {Nil}],
         \A q \in Procs \ {p} : file'[q] = file[q],
         active' \in {active, p, Nil},
         Consistent(new, file'[p], active' = p), Later(proc[p], new),
         up' = up, troubles' = troubles, overlapped' \in BOOLEAN,
         UNCHANGED worker
  PROVE  ExecutionIInv'
<1>1. ProcessTypeOK'
  BY DEF ExecutionIInv, ExecutionTypeOK, ProcessTypeOK
<1>2. ASSUME NEW q \in Procs
      PROVE  Consistent(proc'[q], file'[q], active' = q) /\ Later(proc[q], proc'[q])
  <2>1. CASE q = p
    <3>1. proc'[q] = new
      BY <2>1 DEF ExecutionIInv, ExecutionTypeOK, ProcessTypeOK
    <3> QED BY <2>1, <3>1
  <2>2. CASE q # p
    <3>1. proc'[q] = proc[q] /\ file'[q] = file[q] /\ (active' = q => active = q)
      BY <2>2, ProcessAssumption DEF ExecutionIInv, ExecutionTypeOK, ProcessTypeOK
    <3>2. Consistent(proc[q], file[q], active = q)
      BY DEF ExecutionIInv, ProcessesConsistent
    <3> QED BY <3>1, <3>2 DEF Consistent, Later
  <2> QED BY <2>1, <2>2
<1> QED BY <1>1, <1>2, ConsistentSteps

\* requestTermination reaches a process that has not finished, if any.
LEMMA TerminationIsConsistent ==
  ASSUME NEW procs \in [Procs -> ActiveProcess], active \in Procs \cup {Nil},
         NEW q \in Procs, Consistent(procs[q], file[q], active = q)
  PROVE  /\ Terminated(procs, active) \in [Procs -> ActiveProcess]
         /\ Consistent(Terminated(procs, active)[q], file[q], active = q)
         /\ Later(procs[q], Terminated(procs, active)[q])
<1>1. CASE active = Nil
  BY <1>1 DEF Terminated, Later
<1>2. CASE active # Nil
  <2> DEFINE a == [procs[active] EXCEPT !.requested = TRUE, !.kill = TRUE]
  <2>1. active \in Procs /\ Terminated(procs, active) = [procs EXCEPT ![active] = a]
    BY <1>2 DEF Terminated
  <2>2. procs[active] \in ActiveProcess => a \in ActiveProcess
    BY DEF ActiveProcess
  <2>3. ASSUME active = q
      PROVE  /\ Consistent(Terminated(procs, active)[q], file[q], active = q)
             /\ Later(procs[q], Terminated(procs, active)[q])
    <3>1. /\ a.child = procs[q].child /\ a.finished = procs[q].finished
          /\ a.ending = procs[q].ending /\ a.result = procs[q].result /\ a.flagged = procs[q].flagged
      BY <2>1, <2>3 DEF ActiveProcess
    <3> HIDE DEF a
    <3>2. Consistent(a, file[q], active = q) /\ Later(procs[q], a)
      BY <2>3, <3>1 DEF Consistent, Later
    <3>3. Terminated(procs, active)[q] = a
      BY <2>1, <2>3
    <3> QED BY <3>2, <3>3
  <2>4. ASSUME active # q
      PROVE  /\ Consistent(Terminated(procs, active)[q], file[q], active = q)
             /\ Later(procs[q], Terminated(procs, active)[q])
    <3> HIDE DEF a
    <3>1. Terminated(procs, active)[q] = procs[q]
      BY <2>1, <2>4
    <3> QED BY <3>1 DEF Later
  <2>5. Terminated(procs, active) \in [Procs -> ActiveProcess]
    <3> HIDE DEF a
    <3> QED BY <2>1, <2>2
  <2> HIDE DEF a
  <2> QED BY <2>3, <2>4, <2>5
<1> QED BY <1>1, <1>2

\* Somebody flags his own process, perhaps, and asks for the termination of the job's.
LEMMA TerminationSteps ==
  ASSUME ExecutionIInv, NEW procs \in [Procs -> ActiveProcess],
         \A q \in Procs : Consistent(procs[q], file[q], active = q) /\ Later(proc[q], procs[q]),
         proc' = Terminated(procs, active),
         UNCHANGED <<active, file, up, overlapped>>, troubles' \in 0 .. MaxTroubles
  PROVE  /\ ProcessTypeOK'
         /\ \A q \in Procs :
              Consistent(proc'[q], file'[q], active' = q) /\ Later(proc[q], proc'[q])
<1>1. active \in Procs \cup {Nil}
  BY DEF ExecutionIInv, ExecutionTypeOK, ProcessTypeOK
<1>2. \A q \in Procs : /\ Consistent(proc'[q], file[q], active = q)
                       /\ Later(procs[q], proc'[q])
  BY <1>1, TerminationIsConsistent
<1>3. proc' \in [Procs -> ActiveProcess]
  <2>1. 1 \in Procs
    BY ProcessAssumption DEF Procs
  <2> QED BY <1>1, <2>1, TerminationIsConsistent
<1>4. ProcessTypeOK'
  BY <1>3 DEF ExecutionIInv, ExecutionTypeOK, ProcessTypeOK
<1>5. \A q \in Procs : Later(proc[q], proc'[q])
  BY <1>2 DEF Later
<1>6. active' = active /\ file' = file
  OBVIOUS
<1> QED BY <1>2, <1>4, <1>5, <1>6

LEMMA InitialExecution == ExecutionInit => ExecutionIInv
<1> SUFFICES ASSUME ExecutionInit PROVE ExecutionIInv
  OBVIOUS
<1>1. NotStarted \in ActiveProcess
  BY DEF NotStarted, ActiveProcess
<1>2. ExecutionTypeOK
  <2>1. ProcessTypeOK
    <3>1. 0 \in 0 .. MaxTroubles
      BY ProcessAssumption
    <3>2. proc \in [Procs -> ActiveProcess] /\ file \in [Procs -> Statuses \cup {Nil}]
      BY <1>1 DEF ExecutionInit, ProcessInit
    <3> QED BY <3>1, <3>2 DEF ExecutionInit, ProcessInit, ProcessTypeOK
  <2> QED BY <2>1 DEF ExecutionInit, ExecutionTypeOK
<1>3. ProcessesConsistent
  <2> SUFFICES ASSUME NEW p \in Procs PROVE Consistent(NotStarted, Nil, FALSE)
    BY ProcessAssumption DEF ExecutionInit, ProcessInit, ProcessesConsistent, Consistent
  <2> QED BY DEF Consistent, NotStarted
<1>4. StoppedHasResult /\ AcceptedTerminationShows
  BY DEF ExecutionInit, StoppedHasResult, AcceptedTerminationShows
<1> QED BY <1>2, <1>3, <1>4 DEF ExecutionIInv

LEMMA ProcessFacts ==
  ASSUME ExecutionIInv, NEW p \in Procs
  PROVE  /\ proc[p] \in ActiveProcess /\ Consistent(proc[p], file[p], active = p)
         /\ file \in [Procs -> Statuses \cup {Nil}] /\ overlapped \in BOOLEAN
         /\ proc[p] \in ActiveProcess
BY DEF ExecutionIInv, ExecutionTypeOK, ProcessTypeOK, ProcessesConsistent

LEMMA SpawnKeeps ==
  ASSUME ExecutionIInv, NEW p \in Procs, Spawn(p), UNCHANGED worker PROVE ExecutionIInv'
<1>1. PICK watch \in {"off", "armed"} :
        Set(p, [NotStarted EXCEPT !.child = "alive", !.timeout = TRUE, !.stall = watch,
                                  !.starting = TRUE])
  BY DEF Spawn
<1> DEFINE new == [NotStarted EXCEPT !.child = "alive", !.timeout = TRUE, !.stall = watch,
                                     !.starting = TRUE]
<1>2. new \in ActiveProcess
  BY DEF NotStarted, ActiveProcess
<1>3. file[p] = Nil /\ proc[p].result = Nil
  <2>1. proc[p] = NotStarted
    BY DEF Spawn, Calls, Begun
  <2> QED BY <2>1, ProcessFacts DEF Consistent, NotStarted
<1>4. Consistent(new, file[p], TRUE) /\ Later(proc[p], new)
  BY <1>3 DEF Consistent, Later, NotStarted
<1>5. proc' = [proc EXCEPT ![p] = new]
  BY <1>1 DEF Set
<1> HIDE DEF new
<1>6. overlapped' \in BOOLEAN
  BY ProcessFacts DEF Spawn, Calls
<1>7. active' = p /\ file' = file /\ up' = up /\ troubles' = troubles
  BY DEF Spawn
<1>8. Consistent(new, file'[p], active' = p)
  BY <1>4, <1>7 DEF Consistent
<1> QED BY <1>2, <1>4, <1>5, <1>6, <1>7, <1>8, SingleSteps, ProcessFacts

LEMMA SpawnFailsKeeps ==
  ASSUME ExecutionIInv, NEW p \in Procs, SpawnFails(p), UNCHANGED worker PROVE ExecutionIInv'
<1>1. PICK mapped \in BOOLEAN :
        /\ Set(p, [NotStarted EXCEPT !.child = "dead", !.finished = TRUE, !.starting = mapped,
                                     !.ending = FailedToStart])
        /\ active' = IF mapped THEN Nil ELSE active
  BY DEF SpawnFails
<1> DEFINE new == [NotStarted EXCEPT !.child = "dead", !.finished = TRUE, !.starting = mapped,
                                     !.ending = FailedToStart]
<1>2. FailedToStart \in Endings
  BY DEF FailedToStart, Endings, Statuses, Outcomes
<1>3. new \in ActiveProcess
  BY <1>2 DEF NotStarted, ActiveProcess
<1>4. proc[p] = NotStarted
  BY DEF SpawnFails, Calls, Begun
<1>5. active' # p /\ active' \in {active, Nil}
  BY <1>1, <1>4, ProcessFacts, ProcessAssumption DEF Consistent, NotStarted
<1>6. Consistent(new, file[p], FALSE) /\ Later(proc[p], new)
  BY <1>4, ProcessAssumption DEF Consistent, Later, NotStarted, Tells
<1>7. proc' = [proc EXCEPT ![p] = new]
  BY <1>1 DEF Set
<1> HIDE DEF new
<1>8. overlapped' \in BOOLEAN
  BY ProcessFacts DEF SpawnFails, Calls
<1>9. file' = file /\ up' = up /\ troubles' = troubles
  BY DEF SpawnFails
<1>10. Consistent(new, file'[p], active' = p)
  BY <1>5, <1>6, <1>9 DEF Consistent
<1> QED BY <1>3, <1>5, <1>6, <1>7, <1>8, <1>9, <1>10, SingleSteps, ProcessFacts

LEMMA PersistStartKeeps ==
  ASSUME ExecutionIInv, NEW p \in Procs, PersistStart(p), UNCHANGED worker PROVE ExecutionIInv'
<1> DEFINE a == proc[p]
           new == [proc[p] EXCEPT !.starting = FALSE]
<1>1. a \in ActiveProcess /\ Consistent(a, file[p], active = p)
  BY ProcessFacts
<1>2. new \in ActiveProcess
  BY <1>1 DEF ActiveProcess
<1>3. a.child # "none"
  BY <1>1 DEF PersistStart, Consistent, NotStarted
<1>4. Consistent(new, "running", active = p) /\ Later(a, new)
  BY <1>1, <1>3 DEF Consistent, Later, Tells, ActiveProcess
<1>5. /\ proc' = [proc EXCEPT ![p] = new] /\ file' = [file EXCEPT ![p] = "running"]
      /\ UNCHANGED <<active, up, troubles, overlapped>>
  BY DEF PersistStart, Set
<1> HIDE DEF new
<1>6. /\ file' \in [Procs -> Statuses \cup {Nil}] /\ file'[p] = "running"
      /\ \A q \in Procs \ {p} : file'[q] = file[q]
  BY <1>5, ProcessFacts DEF Statuses
<1>7. Consistent(new, file'[p], active' = p)
  BY <1>4, <1>5, <1>6
<1> QED BY <1>2, <1>4, <1>5, <1>6, <1>7, SingleSteps, ProcessFacts

\* A timer flags its process, and perhaps another process is asked to terminate.
LEMMA FlaggedSteps ==
  ASSUME ExecutionIInv, NEW p \in Procs, NEW new \in ActiveProcess,
         Consistent(new, file[p], active = p), Later(proc[p], new),
         proc' = Terminated([proc EXCEPT ![p] = new], active),
         UNCHANGED <<active, file, up, troubles, overlapped>>, UNCHANGED worker
  PROVE  ExecutionIInv'
<1> DEFINE procs == [proc EXCEPT ![p] = new]
<1>1. procs \in [Procs -> ActiveProcess]
  BY DEF ExecutionIInv, ExecutionTypeOK, ProcessTypeOK
<1>2. ASSUME NEW q \in Procs
      PROVE  Consistent(procs[q], file[q], active = q) /\ Later(proc[q], procs[q])
  <2>1. CASE q = p
    <3>1. procs[q] = new
      BY <2>1 DEF ExecutionIInv, ExecutionTypeOK, ProcessTypeOK
    <3> QED BY <2>1, <3>1
  <2>2. CASE q # p
    <3>1. procs[q] = proc[q]
      BY <2>2 DEF ExecutionIInv, ExecutionTypeOK, ProcessTypeOK
    <3> QED BY <3>1, ProcessFacts DEF Later
  <2> QED BY <2>1, <2>2
<1>3. troubles' \in 0 .. MaxTroubles
  BY DEF ExecutionIInv, ExecutionTypeOK, ProcessTypeOK
<1> HIDE DEF procs
<1>4. proc' = Terminated(procs, active)
  BY DEF procs
<1> QED BY <1>1, <1>2, <1>3, <1>4, TerminationSteps, ConsistentSteps

LEMMA TimeoutKeeps ==
  ASSUME ExecutionIInv, NEW p \in Procs, TimeoutFires(p), UNCHANGED worker PROVE ExecutionIInv'
<1> DEFINE a == proc[p]
           new == [proc[p] EXCEPT !.timeout = FALSE, !.flagged = TRUE]
<1>1. a \in ActiveProcess /\ Consistent(a, file[p], active = p)
  BY ProcessFacts
<1>2. new \in ActiveProcess
  BY <1>1 DEF ActiveProcess
<1>3. Consistent(new, file[p], active = p) /\ Later(a, new)
  BY <1>1 DEF Consistent, Later, Tells, ActiveProcess, TimeoutFires, NotStarted
<1>4. [proc EXCEPT ![p].timeout = FALSE, ![p].flagged = TRUE] = [proc EXCEPT ![p] = new]
  BY <1>1 DEF ExecutionIInv, ExecutionTypeOK, ProcessTypeOK
<1>5. /\ proc' = Terminated([proc EXCEPT ![p] = new], active)
      /\ UNCHANGED <<active, file, up, troubles, overlapped>>
  BY <1>4 DEF TimeoutFires
<1> HIDE DEF new
<1> QED BY <1>2, <1>3, <1>5, FlaggedSteps

LEMMA StallCheckBeginsKeeps ==
  ASSUME ExecutionIInv, NEW p \in Procs, StallCheckBegins(p), UNCHANGED worker PROVE ExecutionIInv'
<1> DEFINE a == proc[p]
           new == [proc[p] EXCEPT !.stall = "checking"]
<1>1. a \in ActiveProcess /\ Consistent(a, file[p], active = p)
  BY ProcessFacts
<1>2. new \in ActiveProcess
  BY <1>1 DEF ActiveProcess
<1>3. Consistent(new, file[p], active = p) /\ Later(a, new)
  BY <1>1 DEF Consistent, Later, Tells, ActiveProcess, StallCheckBegins, NotStarted
<1>4. /\ proc' = [proc EXCEPT ![p] = new]
      /\ UNCHANGED <<active, file, up, troubles, overlapped>>
  BY DEF StallCheckBegins, Set
<1> HIDE DEF new
<1> QED BY <1>2, <1>3, <1>4, SingleSteps, ProcessFacts

LEMMA StallCheckEndsKeeps ==
  ASSUME ExecutionIInv, NEW p \in Procs, StallCheckEnds(p), UNCHANGED worker PROVE ExecutionIInv'
<1> DEFINE a == proc[p]
           watch == IF proc[p].finished THEN "off" ELSE "armed"
           calm == [proc[p] EXCEPT !.stall = watch]
           flagged == [proc[p] EXCEPT !.stall = watch, !.flagged = TRUE]
<1>1. a \in ActiveProcess /\ Consistent(a, file[p], active = p)
  BY ProcessFacts
<1>2. watch \in {"off", "armed"}
  OBVIOUS
<1>3. \/ proc' = [proc EXCEPT ![p] = calm]
      \/ proc' = Terminated([proc EXCEPT ![p].stall = watch, ![p].flagged = TRUE], active)
  BY DEF StallCheckEnds, Set
<1>4. a.stall = "checking" /\ UNCHANGED <<active, file, up, troubles, overlapped>>
  BY DEF StallCheckEnds
<1> HIDE DEF watch
<1>5. calm \in ActiveProcess /\ flagged \in ActiveProcess
  BY <1>1, <1>2 DEF ActiveProcess
<1>6. Consistent(calm, file[p], active = p) /\ Later(a, calm)
  BY <1>1, <1>4 DEF Consistent, Later, Tells, ActiveProcess, NotStarted
<1>7. Consistent(flagged, file[p], active = p) /\ Later(a, flagged)
  BY <1>1, <1>4 DEF Consistent, Later, Tells, ActiveProcess, NotStarted
<1>8. [proc EXCEPT ![p].stall = watch, ![p].flagged = TRUE] = [proc EXCEPT ![p] = flagged]
  BY <1>1 DEF ExecutionIInv, ExecutionTypeOK, ProcessTypeOK
<1> HIDE DEF calm, flagged
<1>9. CASE proc' = [proc EXCEPT ![p] = calm]
  BY <1>4, <1>5, <1>6, <1>9, SingleSteps, ProcessFacts
<1>10. CASE proc' = Terminated([proc EXCEPT ![p] = flagged], active)
  BY <1>4, <1>5, <1>7, <1>10, FlaggedSteps
<1> QED BY <1>3, <1>8, <1>9, <1>10

LEMMA ForceKillKeeps ==
  ASSUME ExecutionIInv, NEW p \in Procs, ForceKill(p), UNCHANGED worker PROVE ExecutionIInv'
<1> DEFINE a == proc[p]
           killed == proc[p].killed \/ proc[p].child = "alive"
<1>1. a \in ActiveProcess /\ Consistent(a, file[p], active = p)
  BY ProcessFacts
<1>2. PICK left \in BOOLEAN : Set(p, [a EXCEPT !.kill = left, !.killed = killed])
  BY DEF ForceKill
<1>3. killed \in BOOLEAN
  OBVIOUS
<1> HIDE DEF killed
<1> DEFINE new == [a EXCEPT !.kill = left, !.killed = killed]
<1>4. new \in ActiveProcess
  BY <1>1, <1>3 DEF ActiveProcess
<1>5. a.kill /\ UNCHANGED <<active, file, up, troubles, overlapped>>
  BY DEF ForceKill
<1>6. Consistent(new, file[p], active = p) /\ Later(a, new)
  BY <1>1, <1>5 DEF Consistent, Later, Tells, ActiveProcess, NotStarted
<1>7. proc' = [proc EXCEPT ![p] = new]
  BY <1>2 DEF Set
<1> HIDE DEF new
<1> QED BY <1>4, <1>5, <1>6, <1>7, SingleSteps, ProcessFacts

LEMMA ExitKeeps ==
  ASSUME ExecutionIInv, NEW p \in Procs, Exit(p), UNCHANGED worker PROVE ExecutionIInv'
<1> DEFINE a == proc[p]
<1>1. a \in ActiveProcess /\ Consistent(a, file[p], active = p)
  BY ProcessFacts
<1>2. PICK s \in BOOLEAN, h \in BOOLEAN :
        Set(p, [a EXCEPT !.child = "dead", !.killed = FALSE, !.signal = s, !.held = h])
  BY DEF Exit
<1> DEFINE new == [a EXCEPT !.child = "dead", !.killed = FALSE, !.signal = s, !.held = h]
<1>3. new \in ActiveProcess
  BY <1>1 DEF ActiveProcess
<1>4. UNCHANGED <<active, file, up, troubles, overlapped>>
  BY DEF Exit
<1>5. Consistent(new, file[p], active = p) /\ Later(a, new)
  BY <1>1 DEF Consistent, Later, Tells, ActiveProcess
<1>6. proc' = [proc EXCEPT ![p] = new]
  BY <1>2 DEF Set
<1> HIDE DEF new
<1> QED BY <1>3, <1>4, <1>5, <1>6, SingleSteps, ProcessFacts

LEMMA CloseKeeps ==
  ASSUME ExecutionIInv, NEW p \in Procs, Close(p), UNCHANGED worker PROVE ExecutionIInv'
<1> DEFINE a == proc[p]
           ending == [status |-> StatusOf(proc[p]), outcome |-> OutcomeOf(proc[p])]
           stall == IF proc[p].stall = "checking" THEN proc[p].stall ELSE "off"
           new == [a EXCEPT !.finished = TRUE, !.timeout = FALSE, !.kill = FALSE,
                            !.stall = stall, !.ending = ending]
<1>1. a \in ActiveProcess /\ Consistent(a, file[p], active = p)
  BY ProcessFacts
<1>2. ending \in Endings /\ ending.outcome = OutcomeOf(a)
  BY DEF Endings, Statuses, Outcomes, StatusOf, OutcomeOf
<1>3. Tells(OutcomeOf(a), a)
  BY DEF Tells, OutcomeOf
<1>4. /\ proc' = [proc EXCEPT ![p] = new] /\ active' = Nil
      /\ UNCHANGED <<file, up, troubles, overlapped>>
  BY DEF Close, Set
<1>5. stall \in {"off", "armed", "checking"}
  OBVIOUS
<1> HIDE DEF ending, stall
<1>6. new \in ActiveProcess
  BY <1>1, <1>2, <1>5 DEF ActiveProcess
<1>7. a.child = "dead" /\ ~a.finished
  BY DEF Close
<1>8. a.result = Nil
  BY <1>1, <1>7 DEF Consistent
<1>9. /\ new.child = "dead" /\ new.finished /\ new.ending = ending /\ new.result = Nil
      /\ new.requested = a.requested /\ new.flagged = a.flagged
  BY <1>1, <1>7, <1>8 DEF ActiveProcess
<1> HIDE DEF new
<1>10. active' # p
  BY <1>4, ProcessAssumption
<1>11. Consistent(new, file'[p], active' = p) /\ Later(a, new)
  BY <1>2, <1>3, <1>8, <1>9, <1>10 DEF Consistent, Later, Tells
<1> QED BY <1>4, <1>6, <1>11, SingleSteps, ProcessFacts

LEMMA PersistFinalKeeps ==
  ASSUME ExecutionIInv, NEW p \in Procs, PersistFinal(p), UNCHANGED worker PROVE ExecutionIInv'
<1> DEFINE a == proc[p]
           new == [a EXCEPT !.result = a.ending.outcome, !.ending = Nil]
<1>1. a \in ActiveProcess /\ Consistent(a, file[p], active = p)
  BY ProcessFacts
<1>2. a.ending \in Endings /\ a.ending.status \in Statuses /\ a.ending.outcome \in Outcomes
  BY <1>1 DEF ActiveProcess, Endings, PersistFinal
<1>3. new \in ActiveProcess
  BY <1>1, <1>2 DEF ActiveProcess
<1>4. /\ proc' = [proc EXCEPT ![p] = new] /\ file' = [file EXCEPT ![p] = a.ending.status]
      /\ UNCHANGED <<active, up, troubles, overlapped>>
  BY DEF PersistFinal, Set
<1>5. a.child = "dead" /\ a.finished /\ Tells(a.ending.outcome, a)
  BY <1>1 DEF PersistFinal, Consistent
<1>6. /\ new.child = "dead" /\ new.finished /\ new.ending = Nil
      /\ new.result = a.ending.outcome /\ new.requested = a.requested /\ new.flagged = a.flagged
  BY <1>1, <1>5 DEF ActiveProcess
<1>7. a.ending.outcome # Nil
  BY <1>2, ProcessAssumption
<1> HIDE DEF new
<1>8. active' # p
  BY <1>1, <1>4, <1>5 DEF Consistent
<1>9. Consistent(new, file'[p], active' = p) /\ Later(a, new)
  BY <1>5, <1>6, <1>7, <1>8 DEF Consistent, Later, Tells
<1>10. file' \in [Procs -> Statuses \cup {Nil}] /\ \A q \in Procs \ {p} : file'[q] = file[q]
  BY <1>2, <1>4, ProcessFacts
<1> QED BY <1>3, <1>4, <1>9, <1>10, SingleSteps, ProcessFacts

LEMMA BootKeeps == ASSUME ExecutionIInv, Boot, UNCHANGED worker PROVE ExecutionIInv'
<1>1. /\ file' = [q \in Procs |-> IF q \in Latest /\ file[q] = "running" /\ proc[q].child # "alive"
                                  THEN "terminated" ELSE file[q]]
      /\ up' = TRUE /\ UNCHANGED <<proc, active, troubles, overlapped>>
  BY DEF Boot
<1>2. ProcessTypeOK'
  BY <1>1 DEF ExecutionIInv, ExecutionTypeOK, ProcessTypeOK, Statuses
<1>3. ASSUME NEW q \in Procs
      PROVE  Consistent(proc'[q], file'[q], active' = q) /\ Later(proc[q], proc'[q])
  <2>1. file'[q] = file[q] \/ (file[q] = "running" /\ proc[q].child # "alive")
    BY <1>1
  <2>2. Consistent(proc[q], file[q], active = q)
    BY ProcessFacts
  <2>3. file[q] = "running" => file[q] # Nil
    BY ProcessAssumption DEF Statuses
  <2> QED BY <1>1, <2>1, <2>2, <2>3 DEF Consistent, Later
<1> QED BY <1>2, <1>3, ConsistentSteps

LEMMA ProcessStepKeeps == ASSUME ExecutionIInv, ProcessStep, UNCHANGED worker PROVE ExecutionIInv'
<1>1. CASE Timers
  BY <1>1, TimeoutKeeps, StallCheckBeginsKeeps, StallCheckEndsKeeps, ForceKillKeeps DEF Timers
<1>2. CASE Boot
  BY <1>2, BootKeeps
<1>3. CASE \E p \in Procs : Spawn(p) \/ SpawnFails(p) \/ PersistStart(p) \/ Exit(p) \/ Close(p)
                            \/ PersistFinal(p)
  BY <1>3, SpawnKeeps, SpawnFailsKeeps, PersistStartKeeps, ExitKeeps, CloseKeeps, PersistFinalKeeps
<1> QED BY <1>1, <1>2, <1>3 DEF ProcessStep

-----------------------------------------------------------------------------
(* Steps of the worker, of cancelJob, and the death of both.               *)

\* The processes and what is known of the attempts that were stopped are left alone.
LEMMA CancelJobKeeps == ASSUME ExecutionIInv, CancelJob PROVE ExecutionIInv'
<1>1. /\ proc' = Terminated(proc, active) /\ UNCHANGED <<active, file, up, overlapped>>
      /\ UNCHANGED <<verdicts, stopped>> /\ request' = TRUE
      /\ troubles < MaxTroubles /\ troubles' = troubles + 1
  BY DEF CancelJob, Cancel
<1>2. troubles' \in 0 .. MaxTroubles
  BY <1>1, ProcessAssumption DEF ExecutionIInv, ExecutionTypeOK, ProcessTypeOK
<1>3. proc \in [Procs -> ActiveProcess]
  BY DEF ExecutionIInv, ExecutionTypeOK, ProcessTypeOK
<1>4. \A q \in Procs : Consistent(proc[q], file[q], active = q) /\ Later(proc[q], proc[q])
  BY ProcessFacts DEF Later
<1>5. /\ ProcessTypeOK'
      /\ \A q \in Procs :
           Consistent(proc'[q], file'[q], active' = q) /\ Later(proc[q], proc'[q])
  BY <1>1, <1>2, <1>3, <1>4, TerminationSteps
<1>6. ExecutionTypeOK'
  BY <1>1, <1>5 DEF ExecutionIInv, ExecutionTypeOK
<1>7. ProcessesConsistent'
  BY <1>5 DEF ProcessesConsistent
<1>8. StoppedHasResult'
  BY <1>1, <1>5 DEF ExecutionIInv, StoppedHasResult, Later, ExecutionTypeOK
<1>9. AcceptedTerminationShows'
  BY <1>1, <1>5 DEF ExecutionIInv, StoppedHasResult, AcceptedTerminationShows, Later, ExecutionTypeOK
<1> QED BY <1>6, <1>7, <1>8, <1>9 DEF ExecutionIInv

LEMMA CrashWorkersKeeps == ASSUME ExecutionIInv, CrashWorkers PROVE ExecutionIInv'
<1>1. /\ proc' = [p \in Procs |-> Orphan(proc[p])] /\ active' = Nil /\ file' = file
      /\ troubles < MaxTroubles /\ troubles' = troubles + 1 /\ up' = FALSE
      /\ overlapped' = overlapped /\ UNCHANGED <<stopped, request>>
      /\ verdicts' = [p \in Procs |-> IF p \in Begun /\ verdicts[p] = Nil THEN "lost"
                                      ELSE verdicts[p]]
  BY DEF CrashWorkers, OrchestratorDies
<1>2. ASSUME NEW q \in Procs
      PROVE  /\ Orphan(proc[q]) \in ActiveProcess
             /\ Consistent(Orphan(proc[q]), file[q], FALSE)
             /\ Later(proc[q], Orphan(proc[q]))
  <2> DEFINE a == proc[q]
  <2>1. a \in ActiveProcess /\ Consistent(a, file[q], active = q)
    BY ProcessFacts
  <2>2. CASE a.result # Nil \/ a = NotStarted
    <3>1. Orphan(a) = [a EXCEPT !.starting = FALSE, !.stall = "off"]
      BY <2>2 DEF Orphan
    <3>2. a.child = "none" => Orphan(a) = NotStarted
      <4>1. a = [a EXCEPT !.starting = a.starting, !.stall = a.stall]
        BY <2>1 DEF ActiveProcess
      <4>2. a.child = "none" => a = NotStarted
        BY <2>1 DEF Consistent
      <4>3. NotStarted.starting = FALSE /\ NotStarted.stall = "off"
        BY DEF NotStarted
      <4> HIDE DEF a
      <4> QED BY <3>1, <4>1, <4>2, <4>3
    <3>3. [a EXCEPT !.starting = FALSE, !.stall = "off"] \in ActiveProcess
      BY <2>1 DEF ActiveProcess
    <3>4. /\ Orphan(a).child = a.child /\ Orphan(a).finished = a.finished
          /\ Orphan(a).ending = a.ending /\ Orphan(a).result = a.result
          /\ Orphan(a).flagged = a.flagged /\ Orphan(a).requested = a.requested
      BY <2>1, <3>1 DEF ActiveProcess
    <3> QED BY <2>1, <3>1, <3>2, <3>3, <3>4 DEF Consistent, Later, Tells
  <2>3. CASE ~(a.result # Nil \/ a = NotStarted)
    <3>1. Orphan(a) = [NotStarted EXCEPT !.child = a.child, !.killed = a.killed, !.lost = TRUE]
      BY <2>3 DEF Orphan
    <3>2. a.child # "none" /\ a.result = Nil
      BY <2>1, <2>3 DEF Consistent
    <3>3. [NotStarted EXCEPT !.child = a.child, !.killed = a.killed, !.lost = TRUE] \in ActiveProcess
      BY <2>1 DEF ActiveProcess, NotStarted
    <3>4. /\ Orphan(a).child = a.child /\ Orphan(a).ending = Nil /\ Orphan(a).result = Nil
      BY <3>1 DEF NotStarted
    <3> QED BY <2>1, <3>1, <3>2, <3>3, <3>4 DEF Consistent, Later
  <2> QED BY <2>2, <2>3
<1>3. /\ \A q \in Procs : proc'[q] = Orphan(proc[q])
      /\ proc' \in [Procs -> ActiveProcess]
  BY <1>1, <1>2
<1>4. Nil \notin Procs
  BY ProcessAssumption
<1>5. ProcessesConsistent'
  BY <1>1, <1>2, <1>3, <1>4 DEF ProcessesConsistent, Consistent
<1>6. ExecutionTypeOK'
  <2>1. troubles' \in 0 .. MaxTroubles
    BY <1>1, ProcessAssumption DEF ExecutionIInv, ExecutionTypeOK, ProcessTypeOK
  <2>2. verdicts' \in [Procs -> Dispositions \cup {Nil, "lost"}]
    BY <1>1 DEF ExecutionIInv, ExecutionTypeOK
  <2> QED BY <1>1, <1>3, <2>1, <2>2 DEF ExecutionIInv, ExecutionTypeOK, ProcessTypeOK
<1>7. StoppedHasResult'
  BY <1>1, <1>2, <1>3 DEF ExecutionIInv, StoppedHasResult, Later, ExecutionTypeOK
<1>8. AcceptedTerminationShows'
  <2> SUFFICES ASSUME NEW p \in Procs, p \in stopped
               PROVE  \/ verdicts'[p] = "cancelled"
                      \/ proc'[p].flagged /\ verdicts'[p] \in {"retriable", "blocked"}
                      \/ proc'[p].flagged /\ verdicts'[p] = "failed" /\ p >= Budget
    BY <1>1 DEF AcceptedTerminationShows
  <2>1. verdicts[p] # Nil
    BY ExecutionAssumption DEF ExecutionIInv, AcceptedTerminationShows, Dispositions
  <2>2. verdicts'[p] = verdicts[p]
    BY <1>1, <2>1
  <2>3. proc[p].flagged => proc'[p].flagged
    BY <1>2, <1>3 DEF ExecutionIInv, StoppedHasResult, Later
  <2> QED BY <2>2, <2>3 DEF ExecutionIInv, AcceptedTerminationShows
<1> QED BY <1>5, <1>6, <1>7, <1>8 DEF ExecutionIInv

\* The results of a process that did start are those of the two executors.
LEMMA ResultsCome ==
  ASSUME NEW p \in Procs, proc[p].result # "failed_to_start", NEW result \in ResultsOf(p)
  PROVE  LET code == ErrorCodeOf(proc[p].result) IN
         \/ \E left \in Left, exit \in ExitsOf(p) : result \in CodexResults(left, code, exit)
         \/ \E exit \in ExitsOf(p) : result \in CommandResults(code, exit)
<1> DEFINE code == ErrorCodeOf(proc[p].result)
           codex == UNION {CodexResults(left, code, exit) : left \in Left, exit \in ExitsOf(p)}
           command == UNION {CommandResults(code, exit) : exit \in ExitsOf(p)}
<1>1. ResultsOf(p) = codex \cup command
  BY DEF ResultsOf
<1>2. result \in codex => \E left \in Left, exit \in ExitsOf(p) :
                             result \in CodexResults(left, code, exit)
  OBVIOUS
<1>3. result \in command => \E exit \in ExitsOf(p) : result \in CommandResults(code, exit)
  OBVIOUS
<1> HIDE DEF codex, command
<1> QED BY <1>1, <1>2, <1>3

\* The layers between an outcome that tells of a termination and the job's disposition, when the
\* child has left nothing.
LEMMA TerminationReachesJob ==
  ASSUME ExecutionIInv, NEW p \in Procs, NEW result \in ResultsOf(p), result.left = "nothing",
         proc[p].result # Nil, proc[p].requested
  PROVE  \/ Disposition(result, p) = "cancelled"
         \/ proc[p].flagged /\ Disposition(result, p) \in {"retriable", "blocked"}
         \/ proc[p].flagged /\ Disposition(result, p) = "failed" /\ p >= Budget
<1> DEFINE outcome == proc[p].result
           code == ErrorCodeOf(outcome)
<1>1. outcome = "cancelled" \/ (outcome = "timeout" /\ proc[p].flagged)
  BY ProcessFacts DEF Consistent, Tells
<1>2. /\ outcome = "cancelled" => code = "RUNNER_CANCELLED"
      /\ outcome = "timeout" => code = "RUNNER_TIMEOUT"
  BY DEF ErrorCodeOf
<1>3. code # Nil
  BY <1>1, <1>2, ExecutionAssumption DEF ErrorCodes
<1>4. \/ \E left \in Left, exit \in ExitsOf(p) : result \in CodexResults(left, code, exit)
      \/ \E exit \in ExitsOf(p) : result \in CommandResults(code, exit)
  BY <1>1, ResultsCome
<1> HIDE DEF code
<1>5. result.errorCode = code /\ result.status \in {"partial", "failed"}
  <2>1. ASSUME NEW left \in Left, NEW exit \in ExitsOf(p), result \in CodexResults(left, code, exit)
        PROVE  result.errorCode = code /\ result.status \in {"partial", "failed"}
    <3>1. left = "nothing"
      BY <2>1 DEF CodexResults, FailedResult
    <3> QED BY <2>1, <3>1 DEF CodexResults, CodexStatus
  <2>2. ASSUME NEW exit \in ExitsOf(p), result \in CommandResults(code, exit)
        PROVE  result.errorCode = code /\ result.status \in {"partial", "failed"}
    <3>1. exit # "zero"
      BY <2>2 DEF CommandResults
    <3>2. CommandExit(code, exit) # "zero"
      BY <1>3, <3>1 DEF CommandExit
    <3> QED BY <2>2, <3>2 DEF CommandResults, CommandStatus
  <2> QED BY <1>4, <2>1, <2>2
<1>6. ~Green(result)
  BY <1>5 DEF Green
<1>7. p \in Nat /\ Budget \in Nat
  BY ExecutionAssumption DEF Procs
<1>8. CASE outcome = "cancelled"
  <2>1. Taxonomy(result.errorCode) = "cancellation"
    BY <1>2, <1>5, <1>8 DEF Taxonomy
  <2> QED BY <1>6, <2>1 DEF Disposition, ForExecutionFailure, ResolveDisposition
<1>9. CASE outcome = "timeout"
  <2>1. Taxonomy(result.errorCode) = "timeout"
    BY <1>2, <1>5, <1>9 DEF Taxonomy
  <2>2. proc[p].flagged
    BY <1>1, <1>9
  <2> QED BY <1>6, <1>7, <2>1, <2>2 DEF Disposition, ForExecutionFailure, ResolveDisposition
<1> QED BY <1>1, <1>8, <1>9

LEMMA DispositionsAre ==
  ASSUME NEW result, NEW attempt PROVE Disposition(result, attempt) \in Dispositions
BY DEF Disposition, ForExecutionFailure, ResolveDisposition, Dispositions

LEMMA ConcludeKeeps == ASSUME ExecutionIInv, NEW p \in Procs, Conclude(p) PROVE ExecutionIInv'
<1>1. PICK result \in ResultsOf(p) :
        /\ verdicts' = [verdicts EXCEPT ![p] = Disposition(result, p)]
        /\ stopped' = IF proc[p].requested /\ result.left = "nothing" THEN stopped \cup {p}
                      ELSE stopped
  BY DEF Conclude
<1>2. proc[p].result # Nil /\ verdicts[p] = Nil /\ UNCHANGED <<processVars, request>>
  BY DEF Conclude
<1>3. Disposition(result, p) \in Dispositions
  BY DispositionsAre
<1>4. ExecutionTypeOK'
  BY <1>1, <1>2, <1>3 DEF ExecutionIInv, ExecutionTypeOK, ProcessTypeOK, processVars
<1>5. ProcessesConsistent'
  BY <1>2 DEF ExecutionIInv, ProcessesConsistent, processVars
<1>6. StoppedHasResult'
  BY <1>1, <1>2 DEF ExecutionIInv, StoppedHasResult, processVars
<1>7. AcceptedTerminationShows'
  <2> SUFFICES ASSUME NEW q \in Procs, q \in stopped'
               PROVE  \/ verdicts'[q] = "cancelled"
                      \/ proc[q].flagged /\ verdicts'[q] \in {"retriable", "blocked"}
                      \/ proc[q].flagged /\ verdicts'[q] = "failed" /\ q >= Budget
    BY <1>2 DEF AcceptedTerminationShows, processVars
  <2>1. CASE q = p /\ proc[p].requested /\ result.left = "nothing"
    <3>1. verdicts'[q] = Disposition(result, p)
      BY <1>1, <2>1 DEF ExecutionIInv, ExecutionTypeOK
    <3> QED BY <1>2, <2>1, <3>1, TerminationReachesJob
  <2>2. CASE ~(q = p /\ proc[p].requested /\ result.left = "nothing")
    <3>1. q \in stopped
      BY <1>1, <2>2
    <3>2. q # p
      BY <1>2, <3>1, ExecutionAssumption DEF ExecutionIInv, AcceptedTerminationShows, Dispositions
    <3>3. verdicts'[q] = verdicts[q]
      BY <1>1, <3>2 DEF ExecutionIInv, ExecutionTypeOK
    <3> QED BY <3>1, <3>3 DEF ExecutionIInv, AcceptedTerminationShows
  <2> QED BY <2>1, <2>2
<1> QED BY <1>4, <1>5, <1>6, <1>7 DEF ExecutionIInv

LEMMA ExecutionInvariant == ExecutionSpec => []ExecutionIInv
<1>1. ExecutionInit => ExecutionIInv
  BY InitialExecution
<1>2. ExecutionIInv /\ [ExecutionNext]_<<processVars, worker>> => ExecutionIInv'
  <2> SUFFICES ASSUME ExecutionIInv, [ExecutionNext]_<<processVars, worker>> PROVE ExecutionIInv'
    OBVIOUS
  <2>1. CASE ProcessStep /\ UNCHANGED worker
    BY <2>1, ProcessStepKeeps
  <2>2. CASE CancelJob \/ CrashWorkers
    BY <2>2, CancelJobKeeps, CrashWorkersKeeps
  <2>3. CASE \E p \in Procs : Conclude(p)
    BY <2>3, ConcludeKeeps
  <2>4. CASE UNCHANGED <<processVars, worker>>
    <3>1. \A q \in Procs :
            Consistent(proc'[q], file'[q], active' = q) /\ Later(proc[q], proc'[q])
      BY <2>4, ProcessFacts DEF processVars, Later
    <3>2. ProcessTypeOK'
      BY <2>4 DEF ExecutionIInv, ExecutionTypeOK, ProcessTypeOK, processVars
    <3> QED BY <2>4, <3>1, <3>2, ConsistentSteps
  <2> QED BY <2>1, <2>2, <2>3, <2>4 DEF ExecutionNext
<1> QED BY <1>1, <1>2, PTL DEF ExecutionSpec

-----------------------------------------------------------------------------
(* Theorems.                                                               *)

\* The processes, their files and the worker's verdicts keep their types through timers, signals,
\* cancellations and deaths of the orchestrator.
THEOREM ExecutionTypes == ExecutionSpec => []ExecutionTypeOK
<1>1. ExecutionIInv => ExecutionTypeOK
  BY DEF ExecutionIInv
<1> QED BY <1>1, ExecutionInvariant, PTL

\* A process that is alive has no handle that says it ended, for any number of attempts, however
\* they overlap, and although a start is written when it comes.
THEOREM LivingAreNotWrittenOff == ExecutionSpec => []LiveProcessIsNotWrittenOff
<1>1. ExecutionIInv => LiveProcessIsNotWrittenOff
  BY DEF ExecutionIInv, ProcessesConsistent, Consistent, LiveProcessIsNotWrittenOff
<1> QED BY <1>1, ExecutionInvariant, PTL

\* What asked a process that has left nothing to terminate shows in what becomes of its job, for
\* any budget and any number of attempts that share the one place of the map.
THEOREM TerminationsShow == ExecutionSpec => []AcceptedTerminationShows
<1>1. ExecutionIInv => AcceptedTerminationShows
  BY DEF ExecutionIInv
<1> QED BY <1>1, ExecutionInvariant, PTL
=============================================================================
