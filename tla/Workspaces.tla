----------------------------- MODULE Workspaces -----------------------------
(***************************************************************************)
(* The worktrees of one task: made and reused by its execution jobs, ended *)
(* after the execution and after the review, and collected when they are   *)
(* older than the retention time, by passes of the garbage collector that  *)
(* nobody awaits.                                                          *)
(*                                                                         *)
(* A lifecycle file stands for each registered workspace; git's worktrees  *)
(* are external.  Every step is one file access, one git command or the    *)
(* life of the runner's child process.                                     *)
(***************************************************************************)
EXTENDS Naturals, FiniteSetsExt, Remediation

CONSTANTS
  MaxWorkspaces,  \* bound: workspaces prepared for the task
  Passes,         \* bound: passes of the garbage collector that overlap
  MaxAttempts,    \* attempts of a job
  MaxCrashes,     \* bound: deaths of the orchestrator
  CopiesFiles,    \* whether the repository has files that the task may change
  Policies        \* what CleanupPolicy makes of failed work: of "retain", "defer", "clean"

Ids == 1 .. MaxWorkspaces
Collectors == 1 .. Passes

Verdicts == {"approved", "changes_requested", "rejected", "incomplete"}
Lifecycles == {"prepared", "active", "cleanup_pending", "cleaned", "retained", "cleanup_failed"}
Removals == {"removed", "not_removed"}
Steps == {"idle", "register", "activate", "run", "succeeded", "failed", "remove",
          "verdict", "finalize", "settle", "hand_over"} \cup Removals
Jobs == [kind : {"execution", "review", "none"}, attempt : 1 .. MaxAttempts]
Pass == [todo : SUBSET Ids, at : {"idle"} \cup Removals, of : Ids \cup {None}]

ASSUME WorkspaceAssumption ==
  /\ MaxWorkspaces \in Nat \ {0} /\ MaxAttempts \in Nat \ {0} /\ MaxCrashes \in Nat
  /\ Passes \in Nat /\ CopiesFiles \in BOOLEAN
  /\ Policies \subseteq {"retain", "defer", "clean"} /\ Policies # {}
  /\ None \notin Ids /\ None \notin Verdicts \cup Lifecycles

VARIABLES
  made,       \* workspaces prepared so far; the next one has the next number
  worktree,   \* the workspaces that git knows as worktrees
  strays,     \* those whose directory was made again after git had removed the worktree
  life,       \* the status in the lifecycle file of each workspace, or None
  expired,    \* the lifecycles last used longer ago than the retention time
  job,        \* the job of the task
  at,         \* what its worker does next
  ws,         \* the workspace its worker or its review has to do with, or None
  verdict,    \* of that review, or None
  gc,         \* the passes of the collector
  orphans,    \* workspaces in which a child of a dead orchestrator still works
  crashes     \* so far (bookkeeping for MaxCrashes)

files == <<made, worktree, strays, life, expired>>
work == <<job, at, ws, verdict>>
vars == <<files, work, gc, orphans, crashes>>

TypeOK ==
  /\ made \in 0 .. MaxWorkspaces
  /\ worktree \subseteq 1 .. made
  /\ strays \subseteq Ids
  /\ life \in [Ids -> Lifecycles \cup {None}]
  /\ expired \subseteq Ids
  /\ job \in Jobs
  /\ at \in Steps
  /\ ws \in Ids \cup {None}
  /\ verdict \in Verdicts \cup {None}
  /\ gc \in [Collectors -> Pass]
  /\ orphans \subseteq Ids
  /\ crashes \in 0 .. MaxCrashes

Idle == [todo |-> {}, at |-> "idle", of |-> None]
FirstJob == [kind |-> "execution", attempt |-> 1]
NoJob == [kind |-> "none", attempt |-> 1]

Init ==
  /\ made = 0
  /\ worktree = {}
  /\ strays = {}
  /\ life = [w \in Ids |-> None]
  /\ expired = {}
  /\ job = FirstJob
  /\ at = "idle"
  /\ ws = None
  /\ verdict = None
  /\ gc = [g \in Collectors |-> Idle]
  /\ orphans = {}
  /\ crashes = 0

-----------------------------------------------------------------------------
(* Files, worktrees and jobs.                                              *)

\* saveLifecycle: every save is a use.
Save(w, status) ==
  /\ life' = [life EXCEPT ![w] = status]
  /\ expired' = expired \ {w}
  /\ UNCHANGED <<made, worktree, strays>>

\* cleanupWorkspace: git removes the worktree and its directory, or fails because there is none:
\* it does not touch a directory that it does not know.
Remove(w) ==
  /\ worktree' = worktree \ {w}
  /\ UNCHANGED <<made, strays, life, expired>>
Removal(w) == IF w \in worktree THEN "removed" ELSE "not_removed"
Outcome(removal) == IF removal = "removed" THEN "cleaned" ELSE "cleanup_failed"

\* Another attempt of a job; a task that is still to be implemented gets a new job.
Retried(j) ==
  IF j.attempt < MaxAttempts THEN [j EXCEPT !.attempt = @ + 1]
  ELSE IF j.kind = "execution" THEN FirstJob ELSE NoJob

\* The worker lets go of the workspace.
Done(next) == at' = "idle" /\ job' = next /\ ws' = None /\ verdict' = None

\* A review that is delivered again is about the same workspace.
GoOn(next) ==
  IF next.kind = "review" THEN at' = "idle" /\ job' = next /\ UNCHANGED <<ws, verdict>>
                          ELSE Done(next)

Others == UNCHANGED <<gc, orphans, crashes>>
Step(from, to) == at = from /\ at' = to

-----------------------------------------------------------------------------
(* processTaskExecution.                                                   *)

\* Mutant: any workspace the task has left will do.
LeftOver == worktree
\* findReusableWorkspace: the newest of these.
Reusable == {w \in Ids : life[w] = "retained"}

\* A repeated attempt goes on in the newest retained workspace, if there is one.
ReuseWorkspace ==
  /\ job.kind = "execution" /\ job.attempt > 1 /\ Reusable # {}
  /\ Step("idle", "activate")
  /\ ws' = Max(Reusable)
  /\ UNCHANGED <<files, job, verdict>> /\ Others

NeedsWorkspace == job.kind = "execution" /\ (job.attempt = 1 \/ Reusable = {})

\* Mutant: the worktree is named for the task, and so for its first workspace.
PrepareTaskWorktree ==
  /\ NeedsWorkspace
  /\ Step("idle", "register")
  /\ made' = 1
  /\ ws' = 1
  /\ worktree' = worktree \cup {1}
  /\ UNCHANGED <<strays, life, expired, job, verdict>> /\ Others
\* git worktree add, for a workspace of a new name.
PrepareWorkspace ==
  /\ NeedsWorkspace
  /\ Step("idle", "register")
  /\ made < MaxWorkspaces /\ made' = made + 1
  /\ ws' = made + 1
  /\ worktree' = worktree \cup {made + 1}
  /\ UNCHANGED <<strays, life, expired, job, verdict>> /\ Others

RegisterWorkspace ==
  /\ Step("register", "activate")
  /\ Save(ws, "prepared")
  /\ UNCHANGED <<job, ws, verdict>> /\ Others

\* syncSourceOverlay copies the task's files to the workspace and makes the directories they need.
\* It asks nobody whether a pass has removed the worktree in the meantime: the directory is then
\* there again, and git does not know it.
Overlay(w) == IF w \in worktree \/ ~CopiesFiles THEN strays ELSE strays \cup {w}

\* markActive and syncWorkspace: a removal that comes between the two writes leaves what one before
\* them leaves.  A copy that fails is a Crash: nobody catches it.
ActivateAndSync ==
  /\ Step("activate", "run")
  /\ life' = [life EXCEPT ![ws] = "active"]
  /\ expired' = expired \ {ws}
  /\ strays' = Overlay(ws)
  /\ UNCHANGED <<made, worktree, job, ws, verdict>> /\ Others

\* executeTask: the runner's child works in the workspace, or fails.
Execute ==
  /\ \E result \in {"succeeded", "failed"} : Step("run", result)
  /\ UNCHANGED <<files, job, ws, verdict>> /\ Others

\* Successful work waits for its review.
FinalizeSucceeded ==
  /\ Step("succeeded", "hand_over")
  /\ Save(ws, "cleanup_pending")
  /\ UNCHANGED <<job, ws, verdict>> /\ Others

\* applyRetentionDecision, for failed, cancelled or refused work.
Retain ==
  \E policy \in Policies :
    IF policy = "clean" THEN at' = "remove" /\ UNCHANGED files
    ELSE /\ at' = "settle"
         /\ Save(ws, IF policy = "retain" THEN "retained" ELSE "cleanup_pending")

FinalizeFailed ==
  /\ at = "failed"
  /\ Retain
  /\ UNCHANGED <<job, ws, verdict>> /\ Others

HandOver ==
  /\ Step("hand_over", "idle")
  /\ job' = [kind |-> "review", attempt |-> 1]
  /\ UNCHANGED <<files, ws, verdict>> /\ Others

-----------------------------------------------------------------------------
(* The end of the review.                                                  *)

\* A verdict is decided once and found again by a later delivery of the job. A job that was
\* cancelled leaves the workspace to the collector.
Decide ==
  /\ job.kind = "review" /\ at = "idle"
  /\ \/ /\ verdict' \in IF verdict = None THEN Verdicts ELSE {verdict}
        /\ at' = "verdict" /\ UNCHANGED <<job, ws>>
     \/ Done(NoJob)
  /\ UNCHANGED files /\ Others

\* describeWorkspace runs git in the directory: in one that git does not know it answers for the
\* repository around it, if there is one.
Describe ==
  /\ Step("verdict", "finalize")
  /\ ws \in worktree \cup strays
  /\ UNCHANGED <<files, job, ws, verdict>> /\ Others

FinalizeAfterReview ==
  /\ at = "finalize"
  /\ \/ verdict = "approved" /\ at' = "remove" /\ UNCHANGED files
     \/ verdict \in {"changes_requested", "rejected"} /\ Retain
     \/ verdict = "incomplete" /\ at' = "settle" /\ Save(ws, "cleanup_pending")
  /\ UNCHANGED <<job, ws, verdict>> /\ Others

\* cleanupWorkspace, by the worker.
RemoveWorktree ==
  /\ Step("remove", Removal(ws))
  /\ Remove(ws)
  /\ UNCHANGED <<job, ws, verdict>> /\ Others
SaveRemoval ==
  /\ at \in Removals /\ at' = "settle"
  /\ Save(ws, Outcome(at))
  /\ UNCHANGED <<job, ws, verdict>> /\ Others

\* The job is settled: failed work and an incomplete review may be tried again, reopened work
\* gets a new job, and other work is done with.
Settle ==
  /\ at = "settle"
  /\ \E next \in IF job.kind = "execution" THEN {Retried(job), FirstJob, NoJob}
               ELSE IF verdict = "changes_requested" THEN {FirstJob}
               ELSE IF verdict = "incomplete" THEN {Retried(job), NoJob} ELSE {NoJob} :
       GoOn(next)
  /\ UNCHANGED files /\ Others

-----------------------------------------------------------------------------
(* runGc, and time.                                                        *)

Expire(w) ==
  /\ life[w] \notin {None, "cleaned"} /\ w \notin expired
  /\ expired' = expired \cup {w}
  /\ UNCHANGED <<made, worktree, strays, life, work>> /\ Others

\* Mutant: only work that waits for it is collected.
Pending == {w \in expired : life[w] = "cleanup_pending"}
\* isWorkspaceExpired, for a retention time above 0, whatever else the status says.
ToCollect == {w \in expired : life[w] # "cleaned"}

Collecting(g, pass) == gc' = [gc EXCEPT ![g] = pass] /\ UNCHANGED <<work, orphans, crashes>>

\* A pass lists the expired lifecycles once, at its beginning; it has the first free number.
BeginPass(g) ==
  /\ gc[g] = Idle /\ ToCollect # {}
  /\ \A f \in Collectors : f < g => gc[f] # Idle
  /\ Collecting(g, [Idle EXCEPT !.todo = ToCollect])
  /\ UNCHANGED files

\* execute: of the remediations that run by themselves, those of workspaces begin a pass, too.
SelfRepairs == {Propose(r) : r \in Reports}
ExecuteRemediation(g) ==
  /\ \E remediation \in SelfRepairs : RemediationAction(remediation) = "trigger_workspace_gc"
  /\ BeginPass(g)

RemoveCollected(g) ==
  /\ gc[g].at = "idle"
  /\ \E w \in gc[g].todo :
       /\ Remove(w)
       /\ Collecting(g, [todo |-> gc[g].todo \ {w}, at |-> Removal(w), of |-> w])

SaveCollected(g) ==
  /\ gc[g].at \in Removals
  /\ Save(gc[g].of, Outcome(gc[g].at))
  /\ Collecting(g, [gc[g] EXCEPT !.at = "idle", !.of = None])

-----------------------------------------------------------------------------
(* The orchestrator dies.                                                  *)

\* Recovery delivers the job that was running again. A child that was running goes on, in
\* its worktree.
Die ==
  /\ GoOn(IF at = "idle" THEN job ELSE Retried(job))
  /\ orphans' = IF at = "run" THEN orphans \cup {ws} ELSE orphans
  /\ gc' = [g \in Collectors |-> Idle]
  /\ UNCHANGED files

Crash ==
  /\ crashes < MaxCrashes /\ crashes' = crashes + 1
  /\ Die

\* Git fails where the worktree of the review is gone, and nobody catches it.
DescribeFails ==
  /\ at = "verdict" /\ ws \notin worktree
  /\ Die
  /\ UNCHANGED crashes

OrphanExits ==
  /\ \E w \in orphans : orphans' = orphans \ {w}
  /\ UNCHANGED <<files, work, gc, crashes>>

Worker ==
  \/ ReuseWorkspace \/ PrepareWorkspace \/ RegisterWorkspace \/ ActivateAndSync \/ Execute
  \/ FinalizeSucceeded \/ FinalizeFailed \/ HandOver
  \/ Decide \/ Describe \/ DescribeFails \/ FinalizeAfterReview
  \/ RemoveWorktree \/ SaveRemoval \/ Settle

Collector(g) == BeginPass(g) \/ RemoveCollected(g) \/ SaveCollected(g)

Next ==
  \/ Worker \/ Crash \/ OrphanExits
  \/ \E w \in Ids : Expire(w)
  \/ \E g \in Collectors : Collector(g) \/ ExecuteRemediation(g)

Spec == Init /\ [][Next]_vars

\* The timer of the collector goes on, and time passes.
FairSpec ==
  /\ Spec
  /\ \A g \in Collectors : WF_vars(Collector(g))
  /\ \A w \in Ids : WF_vars(Expire(w))

-----------------------------------------------------------------------------
(* Properties.                                                             *)

\* Git has no worktree of a workspace whose lifecycle says cleaned, whoever wrote it last: the
\* worker, a pass with an old listing, or one that was too late.  What may be left of it are the
\* files of an attempt whose workspace a pass removed before that (strays).
CleanedIsGone == \A w \in Ids : life[w] = "cleaned" => w \notin worktree

\* No attempt works in a worktree in which a child of an earlier, dead orchestrator still does.
OrphanIsLeftAlone == at = "run" => ws \notin orphans

\* No worktree whose workspace was registered stays with git for ever, whoever died with it in
\* hand: when the task has made its last workspace, the time comes when all are gone.  Of a
\* directory that Overlay has made again this is not so: git never removes it.
NoWorktreeLeaks == <>[](\A w \in Ids : life[w] # None => w \notin worktree)
=============================================================================
