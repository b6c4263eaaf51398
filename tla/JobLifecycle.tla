---------------------------- MODULE JobLifecycle ----------------------------
(***************************************************************************)
(* What the queue promises about one job record, without queue file,       *)
(* calls, agents or crashes: a job is created once, runs only when it is   *)
(* runnable, comes back for another attempt only below its budget, and is  *)
(* never touched again once it is settled.  JobQueue implements it as long *)
(* as only the daemon and its workers act (JobQueue!RefinesLifecycle).     *)
(***************************************************************************)
EXTENDS Naturals

CONSTANTS Jobs, Budget, None

Runnable == {"queued", "retriable"}
Terminal == {"succeeded", "failed", "blocked", "cancelled", "manual_attention_required"}
JobRecords == [status : Runnable \cup Terminal \cup {"running"}, attempt : Nat \ {0}]

\* What the theorems need of the constants.
LifecycleAssumption == Budget \in Nat \ {0} /\ None \notin JobRecords

VARIABLE jobs  \* the record of each job, or None before it is enqueued

TypeOK == jobs \in [Jobs -> JobRecords \cup {None}]

Init == jobs = [j \in Jobs |-> None]

Exists(j) == jobs[j] # None

Enqueue(j) ==
  /\ jobs[j] = None
  /\ jobs' = [jobs EXCEPT ![j] = [status |-> "queued", attempt |-> 1]]

Start(j) ==
  /\ Exists(j) /\ jobs[j].status \in Runnable
  /\ jobs' = [jobs EXCEPT ![j].status = "running"]

Settle(j) ==
  /\ Exists(j) /\ jobs[j].status = "running"
  /\ \E to \in Terminal : jobs' = [jobs EXCEPT ![j].status = to]

Retry(j) ==
  /\ Exists(j) /\ jobs[j].status = "running" /\ jobs[j].attempt < Budget
  /\ jobs' = [jobs EXCEPT ![j] = [status |-> "retriable", attempt |-> @.attempt + 1]]

Next == \E j \in Jobs : Enqueue(j) \/ Start(j) \/ Settle(j) \/ Retry(j)

Spec == Init /\ [][Next]_jobs

-----------------------------------------------------------------------------
\* RetryService "prevents infinite retry loops": no record ever exceeds its budget.
AttemptsWithinBudget == \A j \in Jobs : Exists(j) => jobs[j].attempt <= Budget

\* A settled job stays as it was settled, and a job never starts over with an earlier
\* attempt number.
RecordsAdvance ==
  [][\A j \in Jobs : Exists(j) =>
       /\ jobs'[j] # None
       /\ jobs'[j].attempt >= jobs[j].attempt
       /\ jobs[j].status \in Terminal => jobs'[j] = jobs[j]]_jobs
=============================================================================
