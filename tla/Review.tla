------------------------------- MODULE Review -------------------------------
(***************************************************************************)
(* The review of one task execution: a request job opens a conversation, a *)
(* finalize job waits for it, materializes the verdict and applies it.     *)
(*                                                                         *)
(* One job of the task is active at a time (hasActiveJobForTask and the    *)
(* chain of jobs see to it), and the worker that runs it makes one call:   *)
(* file writes and bridge calls in a row, and the death of the process, of *)
(* the bridge, or an answer may come between any two of them.              *)
(***************************************************************************)
EXTENDS Conversations, ReviewEvidence

CONSTANTS
  Evidence,     \* what the execution may have left behind
  Budget,       \* maxAttempts of the jobs
  MaxTroubles   \* bound: deaths, restarts, failing bridge calls and manual retries, together

Decided == {"approved", "changes_requested", "rejected"}
Verdicts == Decided \cup {"incomplete"}
\* normalizeReviewResult: a payload without a status it knows is an incomplete review.
Normalized(payload) == IF payload \in Decided THEN payload ELSE "incomplete"

Settled == {"succeeded", "failed", "blocked", "manual_attention_required"}
Jobs == [kind : {"request", "finalize"}, status : {"queued", "running"} \cup Settled,
         attempt : 1 .. Budget]
States == [status : {"requested", "waiting", "materializing", "applied"}, conv : Convs \cup {None},
           reminded : BOOLEAN, recovered : BOOLEAN]
Results == [status : Verdicts, conv : Convs]
Steps == {"read", "persist", "start", "finish", "fail", "enqueue", "wait", "recover", "export",
          "extract", "remind", "result", "gate", "complete", "pending"}
Calls == [at : Steps, state : States \cup {None}, next : Steps \cup {None},
          again : BOOLEAN, verdict : Verdicts \cup {None}]

ASSUME ReviewAssumption ==
  /\ Budget \in Nat \ {0} /\ MaxTroubles \in Nat
  /\ Fragments \cap Decided = {}
  /\ None \notin States \cup Results \cup Calls \cup Convs \cup Verdicts \cup Steps
  /\ None \notin Evidence

ASSUME EvidenceAssumption == \A e \in Evidence : IsEvidence(e)

VARIABLES
  evidence,   \* what the execution left, or None once the request has been made from it
  job,        \* the latest job of the review
  state,      \* runtime-state.json of the review, or None
  result,     \* review-result.json, or None
  gates,      \* the statuses of the review gates recorded for it, in order
  call,       \* what the worker is doing, or None
  reminders,  \* remediation prompts per conversation, counted up to two (history)
  troubles    \* so far (bookkeeping for MaxTroubles)

files == <<job, state, result, gates>>
vars == <<conversations, evidence, files, call, reminders, troubles>>

TypeOK ==
  /\ ConversationsTypeOK
  /\ evidence \in Evidence \cup {None}
  /\ job \in Jobs
  /\ state \in States \cup {None}
  /\ result \in Results \cup {None}
  /\ gates \in Seq(Verdicts)
  /\ call \in Calls \cup {None}
  /\ reminders \in [Convs -> 0 .. 2]
  /\ troubles \in 0 .. MaxTroubles

\* The execution has succeeded and enqueued the request of its review.
Init ==
  /\ ConversationsInit
  /\ evidence \in Evidence
  /\ job = [kind |-> "request", status |-> "queued", attempt |-> 1]
  /\ state = None
  /\ result = None
  /\ gates = <<>>
  /\ call = None
  /\ reminders = [c \in Convs |-> 0]
  /\ troubles = 0

-----------------------------------------------------------------------------
(* Jobs and calls.                                                         *)

\* Only the making of a request touches the evidence.
Trouble == troubles < MaxTroubles /\ troubles' = troubles + 1 /\ UNCHANGED evidence
Fine == UNCHANGED <<troubles, evidence>>

At(kind, step) == call # None /\ call.at = step /\ job.kind = kind
Goto(step) == call' = [call EXCEPT !.at = step]
Return == call' = None
Persisting(new, next) == call' = [call EXCEPT !.at = "persist", !.state = new, !.next = next]
Status(old, to) == [old EXCEPT !.status = to]
Reminded(old) == [old EXCEPT !.reminded = TRUE]
Recovered(old) == [old EXCEPT !.recovered = TRUE]

Settle(status) == job' = [job EXCEPT !.status = status]

\* Mutant: going on later does not count as an attempt.
RetriedUncounted(j) == [j EXCEPT !.status = "queued"]
\* retryJob and recovery: one more attempt, if there is one left.
Retried(j) ==
  IF j.attempt < Budget THEN [j EXCEPT !.status = "queued", !.attempt = @ + 1]
  ELSE [j EXCEPT !.status = "failed"]

StartJob ==
  /\ call = None /\ job.status = "queued"
  /\ Settle("running")
  /\ call' = [at |-> "read", state |-> None, next |-> None, again |-> FALSE, verdict |-> None]
  /\ UNCHANGED <<conversations, state, result, gates, reminders>> /\ Fine

\* persistRuntimeState.
Persist ==
  /\ call # None /\ call.at = "persist"
  /\ state' = call.state
  /\ call' = [call EXCEPT !.at = call.next, !.next = None]
  /\ UNCHANGED <<conversations, job, result, gates, reminders>> /\ Fine

\* The next job of the chain: a finalize job after a request, a request after a finalize job
\* whose conversation is lost, and after a request that ran out of browsers.
Enqueue ==
  /\ call # None /\ call.at = "enqueue"
  /\ job' = [kind |-> IF job.kind = "request" /\ job.status = "succeeded" THEN "finalize"
                      ELSE "request",
             status |-> "queued", attempt |-> 1]
  /\ Return
  /\ UNCHANGED <<conversations, state, result, gates, reminders>> /\ Fine

-----------------------------------------------------------------------------
(* The request job.                                                        *)

\* Mutant: only an applied review keeps its conversation.
DispatchedApplied == state # None /\ state.conv # None /\ state.status = "applied"
Dispatched ==
  /\ state # None /\ state.conv # None
  /\ state.status \in {"waiting", "materializing", "applied"}

Seeded == [status |-> "requested", conv |-> IF state = None THEN None ELSE state.conv,
           reminded |-> FALSE, recovered |-> FALSE]

\* requestExecutionReview: a review with a conversation is not requested again; otherwise the
\* state is seeded before the bridge is called. The request is made once, and saved.
ReadRequest ==
  /\ At("request", "read")
  /\ evidence # None => Admissible(evidence)
  /\ evidence' = None
  /\ IF Dispatched THEN call' = [call EXCEPT !.at = "finish", !.state = state]
     ELSE Persisting(Seeded, "start")
  /\ UNCHANGED <<conversations, files, reminders, troubles>>

\* REVIEW_EVIDENCE_INCOMPLETE and REVIEW_PATCH_CONVERGENCE_FAILED: neither is retried.
RefuseRequest ==
  /\ At("request", "read")
  /\ evidence # None /\ ~Admissible(evidence)
  /\ Settle("manual_attention_required")
  /\ Return
  /\ UNCHANGED <<conversations, state, result, gates, reminders>> /\ Fine

Begin ==
  /\ At("request", "start")
  /\ \E c \in Unused :
       /\ c = CHOOSE d \in Unused : TRUE
       /\ StartConversation(c)
       /\ Persisting([call.state EXCEPT !.status = "waiting", !.conv = c], "finish")
  /\ UNCHANGED <<files, reminders>> /\ Fine

\* openSession, selectProject or startConversation fails: the seeded state is saved again.
BeginFails ==
  /\ At("request", "start")
  /\ Trouble
  /\ Persisting(call.state, "fail")
  /\ UNCHANGED <<conversations, files, reminders>>

Finish ==
  /\ At("request", "finish")
  /\ Settle("succeeded")
  /\ IF call.state.status = "applied" THEN Return ELSE Goto("enqueue")
  /\ UNCHANGED <<conversations, state, result, gates, reminders>> /\ Fine

\* handleReviewJobError: a browser crash is retried, and redelivered as a new job when there
\* is no attempt left; a timeout is retried; anything else needs an operator.
RequestFails ==
  /\ At("request", "fail")
  /\ \/ job' = Retried(job) /\ IF job.attempt < Budget THEN Return ELSE Goto("enqueue")
     \/ job' = Retried(job) /\ Return
     \/ Settle("manual_attention_required") /\ Return
  /\ UNCHANGED <<conversations, state, result, gates, reminders>> /\ Fine

-----------------------------------------------------------------------------
(* The finalize job.                                                       *)

HasVerdict == result # None /\ result.status \in Decided

\* Mutant: a review that has its verdict is complete.
ReadReviewUngated ==
  /\ At("finalize", "read")
  /\ IF HasVerdict THEN call' = [call EXCEPT !.at = "complete", !.state = state]
     ELSE IF state.conv = None THEN Persisting(state, "pending")
     ELSE Persisting(state, IF state.status = "waiting" THEN "wait" ELSE "export")
  /\ UNCHANGED <<conversations, files, reminders>> /\ Fine

\* finalizeExecutionReview: an incomplete result is worked on again, a verdict is not.
ReadReview ==
  /\ At("finalize", "read")
  /\ IF HasVerdict THEN call' = [call EXCEPT !.at = "gate", !.state = state]
     ELSE IF state.conv = None THEN Persisting(state, "pending")
     ELSE Persisting(state, IF state.status = "waiting" THEN "wait" ELSE "export")
  /\ UNCHANGED <<conversations, files, reminders>> /\ Fine

AfterWait == IF call.again THEN "extract" ELSE "export"

WaitReturns ==
  /\ At("finalize", "wait")
  /\ WaitForCompletion(call.state.conv)
  /\ Persisting(Status(call.state, "materializing"), AfterWait)
  /\ UNCHANGED <<files, reminders>> /\ Fine

\* The page shows a failed conversation, or a recovered one is unknown to the bridge again:
\* it is given up for a fresh one.
WaitIsHopeless ==
  /\ At("finalize", "wait")
  /\ \/ Trouble
     \/ record[call.state.conv] = None /\ call.state.recovered /\ Fine
  /\ Persisting(Status(call.state, "requested"), "pending")
  /\ UNCHANGED <<conversations, files, reminders>>

\* The wait fails otherwise: an unknown conversation, an answer that takes too long, a fault.
WaitFails ==
  /\ At("finalize", "wait")
  /\ LET c == call.state.conv IN
     \/ record[c] = None /\ ~call.state.recovered /\ Fine /\ UNCHANGED conversations
     \/ chat[c].turn # "finished" /\ Fine /\ PollStatus(c)
     \/ Trouble /\ UNCHANGED conversations
  /\ IF call.state.recovered THEN Persisting(Status(call.state, "waiting"), "pending")
     ELSE Goto("recover")
  /\ UNCHANGED <<files, reminders>>

RecoverConversation ==
  /\ At("finalize", "recover")
  /\ Recover(call.state.conv)
  /\ \/ /\ Fine
        /\ IF LooksCompleted(call.state.conv)
           THEN Persisting(Recovered(Status(call.state, "materializing")), AfterWait)
           ELSE Persisting(Recovered(Status(call.state, "waiting")), "pending")
     \/ Trouble /\ Persisting(Recovered(Status(call.state, "requested")), "pending")
  /\ UNCHANGED <<files, reminders>>

RecoverFails ==
  /\ At("finalize", "recover")
  /\ Trouble
  /\ Persisting(Status(call.state, "waiting"), "pending")
  /\ UNCHANGED <<conversations, files, reminders>>

Postpone == Persisting(Status(call.state, "materializing"), "pending")

ExportMarkdown ==
  /\ At("finalize", "export")
  /\ record[call.state.conv] # None
  /\ Goto("extract")
  /\ UNCHANGED <<conversations, files, reminders>> /\ Fine

\* The export or the extraction fails for another reason than a missing JSON block.
ReadingFails ==
  /\ At("finalize", "export") \/ At("finalize", "extract")
  /\ \/ record[call.state.conv] = None /\ Fine
     \/ Trouble
  /\ Postpone
  /\ UNCHANGED <<conversations, files, reminders>>

Extract ==
  /\ At("finalize", "extract")
  /\ record[call.state.conv] \in Structured
  /\ call' = [call EXCEPT !.at = "result", !.verdict = Normalized(record[call.state.conv])]
  /\ UNCHANGED <<conversations, files, reminders>> /\ Fine

NoBlock == record[call.state.conv] \in {"prose", "silent"}

\* Mutant: the flag is saved with the waiting state only, after the reminder.
AskForBlockUnflagged ==
  /\ At("finalize", "extract") /\ NoBlock /\ ~call.state.reminded
  /\ Persisting(Status(call.state, "materializing"), "remind")
  /\ UNCHANGED <<conversations, files, reminders>> /\ Fine

\* No JSON block: one reminder, its flag saved before; the second time the review is incomplete.
AskForBlock ==
  /\ At("finalize", "extract") /\ NoBlock /\ ~call.state.reminded
  /\ Persisting(Reminded(Status(call.state, "materializing")), "remind")
  /\ UNCHANGED <<conversations, files, reminders>> /\ Fine
GiveUpOnBlock ==
  /\ At("finalize", "extract") /\ NoBlock /\ call.state.reminded
  /\ call' = [call EXCEPT !.at = "result", !.verdict = "incomplete"]
  /\ UNCHANGED <<conversations, files, reminders>> /\ Fine

CountReminder ==
  reminders' = [reminders EXCEPT ![call.state.conv] = IF @ < 2 THEN @ + 1 ELSE 2]

Remind ==
  /\ At("finalize", "remind")
  /\ SendMessage(call.state.conv)
  /\ CountReminder
  /\ call' = [call EXCEPT !.at = "persist", !.state = Reminded(Status(@, "waiting")),
                          !.next = "wait", !.again = TRUE]
  /\ UNCHANGED files /\ Fine

\* sendMessage fails, perhaps after the reminder was submitted.
RemindFails ==
  /\ At("finalize", "remind")
  /\ \/ record[call.state.conv] = None /\ Fine /\ UNCHANGED <<conversations, reminders>>
     \/ Trouble /\ SendMessageFails(call.state.conv) /\ CountReminder
  /\ Postpone
  /\ UNCHANGED files

SaveResult ==
  /\ At("finalize", "result")
  /\ result' = [status |-> call.verdict, conv |-> call.state.conv]
  /\ Persisting(Status(call.state, "materializing"), "gate")
  /\ UNCHANGED <<conversations, job, state, gates, reminders>> /\ Fine

\* Mutant: every finalization records its gate.
GateAgain ==
  /\ At("finalize", "gate")
  /\ gates' = Append(gates, result.status)
  /\ Persisting(Status(call.state, "applied"), "complete")
  /\ UNCHANGED <<conversations, job, state, result, reminders>> /\ Fine

\* applyCompletedTaskReview: the latest gate is reused when it has the status of the result;
\* the review is marked as applied when its gate is there.
GateReview ==
  /\ At("finalize", "gate")
  /\ gates' = IF gates # <<>> /\ gates[Len(gates)] = result.status THEN gates
              ELSE Append(gates, result.status)
  /\ IF call.state.status = "applied" THEN Goto("complete")
     ELSE Persisting(Status(call.state, "applied"), "complete")
  /\ UNCHANGED <<conversations, job, state, result, reminders>> /\ Fine

\* completeTaskReviewJob.
CompleteReview ==
  /\ At("finalize", "complete")
  /\ Settle(CASE result.status = "approved" -> "succeeded"
              [] result.status = "changes_requested" -> "blocked"
              [] result.status = "rejected" -> "failed"
              [] result.status = "incomplete" -> "manual_attention_required")
  /\ Return
  /\ UNCHANGED <<conversations, state, result, gates, reminders>> /\ Fine

\* handleReviewPending: a lost conversation is requested anew, in a job of its own; anything
\* else is tried again.
ReviewPending ==
  /\ At("finalize", "pending")
  /\ IF call.state.status = "requested" THEN Settle("succeeded") /\ Goto("enqueue")
     ELSE job' = Retried(job) /\ Return
  /\ UNCHANGED <<conversations, state, result, gates, reminders>> /\ Fine

-----------------------------------------------------------------------------
(* The environment.                                                        *)

\* The orchestrator dies, and recovery finds the job running, or no job.
Crash ==
  /\ call # None
  /\ Trouble
  /\ job' = IF job.status = "running" THEN Retried(job) ELSE job
  /\ Return
  /\ UNCHANGED <<conversations, state, result, gates, reminders>>

\* POST /api/jobs/:jobId/retry.
ApiRetry ==
  /\ call = None /\ job.status \in {"failed", "blocked"} /\ job.attempt < Budget
  /\ Trouble
  /\ job' = Retried(job)
  /\ UNCHANGED <<conversations, state, result, gates, call, reminders>>

Restart ==
  /\ Trouble
  /\ BridgeRestart
  /\ UNCHANGED <<files, call, reminders>>

ChatGPT ==
  /\ \E c \in Convs : Reply(c)
  /\ UNCHANGED <<files, call, reminders>> /\ Fine

Worker ==
  \/ StartJob \/ Persist \/ Enqueue
  \/ ReadRequest \/ RefuseRequest \/ Begin \/ BeginFails \/ Finish \/ RequestFails
  \/ ReadReview \/ WaitReturns \/ WaitIsHopeless \/ WaitFails
  \/ RecoverConversation \/ RecoverFails
  \/ ExportMarkdown \/ ReadingFails \/ Extract \/ AskForBlock \/ GiveUpOnBlock
  \/ Remind \/ RemindFails \/ SaveResult \/ GateReview \/ CompleteReview \/ ReviewPending

Next == Worker \/ Crash \/ ApiRetry \/ Restart \/ ChatGPT

Spec == Init /\ [][Next]_vars

\* The daemon starts queued jobs, and a worker's chain of calls goes on. ChatGPT may never
\* answer.
FairSpec == Spec /\ WF_vars(Worker)

-----------------------------------------------------------------------------
(* Properties.                                                             *)

\* A review is requested of work that is whole, tested, and not what the last review has just
\* sent back; and nothing else is kept from it.
OnlyTrustworthyIsReviewed ==
  [][/\ evidence # None /\ evidence' = None => Trustworthy(evidence)
     /\ evidence # None /\ job.status = "running" /\ job'.status = "manual_attention_required"
          => ~Trustworthy(evidence)]_vars

\* A conversation is reminded of its JSON block at most once, whatever retries, redeliveries
\* and failing calls come between.
OneReminderPerConversation == \A c \in Convs : reminders[c] <= 1

\* A finalize job that reports a verdict leaves it gated and applied: no redelivery slips past
\* the gate.
OutcomeIsGated ==
  call = None /\ job.kind = "finalize" /\ result # None
    /\ \/ job.status \in {"blocked", "manual_attention_required"}
       \/ job.status = "succeeded" /\ state.status # "requested"
    => gates # <<>> /\ gates[Len(gates)] = result.status /\ state.status = "applied"

\* A verdict takes effect once: finalizing it again, after a crash or by a manual retry, does
\* not record the gate a second time.
VerdictAppliedOnce == \A n \in 1 .. Len(gates) - 1 : gates[n] # gates[n + 1]

\* Only a finalize job, which has seen the conversation fail, gives it up: a request that is
\* delivered again never opens a second conversation beside one that is in use.
OnlyFinalizeGivesUp ==
  [][state # None /\ state.status # "requested" /\ state'.status = "requested"
       => job.kind = "finalize"]_vars

\* The chain of jobs comes to rest, whatever the bridge does and even if ChatGPT never answers.
ReviewSettles == <>[](call = None /\ job.status \in Settled)
=============================================================================
