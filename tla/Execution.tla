----------------------------- MODULE Execution -----------------------------
(***************************************************************************)
(* One execution job from its child process to the job's disposition: the  *)
(* runner turns the outcome of runProcess into an error code, the executor *)
(* makes an ExecutionResult of that and of what the child left behind, the *)
(* result is filed, and the worker decides what becomes of the job.        *)
(***************************************************************************)
EXTENDS ProcessControl

CONSTANT Budget   \* maxAttempts of the job

\* What the child leaves: the status of its structured output, which may be one nobody knows, or
\* nothing that can be read; a command leaves its exit code only.
Left == {"nothing", "succeeded", "partial", "failed", "unknown"}
ExitCodes == {"zero", "other", "null"}   \* null when a signal ended it
ErrorCodes == {"RUNNER_TIMEOUT", "RUNNER_CANCELLED", "PROCESS_START_FAILED"}
ExecutionResult == [status : {"succeeded", "partial", "failed"}, errorCode : ErrorCodes \cup {Nil},
                    left : Left, testsPassed : BOOLEAN]
Dispositions == {"review", "retriable", "blocked", "cancelled", "failed"}

ASSUME ExecutionAssumption ==
  /\ Budget \in Nat \ {0}
  /\ Nil \notin ErrorCodes \cup Dispositions \cup {"lost"}

VARIABLES
  verdicts,    \* what the worker made of the attempt; "lost" when it died with it
  stopped,     \* the attempts that were asked to terminate and left nothing (history)
  request      \* a cancellation request for the job is on file

worker == <<verdicts, stopped, request>>

ExecutionTypeOK ==
  /\ ProcessTypeOK
  /\ verdicts \in [Procs -> Dispositions \cup {Nil, "lost"}]
  /\ stopped \subseteq Procs
  /\ request \in BOOLEAN

ExecutionInit ==
  /\ ProcessInit
  /\ verdicts = [p \in Procs |-> Nil]
  /\ stopped = {}
  /\ request = FALSE

-----------------------------------------------------------------------------
(* The runner and the executors.                                           *)

\* runCommand. A process that did not start is an error that is thrown on.
ErrorCodeOf(outcome) ==
  CASE outcome = "timeout" -> "RUNNER_TIMEOUT"
    [] outcome = "cancelled" -> "RUNNER_CANCELLED"
    [] outcome = "failed_to_start" -> "PROCESS_START_FAILED"
    [] OTHER -> Nil

FailedResult(code, left) ==
  [status |-> "failed", errorCode |-> code, left |-> left, testsPassed |-> FALSE]

\* CodexCliRunner.run: what the child says of itself comes before the error code.
CodexStatus(left, code, exit) ==
  IF left # "nothing" THEN left
  ELSE IF code # "RUNNER_CANCELLED" /\ exit = "zero" THEN "partial" ELSE "failed"

\* The tests the child reports, if it does, may all have passed: didExecutionTestsPass.
CodexTests(left) == IF left = "nothing" THEN {FALSE} ELSE BOOLEAN

\* CodexExecutor.execute: a status nobody knows is an error, and takes the error code with it.
CodexResults(left, code, exit) ==
  IF left = "unknown" THEN {FailedResult(Nil, left)}
  ELSE [status : {CodexStatus(left, code, exit)}, errorCode : {code}, left : {left},
        testsPassed : CodexTests(left)]

\* runWithLifecycle: without an exit code, it is the error code that tells.
CommandExit(code, exit) ==
  IF exit # "null" THEN exit ELSE IF code # Nil THEN "other" ELSE "zero"

\* normalizeCommandResult, for which only zero is a success.
CommandStatus(code, exit) == IF CommandExit(code, exit) = "zero" THEN "succeeded" ELSE "failed"

\* buildTestResults: a command made to test is its own only test.
CommandTests(code, exit) == {FALSE, CommandExit(code, exit) = "zero"}

\* CommandExecutor.execute
CommandResults(code, exit) ==
  [status : {CommandStatus(code, exit)}, errorCode : {code},
   left : {IF exit = "zero" THEN "succeeded" ELSE "nothing"}, testsPassed : CommandTests(code, exit)]

\* The exit codes a child may have had that ended like p.
ExitsOf(p) == IF proc[p].signal THEN {"null"} ELSE ExitCodes

ResultsOf(p) ==
  LET code == ErrorCodeOf(proc[p].result) IN
  IF proc[p].result = "failed_to_start"
  THEN {FailedResult(code, "nothing"), FailedResult(Nil, "nothing")}   \* the command executor drops the code
  ELSE (UNION {CodexResults(left, code, exit) : left \in Left, exit \in ExitsOf(p)})
       \cup (UNION {CommandResults(code, exit) : exit \in ExitsOf(p)})

-----------------------------------------------------------------------------
(* The worker.                                                             *)

\* classifyTaxonomy, of the codes there are; EXECUTION_FAILED stands for none.
Taxonomy(code) ==
  CASE code = "RUNNER_CANCELLED" -> "cancellation"
    [] code = "RUNNER_TIMEOUT" -> "timeout"
    [] code = "PROCESS_START_FAILED" -> "runner"
    [] OTHER -> "execution"

\* resolveDisposition. Of these taxonomies none asks for manual attention.
ResolveDisposition(taxonomy, allowBlock, attempt) ==
  IF taxonomy = "cancellation" THEN "cancelled"
  ELSE IF allowBlock THEN "blocked"
  ELSE IF taxonomy = "timeout" /\ attempt < Budget THEN "retriable" ELSE "failed"

\* forExecutionFailure
ForExecutionFailure(result, attempt) ==
  ResolveDisposition(Taxonomy(result.errorCode), result.status = "partial", attempt)

\* recommendTaskStateAfterExecution: green only with passing tests.
Green(result) == result.status = "succeeded" /\ result.testsPassed

\* cancelIfRequested comes before what the result says.
Disposition(result, attempt) ==
  IF request THEN "cancelled"
  ELSE IF Green(result) THEN "review" ELSE ForExecutionFailure(result, attempt)

\* executeTask, whose result recordExecutionResult files, and the rest of processTaskExecution.
Conclude(p) ==
  /\ up
  /\ proc[p].result # Nil /\ verdicts[p] = Nil
  /\ \E result \in ResultsOf(p) :
       /\ verdicts' = [verdicts EXCEPT ![p] = Disposition(result, p)]
       /\ stopped' = IF proc[p].requested /\ result.left = "nothing" THEN stopped \cup {p} ELSE stopped
  /\ UNCHANGED <<processVars, request>>

\* cancelJob, of a job that is running, files the request before it asks for the termination.
CancelJob ==
  /\ \E p \in Begun : verdicts[p] = Nil
  /\ Cancel /\ request' = TRUE
  /\ UNCHANGED <<verdicts, stopped>>

CrashWorkers ==
  /\ OrchestratorDies
  /\ verdicts' = [p \in Procs |-> IF p \in Begun /\ verdicts[p] = Nil THEN "lost" ELSE verdicts[p]]
  /\ UNCHANGED <<stopped, request>>

ExecutionNext ==
  \/ ProcessStep /\ UNCHANGED worker
  \/ CancelJob \/ CrashWorkers
  \/ \E p \in Procs : Conclude(p)

ExecutionSpec == ExecutionInit /\ [][ExecutionNext]_<<processVars, worker>>

\* Timers fire, a child that is sent the forced signal dies, and what its end has started is
\* carried on. Nothing else ends a child.
Progress(p) ==
  \/ (TimeoutFires(p) \/ ForceKill(p) \/ Close(p) \/ PersistFinal(p)) /\ UNCHANGED worker
  \/ proc[p].killed /\ Exit(p) /\ UNCHANGED worker
  \/ Conclude(p)

FairExecution == ExecutionSpec /\ \A p \in Procs : WF_<<processVars, worker>>(Progress(p))

-----------------------------------------------------------------------------
(* Properties.                                                             *)

\* An attempt that was asked to terminate, by whomever, and left nothing of its own is never an
\* ordinary failure nor a success, over all the layers its outcome passes: the job is cancelled,
\* or it counts as timed out when its own timer or its own stall has asked.
AcceptedTerminationShows ==
  \A p \in Procs :
    p \in stopped =>
      \/ verdicts[p] = "cancelled"
      \/ proc[p].flagged /\ verdicts[p] \in {"retriable", "blocked"}
      \/ proc[p].flagged /\ verdicts[p] = "failed" /\ p >= Budget

\* Every attempt comes to an end and is disposed of, even if its child ignores everything but the
\* forced signal, unless the orchestrator dies with it, two processes of the job overlap, or the
\* child leaves a process behind that never closes its pipes: that attempt is waited for for ever.
EveryAttemptIsDisposed ==
  <>[](overlapped \/ \A p \in Begun : verdicts[p] # Nil \/ proc[p].held)
=============================================================================
