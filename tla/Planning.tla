------------------------------ MODULE Planning ------------------------------
(***************************************************************************)
(* The planning lane of one run: three phases, each requested from ChatGPT, *)
(* finalized from the conversation and applied to the run.                 *)
(*                                                                         *)
(* Everything is a call of the API, by a script, the sweeper's route or a  *)
(* person, and nothing locks: calls overlap as they like. A call is a      *)
(* chain of file accesses and bridge calls; another call, the bridge or    *)
(* the death of the process may come between any two of them. What a call  *)
(* has read it keeps. Freezes and task graphs may also be put directly,    *)
(* past the lane.                                                          *)
(***************************************************************************)
EXTENDS Conversations, Naturals, FiniteSets

CONSTANTS
  MaxCallers,   \* bound: calls in progress at a time
  MaxCalls,     \* bound: calls made in all
  Asked,        \* bound: the phases that calls are about
  Posted,       \* what freezes and graphs that are put directly may be: of "valid", "thin"
  Starts,       \* the stages the run may be in at first (earlier freezes were put directly)
  Restarts,     \* may the bridge restart
  MaxTroubles   \* bound: deaths of the orchestrator, restarts of the bridge and failing
                \* bridge calls, together

Requirement == "requirement_freeze"
Architecture == "architecture_freeze"
Graph == "task_graph_generation"
Phases == {Requirement, Architecture, Graph}

Stages == <<"intake", "requirement_frozen", "architecture_frozen", "foundation_ready">>
Ordinal(stg) == CHOOSE n \in 1 .. 4 : Stages[n] = stg
PhaseOf == <<Requirement, Architecture, Graph>>
Number(p) == CHOOSE n \in 1 .. 3 : PhaseOf[n] = p
Target(p) == Stages[Number(p) + 1]

\* "valid"; "thin": it normalizes, but the sufficiency gate is not satisfied; "repairable":
\* the registered repair makes it valid; "stubborn": not even after the repair; "fatal".
Payloads == {"valid", "thin", "repairable", "stubborn", "fatal"}
Normalizes(payload) == payload \in {"valid", "thin"}
\* classifyPlanningApplyError knows repairs of architectures and task graphs.
Repairable(p, payload) == p # Requirement /\ payload \in {"repairable", "stubborn"}
Repaired(payload) == IF payload = "repairable" THEN "valid" ELSE "fatal"

RequestStates == [status : {"requested", "waiting"}, conv : Convs \cup {None}]
FinalizeStates == [status : {"requested", "waiting", "materializing", "materialized", "applied"},
                   remediationAttempted : BOOLEAN, recoveryAttempted : BOOLEAN]
Results == [conv : Convs, payload : Payloads, normalized : BOOLEAN]
Callers == 1 .. MaxCallers
Steps == {"seed", "start", "link", "waiting", "state", "persist", "wait", "recover", "export", "extract",
          "remind", "result", "repair", "normalize", "gate", "run", "freeze", "tasks", "stage"}
Calls == [phase : Phases, at : Steps, conv : Convs \cup {None}, state : FinalizeStates \cup {None},
          next : Steps \cup {None}, again : BOOLEAN, payload : Payloads \cup {None}]

ASSUME PlanningAssumption ==
  /\ Structured \subseteq Payloads
  /\ MaxCallers \in Nat \ {0} /\ MaxCalls \in Nat /\ Asked \subseteq Phases
  /\ Posted \subseteq {"valid", "thin"} /\ Posted # {}
  /\ Starts \subseteq {Stages[n] : n \in 1 .. 3}
  /\ Restarts \in BOOLEAN /\ MaxTroubles \in Nat
ASSUME PlanningNoneAssumption ==
  None \notin Convs \cup RequestStates \cup FinalizeStates \cup Results \cup Calls \cup Payloads

VARIABLES
  stage,      \* run.json: the stage of the run
  freeze,     \* requirement-freeze.json, architecture-freeze.json, task-graph.json: what is in it
  tasks,      \* have the task files of the graph been written
  request,    \* request-runtime-state.json of each phase
  link,       \* conversation-link.json of each phase
  finalize,   \* finalize-runtime-state.json of each phase
  result,     \* materialized-result.json of each phase
  call,       \* the call each caller has in progress, or None
  overlapped, \* the phases whose latest requests were in progress at a time (history)
  made,       \* calls so far (bookkeeping for MaxCalls)
  troubles    \* so far (bookkeeping for MaxTroubles)

files == <<stage, freeze, tasks, request, link, finalize, result>>
vars == <<conversations, files, call, overlapped, made, troubles>>

TypeOK ==
  /\ ConversationsTypeOK
  /\ stage \in {Stages[n] : n \in 1 .. 4}
  /\ freeze \in [Phases -> {"valid", "thin", None}]
  /\ tasks \in BOOLEAN
  /\ request \in [Phases -> RequestStates \cup {None}]
  /\ link \in [Phases -> Convs \cup {None}]
  /\ finalize \in [Phases -> FinalizeStates \cup {None}]
  /\ result \in [Phases -> Results \cup {None}]
  /\ call \in [Callers -> Calls \cup {None}]
  /\ overlapped \subseteq Phases
  /\ made \in 0 .. MaxCalls
  /\ troubles \in 0 .. MaxTroubles

Init ==
  /\ ConversationsInit
  /\ stage \in Starts
  /\ freeze \in {f \in [Phases -> Posted \cup {None}] :
                 \A p \in Phases : f[p] = None <=> Ordinal(stage) <= Number(p)}
  /\ tasks = FALSE
  /\ request = [p \in Phases |-> None]
  /\ link = [p \in Phases |-> None]
  /\ finalize = [p \in Phases |-> None]
  /\ result = [p \in Phases |-> None]
  /\ call = [k \in Callers |-> None]
  /\ overlapped = {}
  /\ made = 0
  /\ troubles = 0

-----------------------------------------------------------------------------
(* Calls.                                                                  *)

\* A call has the first free number.
Free(k) == call[k] = None /\ \A j \in Callers : j < k => call[j] # None
At(k, step) == call[k] # None /\ call[k].at = step
Goto(k, step) == call' = [call EXCEPT ![k].at = step]
Return(k) == call' = [call EXCEPT ![k] = None]
NewCall(p, step) ==
  [phase |-> p, at |-> step, conv |-> None, state |-> None, next |-> None,
   again |-> FALSE, payload |-> None]
Start(k, new) ==
  /\ made < MaxCalls /\ made' = made + 1
  /\ call' = [call EXCEPT ![k] = new]
  /\ UNCHANGED <<conversations, files, troubles>>

\* The call writes state to finalize-runtime-state.json and goes on with next.
Persisting(k, state, next) ==
  call' = [call EXCEPT ![k].at = "persist", ![k].state = state, ![k].next = next]
Status(state, to) == [state EXCEPT !.status = to]
Reminded(state) == [state EXCEPT !.remediationAttempted = TRUE]
Recovered(state) == [state EXCEPT !.recoveryAttempted = TRUE]

Trouble == troubles < MaxTroubles /\ troubles' = troubles + 1
Fine == UNCHANGED troubles
Same == UNCHANGED <<overlapped, made>>

\* persistFinalizeRuntimeState: the state a call was working with replaces the file, as a
\* whole, whatever has been written meanwhile. next = None: that was its last step.
Persist(k) ==
  /\ At(k, "persist")
  /\ finalize' = [finalize EXCEPT ![call[k].phase] = call[k].state]
  /\ IF call[k].next = None THEN Return(k)
     ELSE call' = [call EXCEPT ![k].at = call[k].next, ![k].next = None]
  /\ UNCHANGED <<conversations, stage, freeze, tasks, request, link, result>>
  /\ Fine /\ Same

-----------------------------------------------------------------------------
(* requestPhase.                                                           *)

FreezesFor(p) == \A q \in Phases : Number(q) < Number(p) => freeze[q] # None

\* Mutant: only an applied phase is not requested again.
AlreadyRequestedApplied(p) ==
  /\ request[p] # None /\ request[p].conv # None
  /\ finalize[p] # None /\ finalize[p].status = "applied"

\* A request that has its conversation is not made again.
AlreadyRequested(p) ==
  /\ request[p] # None /\ request[p].conv # None
  /\ \/ request[p].status = "waiting"
     \/ finalize[p] # None /\ finalize[p].status = "applied"

Requests(p) ==
  {k \in Callers : /\ At(k, "seed") \/ At(k, "start") \/ At(k, "link") \/ At(k, "waiting")
                   /\ call[k].phase = p}
Expected == {k \in Callers : At(k, "seed") \/ At(k, "start")}

\* The check and what follows from it are apart: a request that finds none before it may have
\* one beside it.  The conversation id it has read stays with it.  (Bounded by Convs.)
RequestPhase(k, p) ==
  /\ Free(k)
  /\ FreezesFor(p) /\ ~AlreadyRequested(p)
  /\ Cardinality(Unused) > Cardinality(Expected)
  /\ Start(k, [NewCall(p, "seed") EXCEPT
                !.conv = IF request[p] = None THEN None ELSE request[p].conv])
  /\ overlapped' = IF Requests(p) = {} THEN overlapped \ {p} ELSE overlapped \cup {p}

\* The runtime state replaces what is on file, whatever that is by now.
SaveRequest(k, status) ==
  /\ request' = [request EXCEPT ![call[k].phase] = [status |-> status, conv |-> call[k].conv]]
  /\ UNCHANGED <<stage, freeze, tasks, link, finalize, result>>

\* The state is written before the bridge is called.
Seed(k) ==
  /\ At(k, "seed")
  /\ SaveRequest(k, "requested")
  /\ Goto(k, "start")
  /\ UNCHANGED conversations /\ Fine /\ Same

\* openSession, selectProject and startConversation.
Begin(k) ==
  /\ At(k, "start")
  /\ \E c \in Unused :
       /\ c = CHOOSE d \in Unused : TRUE
       /\ StartConversation(c)
       /\ call' = [call EXCEPT ![k].at = "link", ![k].conv = c]
  /\ UNCHANGED files /\ Fine /\ Same

\* One of the three fails: the seeded state is written again, and the request fails.
BeginFails(k) ==
  /\ At(k, "start")
  /\ Trouble
  /\ SaveRequest(k, "requested")
  /\ Return(k)
  /\ UNCHANGED conversations /\ Same

\* saveConversationLink comes before the state that says the same.
Link(k) ==
  /\ At(k, "link")
  /\ link' = [link EXCEPT ![call[k].phase] = call[k].conv]
  /\ Goto(k, "waiting")
  /\ UNCHANGED <<conversations, stage, freeze, tasks, request, finalize, result>>
  /\ Fine /\ Same

AwaitAnswer(k) ==
  /\ At(k, "waiting")
  /\ SaveRequest(k, "waiting")
  /\ Return(k)
  /\ UNCHANGED conversations /\ Fine /\ Same

-----------------------------------------------------------------------------
(* finalizePhase, of one phase or, by the sweeper, of those it has listed. *)

\* createFinalizeStateFromRequest.
FromRequest(p) ==
  [status |-> request[p].status, remediationAttempted |-> FALSE, recoveryAttempted |-> FALSE]

\* A phase that has its materialized result is returned as it is.
FinalizePhase(k, p) ==
  /\ Free(k)
  /\ request[p] # None /\ result[p] = None
  /\ Start(k, [NewCall(p, "state") EXCEPT !.conv = request[p].conv])
  /\ UNCHANGED overlapped

\* Mutant: a phase that is being materialized is left to whoever does it.
ReadFinalizeUnlessMaterializing(k) ==
  /\ At(k, "state")
  /\ LET p == call[k].phase
         state == IF finalize[p] = None THEN FromRequest(p) ELSE finalize[p]
     IN Persisting(k, state, IF call[k].conv # None /\ state.status \in {"waiting", "requested"}
                             THEN "wait" ELSE None)
  /\ UNCHANGED <<conversations, files>> /\ Fine /\ Same

\* A phase without a conversation stays pending.
ReadFinalize(k) ==
  /\ At(k, "state")
  /\ LET p == call[k].phase
         state == IF finalize[p] = None THEN FromRequest(p) ELSE finalize[p]
     IN Persisting(k, state, IF call[k].conv = None THEN None
                             ELSE IF state.status \in {"waiting", "requested"} THEN "wait"
                             ELSE "export")
  /\ UNCHANGED <<conversations, files>> /\ Fine /\ Same

\* After the first wait the markdown is exported; the wait of a reminder is followed by the
\* extraction.
AfterWait(k) == IF call[k].again THEN "extract" ELSE "export"

\* waitForConversationCompletion.
WaitReturns(k) ==
  /\ At(k, "wait")
  /\ WaitForCompletion(call[k].conv)
  /\ Persisting(k, Status(call[k].state, "materializing"), AfterWait(k))
  /\ UNCHANGED files /\ Fine /\ Same

\* It fails: the bridge has no such conversation, the answer takes too long, a fault. One
\* recovery is tried, then the phase stays pending.
WaitFails(k) ==
  /\ At(k, "wait")
  /\ LET c == call[k].conv IN
     \/ record[c] = None /\ Fine /\ UNCHANGED conversations
     \/ chat[c].turn # "finished" /\ Fine /\ PollStatus(c)
     \/ Trouble /\ UNCHANGED conversations
  /\ IF call[k].state.recoveryAttempted THEN Persisting(k, Status(call[k].state, "waiting"), None)
     ELSE Goto(k, "recover")
  /\ UNCHANGED files /\ Same

RecoverConversation(k) ==
  /\ At(k, "recover")
  /\ Recover(call[k].conv)
  /\ IF LooksCompleted(call[k].conv)
     THEN Persisting(k, Recovered(Status(call[k].state, "materializing")), AfterWait(k))
     ELSE Persisting(k, Recovered(Status(call[k].state, "waiting")), None)
  /\ UNCHANGED files /\ Fine /\ Same

RecoverFails(k) ==
  /\ At(k, "recover")
  /\ Trouble
  /\ Persisting(k, Status(call[k].state, "waiting"), None)
  /\ UNCHANGED <<conversations, files>> /\ Same

\* The phase stays pending, as materializing.
Postpone(k) == Persisting(k, Status(call[k].state, "materializing"), None)

ExportMarkdown(k) ==
  /\ At(k, "export")
  /\ record[call[k].conv] # None
  /\ Goto(k, "extract")
  /\ UNCHANGED <<conversations, files>> /\ Fine /\ Same

\* The export or the extraction fails for another reason than a missing JSON block.
ReadingFails(k) ==
  /\ At(k, "export") \/ At(k, "extract")
  /\ \/ record[call[k].conv] = None /\ Fine
     \/ Trouble
  /\ Postpone(k)
  /\ UNCHANGED <<conversations, files>> /\ Same

\* extractStructuredOutput.
Extract(k) ==
  /\ At(k, "extract")
  /\ record[call[k].conv] \in Structured
  /\ call' = [call EXCEPT ![k].at = "result", ![k].payload = record[call[k].conv]]
  /\ UNCHANGED <<conversations, files>> /\ Fine /\ Same

\* No JSON block: one reminder is sent on the same conversation, its flag saved before.
ExtractNothing(k) ==
  /\ At(k, "extract")
  /\ record[call[k].conv] \in {"prose", "silent"}
  /\ IF call[k].state.remediationAttempted THEN Postpone(k)
     ELSE Persisting(k, Reminded(Status(call[k].state, "materializing")), "remind")
  /\ UNCHANGED <<conversations, files>> /\ Fine /\ Same

Remind(k) ==
  /\ At(k, "remind")
  /\ SendMessage(call[k].conv)
  /\ call' = [call EXCEPT ![k].at = "persist", ![k].next = "wait", ![k].again = TRUE,
                          ![k].state = Reminded(Status(@, "waiting"))]
  /\ UNCHANGED files /\ Fine /\ Same

\* sendMessage fails, perhaps after the reminder was submitted: nothing tells.
RemindFails(k) ==
  /\ At(k, "remind")
  /\ \/ record[call[k].conv] = None /\ Fine /\ UNCHANGED conversations
     \/ Trouble /\ SendMessageFails(call[k].conv)
  /\ Postpone(k)
  /\ UNCHANGED files /\ Same

SaveResult(k) ==
  /\ At(k, "result")
  /\ result' = [result EXCEPT ![call[k].phase] =
       [conv |-> call[k].conv, payload |-> call[k].payload, normalized |-> FALSE]]
  /\ Persisting(k, Status(call[k].state, "materialized"), None)
  /\ UNCHANGED <<conversations, stage, freeze, tasks, request, link, finalize>>
  /\ Fine /\ Same

-----------------------------------------------------------------------------
(* applyPhase and the freeze of its result, or of one that is put directly. *)

ApplyPhase(k, p) ==
  /\ Free(k)
  /\ result[p] # None /\ finalize[p] # None
  /\ LET payload == result[p].payload
         new == [NewCall(p, "normalize") EXCEPT !.state = finalize[p], !.payload = payload,
                                                !.conv = result[p].conv]
     IN Start(k, IF Normalizes(payload) THEN new
                 ELSE IF Repairable(p, payload)
                      THEN [new EXCEPT !.at = "repair", !.payload = Repaired(payload)]
                 ELSE [new EXCEPT !.at = "persist"])
  /\ UNCHANGED overlapped

\* The repaired payload is normalized in its turn, or the application fails for good.
AfterRepair(payload) == IF Normalizes(payload) THEN "normalize" ELSE None

\* tryRepairPlanningApplyError: the repaired payload replaces the materialized one; then the
\* finalize state is written with the remediation flag.
Repair(k) ==
  /\ At(k, "repair")
  /\ LET p == call[k].phase IN
     result' = [result EXCEPT ![p] =
       [conv |-> call[k].conv, payload |-> call[k].payload, normalized |-> FALSE]]
  /\ Persisting(k, Reminded(call[k].state), AfterRepair(call[k].payload))
  /\ UNCHANGED <<conversations, stage, freeze, tasks, request, link, finalize>>
  /\ Fine /\ Same

\* The normalized result is saved.
Normalize(k) ==
  /\ At(k, "normalize")
  /\ LET p == call[k].phase IN
     /\ result' = [result EXCEPT ![p] =
          [conv |-> call[k].conv, payload |-> call[k].payload, normalized |-> TRUE]]
     /\ Goto(k, IF p = Graph THEN "gate" ELSE "run")
  /\ UNCHANGED <<conversations, stage, freeze, tasks, request, link, finalize>>
  /\ Fine /\ Same

Sufficient == freeze[Requirement] = "valid" /\ freeze[Architecture] = "valid"
\* checkPlanningSufficiency, of the two freezes on file and the new graph.
CheckPlanningSufficiency(graph) == Sufficient /\ graph = "valid"

\* A graph that is not sufficient is not registered.
Gate(k) ==
  /\ At(k, "gate")
  /\ IF CheckPlanningSufficiency(call[k].payload) THEN Goto(k, "run")
     ELSE Return(k)
  /\ UNCHANGED <<conversations, files>> /\ Fine /\ Same

\* A freeze or a graph is put directly: nothing is asked of ChatGPT, nor of the gate.
PutDirectly(k, p) ==
  /\ Free(k)
  /\ \E payload \in Posted : Start(k, [NewCall(p, "run") EXCEPT !.payload = payload])
  /\ UNCHANGED overlapped

PreviousFreeze(p) == \A q \in Phases : Number(q) = Number(p) - 1 => freeze[q] # None
\* assertRunStageTransition: to the next stage, or to the same one again.
MayMove(p) == stage \in {Stages[Number(p)], Target(p)}

\* The run is read here and saved below, whatever another call has made of it in between.
ReadRun(k) ==
  /\ At(k, "run")
  /\ IF MayMove(call[k].phase) /\ PreviousFreeze(call[k].phase)
     THEN Goto(k, "freeze") ELSE Return(k)
  /\ UNCHANGED <<conversations, files>> /\ Fine /\ Same

\* Mutant: the run is founded before its task files are written.
SaveFreezeTasksLast(k) ==
  /\ At(k, "freeze")
  /\ freeze' = [freeze EXCEPT ![call[k].phase] = call[k].payload]
  /\ Goto(k, "stage")
  /\ UNCHANGED <<conversations, stage, tasks, request, link, finalize, result>>
  /\ Fine /\ Same

SaveFreeze(k) ==
  /\ At(k, "freeze")
  /\ freeze' = [freeze EXCEPT ![call[k].phase] = call[k].payload]
  /\ Goto(k, IF call[k].phase = Graph THEN "tasks" ELSE "stage")
  /\ UNCHANGED <<conversations, stage, tasks, request, link, finalize, result>>
  /\ Fine /\ Same

SaveTasks(k) ==
  /\ At(k, "tasks")
  /\ tasks' = TRUE
  /\ Goto(k, "stage")
  /\ UNCHANGED <<conversations, stage, freeze, request, link, finalize, result>>
  /\ Fine /\ Same

MarkPlanningApplied(k) == Persisting(k, Status(call[k].state, "applied"), None)

\* The run is saved; what is left of an application is to mark the phase.
SaveRun(k) ==
  /\ At(k, "stage")
  /\ stage' = Target(call[k].phase)
  /\ IF call[k].state = None THEN Return(k) ELSE MarkPlanningApplied(k)
  /\ UNCHANGED <<conversations, freeze, tasks, request, link, finalize, result>>
  /\ Fine /\ Same

-----------------------------------------------------------------------------
(* The environment.                                                        *)

\* The orchestrator dies: calls in progress are gone, files stay.
Crash ==
  /\ Trouble
  /\ \E k \in Callers : call[k] # None
  /\ call' = [k \in Callers |-> None]
  /\ UNCHANGED <<conversations, files, overlapped, made>>

Restart ==
  /\ Restarts /\ Trouble
  /\ BridgeRestart
  /\ UNCHANGED <<files, call, overlapped, made>>

ChatGPT ==
  /\ \E c \in Convs : Reply(c)
  /\ UNCHANGED <<files, call>> /\ Fine /\ Same

Requesting(k) == Seed(k) \/ Begin(k) \/ BeginFails(k) \/ Link(k) \/ AwaitAnswer(k)
Finalizing(k) ==
  \/ ReadFinalize(k) \/ WaitReturns(k) \/ WaitFails(k)
  \/ RecoverConversation(k) \/ RecoverFails(k)
  \/ ExportMarkdown(k) \/ ReadingFails(k) \/ Extract(k) \/ ExtractNothing(k)
  \/ Remind(k) \/ RemindFails(k) \/ SaveResult(k)
Applying(k) ==
  Repair(k) \/ Normalize(k) \/ Gate(k) \/ ReadRun(k) \/ SaveFreeze(k) \/ SaveTasks(k) \/ SaveRun(k)
GoOn(k) == Persist(k) \/ Requesting(k) \/ Finalizing(k) \/ Applying(k)

Next ==
  \/ \E k \in Callers, p \in Asked :
       RequestPhase(k, p) \/ FinalizePhase(k, p) \/ ApplyPhase(k, p) \/ PutDirectly(k, p)
  \/ \E k \in Callers : GoOn(k)
  \/ ChatGPT \/ Crash \/ Restart

Spec == Init /\ [][Next]_vars

\* Calls that are in progress go on, and ChatGPT answers what it is asked. Nobody has to make
\* another call: no timer finalizes a phase.
Fairness ==
  /\ WF_vars(ChatGPT)
  /\ \A k \in Callers : WF_vars(GoOn(k))
FairSpec == Spec /\ Fairness

-----------------------------------------------------------------------------
(* Properties.                                                             *)

\* The stage of the run never runs ahead of the files it stands for: whatever a crash cuts
\* off, and whatever overlapping calls save of a run they have read before, a frozen run has
\* its freezes and a founded run its task graph and task files.
StageIsBacked ==
  /\ \A p \in Phases : Ordinal(stage) > Number(p) => freeze[p] # None
  /\ stage = "foundation_ready" => tasks

\* What planning-proof-and-sufficiency-gate.md says: registration of a task graph is blocked
\* until planning passes the gate.  The code does not keep it (run PlanningUngated): a graph
\* that is put directly is registered without the gate.
Registering(k) == At(k, "tasks") \/ (At(k, "stage") /\ call[k].phase = Graph)
GraphIsSufficient ==
  (\E k \in Callers : Registering(k)) => Sufficient /\ freeze[Graph] = "valid"

\* A phase that is linked to a conversation stays with it, and its link file names the same one:
\* no retry, finalization, application, failure or death opens another conversation for it.
\* Only requests that are in progress at a time do: nothing keeps them apart, and until the
\* last of them has ended each may take the phase away from the conversation of another, and
\* leave the link file with a third.
Linked(p) == request[p] # None /\ request[p].conv # None
Racing(p) == p \in overlapped /\ Requests(p) # {}
LinkIsKept ==
  [][\A p \in Phases :
       Linked(p) /\ ~Racing(p) =>
         /\ request'[p] # None /\ request'[p].conv = request[p].conv
         /\ p \notin overlapped => link'[p] = request[p].conv]_vars

Answered(c) == chat[c].turn = "finished" /\ chat[c].answer \in Structured
ReminderSpent(p) == finalize[p] # None /\ finalize[p].remediationAttempted
Finalizes(k, p) == At(k, "state") /\ call[k].phase = p /\ call[k].conv # None

\* A finalization that begins when a structured answer stands finished on the page of its
\* conversation, which the bridge remembers, ends with the materialized result, whatever other
\* calls do meanwhile and have left of earlier attempts, if nothing fails from then on (no
\* troubles are left), unless the phase has spent its reminder.
AnswerIsMaterialized ==
  \A p \in Asked :
    (/\ troubles = MaxTroubles
     /\ \E k \in Callers : /\ Finalizes(k, p) /\ Answered(call[k].conv)
                            /\ record[call[k].conv] # None)
      ~> (result[p] # None \/ ReminderSpent(p))
=============================================================================
