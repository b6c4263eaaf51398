------------------------------- MODULE Campaign -------------------------------
(***************************************************************************)
(* The self-improvement driver, scripts/run-real-self-improvement.ts: one  *)
(* invocation after the other picks a goal from todolist.md, makes a run   *)
(* for it or resumes one, drives the planning of the run and, if it        *)
(* governs a campaign, waits for the run to end and goes on to the next    *)
(* goal.  An invocation may die at any step; what the next one knows is in *)
(* two kinds of files, neither written atomically: the goal of a run and   *)
(* the state of the campaign.                                              *)
(*                                                                         *)
(* A run of the orchestrator is what the driver sees of it: the phases it  *)
(* has requested and applied, the stage and the acceptance artifact.  The  *)
(* program has a bounded profile for one todo item; Registered says which  *)
(* items have one.  Failing HTTP calls end the invocation as deaths do.    *)
(***************************************************************************)
EXTENDS Integers, Sequences, FiniteSetsExt

CONSTANTS
  Todos,           \* the items of the Ordered Execution Queue: their numbers, in order
  Registered,      \* those with a bounded profile
  Caps,            \* values of --iteration-cap
  Phases,          \* how many planning phases a run has
  MaxRuns,         \* bounds
  MaxInvocations,
  MaxDeaths,       \* invocations that die
  None, Torn       \* no file, a file that does not parse

Bootstrap == 0     \* the todo id of the legacy profile
Goals == Todos \cup {Bootstrap}
Runs == 1 .. MaxRuns

ASSUME CampaignAssumption ==
  /\ Todos \subseteq Nat \ {0} /\ Registered \subseteq Todos
  /\ Caps \subseteq Nat \ {0}
  /\ {Phases, MaxRuns, MaxInvocations, MaxDeaths} \subseteq Nat
  /\ None # Torn /\ {None, Torn} \cap Goals = {}

VARIABLES
  unchecked,  \* todolist.md
  runs,       \* of the orchestrator: their planning, stage and artifact
  goalFile,   \* runs/<id>/self-improvement-goal.json
  campaign,   \* campaigns/<id>.json
  script,     \* the invocation in progress
  spoilt,     \* runs whose goal file was torn (history)
  automatic,  \* iterations of the campaign no operator named a run for (history)
  highest,    \* the highest cap the campaign was given (history)
  invocations, deaths     \* so far (bookkeeping for the bounds)

bookkeeping == <<spoilt, automatic, highest, invocations, deaths>>
campaignVars == <<unchecked, runs, goalFile, campaign, script, bookkeeping>>

Run == [asked : Seq(Goals), applied : 0 .. Phases, accepted : BOOLEAN, evidence : BOOLEAN]
Entry == [run : Runs, goal : Goals, done : BOOLEAN]
State == [cap : Caps, started : Nat, active : Runs \cup {None}, history : Seq(Entry)]
Steps == {"load", "resolve", "stop", "open", "goal", "begin", "plan", "finalize", "apply", "watch", "finish"}
Script ==
  [at : Steps, mode : {"plain", "govern", "prepare"}, cap : Caps,
   given : BOOLEAN,                  \* the operator named the run
   todo : Todos \cup {None},         \* --goal-todo-id
   run : Runs \cup {None}, goal : Goals \cup {None},
   known : State \cup {None},        \* campaignState
   next : Todos \cup {None},         \* nextGoalProfile
   passed : SUBSET Runs]             \* the runs it has gone on from (history)

CampaignTypeOK ==
  /\ unchecked \subseteq Todos
  /\ runs \in Seq(Run) /\ Len(runs) <= MaxRuns
  /\ goalFile \in [Runs -> Goals \cup {None, Torn}]
  /\ campaign \in State \cup {None, Torn}
  /\ script \in Script \cup {None}
  /\ spoilt \subseteq Runs
  /\ {automatic, highest} \subseteq Nat
  /\ invocations \in 0 .. MaxInvocations /\ deaths \in 0 .. MaxDeaths

CampaignInit ==
  /\ unchecked = Todos
  /\ runs = <<>>
  /\ goalFile = [r \in Runs |-> None]
  /\ campaign = None
  /\ script = None
  /\ spoilt = {} /\ automatic = 0 /\ highest = 0 /\ invocations = 0 /\ deaths = 0

Governed == script.mode # "plain"
Go(step) == script' = [script EXCEPT !.at = step]
End == script' = None

\* One invocation, with its options.
Invoke ==
  /\ script = None /\ invocations < MaxInvocations
  /\ \E mode \in {"plain", "govern", "prepare"}, cap \in Caps,
        run \in DOMAIN runs \cup {None}, todo \in Todos \cup {None} :
       script' = [at |-> "load", mode |-> mode, cap |-> cap, given |-> run # None, todo |-> todo,
                  run |-> run, goal |-> None, known |-> None, next |-> None, passed |-> {}]
  /\ invocations' = invocations + 1
  /\ UNCHANGED <<unchecked, runs, goalFile, campaign, spoilt, automatic, highest, deaths>>

-----------------------------------------------------------------------------
(* The choice of the run and its goal.                                      *)

Fresh(cap) == [cap |-> cap, started |-> 0, active |-> None, history |-> <<>>]
Readable == campaign \notin {None, Torn}

\* A file that is missing or does not parse is replaced by a new campaign.
LoadCampaign ==
  /\ script # None /\ script.at = "load"
  /\ IF ~Governed THEN Go("resolve") /\ UNCHANGED <<campaign, automatic, highest>>
     ELSE /\ campaign' = IF Readable THEN [campaign EXCEPT !.cap = script.cap] ELSE Fresh(script.cap)
          /\ script' = [script EXCEPT !.at = "resolve", !.known = campaign',
                          !.run = IF script.given THEN @ ELSE campaign'.active]
          /\ automatic' = IF Readable THEN automatic ELSE 0
          /\ highest' = IF Readable /\ highest > script.cap THEN highest ELSE script.cap
  /\ UNCHANGED <<unchecked, runs, goalFile, spoilt, invocations, deaths>>

History(known) == IF known = None THEN {} ELSE {known.history[n].goal : n \in DOMAIN known.history}

\* The first unchecked item outside the history of the campaign, if there is one.
NextOrdered(excluded) ==
  IF unchecked \ excluded = {} THEN {} ELSE {Min(unchecked \ excluded)}

\* The named item, checked or not.
TodoById(todo) == {todo} \cap Todos

\* The goal of a run that is resumed: the bootstrap goal if its file cannot be read, none if the
\* file names a goal without a profile, as that of a bootstrap run does.
PersistedGoal(r) ==
  IF goalFile[r] \in {None, Torn} THEN {Bootstrap} ELSE {goalFile[r]} \cap Registered

\* A plausible bug: a resumed run gets the next goal instead of its own.
ReselectGoal == NextOrdered(History(script.known)) \cap Registered
\* The goals the resolution may come to: none if it throws.
ResolveGoal ==
  IF script.run # None THEN PersistedGoal(script.run)
  ELSE Registered \cap
         (IF script.todo # None THEN TodoById(script.todo) ELSE NextOrdered(History(script.known)))

\* A plausible bug: off by one.
AtCapOffByOne(known) == known.started > script.cap
AtCap(known) == known.started >= script.cap

\* A run that is named or active is resumed whatever the cap is.
Resolve ==
  /\ script # None /\ script.at = "resolve"
  /\ IF ResolveGoal = {} \/ script.mode = "prepare" THEN End
     ELSE \E g \in ResolveGoal :
       script' = [script EXCEPT !.goal = g,
                    !.at = IF Governed /\ script.run = None /\ AtCap(script.known)
                           THEN "stop" ELSE "open"]
  /\ UNCHANGED <<unchecked, runs, goalFile, campaign, bookkeeping>>

\* The campaign is written again, with the reason to stop.
Stop ==
  /\ script # None /\ script.at = "stop"
  /\ campaign' = script.known /\ End
  /\ UNCHANGED <<unchecked, runs, goalFile, bookkeeping>>

NewRun == [asked |-> <<>>, applied |-> 0, accepted |-> FALSE, evidence |-> FALSE]

\* getRun or createRun.
Open ==
  /\ script # None /\ script.at = "open"
  /\ IF script.run # None THEN Go("goal") /\ UNCHANGED runs
     ELSE /\ Len(runs) < MaxRuns
          /\ runs' = Append(runs, NewRun)
          /\ script' = [script EXCEPT !.at = "goal", !.run = Len(runs')]
  /\ UNCHANGED <<unchecked, goalFile, campaign, bookkeeping>>

\* What comes after the run is there: its goal is written, also when it is resumed, and after
\* it the iteration.
AfterOpen == IF Governed THEN "begin" ELSE "plan"

PersistGoal ==
  /\ script # None /\ script.at = "goal"
  /\ goalFile' = [goalFile EXCEPT ![script.run] = script.goal]
  /\ Go(AfterOpen)
  /\ UNCHANGED <<unchecked, runs, campaign, bookkeeping>>

Unfinished(known, r) == \E n \in DOMAIN known.history :
  known.history[n].run = r /\ ~known.history[n].done

\* An iteration that was begun with this run and not finished is resumed; otherwise it is a
\* new one, and counts.
BeginIteration ==
  /\ script # None /\ script.at = "begin"
  /\ LET resumed == Unfinished(script.known, script.run)
         entry == [run |-> script.run, goal |-> script.goal, done |-> FALSE]
     IN
     /\ campaign' =
          IF resumed THEN [script.known EXCEPT !.active = script.run]
          ELSE [script.known EXCEPT !.active = script.run, !.started = @ + 1,
                                    !.history = Append(@, entry)]
     /\ automatic' = IF resumed \/ script.given THEN automatic ELSE automatic + 1
  /\ script' = [script EXCEPT !.at = "plan", !.known = campaign']
  /\ UNCHANGED <<unchecked, runs, goalFile, spoilt, highest, invocations, deaths>>

-----------------------------------------------------------------------------
(* The planning of the run, phase after phase.                              *)

\* A phase that has been requested keeps its conversation, and the goal it was asked under.
RequestPhase ==
  /\ script # None /\ script.at = "plan"
  /\ LET run == runs[script.run] IN
     /\ run.applied < Phases
     /\ runs' = IF Len(run.asked) > run.applied THEN runs
                ELSE [runs EXCEPT ![script.run].asked = Append(@, script.goal)]
  /\ Go("finalize")
  /\ UNCHANGED <<unchecked, goalFile, campaign, bookkeeping>>

\* The materialized result of the phase is there in the end, in its file or in an answer;
\* a driver that gives up waiting throws.
FinalizePhase ==
  /\ script # None /\ script.at = "finalize"
  /\ Go("apply")
  /\ UNCHANGED <<unchecked, runs, goalFile, campaign, bookkeeping>>

\* Within the scope and sufficient: anything else throws.
ApplyPhase ==
  /\ script # None /\ script.at = "apply"
  /\ runs' = [runs EXCEPT ![script.run].applied = @ + 1]
  /\ Go("plan")
  /\ UNCHANGED <<unchecked, goalFile, campaign, bookkeeping>>

\* The run starts by itself; only a governed one is waited for.
Planned ==
  /\ script # None /\ script.at = "plan" /\ runs[script.run].applied = Phases
  /\ IF Governed THEN Go("watch") ELSE End
  /\ UNCHANGED <<unchecked, runs, goalFile, campaign, bookkeeping>>

\* The orchestrator saves the accepted run before the artifact of its acceptance, which a
\* crash in between leaves out for ever.
AcceptRun(r) ==
  /\ runs[r].applied = Phases /\ ~runs[r].accepted
  /\ runs' = [runs EXCEPT ![r].accepted = TRUE]
  /\ UNCHANGED <<unchecked, goalFile, campaign, script, bookkeeping>>

SaveAcceptance(r) ==
  /\ runs[r].accepted /\ ~runs[r].evidence
  /\ runs' = [runs EXCEPT ![r].evidence = TRUE]
  /\ UNCHANGED <<unchecked, goalFile, campaign, script, bookkeeping>>

-----------------------------------------------------------------------------
(* The end of an iteration.                                                 *)

\* A plausible bug: the stage alone decides.
ClassifyByStage(r) == {IF runs[r].accepted THEN "accepted" ELSE "manual_attention_required"}

\* The outcomes a reading of the run may be classified as.  A run that is not accepted may
\* look stalled, if only in the gap between two of its jobs.
Classify(r) ==
  IF runs[r].accepted THEN {o \in {"accepted"} : runs[r].evidence}
  ELSE {"manual_attention_required"}

NextGoal == NextOrdered(History(script.known)) \cap Registered

\* An accepted run is followed by the next goal, if the cap allows one and there is one.
Watch ==
  /\ script # None /\ script.at = "watch"
  /\ \E outcome \in Classify(script.run) :
       LET goesOn == outcome = "accepted" /\ ~AtCap(script.known) /\ NextGoal # {} IN
       \E g \in (IF goesOn THEN NextGoal ELSE {None}) :
         script' = [script EXCEPT !.at = "finish", !.next = g]
  /\ UNCHANGED <<unchecked, runs, goalFile, campaign, bookkeeping>>

Finished(known, r) ==
  [known EXCEPT !.active = None,
                !.history = [n \in DOMAIN @ |-> IF @[n].run = r THEN [@[n] EXCEPT !.done = TRUE]
                                                ELSE @[n]]]

FinishIteration ==
  /\ script # None /\ script.at = "finish"
  /\ campaign' = Finished(script.known, script.run)
  /\ IF script.next = None THEN End
     ELSE script' = [script EXCEPT !.at = "open", !.known = campaign', !.given = FALSE,
                       !.todo = None, !.run = None, !.goal = script.next, !.next = None,
                       !.passed = @ \cup {script.run}]
  /\ UNCHANGED <<unchecked, runs, goalFile, bookkeeping>>

\* The invocation dies or a call it makes fails: before, after or amid the file it writes.
Dies ==
  /\ script # None /\ deaths < MaxDeaths
  /\ End
  /\ \/ UNCHANGED <<goalFile, campaign, spoilt>>
     \/ /\ script.at = "goal"
        /\ goalFile' = [goalFile EXCEPT ![script.run] = Torn]
        /\ spoilt' = spoilt \cup {script.run}
        /\ UNCHANGED campaign
     \/ /\ script.at \in {"load", "stop", "begin", "finish"} /\ Governed
        /\ campaign' = Torn
        /\ UNCHANGED <<goalFile, spoilt>>
  /\ deaths' = deaths + 1
  /\ UNCHANGED <<unchecked, runs, automatic, highest, invocations>>

\* Somebody checks an item of todolist.md.
Check ==
  /\ \E t \in unchecked : unchecked' = unchecked \ {t}
  /\ UNCHANGED <<runs, goalFile, campaign, script, bookkeeping>>

CampaignNext ==
  \/ Invoke \/ LoadCampaign \/ Resolve \/ Stop \/ Open \/ PersistGoal \/ BeginIteration
  \/ RequestPhase \/ FinalizePhase \/ ApplyPhase \/ Planned \/ Watch \/ FinishIteration \/ Dies \/ Check
  \/ \E r \in DOMAIN runs : AcceptRun(r) \/ SaveAcceptance(r)

CampaignSpec == CampaignInit /\ [][CampaignNext]_campaignVars

-----------------------------------------------------------------------------
(* What the driver promises.                                                *)

\* One run, one goal: all phases of a run that the campaign counts were planned under the goal
\* of its iteration, however often it died and was resumed, by the campaign or by name.  A
\* death amid the writing of the goal file is the exception: the run goes on as a bootstrap run.
ScopeFollowsGoal ==
  Readable =>
    \A n \in DOMAIN campaign.history :
      LET entry == campaign.history[n] IN
      entry.run \notin spoilt =>
        \A p \in DOMAIN runs[entry.run].asked : runs[entry.run].asked[p] = entry.goal

\* --iteration-cap is the hard stop: the iterations the campaign counts as begun by itself are never
\* more than the highest cap it was given, across invocations, deaths and resumed runs. Two cases
\* are not counted: a death that tears the campaign file ends the campaign and its count, and a run
\* that was created before a death ahead of startCampaignIteration is in no campaign file.
CapIsHard == automatic <= highest

\* The campaign goes on only after a run that is accepted and has the artifact to show for it.
OnlyAcceptanceLeadsOn ==
  script # None => \A r \in script.passed : runs[r].accepted /\ runs[r].evidence
=============================================================================
