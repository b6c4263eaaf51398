--------------------------- MODULE ProcessControl ---------------------------
(***************************************************************************)
(* The child processes of one job, as ProcessControlService controls them: *)
(* a map from the job to its latest process, timers and a stall check per  *)
(* process, signals, and the file of each process handle.                  *)
(*                                                                         *)
(* Attempts of the job follow each other.  Two may also overlap, when      *)
(* drainRun or a reclaim runs the job a second time; the map has room for  *)
(* one of them.                                                            *)
(***************************************************************************)
EXTENDS Integers, FiniteSets

CONSTANTS
  Attempts,     \* bound: runProcess calls for the job
  MaxRunning,   \* how many of them may be in progress at a time
  MaxTroubles,  \* bound: cancellation requests and deaths of the orchestrator
  Nil

Procs == 1 .. Attempts

Outcomes == {"completed", "cancelled", "timeout", "failed_to_start"}
Statuses == {"running", "exited", "terminated", "killed", "failed_to_start"}
Endings == [status : Statuses \ {"running"}, outcome : Outcomes]

ActiveProcess ==
  [child : {"none", "alive", "dead"},
   killed : BOOLEAN,            \* the forced signal is on its way to it
   signal : BOOLEAN,            \* it died of the forced signal
   held : BOOLEAN,              \* what it has started holds its pipes open for good
   finished : BOOLEAN,
   timeout : BOOLEAN,           \* the timeout timer is armed
   stall : {"off", "armed", "checking"},
   kill : BOOLEAN,              \* a force-kill timer is armed
   flagged : BOOLEAN,           \* metadata.timeout of its handle
   requested : BOOLEAN,         \* terminationRequested
   starting : BOOLEAN,          \* the write of the first handle is on its way
   ending : Endings \cup {Nil},   \* the write of the last one is
   result : Outcomes \cup {Nil},  \* what the promise of runProcess came to
   lost : BOOLEAN]              \* the orchestrator that ran it has died

ASSUME ProcessAssumption ==
  /\ Attempts \in Nat \ {0} /\ MaxRunning \in Nat \ {0}
  /\ MaxTroubles \in Nat
  /\ Nil \notin Procs /\ Nil \notin Endings
  /\ Nil \notin Outcomes \cup Statuses

VARIABLES
  proc,        \* what the orchestrator knows of each process, and the process itself
  active,      \* activeProcesses: the process the job is mapped to, or Nil
  file,        \* the status in the file of each handle, or Nil
  up,          \* the orchestrator is running
  troubles,    \* so far (bookkeeping for MaxTroubles)
  overlapped   \* two processes of the job have been in progress at a time (history)

processVars == <<proc, active, file, up, troubles, overlapped>>

ProcessTypeOK ==
  /\ proc \in [Procs -> ActiveProcess]
  /\ active \in Procs \cup {Nil}
  /\ file \in [Procs -> Statuses \cup {Nil}]
  /\ up \in BOOLEAN
  /\ troubles \in 0 .. MaxTroubles
  /\ overlapped \in BOOLEAN

NotStarted ==
  [child |-> "none", killed |-> FALSE, signal |-> FALSE, held |-> FALSE, finished |-> FALSE,
   timeout |-> FALSE, stall |-> "off", kill |-> FALSE, flagged |-> FALSE, requested |-> FALSE,
   starting |-> FALSE, ending |-> Nil, result |-> Nil, lost |-> FALSE]

ProcessInit ==
  /\ proc = [p \in Procs |-> NotStarted]
  /\ active = Nil
  /\ file = [p \in Procs |-> Nil]
  /\ up = TRUE
  /\ troubles = 0
  /\ overlapped = FALSE

-----------------------------------------------------------------------------
(* runProcess.                                                             *)

Begun == {p \in Procs : proc[p] # NotStarted}
InProgress == {p \in Begun : proc[p].result = Nil /\ ~proc[p].lost}
Set(p, new) == proc' = [proc EXCEPT ![p] = new]

\* The next attempt of the job calls runProcess.
Calls(p) ==
  /\ up
  /\ p \notin Begun /\ 1 .. p - 1 \subseteq Begun
  /\ Cardinality(InProgress) < MaxRunning
  /\ overlapped' = (overlapped \/ InProgress # {})

\* Only a runner without a PTY watches for stalls.
Spawn(p) ==
  /\ Calls(p)
  /\ \E watch \in {"off", "armed"} :
       Set(p, [NotStarted EXCEPT !.child = "alive", !.timeout = TRUE, !.stall = watch,
                                 !.starting = TRUE])
  /\ active' = p
  /\ UNCHANGED <<file, up, troubles>>

FailedToStart == [status |-> "failed_to_start", outcome |-> "failed_to_start"]

\* spawn throws, or the child reports an error before anything else happens: it has been in
\* the map by then, and whatever the map held before is gone.
SpawnFails(p) ==
  /\ Calls(p)
  /\ \E mapped \in BOOLEAN :
       /\ Set(p, [NotStarted EXCEPT !.child = "dead", !.finished = TRUE, !.starting = mapped,
                                    !.ending = FailedToStart])
       /\ active' = IF mapped THEN Nil ELSE active
  /\ UNCHANGED <<file, up, troubles>>

\* The first write of the handle is not awaited: it may come after the last one.
PersistStart(p) ==
  /\ proc[p].starting
  /\ Set(p, [proc[p] EXCEPT !.starting = FALSE])
  /\ file' = [file EXCEPT ![p] = "running"]
  /\ UNCHANGED <<active, up, troubles, overlapped>>

-----------------------------------------------------------------------------
(* requestTermination.                                                     *)

\* Mutant: a second request leaves the process alone, and clears its force-kill timer.
TerminatedOnce(procs, p) ==
  IF p = Nil THEN procs
  ELSE [procs EXCEPT ![p].requested = TRUE, ![p].kill = ~procs[p].requested]

\* The process of the map is sent the graceful signal and gets a force-kill timer. The timer of
\* an earlier request stays armed as well.
Terminated(procs, p) ==
  IF p = Nil THEN procs
  ELSE [procs EXCEPT ![p].requested = TRUE, ![p].kill = TRUE]

\* The timeout flags its own process and asks for the termination of the job's.
TimeoutFires(p) ==
  /\ proc[p].timeout
  /\ proc' = Terminated([proc EXCEPT ![p].timeout = FALSE, ![p].flagged = TRUE], active)
  /\ UNCHANGED <<active, file, up, troubles, overlapped>>

\* One check at a time; a process that was asked to terminate is not checked.
StallCheckBegins(p) ==
  /\ proc[p].stall = "armed" /\ ~proc[p].requested
  /\ Set(p, [proc[p] EXCEPT !.stall = "checking"])
  /\ UNCHANGED <<active, file, up, troubles, overlapped>>

\* The files the check has waited for show activity, or they do not; the process may have
\* finished, and another one may be in its place, in the meantime.
StallCheckEnds(p) ==
  /\ proc[p].stall = "checking"
  /\ LET watch == IF proc[p].finished THEN "off" ELSE "armed" IN
     \/ Set(p, [proc[p] EXCEPT !.stall = watch])
     \/ proc' = Terminated([proc EXCEPT ![p].stall = watch, ![p].flagged = TRUE], active)
  /\ UNCHANGED <<active, file, up, troubles, overlapped>>

\* cancelJob of a running job; it finds nobody when the process is not in the map.
Cancel ==
  /\ up
  /\ Begun # {}
  /\ troubles < MaxTroubles /\ troubles' = troubles + 1
  /\ proc' = Terminated(proc, active)
  /\ UNCHANGED <<active, file, up, overlapped>>

\* Another timer may be left.
ForceKill(p) ==
  /\ proc[p].kill
  /\ \E left \in BOOLEAN :
       Set(p, [proc[p] EXCEPT !.kill = left, !.killed = (@ \/ proc[p].child = "alive")])
  /\ UNCHANGED <<active, file, up, troubles, overlapped>>

-----------------------------------------------------------------------------
(* The end of a process.                                                   *)

\* A child ends when it likes, or somebody else kills it; the graceful signal is a wish. Only the
\* child is ever signalled: a process that it has started may live on, and hold its pipes.
Exit(p) ==
  /\ proc[p].child = "alive"
  /\ \E s \in BOOLEAN, h \in {FALSE, ~proc[p].lost} :
       Set(p, [proc[p] EXCEPT !.child = "dead", !.killed = FALSE, !.signal = s, !.held = h])
  /\ UNCHANGED <<active, file, up, troubles, overlapped>>

\* Mutant: only what the signal tells of the termination counts.
OutcomeBySignal(a) ==
  IF a.flagged THEN "timeout" ELSE IF a.signal THEN "cancelled" ELSE "completed"

OutcomeOf(a) ==
  IF a.flagged THEN "timeout"
  ELSE IF a.requested \/ a.signal THEN "cancelled" ELSE "completed"

StatusOf(a) ==
  IF a.flagged \/ a.signal THEN "killed"
  ELSE IF a.requested THEN "terminated" ELSE "exited"

\* The close event, which comes when the child is dead and its pipes are closed: all its timers
\* are cleared, and the job is deleted from the map, whoever is in it.
Close(p) ==
  /\ up
  /\ proc[p].child = "dead" /\ ~proc[p].held /\ ~proc[p].finished /\ ~proc[p].lost
  /\ Set(p, [proc[p] EXCEPT
       !.finished = TRUE, !.timeout = FALSE, !.kill = FALSE,
       !.stall = IF @ = "checking" THEN @ ELSE "off",
       !.ending = [status |-> StatusOf(proc[p]), outcome |-> OutcomeOf(proc[p])]])
  /\ active' = Nil
  /\ UNCHANGED <<file, up, troubles, overlapped>>

\* The last handle is written, and the promise of runProcess settles.
PersistFinal(p) ==
  /\ proc[p].ending # Nil
  /\ file' = [file EXCEPT ![p] = proc[p].ending.status]
  /\ Set(p, [proc[p] EXCEPT !.result = proc[p].ending.outcome, !.ending = Nil])
  /\ UNCHANGED <<active, up, troubles, overlapped>>

-----------------------------------------------------------------------------
(* The orchestrator dies; its children live on.                            *)

Orphan(a) ==
  IF a.result # Nil \/ a = NotStarted THEN [a EXCEPT !.starting = FALSE, !.stall = "off"]
  ELSE [NotStarted EXCEPT !.child = a.child, !.killed = a.killed, !.lost = TRUE]

OrchestratorDies ==
  /\ up
  /\ troubles < MaxTroubles /\ troubles' = troubles + 1
  /\ up' = FALSE
  /\ active' = Nil
  /\ proc' = [p \in Procs |-> Orphan(proc[p])]
  /\ UNCHANGED <<file, overlapped>>

Latest == {p \in Procs : file[p] # Nil /\ \A q \in Procs : file[q] # Nil => q <= p}

\* Mutant: no liveness probe.
BootUnprobed ==
  /\ ~up
  /\ up' = TRUE
  /\ file' = [p \in Procs |->
                IF p \in Latest /\ file[p] = "running" THEN "terminated" ELSE file[p]]
  /\ UNCHANGED <<proc, active, troubles, overlapped>>

\* Recovery looks at the latest handle of the job: one that says running although its process
\* is gone is closed; a living process is left alone.
Boot ==
  /\ ~up
  /\ up' = TRUE
  /\ file' = [p \in Procs |->
                IF p \in Latest /\ file[p] = "running" /\ proc[p].child # "alive"
                THEN "terminated" ELSE file[p]]
  /\ UNCHANGED <<proc, active, troubles, overlapped>>

Timers ==
  \E p \in Procs : TimeoutFires(p) \/ StallCheckBegins(p) \/ StallCheckEnds(p) \/ ForceKill(p)

ProcessStep ==
  \/ Timers \/ Boot
  \/ \E p \in Procs : Spawn(p) \/ SpawnFails(p) \/ PersistStart(p) \/ Exit(p) \/ Close(p)
                      \/ PersistFinal(p)

ProcessNext == ProcessStep \/ Cancel \/ OrchestratorDies

ProcessSpec == ProcessInit /\ [][ProcessNext]_processVars

-----------------------------------------------------------------------------
(* Properties.                                                             *)

\* A process that is alive has no handle that says it ended: neither its own exit, nor a
\* recovery that finds its handle after a death, writes it off too early.
LiveProcessIsNotWrittenOff ==
  \A p \in Procs : proc[p].child = "alive" => file[p] \in {Nil, "running"}
=============================================================================
