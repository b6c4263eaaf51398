----------------------------- MODULE Preparation -----------------------------
(***************************************************************************)
(* The preparation of a project, kept in files by the commands of          *)
(* scripts/project-preparation.ts: stages and their checkpoints, open      *)
(* questions, the convergence gate, versioned packet exports, handoffs.    *)
(*                                                                         *)
(* One command runs at a time: it reads what it needs and writes files one *)
(* after the other, and may die between two writes.  A command is one step *)
(* that makes all of its writes, or the first few of them.                 *)
(*                                                                         *)
(* A checkpoint type is bound to one stage, which has its name here.  Of a *)
(* stage the program reads only whether it is completed.                   *)
(***************************************************************************)
EXTENDS Integers, Sequences, FiniteSetsExt

CONSTANTS
  Freezes,         \* the freeze checkpoints: direction, scope, boundary, success_evidence
  MaxCheckpoints,  \* bounds: how many of each are made
  MaxQuestions,
  MaxExports,
  MaxHandoffs,
  MaxTroubles      \* commands that die between two writes, and forced inits

Types == Freezes \cup {"convergence", "packet_export"}
Stages == Types \cup {"workstream_shaping"}

Questions == 1 .. MaxQuestions
Exports == 1 .. MaxExports
Handoffs == 1 .. MaxHandoffs

Checkpoint == [type : Types, status : {"pending_human", "approved", "rejected", "superseded"}]
Question == [status : {"absent", "open", "deferred", "resolved"}, noted : BOOLEAN]
Handoff == [status : {"absent", "no_metadata", "generated", "stale", "superseded", "consumed"},
            source : Exports \cup {0}]

ASSUME PreparationAssumption ==
  /\ Freezes \subseteq {"direction", "scope", "boundary", "success_evidence"}
  /\ {MaxCheckpoints, MaxQuestions, MaxExports, MaxHandoffs, MaxTroubles} \subseteq Nat

VARIABLES
  completed,    \* PREPARATION_STATE.json: the stages that are completed
  checkpoints,  \* and the checkpoints, the number of each being its identifier
  ready,        \* and readyForPacketExport
  checked,      \* and latestConvergenceReportId, if there is one
  handoff,      \* and latestHandoffId, or 0
  questions,    \* OPEN_QUESTIONS.md
  pass,         \* CONVERGENCE_REPORT.md says so
  exports,      \* exports/: the status in the metadata of each
  latest,       \* PACKET_EXPORT_STATUS.json: latestExportId, or 0
  handoffs,     \* handoffs/: the metadata of each
  reopened,     \* blocking questions asked or reopened since convergence was last approved,
                \* and not closed since (history)
  missed,       \* those of them whose command died before the state was written (history)
  torn,         \* a command died, and no export or handoff was completed since (history)
  troubles      \* so far (bookkeeping for MaxTroubles)

state == <<completed, checkpoints, ready, checked, handoff>>
snapshots == <<exports, latest, handoffs>>
vars == <<state, snapshots, questions, pass, reopened, missed, torn, troubles>>

TypeOK ==
  /\ completed \subseteq Stages
  /\ checkpoints \in Seq(Checkpoint) /\ Len(checkpoints) <= MaxCheckpoints
  /\ ready \in BOOLEAN /\ checked \in BOOLEAN
  /\ handoff \in Handoffs \cup {0}
  /\ questions \in [Questions -> Question]
  /\ pass \in BOOLEAN
  /\ exports \in [Exports -> {"absent", "no_metadata", "exported", "superseded"}]
  /\ latest \in Exports \cup {0}
  /\ handoffs \in [Handoffs -> Handoff]
  /\ missed \subseteq reopened /\ reopened \subseteq Questions
  /\ torn \in BOOLEAN
  /\ troubles \in 0 .. MaxTroubles

NoQuestion == [status |-> "absent", noted |-> FALSE]
NoHandoff == [status |-> "absent", source |-> 0]

\* init, with the templates of the packet.
Init ==
  /\ completed = {} /\ checkpoints = <<>> /\ ready = FALSE /\ checked = FALSE /\ handoff = 0
  /\ questions = [q \in Questions |-> NoQuestion]
  /\ pass = FALSE
  /\ exports = [e \in Exports |-> "absent"] /\ latest = 0
  /\ handoffs = [h \in Handoffs |-> NoHandoff]
  /\ reopened = {} /\ missed = {} /\ torn = FALSE /\ troubles = 0

\* A command makes the first k of its n writes; it dies when that is not all of them.
Writes(k, n) ==
  /\ k \in 1 .. n
  /\ k < n => troubles < MaxTroubles
  /\ troubles' = IF k < n THEN troubles + 1 ELSE troubles
\* What file holds after the i-th write, if it was made.
After(i, k, new, old) == IF i <= k THEN new ELSE old

-----------------------------------------------------------------------------
(* Stages and checkpoints: all of it is in one file.                       *)

SetStatus(c, to) == [checkpoints EXCEPT ![c].status = to]
Numbers == DOMAIN checkpoints
Approved(type) == \E c \in Numbers : checkpoints[c] = [type |-> type, status |-> "approved"]

OnlyState == UNCHANGED <<snapshots, questions, pass, torn, troubles>>

\* advance, to completed or to any other status: a stage of a checkpoint is not completed without
\* an approved one.
Advance(stage) ==
  /\ IF stage \in completed THEN completed' = completed \ {stage}
     ELSE /\ stage \in Types => Approved(stage)
          /\ completed' = completed \cup {stage}
  /\ UNCHANGED <<checkpoints, ready, checked, handoff, reopened, missed>>
  /\ OnlyState

\* checkpoint open: it takes the place of one of its type that is still pending.
OpenCheckpoint(type) ==
  /\ Len(checkpoints) < MaxCheckpoints
  /\ LET Replaced(c) == IF c.type = type /\ c.status = "pending_human"
                        THEN [c EXCEPT !.status = "superseded"] ELSE c IN
     checkpoints' = Append([c \in Numbers |-> Replaced(checkpoints[c])],
                           [type |-> type, status |-> "pending_human"])
  /\ completed' = completed \ {type}
  /\ UNCHANGED <<ready, checked, handoff, reopened, missed>>
  /\ OnlyState

\* checkpoint approve, with or without a correction, whatever the status of the checkpoint.
ApproveCheckpoint(c) ==
  LET type == checkpoints[c].type IN
  /\ checkpoints' = SetStatus(c, "approved")
  /\ completed' = IF type = "packet_export" THEN completed \ {type} ELSE completed \cup {type}
  /\ ready' = (ready \/ type = "convergence")
  /\ reopened' = IF type = "convergence" THEN {} ELSE reopened
  /\ missed' = IF type = "convergence" THEN {} ELSE missed
  /\ UNCHANGED <<checked, handoff>>
  /\ OnlyState

\* Mutant: only the stage the work falls back to is reopened.
StillCompleted(type, target) == completed \ {target}
RolledBack(type, target) == completed \ {type, target}

\* checkpoint reject: the work falls back to any stage the human names; it matters when that is
\* completed.
RejectCheckpoint(c) ==
  /\ checkpoints' = SetStatus(c, "rejected")
  /\ LET type == checkpoints[c].type IN
     \E target \in completed \cup {type} : completed' = RolledBack(type, target)
  /\ ready' = FALSE
  /\ UNCHANGED <<checked, handoff, reopened, missed>>
  /\ OnlyState

-----------------------------------------------------------------------------
(* Questions: the blocking ones, since no other changes anything.          *)

\* parseQuestionTable: a row of the open table without a note is not read, and so lost with
\* the next write.
Read(q) ==
  IF q.status = "open" /\ ~q.noted THEN NoQuestion ELSE q
ReadQuestions == [q \in Questions |-> Read(questions[q])]
Known == {q \in Questions : ReadQuestions[q].status # "absent"}

\* Mutant: readiness survives when a question is reopened.
ReadyUnlessNew(q, new) == ready /\ q \in Known
\* A question that is open, again or still, calls readiness off.
ReadyWith(q, new) == ready /\ new.status # "open"

\* First the questions are written, then the state: a command that dies in between leaves readiness
\* standing over the question it opened.
WriteQuestion(q, new) ==
  \E k \in 1 .. 2 :
    /\ Writes(k, 2)
    /\ questions' = [ReadQuestions EXCEPT ![q] = new]
    /\ ready' = After(2, k, ReadyWith(q, new), ready)
    /\ reopened' = IF new.status = "open" THEN reopened \cup {q} ELSE reopened \ {q}
    /\ missed' = IF new.status = "open" /\ k < 2 THEN missed \cup {q} ELSE missed \ {q}
    /\ torn' = (torn \/ k < 2)
    /\ UNCHANGED <<completed, checkpoints, checked, handoff, snapshots, pass>>

\* question add: the identifier follows the greatest one that was read.
AddQuestion ==
  LET q == 1 + Max(Known \cup {0}) IN
  /\ q \in Questions
  /\ \E note \in BOOLEAN : WriteQuestion(q, [status |-> "open", noted |-> note])

\* question resolve, defer and reopen, whatever the status of the question. The table of the
\* resolved ones has no notes.
ResolveQuestion(q) == WriteQuestion(q, [ReadQuestions[q] EXCEPT !.status = "resolved", !.noted = FALSE])
DeferQuestion(q) ==
  WriteQuestion(q, [ReadQuestions[q] EXCEPT !.status = "deferred", !.noted = TRUE])
ReopenQuestion(q) ==
  \E note \in BOOLEAN :
    WriteQuestion(q, [ReadQuestions[q] EXCEPT !.status = "open", !.noted = @ \/ note])

\* The rows of the open table, with or without a note.
Blocked == \E q \in Questions : questions[q].status = "open"

-----------------------------------------------------------------------------
(* The convergence gate and the packet.                                    *)

\* The checks of the packet's files pass, or they do not: a human edits them all the time.
Checklist ==
  /\ \A type \in Freezes : Approved(type)
  /\ "workstream_shaping" \in completed
  /\ ~Blocked

\* check convergence: the report, then the state. Readiness waits for a checkpoint.
CheckConvergence ==
  \E k \in 1 .. 2 :
    /\ Writes(k, 2)
    /\ \E healthy \in BOOLEAN : pass' = (healthy /\ Checklist)
    /\ checked' = After(2, k, TRUE, checked)
    /\ ready' = After(2, k, FALSE, ready)
    /\ completed' = After(2, k, completed \ {"convergence"}, completed)
    /\ torn' = (torn \/ k < 2)
    /\ UNCHANGED <<checkpoints, handoff, snapshots, questions, reopened, missed>>

MayExport == checked /\ pass /\ ready /\ Approved("packet_export")

\* Mutant: the status file names the export before its metadata is written.
StatusFirst == [metadata |-> 3, status |-> 2]
ExportOrder == [metadata |-> 2, status |-> 4]

\* Mutant: only a handoff made from an earlier export is marked.
StaledIfExported == IF handoff # 0 /\ latest # 0 THEN [handoffs EXCEPT ![handoff].status = "stale"] ELSE handoffs
\* updateHandoffSnapshotStatus, of the latest handoff.
Staled == IF handoff # 0 THEN [handoffs EXCEPT ![handoff].status = "stale"] ELSE handoffs

\* export packet and packet refresh: the files of the packet (1), the metadata (2), the metadata
\* of the export before it (3), the status file (4), the handoff made from that (5), the state (6).
ExportPacket ==
  LET e == 1 + Max({i \in Exports : exports[i] # "absent"} \cup {0}) IN
  /\ MayExport /\ e \in Exports
  /\ \E k \in 1 .. 6 :
       /\ Writes(k, 6)
       /\ exports' = [i \in Exports |->
            CASE i = e -> After(ExportOrder.metadata, k, "exported", "no_metadata")
              [] i = latest /\ i # e /\ exports[i] = "exported" -> After(3, k, "superseded", "exported")
              [] OTHER -> exports[i]]
       /\ latest' = After(ExportOrder.status, k, e, latest)
       /\ handoffs' = After(5, k, Staled, handoffs)
       /\ completed' = After(6, k, completed \cup {"packet_export"}, completed)
       /\ torn' = (k < 6)
  /\ UNCHANGED <<checkpoints, ready, checked, handoff, questions, pass, reopened, missed>>

-----------------------------------------------------------------------------
(* Handoffs.                                                               *)

\* handoff and handoff refresh: the prompt (1), the metadata (2), the metadata of the handoff
\* before it (3), the state (4). Neither gate nor export is asked for.
GenerateHandoff ==
  LET h == 1 + Max({i \in Handoffs : handoffs[i].status # "absent"} \cup {0})
      new(k) == [status |-> After(2, k, "generated", "no_metadata"), source |-> latest] IN
  /\ h \in Handoffs
  /\ \E k \in 1 .. 4 :
       /\ Writes(k, 4)
       /\ handoffs' = [i \in Handoffs |->
            CASE i = h -> new(k)
              [] i = handoff /\ i # h -> [handoffs[i] EXCEPT !.status = After(3, k, "superseded", @)]
              [] OTHER -> handoffs[i]]
       /\ handoff' = After(4, k, h, handoff)
       /\ torn' = (k < 4)
  /\ UNCHANGED <<completed, checkpoints, ready, checked, questions, pass,
                 exports, latest, reopened, missed>>

\* handoff consume, whatever became of the latest handoff.
ConsumeHandoff ==
  /\ handoff # 0
  /\ handoffs' = [handoffs EXCEPT ![handoff].status = "consumed"]
  /\ UNCHANGED <<state, exports, latest, questions, pass, reopened, missed, torn, troubles>>

\* init --force: the files of process/ are templates again; the exports and
\* handoffs stay.
InitAgain ==
  \E k \in 1 .. 4 :
    /\ troubles < MaxTroubles /\ troubles' = troubles + 1
    /\ completed' = {} /\ checkpoints' = <<>> /\ ready' = FALSE /\ checked' = FALSE /\ handoff' = 0
    /\ questions' = After(2, k, [q \in Questions |-> NoQuestion], questions)
    /\ pass' = After(3, k, FALSE, pass)
    /\ latest' = After(4, k, 0, latest)
    /\ torn' = (torn \/ k < 4)
    /\ UNCHANGED <<exports, handoffs, reopened, missed>>

Next ==
  \/ \E stage \in Stages : Advance(stage)
  \/ \E type \in Types : OpenCheckpoint(type)
  \/ \E c \in Numbers : ApproveCheckpoint(c) \/ RejectCheckpoint(c)
  \/ AddQuestion
  \/ \E q \in Known : ResolveQuestion(q) \/ DeferQuestion(q) \/ ReopenQuestion(q)
  \/ CheckConvergence \/ ExportPacket
  \/ GenerateHandoff \/ ConsumeHandoff \/ InitAgain

Spec == Init /\ [][Next]_vars

-----------------------------------------------------------------------------
(* Properties.                                                             *)

\* A checkpoint stage that counts as completed has an approved checkpoint, however often its
\* checkpoints were opened again, approved late or rejected after all.
CompletedStagesAreApproved == \A type \in Types \cap completed : Approved(type)

\* A packet becomes the published one only while the approval of convergence stands, and no
\* blocking question asked or reopened since is still open, apart from one whose command died after
\* the questions and before the state: the export does not read the questions, and publishes over it.
ExportsFollowApproval ==
  [][latest' # latest /\ latest' # 0 => Approved("convergence") /\ reopened \subseteq missed]_vars

\* What the files name as latest is there, after whatever died in whatever order: the export with
\* its metadata, and the handoff with its own.
LatestIsThere ==
  /\ latest # 0 => exports[latest] \in {"exported", "superseded"}
  /\ handoff # 0 => handoffs[handoff].status \notin {"absent", "no_metadata"}

\* A handoff that is not marked was made from the published export; after a command that died
\* this is so again once a packet or a handoff is made.
HandoffFollowsExport ==
  ~torn /\ handoff # 0 /\ handoffs[handoff].status = "generated" =>
    handoffs[handoff].source = latest
=============================================================================
