------------------------------ MODULE Ledgers ------------------------------
(***************************************************************************)
(* The ledgers of a preparation, scripts/project-preparation.ts: options,  *)
(* tradeoffs and decisions, each a Markdown file that a command reads,     *)
(* changes and writes again, and the checkpoints that approve decisions.   *)
(*                                                                         *)
(* A ledger is here what the next command reads of its file: the records,  *)
(* by number.  That need not be what was written.  Text in angle brackets  *)
(* makes the file pass for its template, and a death amid the write leaves *)
(* it empty: it reads as no records.  A record with a blank title is not   *)
(* read.  A value of several lines may pass for the status of its record,  *)
(* or for other records: the file may then read as anything, and is        *)
(* `spoiled'.  The state of the stages is in Preparation.                  *)
(***************************************************************************)
EXTENDS Integers, Sequences

CONSTANTS
  Stages,
  Types,  \* of checkpoints
  Names   \* the decision numbers a human may name when opening a checkpoint

Files == {"options", "tradeoffs", "decisions"}

Option == [stage : Stages, status : {"active", "selected", "rejected", "superseded"}]
Tradeoff == {"active", "converged", "superseded"}
Decision == [status : {"proposed", "approved", "rejected", "superseded"}, checkpoint : Nat]
Checkpoint == [type : Types, status : {"pending_human", "approved", "rejected", "superseded"},
               links : SUBSET Names]

VARIABLES
  options,      \* OPTION_SET.md
  tradeoffs,    \* TRADEOFF_LEDGER.md: the status of each
  decisions,    \* DECISION_LOG.md; checkpoint: the one it was approved via, or 0
  checkpoints,  \* PREPARATION_STATE.json
  spoiled       \* the ledgers with records no command wrote, or that an init left behind (history)

vars == <<options, tradeoffs, decisions, checkpoints, spoiled>>

LedgerOf(Record) == UNION {[N -> Record] : N \in SUBSET Nat}
Nothing == [n \in {} |-> 0]

TypeOK ==
  /\ options \in LedgerOf(Option)
  /\ tradeoffs \in LedgerOf(Tradeoff)
  /\ decisions \in LedgerOf(Decision)
  /\ checkpoints \in Seq(Checkpoint)
  /\ spoiled \subseteq Files

\* The templates, each with an example in angle brackets.
Init ==
  /\ options = Nothing /\ tradeoffs = Nothing /\ decisions = Nothing
  /\ checkpoints = <<>>
  /\ spoiled = {}

\* nextRecordId: one more than the greatest number that is read.
Follows(n, ledger) ==
  /\ n \in Nat \ {0} /\ n - 1 \in DOMAIN ledger \cup {0}
  /\ \A m \in DOMAIN ledger : m < n
Added(ledger, n, record) == [m \in DOMAIN ledger \cup {n} |-> IF m = n THEN record ELSE ledger[m]]

\* How a file that `written' is put into reads afterwards: as that, as nothing, or as anything.
ReadsBack(file, read, written, Record) ==
  \/ read = written /\ UNCHANGED spoiled
  \/ read = Nothing /\ spoiled' = spoiled \ {file}
  \/ read \in LedgerOf(Record) /\ spoiled' = spoiled \cup {file}

-----------------------------------------------------------------------------
(* Options.                                                                *)

WriteOptions(written) ==
  /\ ReadsBack("options", options', written, Option)
  /\ UNCHANGED <<tradeoffs, decisions, checkpoints>>

\* With a title, or a blank one.
AddOption(stage) ==
  \/ \E n \in Nat : /\ Follows(n, options)
                    /\ WriteOptions(Added(options, n, [stage |-> stage, status |-> "active"]))
  \/ WriteOptions(options)

\* Whatever the option's status was, it is selected, in place of another of its stage.
SelectOption(o) ==
  WriteOptions([i \in DOMAIN options |->
    IF i = o THEN [options[i] EXCEPT !.status = "selected"]
    ELSE IF options[i].stage = options[o].stage /\ options[i].status = "selected"
         THEN [options[i] EXCEPT !.status = "superseded"]
         ELSE options[i]])

RejectOption(o) == WriteOptions([options EXCEPT ![o].status = "rejected"])

-----------------------------------------------------------------------------
(* Tradeoffs.                                                              *)

WriteTradeoffs(written) ==
  /\ ReadsBack("tradeoffs", tradeoffs', written, Tradeoff)
  /\ UNCHANGED <<options, decisions, checkpoints>>

AddTradeoff ==
  \/ \E n \in Nat : Follows(n, tradeoffs) /\ WriteTradeoffs(Added(tradeoffs, n, "active"))
  \/ WriteTradeoffs(tradeoffs)

ConvergeTradeoff(t) == WriteTradeoffs([tradeoffs EXCEPT ![t] = "converged"])
SupersedeTradeoff(t) == WriteTradeoffs([tradeoffs EXCEPT ![t] = "superseded"])

-----------------------------------------------------------------------------
(* Checkpoints, and the decisions they approve.                            *)

WriteCheckpoints(new) == checkpoints' = new /\ UNCHANGED <<options, tradeoffs, decisions, spoiled>>

\* The decisions it names need not exist.
OpenCheckpoint(type, links) ==
  LET Replaced(c) == IF c.type = type /\ c.status = "pending_human"
                     THEN [c EXCEPT !.status = "superseded"] ELSE c IN
  WriteCheckpoints(Append([c \in DOMAIN checkpoints |-> Replaced(checkpoints[c])],
                          [type |-> type, status |-> "pending_human", links |-> links]))

ApproveCheckpoint(c) == WriteCheckpoints([checkpoints EXCEPT ![c].status = "approved"])
RejectCheckpoint(c) == WriteCheckpoints([checkpoints EXCEPT ![c].status = "rejected"])

WriteDecisions(written) ==
  /\ ReadsBack("decisions", decisions', written, Decision)
  /\ UNCHANGED <<options, tradeoffs, checkpoints>>

ProposeDecision ==
  \/ \E n \in Nat : /\ Follows(n, decisions)
                    /\ WriteDecisions(Added(decisions, n, [status |-> "proposed", checkpoint |-> 0]))
  \/ WriteDecisions(decisions)

\* A decision is approved via a checkpoint that is approved and names it, whatever the decision's
\* status.
ApproveDecision(d, c) ==
  /\ checkpoints[c].status = "approved"
  /\ d \in checkpoints[c].links
  /\ WriteDecisions([decisions EXCEPT ![d] = [status |-> "approved", checkpoint |-> c]])

RejectDecision(d) == WriteDecisions([decisions EXCEPT ![d].status = "rejected"])
SupersedeDecision(d) == WriteDecisions([decisions EXCEPT ![d].status = "superseded"])

\* init --force: the state, then the templates one after the other, or the first few of them. The
\* decisions of before are left behind when it dies before theirs.
InitAgain ==
  \E done \in {{}, {"tradeoffs"}, {"tradeoffs", "options"}, Files} :
    /\ checkpoints' = <<>>
    /\ tradeoffs' = IF "tradeoffs" \in done THEN Nothing ELSE tradeoffs
    /\ options' = IF "options" \in done THEN Nothing ELSE options
    /\ decisions' = IF "decisions" \in done THEN Nothing ELSE decisions
    /\ spoiled' = (spoiled \cup {"decisions"}) \ done

-----------------------------------------------------------------------------
OptionStep ==
  \/ \E stage \in Stages : AddOption(stage)
  \/ \E o \in DOMAIN options : SelectOption(o) \/ RejectOption(o)

TradeoffStep ==
  \/ AddTradeoff
  \/ \E t \in DOMAIN tradeoffs : ConvergeTradeoff(t) \/ SupersedeTradeoff(t)

CheckpointStep ==
  \/ \E type \in Types, links \in SUBSET Names : OpenCheckpoint(type, links)
  \/ \E c \in DOMAIN checkpoints : ApproveCheckpoint(c) \/ RejectCheckpoint(c)

DecisionStep ==
  \/ ProposeDecision
  \/ \E d \in DOMAIN decisions, c \in DOMAIN checkpoints : ApproveDecision(d, c)
  \/ \E d \in DOMAIN decisions : RejectDecision(d) \/ SupersedeDecision(d)

Next == OptionStep \/ TradeoffStep \/ CheckpointStep \/ DecisionStep \/ InitAgain

Spec == Init /\ [][Next]_vars

-----------------------------------------------------------------------------
(* Properties.                                                             *)

\* A stage has one selected option at most, however often options are selected and rejected and
\* records are lost, unless a value of several lines was put into the ledger.
OneSelectedPerStage ==
  "options" \notin spoiled =>
    \A i, j \in DOMAIN options :
      /\ options[i].status = "selected" /\ options[j].status = "selected"
      /\ options[i].stage = options[j].stage
      => i = j

\* An approved decision has the checkpoint it was approved via: one that was decided upon by a
\* human, and names the decision's number. This is so although lost decisions leave their numbers
\* to new ones, unless a value of several lines was put into the ledger, or a forced init died
\* between the state and the ledger.
ApprovedViaCheckpoint ==
  "decisions" \notin spoiled =>
    \A d \in DOMAIN decisions : decisions[d].status = "approved" =>
      LET c == decisions[d].checkpoint IN
      /\ c \in DOMAIN checkpoints
      /\ d \in checkpoints[c].links
      /\ checkpoints[c].status \in {"approved", "rejected"}
=============================================================================
