---------------------------- MODULE ScriptsProofs ----------------------------
(***************************************************************************)
(* Theorems of the scripts: of Preparation, of Campaign and of Ledgers.    *)
(*                                                                         *)
(* What the preparation of a project keeps consistent holds for any        *)
(* numbers of checkpoints, questions, exports and handoffs, and any number *)
(* of commands that die between two writes.  The invariants hold together  *)
(* with what readiness stands for.  A command that makes the first k of    *)
(* its writes is looked at for every k.                                    *)
(***************************************************************************)
EXTENDS Preparation, Campaign, SequenceTheorems, WellFoundedInduction, TLAPS

\* Whoever finds the preparation ready finds convergence approved and no question open since, apart
\* from those whose command died.
ReadyIsApproved == ready => Approved("convergence") /\ reopened \subseteq missed

IInv ==
  /\ TypeOK
  /\ CompletedStagesAreApproved
  /\ LatestIsThere
  /\ HandoffFollowsExport
  /\ ReadyIsApproved

-----------------------------------------------------------------------------
(* Sequences, and the greatest number of a set.                            *)

\* A sequence has the numbers of its elements for a domain, and a function on them that has
\* values in the same set is a sequence of the same length.
LEMMA SequencesAndFunctions ==
  ASSUME NEW S, NEW s \in Seq(S)
  PROVE /\ Len(s) \in Nat /\ DOMAIN s = 1 .. Len(s)
        /\ \A i \in DOMAIN s : s[i] \in S
        /\ \A f \in [DOMAIN s -> S] : f \in Seq(S) /\ Len(f) = Len(s) /\ DOMAIN f = DOMAIN s
        /\ \A i \in DOMAIN s, e \in S : [s EXCEPT ![i] = e] \in [DOMAIN s -> S]
        /\ \A e \in S : /\ Append(s, e) \in Seq(S) /\ Len(Append(s, e)) = Len(s) + 1
                       /\ DOMAIN Append(s, e) = DOMAIN s \cup {Len(s) + 1}
                       /\ \A i \in DOMAIN s : Append(s, e)[i] = s[i]
                       /\ Append(s, e)[Len(s) + 1] = e
<1>1. Len(s) \in Nat /\ DOMAIN s = 1 .. Len(s) /\ s \in [1 .. Len(s) -> S]
  BY LenProperties
<1>2. \A i \in DOMAIN s : s[i] \in S
  BY <1>1
<1>3. ASSUME NEW f \in [DOMAIN s -> S]
      PROVE f \in Seq(S) /\ Len(f) = Len(s) /\ DOMAIN f = DOMAIN s
  <2>1. DOMAIN f = 1 .. Len(s) /\ \A i \in 1 .. Len(s) : f[i] \in S
    BY <1>1
  <2>2. f = [i \in 1 .. Len(s) |-> f[i]]
    BY <2>1, <1>1, Zenon
  <2>3. [i \in 1 .. Len(s) |-> f[i]] \in Seq(S)
    BY <2>1, <1>1
  <2>4. f \in Seq(S)
    BY <2>2, <2>3, Zenon
  <2>. QED BY <2>1, <2>4, <1>1, LenProperties
<1>4. \A i \in DOMAIN s, e \in S : [s EXCEPT ![i] = e] \in [DOMAIN s -> S]
  BY <1>1
<1>5. ASSUME NEW e \in S
      PROVE /\ Append(s, e) \in Seq(S) /\ Len(Append(s, e)) = Len(s) + 1
            /\ DOMAIN Append(s, e) = DOMAIN s \cup {Len(s) + 1}
            /\ \A i \in DOMAIN s : Append(s, e)[i] = s[i]
            /\ Append(s, e)[Len(s) + 1] = e
  BY <1>1, AppendProperties, LenProperties
<1>. QED BY <1>1, <1>2, <1>3, <1>4, <1>5

\* A set of numbers below a bound has a greatest one: the least of its upper bounds.
LEMMA GreatestNumber ==
  ASSUME NEW n \in Nat, NEW S \in SUBSET (0 .. n), S # {}
  PROVE Max(S) \in S /\ \A x \in S : Max(S) >= x
<1> DEFINE T == {u \in Nat : \A x \in S : x <= u}
<1>1. n \in T
  OBVIOUS
<1>2. PICK u \in T : \A y \in T : ~ (<<y, u>> \in OpToRel(<, Nat))
  <2>1. T \subseteq Nat /\ T # {}
    BY <1>1
  <2> HIDE DEF T
  <2>. QED BY <2>1, NatLessThanWellFounded, WFMin
<1>3. \A y \in T : ~ (y < u)
  BY <1>2 DEF OpToRel
<1>4. u \in S
  <2> SUFFICES ASSUME u \notin S PROVE FALSE
    OBVIOUS
  <2>1. \A x \in S : x < u
    OBVIOUS
  <2>2. u > 0
    <3>1. PICK x \in S : TRUE
      OBVIOUS
    <3>2. x \in Nat /\ u \in Nat /\ x < u
      BY <2>1, <3>1
    <3>. QED BY <3>2
  <2>3. u - 1 \in T
    BY <2>1, <2>2
  <2>. QED BY <1>3, <2>3
<1>. QED BY <1>4 DEF Max

\* The number that follows the greatest one in use is not in use.
LEMMA FreshNumber ==
  ASSUME NEW n \in Nat, NEW S \in SUBSET (1 .. n)
  PROVE 1 + Max(S \cup {0}) \in Nat \ {0} /\ 1 + Max(S \cup {0}) \notin S
<1>1. S \cup {0} \in SUBSET (0 .. n) /\ S \cup {0} # {}
  OBVIOUS
<1> DEFINE m == Max(S \cup {0})
<1>2. m \in S \cup {0} /\ \A x \in S \cup {0} : m >= x
  BY <1>1, GreatestNumber
<1> HIDE DEF m
<1>3. m \in Nat /\ \A x \in S : x \in Nat /\ x <= m
  BY <1>2
<1>4. 1 + m \in Nat \ {0} /\ 1 + m \notin S
  BY <1>3
<1>. QED BY <1>4 DEF m

-----------------------------------------------------------------------------
(* What the steps do to the state of the stages.                           *)

\* The writes that a command makes, and what counts the commands that die.
LEMMA Counted ==
  ASSUME TypeOK, NEW n \in Nat, NEW k \in 1 .. n, Writes(k, n)
  PROVE troubles' \in 0 .. MaxTroubles
<1>1. MaxTroubles \in Nat /\ troubles \in 0 .. MaxTroubles
  BY PreparationAssumption DEF TypeOK
<1>. QED BY <1>1 DEF Writes

\* Changing the status of a checkpoint or of a handoff changes nothing else of it.
LEMMA StatusOfCheckpoint ==
  ASSUME NEW r \in Checkpoint,
         NEW status \in {"pending_human", "approved", "rejected", "superseded"}
  PROVE /\ [r EXCEPT !.status = status] \in Checkpoint
        /\ [r EXCEPT !.status = status].status = status
        /\ [r EXCEPT !.status = status].type = r.type
BY DEF Checkpoint

LEMMA StatusOfHandoff ==
  ASSUME NEW r \in Handoff,
         NEW status \in {"absent", "no_metadata", "generated", "stale", "superseded", "consumed"}
  PROVE /\ [r EXCEPT !.status = status] \in Handoff
        /\ [r EXCEPT !.status = status].status = status
        /\ [r EXCEPT !.status = status].source = r.source
BY DEF Handoff

LEMMA TypesOfCheckpoints ==
  ASSUME TypeOK, NEW c \in Numbers
  PROVE checkpoints[c] \in Checkpoint /\ checkpoints[c].type \in Types
<1>1. checkpoints[c] \in Checkpoint
  BY SequencesAndFunctions DEF TypeOK, Numbers
<1>. QED BY <1>1 DEF Checkpoint

\* A checkpoint that is opened takes no approval away.
LEMMA OpenEffect ==
  ASSUME TypeOK, NEW type \in Types, OpenCheckpoint(type)
  PROVE /\ checkpoints' \in Seq(Checkpoint) /\ Len(checkpoints') <= MaxCheckpoints
        /\ \A other \in Types : Approved(other) => Approved(other)'
<1> DEFINE superseded(c) == [checkpoints[c] EXCEPT !.status = "superseded"]
           old(c) == IF checkpoints[c].type = type /\ checkpoints[c].status = "pending_human"
                     THEN superseded(c) ELSE checkpoints[c]
           kept == [c \in Numbers |-> old(c)]
           new == [type |-> type, status |-> "pending_human"]
<1>0. /\ checkpoints \in Seq(Checkpoint) /\ Len(checkpoints) \in Nat
      /\ \A c \in Numbers : checkpoints[c] \in Checkpoint
  BY SequencesAndFunctions DEF TypeOK, Numbers
<1>1. checkpoints' = Append(kept, new) /\ Len(checkpoints) < MaxCheckpoints
  BY DEF OpenCheckpoint
<1>2. new \in Checkpoint
  BY DEF Checkpoint
<1>3. \A c \in Numbers : superseded(c) \in Checkpoint
  BY <1>0, StatusOfCheckpoint
<1> HIDE DEF superseded, new
<1>4. \A c \in Numbers :
        old(c) \in Checkpoint /\ (checkpoints[c].status = "approved" => old(c) = checkpoints[c])
  BY <1>0, <1>3
<1> HIDE DEF old
<1>5. kept \in [DOMAIN checkpoints -> Checkpoint] /\ \A c \in Numbers : kept[c] = old(c)
  BY <1>4 DEF Numbers
<1> HIDE DEF kept
<1>6. kept \in Seq(Checkpoint) /\ Len(kept) = Len(checkpoints) /\ DOMAIN kept = Numbers
  BY <1>0, <1>5, SequencesAndFunctions DEF Numbers
<1>7. /\ checkpoints' \in Seq(Checkpoint) /\ Len(checkpoints') = Len(checkpoints) + 1
      /\ Numbers \subseteq DOMAIN checkpoints'
      /\ \A c \in Numbers : checkpoints'[c] = kept[c]
  BY <1>1, <1>2, <1>6, SequencesAndFunctions
<1>8. MaxCheckpoints \in Nat
  BY PreparationAssumption
<1>9. ASSUME NEW other \in Types, Approved(other) PROVE Approved(other)'
  <2>1. PICK c \in Numbers : checkpoints[c] = [type |-> other, status |-> "approved"]
    BY <1>9 DEF Approved
  <2>2. checkpoints'[c] = [type |-> other, status |-> "approved"]
    BY <1>4, <1>5, <1>7, <2>1
  <2>. QED BY <1>7, <2>2 DEF Approved, Numbers
<1>. QED BY <1>0, <1>1, <1>7, <1>8, <1>9

\* Deciding upon a checkpoint changes the status of that one alone.
LEMMA DecideEffect ==
  ASSUME TypeOK, NEW c \in Numbers,
         NEW status \in {"pending_human", "approved", "rejected", "superseded"},
         checkpoints' = SetStatus(c, status)
  PROVE /\ checkpoints[c].type \in Types
        /\ checkpoints' \in Seq(Checkpoint) /\ Len(checkpoints') <= MaxCheckpoints
        /\ \A type \in Types : type # checkpoints[c].type /\ Approved(type) => Approved(type)'
        /\ status = "approved" =>
             \A type \in Types : type = checkpoints[c].type \/ Approved(type) => Approved(type)'
<1> DEFINE new == [checkpoints[c] EXCEPT !.status = status]
<1>0. /\ checkpoints \in Seq(Checkpoint) /\ Len(checkpoints) \in Nat
      /\ Len(checkpoints) <= MaxCheckpoints
      /\ \A d \in Numbers : checkpoints[d] \in Checkpoint
  BY SequencesAndFunctions DEF TypeOK, Numbers
<1>1. checkpoints' = [checkpoints EXCEPT ![c] = new]
  BY DEF SetStatus
<1>2. new \in Checkpoint /\ new.status = status /\ new.type = checkpoints[c].type
  <2>1. checkpoints[c] \in Checkpoint
    BY <1>0
  <2>. QED BY <2>1, StatusOfCheckpoint
<1> HIDE DEF new
<1>3. checkpoints' \in [DOMAIN checkpoints -> Checkpoint]
  BY <1>0, <1>1, <1>2 DEF Numbers
<1>4. checkpoints' \in Seq(Checkpoint) /\ Len(checkpoints') = Len(checkpoints) /\ DOMAIN checkpoints' = Numbers
  BY <1>0, <1>3, SequencesAndFunctions DEF Numbers
<1>5. \A d \in Numbers : checkpoints'[d] = IF d = c THEN new ELSE checkpoints[d]
  BY <1>1 DEF Numbers
<1>6. checkpoints[c].type \in Types
  BY <1>0 DEF Checkpoint
<1>7. status = "approved" => new = [type |-> checkpoints[c].type, status |-> "approved"]
  BY <1>2 DEF Checkpoint
<1>8. ASSUME NEW type \in Types, status = "approved", type = checkpoints[c].type
      PROVE Approved(type)'
  <2>1. c \in DOMAIN checkpoints' /\ checkpoints'[c] = [type |-> type, status |-> "approved"]
    BY <1>4, <1>5, <1>7, <1>8
  <2>. QED BY <2>1 DEF Approved, Numbers
<1>9. ASSUME NEW type \in Types, Approved(type), type # checkpoints[c].type
      PROVE Approved(type)'
  <2>1. PICK d \in Numbers : checkpoints[d] = [type |-> type, status |-> "approved"]
    BY <1>9 DEF Approved
  <2>2. d # c
    BY <1>9, <2>1
  <2>3. checkpoints'[d] = [type |-> type, status |-> "approved"]
    BY <1>5, <2>1, <2>2
  <2>. QED BY <1>4, <2>3 DEF Approved, Numbers
<1>10. ASSUME NEW type \in Types, status = "approved", type = checkpoints[c].type \/ Approved(type)
       PROVE Approved(type)'
  BY <1>8, <1>9, <1>10
<1>11. checkpoints' \in Seq(Checkpoint) /\ Len(checkpoints') <= MaxCheckpoints
  BY <1>0, <1>4
<1> HIDE DEF new
<1>. QED BY <1>6, <1>9, <1>10, <1>11, Zenon

\* A question that is written, and the readiness that its being open calls off.
LEMMA QuestionEffect ==
  ASSUME TypeOK, NEW q \in Questions, NEW new \in Question, WriteQuestion(q, new)
  PROVE /\ questions' \in [Questions -> Question]
        /\ ready' \in BOOLEAN /\ torn' \in BOOLEAN
        /\ reopened' \subseteq Questions /\ missed' \subseteq reopened'
        /\ troubles' \in 0 .. MaxTroubles
        /\ UNCHANGED <<completed, checkpoints, checked, handoff, snapshots, pass>>
        /\ torn => torn'
        /\ ready' => ready /\ (reopened \subseteq missed => reopened' \subseteq missed')
<1>1. PICK k \in 1 .. 2 :
        /\ Writes(k, 2)
        /\ questions' = [ReadQuestions EXCEPT ![q] = new]
        /\ ready' = After(2, k, ReadyWith(q, new), ready)
        /\ reopened' = IF new.status = "open" THEN reopened \cup {q} ELSE reopened \ {q}
        /\ missed' = IF new.status = "open" /\ k < 2 THEN missed \cup {q} ELSE missed \ {q}
        /\ torn' = (torn \/ k < 2)
        /\ UNCHANGED <<completed, checkpoints, checked, handoff, snapshots, pass>>
  BY DEF WriteQuestion
<1>2. troubles' \in 0 .. MaxTroubles
  BY <1>1, Counted
<1>3. NoQuestion \in Question
  BY DEF NoQuestion, Question
<1>4. \A r \in Questions : Read(questions[r]) \in Question
  BY <1>3 DEF TypeOK, Read
<1>5. questions' \in [Questions -> Question]
  BY <1>1, <1>4 DEF ReadQuestions
<1>6. ready' \in BOOLEAN /\ torn' \in BOOLEAN
      /\ reopened' \subseteq Questions /\ missed' \subseteq reopened'
  BY <1>1 DEF TypeOK, After, ReadyWith
<1>7. ready' => ready /\ (reopened \subseteq missed => reopened' \subseteq missed')
  <2>1. CASE k = 1
    <3>1. ready' = ready
      BY <1>1, <2>1 DEF After
    <3>2. reopened \subseteq missed => reopened' \subseteq missed'
      BY <1>1, <2>1
    <3>. QED BY <3>1, <3>2
  <2>2. CASE k = 2
    <3>1. ready' = ReadyWith(q, new)
      BY <1>1, <2>2 DEF After
    <3>2. ready' => ready /\ new.status # "open"
      BY <3>1, Zenon DEF ReadyWith
    <3>3. new.status # "open" => reopened' = reopened \ {q} /\ missed' = missed \ {q}
      BY <1>1, <2>2
    <3>. QED BY <3>2, <3>3
  <2>. QED BY <2>1, <2>2
<1>. QED BY <1>1, <1>2, <1>5, <1>6, <1>7

\* The four commands on questions write one.
LEMMA QuestionCommands ==
  ASSUME TypeOK,
         \/ AddQuestion
         \/ \E q \in Known : ResolveQuestion(q) \/ DeferQuestion(q) \/ ReopenQuestion(q)
  PROVE \E q \in Questions, new \in Question : WriteQuestion(q, new)
<1>1. CASE AddQuestion
  BY <1>1 DEF AddQuestion, Question
<1>2. ASSUME NEW q \in Known, ResolveQuestion(q) \/ DeferQuestion(q) \/ ReopenQuestion(q)
      PROVE \E r \in Questions, new \in Question : WriteQuestion(r, new)
  <2>1. q \in Questions
    BY DEF Known
  <2>2. ReadQuestions[q] \in Question
    BY <2>1 DEF TypeOK, ReadQuestions, Read, NoQuestion, Question
  <2>3. CASE ResolveQuestion(q)
    <3>1. [ReadQuestions[q] EXCEPT !.status = "resolved", !.noted = FALSE] \in Question
      BY <2>2 DEF Question
    <3>. QED BY <2>1, <2>3, <3>1 DEF ResolveQuestion
  <2>4. CASE DeferQuestion(q)
    <3>1. [ReadQuestions[q] EXCEPT !.status = "deferred", !.noted = TRUE] \in Question
      BY <2>2 DEF Question
    <3>. QED BY <2>1, <2>4, <3>1 DEF DeferQuestion
  <2>5. CASE ReopenQuestion(q)
    <3>1. PICK note \in BOOLEAN :
            WriteQuestion(q, [ReadQuestions[q] EXCEPT !.status = "open", !.noted = @ \/ note])
      BY <2>5 DEF ReopenQuestion
    <3>2. [ReadQuestions[q] EXCEPT !.status = "open", !.noted = @ \/ note] \in Question
      BY <2>2 DEF Question
    <3>. QED BY <2>1, <3>1, <3>2
  <2>. QED BY <1>2, <2>3, <2>4, <2>5
<1>. QED BY <1>1, <1>2

-----------------------------------------------------------------------------
(* Every command keeps the invariant.                                      *)

\* A command that decides on stages and checkpoints keeps it when what is completed and what
\* readiness stands for stays approved.
LEMMA StagesKeep ==
  ASSUME IInv, UNCHANGED <<snapshots, checked, handoff, questions, pass, torn, troubles>>,
         completed' \subseteq Stages,
         checkpoints' \in Seq(Checkpoint), Len(checkpoints') <= MaxCheckpoints,
         ready' \in BOOLEAN, reopened' \subseteq Questions, missed' \subseteq reopened',
         \A type \in Types \cap completed' : Approved(type)',
         ready' => Approved("convergence")' /\ reopened' \subseteq missed'
  PROVE IInv'
<1>1. TypeOK'
  BY DEF IInv, TypeOK, snapshots
<1>2. CompletedStagesAreApproved'
  BY DEF CompletedStagesAreApproved
<1>3. LatestIsThere' /\ HandoffFollowsExport'
  BY DEF IInv, LatestIsThere, HandoffFollowsExport, snapshots
<1>4. ReadyIsApproved'
  BY DEF ReadyIsApproved
<1>. QED BY <1>1, <1>2, <1>3, <1>4 DEF IInv

LEMMA AdvanceKeeps == ASSUME IInv, NEW stage \in Stages, Advance(stage) PROVE IInv'
<1>1. UNCHANGED <<snapshots, checked, handoff, questions, pass, torn, troubles>>
  BY DEF Advance, OnlyState
<1>2. UNCHANGED <<checkpoints, ready, reopened, missed>>
  BY DEF Advance
<1>3. \A type \in Types : Approved(type) <=> Approved(type)'
  BY <1>2 DEF Approved, Numbers
<1>4. completed' \subseteq Stages /\ \A type \in Types \cap completed' : Approved(type)
  <2>1. CASE stage \in completed
    BY <2>1 DEF Advance, IInv, TypeOK, CompletedStagesAreApproved
  <2>2. CASE stage \notin completed
    BY <2>2 DEF Advance, IInv, TypeOK, CompletedStagesAreApproved
  <2>. QED BY <2>1, <2>2
<1>5. /\ checkpoints' \in Seq(Checkpoint) /\ Len(checkpoints') <= MaxCheckpoints
      /\ ready' \in BOOLEAN /\ reopened' \subseteq Questions /\ missed' \subseteq reopened'
  BY <1>2 DEF IInv, TypeOK
<1>6. "convergence" \in Types
  BY DEF Types
<1>7. ready' => Approved("convergence")' /\ reopened' \subseteq missed'
  BY <1>2, <1>3, <1>6 DEF IInv, ReadyIsApproved
<1>8. \A type \in Types \cap completed' : Approved(type)'
  BY <1>3, <1>4
<1>. QED BY <1>1, <1>4, <1>5, <1>7, <1>8, StagesKeep

LEMMA OpenKeeps == ASSUME IInv, NEW type \in Types, OpenCheckpoint(type) PROVE IInv'
<1>0. TypeOK /\ "convergence" \in Types
  BY DEF IInv, Types
<1>1. UNCHANGED <<snapshots, checked, handoff, questions, pass, torn, troubles>>
  BY DEF OpenCheckpoint, OnlyState
<1>2. UNCHANGED <<ready, reopened, missed>> /\ completed' = completed \ {type}
  BY DEF OpenCheckpoint
<1>3. /\ checkpoints' \in Seq(Checkpoint) /\ Len(checkpoints') <= MaxCheckpoints
      /\ \A other \in Types : Approved(other) => Approved(other)'
  BY <1>0, OpenEffect
<1>4. completed' \subseteq Stages /\ \A other \in Types \cap completed' : Approved(other)'
  BY <1>2, <1>3 DEF IInv, TypeOK, CompletedStagesAreApproved
<1>5. ready' \in BOOLEAN /\ reopened' \subseteq Questions /\ missed' \subseteq reopened'
  BY <1>2 DEF IInv, TypeOK
<1>6. ready' => Approved("convergence")' /\ reopened' \subseteq missed'
  BY <1>0, <1>2, <1>3 DEF IInv, ReadyIsApproved
<1>. QED BY <1>1, <1>3, <1>4, <1>5, <1>6, StagesKeep

LEMMA ApproveKeeps == ASSUME IInv, NEW c \in Numbers, ApproveCheckpoint(c) PROVE IInv'
<1> PICK type \in Types : type = checkpoints[c].type
  BY TypesOfCheckpoints DEF IInv
<1>0. TypeOK /\ "convergence" \in Types /\ Types \subseteq Stages
  BY DEF IInv, Types, Stages
<1>1. UNCHANGED <<snapshots, checked, handoff, questions, pass, torn, troubles>>
  BY DEF ApproveCheckpoint, OnlyState
<1>2. /\ checkpoints' = SetStatus(c, "approved")
      /\ completed' = IF type = "packet_export" THEN completed \ {type} ELSE completed \cup {type}
      /\ ready' = (ready \/ type = "convergence")
      /\ reopened' = IF type = "convergence" THEN {} ELSE reopened
      /\ missed' = IF type = "convergence" THEN {} ELSE missed
  BY DEF ApproveCheckpoint
<1>3. /\ checkpoints' \in Seq(Checkpoint) /\ Len(checkpoints') <= MaxCheckpoints
      /\ Approved(type)' /\ \A other \in Types : Approved(other) => Approved(other)'
  BY <1>0, <1>2, DecideEffect
<1>4. completed' \subseteq Stages /\ \A other \in Types \cap completed' : Approved(other)'
  BY <1>0, <1>2, <1>3 DEF IInv, TypeOK, CompletedStagesAreApproved
<1>5. ready' \in BOOLEAN /\ reopened' \subseteq Questions /\ missed' \subseteq reopened'
  BY <1>2 DEF IInv, TypeOK
<1>6. ready' => Approved("convergence")' /\ reopened' \subseteq missed'
  <2>1. CASE type = "convergence"
    BY <1>0, <1>2, <1>3, <2>1
  <2>2. CASE type # "convergence" /\ ready
    BY <1>0, <1>2, <1>3, <2>2 DEF IInv, ReadyIsApproved
  <2>3. CASE type # "convergence" /\ ~ready
    BY <1>2, <2>3
  <2>. QED BY <2>1, <2>2, <2>3
<1>. QED BY <1>1, <1>3, <1>4, <1>5, <1>6, StagesKeep

\* What a rejection leaves completed is not of the rejected type.
LEMMA RejectKeeps == ASSUME IInv, NEW c \in Numbers, RejectCheckpoint(c) PROVE IInv'
<1> PICK type \in Types : type = checkpoints[c].type
  BY TypesOfCheckpoints DEF IInv
<1>0. TypeOK
  BY DEF IInv
<1>1. UNCHANGED <<snapshots, checked, handoff, questions, pass, torn, troubles>>
  BY DEF RejectCheckpoint, OnlyState
<1>2. checkpoints' = SetStatus(c, "rejected") /\ ready' = FALSE /\ UNCHANGED <<reopened, missed>>
  BY DEF RejectCheckpoint
<1>3. completed' \subseteq completed \ {type}
  BY DEF RejectCheckpoint, RolledBack
<1>4. /\ checkpoints' \in Seq(Checkpoint) /\ Len(checkpoints') <= MaxCheckpoints
      /\ \A other \in Types : other # type /\ Approved(other) => Approved(other)'
  BY <1>0, <1>2, DecideEffect
<1>5. completed' \subseteq Stages /\ \A other \in Types \cap completed' : Approved(other)'
  BY <1>3, <1>4 DEF IInv, TypeOK, CompletedStagesAreApproved
<1>6. ready' \in BOOLEAN /\ reopened' \subseteq Questions /\ missed' \subseteq reopened'
  BY <1>2 DEF IInv, TypeOK
<1>. QED BY <1>1, <1>2, <1>4, <1>5, <1>6, StagesKeep

LEMMA QuestionsKeep ==
  ASSUME IInv, NEW q \in Questions, NEW new \in Question, WriteQuestion(q, new)
  PROVE IInv'
<1>1. /\ questions' \in [Questions -> Question]
      /\ ready' \in BOOLEAN /\ torn' \in BOOLEAN
      /\ reopened' \subseteq Questions /\ missed' \subseteq reopened'
      /\ troubles' \in 0 .. MaxTroubles
      /\ UNCHANGED <<completed, checkpoints, checked, handoff, snapshots, pass>>
      /\ torn => torn'
      /\ ready' => ready /\ (reopened \subseteq missed => reopened' \subseteq missed')
  BY QuestionEffect DEF IInv
<1>2. TypeOK'
  BY <1>1 DEF IInv, TypeOK, snapshots
<1>3. CompletedStagesAreApproved'
  BY <1>1 DEF IInv, CompletedStagesAreApproved, Approved, Numbers
<1>4. LatestIsThere' /\ HandoffFollowsExport'
  BY <1>1 DEF IInv, LatestIsThere, HandoffFollowsExport, snapshots
<1>5. ReadyIsApproved'
  BY <1>1 DEF IInv, ReadyIsApproved, Approved, Numbers
<1>. QED BY <1>2, <1>3, <1>4, <1>5 DEF IInv

LEMMA CheckKeeps == ASSUME IInv, CheckConvergence PROVE IInv'
<1>1. PICK k \in 1 .. 2 :
        /\ Writes(k, 2)
        /\ \E healthy \in BOOLEAN : pass' = (healthy /\ Checklist)
        /\ checked' = After(2, k, TRUE, checked)
        /\ ready' = After(2, k, FALSE, ready)
        /\ completed' = After(2, k, completed \ {"convergence"}, completed)
        /\ torn' = (torn \/ k < 2)
        /\ UNCHANGED <<checkpoints, handoff, snapshots, questions, reopened, missed>>
  BY DEF CheckConvergence
<1>2. troubles' \in 0 .. MaxTroubles
  BY <1>1, Counted DEF IInv
<1>3. pass' \in BOOLEAN
  BY <1>1 DEF Checklist
<1>4. /\ checked' \in BOOLEAN /\ ready' \in BOOLEAN /\ completed' \subseteq completed
      /\ torn' \in BOOLEAN /\ (ready' => ready) /\ (torn => torn')
  BY <1>1 DEF IInv, TypeOK, After
<1>5. TypeOK'
  BY <1>1, <1>2, <1>3, <1>4 DEF IInv, TypeOK, snapshots
<1>6. CompletedStagesAreApproved'
  BY <1>1, <1>4 DEF IInv, CompletedStagesAreApproved, Approved, Numbers
<1>7. LatestIsThere' /\ HandoffFollowsExport'
  BY <1>1, <1>4 DEF IInv, LatestIsThere, HandoffFollowsExport, snapshots
<1>8. ReadyIsApproved'
  BY <1>1, <1>4 DEF IInv, ReadyIsApproved, Approved, Numbers
<1>. QED BY <1>5, <1>6, <1>7, <1>8 DEF IInv

\* The sets of numbers in use are bounded, so that the next number is new.
LEMMA ExportKeeps == ASSUME IInv, ExportPacket PROVE IInv'
<1> DEFINE used == {i \in Exports : exports[i] # "absent"}
           e == 1 + Max(used \cup {0})
<1>0. TypeOK /\ MaxExports \in Nat /\ Types \subseteq Stages
  BY PreparationAssumption DEF IInv, Types, Stages
<1>1. PICK k \in 1 .. 6 :
        /\ Writes(k, 6)
        /\ exports' = [i \in Exports |->
             CASE i = e -> After(ExportOrder.metadata, k, "exported", "no_metadata")
               [] i = latest /\ i # e /\ exports[i] = "exported" -> After(3, k, "superseded", "exported")
               [] OTHER -> exports[i]]
        /\ latest' = After(ExportOrder.status, k, e, latest)
        /\ handoffs' = After(5, k, Staled, handoffs)
        /\ completed' = After(6, k, completed \cup {"packet_export"}, completed)
        /\ torn' = (k < 6)
  BY DEF ExportPacket
<1>2. /\ UNCHANGED <<checkpoints, ready, checked, handoff, questions, pass, reopened, missed>>
      /\ Approved("packet_export") /\ e \in Exports
  BY DEF ExportPacket, MayExport
<1>3. e \notin used
  <2>1. used \in SUBSET (1 .. MaxExports)
    BY DEF Exports
  <2> HIDE DEF used
  <2>. QED BY <1>0, <2>1, FreshNumber
<1>4. exports[e] = "absent"
  BY <1>2, <1>3
<1> HIDE DEF used, e
<1>5. ExportOrder.metadata = 2 /\ ExportOrder.status = 4
  BY DEF ExportOrder
<1>6. latest' = (IF k >= 4 THEN e ELSE latest) /\ torn' = (k < 6)
  BY <1>1, <1>5 DEF After
<1>7. \A i \in Exports : exports'[i] =
        CASE i = e -> (IF k >= 2 THEN "exported" ELSE "no_metadata")
          [] i = latest /\ i # e /\ exports[i] = "exported" -> (IF k >= 3 THEN "superseded" ELSE "exported")
          [] OTHER -> exports[i]
  BY <1>1, <1>5 DEF After
<1>8. exports' \in [Exports -> {"absent", "no_metadata", "exported", "superseded"}]
  <2>1. DOMAIN exports' = Exports /\ exports' = [i \in DOMAIN exports' |-> exports'[i]]
    BY <1>1
  <2>2. \A i \in Exports : exports'[i] \in {"absent", "no_metadata", "exported", "superseded"}
    BY <1>0, <1>7 DEF TypeOK
  <2>. QED BY <2>1, <2>2
<1>9. latest' # 0 => exports'[latest'] \in {"exported", "superseded"}
  <2>1. CASE k >= 4
    <3>1. exports'[e] = "exported"
      BY <1>2, <1>7, <2>1
    <3>. QED BY <1>6, <2>1, <3>1
  <2>2. CASE k < 4
    <3>1. latest' = latest
      BY <1>6, <2>2
    <3>2. latest # 0 => latest \in Exports /\ exports[latest] \in {"exported", "superseded"}
      BY DEF IInv, TypeOK, LatestIsThere
    <3>3. latest # 0 => exports'[latest] \in {"exported", "superseded"}
      BY <1>4, <1>7, <3>2
    <3>. QED BY <3>1, <3>3
  <2>. QED BY <2>1, <2>2
<1>10. Staled \in [Handoffs -> Handoff] /\ (handoff # 0 => Staled[handoff].status = "stale")
  <2>1. CASE handoff = 0
    BY <2>1 DEF Staled, IInv, TypeOK
  <2>2. CASE handoff # 0
    <3>1. handoff \in Handoffs /\ handoffs \in [Handoffs -> Handoff]
      BY <2>2 DEF IInv, TypeOK
    <3> DEFINE new == [handoffs[handoff] EXCEPT !.status = "stale"]
    <3>2. new \in Handoff /\ new.status = "stale"
      BY <3>1, StatusOfHandoff
    <3>3. Staled = [handoffs EXCEPT ![handoff] = new]
      BY <2>2 DEF Staled
    <3> HIDE DEF new
    <3>. QED BY <3>1, <3>2, <3>3
  <2>. QED BY <2>1, <2>2
<1>11. /\ handoffs' \in [Handoffs -> Handoff]
       /\ k < 5 => handoffs' = handoffs
       /\ k >= 5 => handoffs' = Staled
  BY <1>1, <1>10 DEF After, IInv, TypeOK
<1>12. completed' \subseteq completed \cup {"packet_export"} /\ completed' \subseteq Stages
  BY <1>0, <1>1 DEF After, TypeOK, Stages, Types
<1>13. TypeOK'
  <2>1. troubles' \in 0 .. MaxTroubles
    BY <1>0, <1>1, Counted
  <2>2. latest' \in Exports \cup {0} /\ torn' \in BOOLEAN
    BY <1>0, <1>2, <1>6 DEF TypeOK
  <2>. QED BY <1>0, <1>2, <1>8, <1>11, <1>12, <2>1, <2>2 DEF TypeOK
<1>14. CompletedStagesAreApproved'
  BY <1>2, <1>12 DEF IInv, CompletedStagesAreApproved, Approved, Numbers
<1>15. LatestIsThere'
  <2>1. handoff # 0 => handoffs'[handoff].status \notin {"absent", "no_metadata"}
    BY <1>10, <1>11 DEF IInv, LatestIsThere
  <2>. QED BY <1>2, <1>9, <2>1 DEF LatestIsThere
<1>16. HandoffFollowsExport'
  <2>1. k = 6 => (handoff # 0 => handoffs'[handoff].status = "stale")
    BY <1>10, <1>11
  <2>2. CASE k = 6
    BY <1>2, <2>1, <2>2 DEF HandoffFollowsExport
  <2>3. CASE k # 6
    <3>1. k < 6
      BY <2>3
    <3>2. torn'
      BY <1>6, <3>1
    <3>. QED BY <3>2 DEF HandoffFollowsExport
  <2>. QED BY <2>2, <2>3
<1>17. ReadyIsApproved'
  BY <1>2 DEF IInv, ReadyIsApproved, Approved, Numbers
<1>. QED BY <1>13, <1>14, <1>15, <1>16, <1>17 DEF IInv

LEMMA GenerateKeeps == ASSUME IInv, GenerateHandoff PROVE IInv'
<1> DEFINE used == {i \in Handoffs : handoffs[i].status # "absent"}
           h == 1 + Max(used \cup {0})
           new(k) == [status |-> After(2, k, "generated", "no_metadata"), source |-> latest]
           replaced(i, k) == [handoffs[i] EXCEPT !.status = After(3, k, "superseded", @)]
<1>0. TypeOK /\ MaxHandoffs \in Nat
  BY PreparationAssumption DEF IInv
<1>1. PICK k \in 1 .. 4 :
        /\ Writes(k, 4)
        /\ handoffs' = [i \in Handoffs |->
             CASE i = h -> new(k)
               [] i = handoff /\ i # h -> replaced(i, k)
               [] OTHER -> handoffs[i]]
        /\ handoff' = After(4, k, h, handoff)
        /\ torn' = (k < 4)
  BY DEF GenerateHandoff
<1>2. /\ UNCHANGED <<completed, checkpoints, ready, checked, questions, pass, exports, latest, reopened, missed>>
      /\ h \in Handoffs
  BY DEF GenerateHandoff
<1>3. h \notin used
  <2>1. used \in SUBSET (1 .. MaxHandoffs)
    BY DEF Handoffs
  <2> HIDE DEF used
  <2>. QED BY <1>0, <2>1, FreshNumber
<1>4. handoffs[h].status = "absent"
  BY <1>2, <1>3
<1> HIDE DEF used, h
<1>5. /\ new(k) \in Handoff /\ new(k).source = latest
      /\ k >= 2 => new(k).status = "generated"
  BY <1>0 DEF After, TypeOK, Handoff
<1>6. ASSUME NEW i \in Handoffs
      PROVE /\ replaced(i, k) \in Handoff
            /\ replaced(i, k).status \in {handoffs[i].status, "superseded"}
  <2>1. handoffs[i] \in Handoff
    BY <1>0 DEF TypeOK
  <2>2. After(3, k, "superseded", handoffs[i].status) \in {handoffs[i].status, "superseded"}
    BY DEF After
  <2>3. handoffs[i].status \in {"absent", "no_metadata", "generated", "stale", "superseded", "consumed"}
    BY <2>1 DEF Handoff
  <2> DEFINE status == After(3, k, "superseded", handoffs[i].status)
  <2>4. replaced(i, k) = [handoffs[i] EXCEPT !.status = status]
    OBVIOUS
  <2>5. status \in {"absent", "no_metadata", "generated", "stale", "superseded", "consumed"}
    BY <2>2, <2>3
  <2>6. status \in {handoffs[i].status, "superseded"}
    BY <2>2
  <2> HIDE DEF status, replaced
  <2>7. /\ [handoffs[i] EXCEPT !.status = status] \in Handoff
        /\ [handoffs[i] EXCEPT !.status = status].status = status
    BY <2>1, <2>5, StatusOfHandoff
  <2>. QED BY <2>4, <2>6, <2>7
<1> HIDE DEF new, replaced
<1>7. handoffs' \in [Handoffs -> Handoff]
  BY <1>0, <1>1, <1>5, <1>6 DEF TypeOK
<1>8. \A i \in Handoffs : handoffs'[i] = CASE i = h -> new(k)
                                           [] i = handoff /\ i # h -> replaced(i, k)
                                           [] OTHER -> handoffs[i]
  BY <1>1
<1>9. handoff' = (IF k = 4 THEN h ELSE handoff) /\ torn' = (k < 4)
  BY <1>1 DEF After
<1>10. TypeOK'
  <2>1. troubles' \in 0 .. MaxTroubles
    BY <1>0, <1>1, Counted
  <2>2. handoff' \in Handoffs \cup {0} /\ torn' \in BOOLEAN
    BY <1>0, <1>2, <1>9 DEF TypeOK
  <2>. QED BY <1>0, <1>2, <1>7, <2>1, <2>2 DEF TypeOK
<1>11. CompletedStagesAreApproved'
  BY <1>2 DEF IInv, CompletedStagesAreApproved, Approved, Numbers
<1>12. k = 4 => handoffs'[h].status = "generated" /\ handoffs'[h].source = latest
  BY <1>2, <1>5, <1>8
<1>13. handoff # 0 => handoffs'[handoff].status \notin {"absent", "no_metadata"}
  <2> SUFFICES ASSUME handoff # 0 PROVE handoffs'[handoff].status \notin {"absent", "no_metadata"}
    OBVIOUS
  <2>1. handoff \in Handoffs /\ handoffs[handoff].status \notin {"absent", "no_metadata"}
    BY DEF IInv, TypeOK, LatestIsThere
  <2>2. handoff # h
    BY <1>4, <2>1
  <2>3. handoffs'[handoff] = replaced(handoff, k)
    BY <1>8, <2>1, <2>2
  <2>. QED BY <1>6, <2>1, <2>3
<1>14. LatestIsThere'
  <2>1. latest # 0 => exports'[latest] \in {"exported", "superseded"}
    BY <1>2 DEF IInv, LatestIsThere
  <2>2. handoff' # 0 => handoffs'[handoff'].status \notin {"absent", "no_metadata"}
    BY <1>9, <1>12, <1>13
  <2>. QED BY <1>2, <2>1, <2>2 DEF LatestIsThere
<1>15. HandoffFollowsExport'
  <2>1. CASE k = 4
    BY <1>2, <1>9, <1>12, <2>1 DEF HandoffFollowsExport
  <2>2. CASE k # 4
    <3>1. k < 4
      BY <2>2
    <3>2. torn'
      BY <1>9, <3>1
    <3>. QED BY <3>2 DEF HandoffFollowsExport
  <2>. QED BY <2>1, <2>2
<1>16. ReadyIsApproved'
  BY <1>2 DEF IInv, ReadyIsApproved, Approved, Numbers
<1>. QED BY <1>10, <1>11, <1>14, <1>15, <1>16 DEF IInv

LEMMA ConsumeKeeps == ASSUME IInv, ConsumeHandoff PROVE IInv'
<1> DEFINE new == [handoffs[handoff] EXCEPT !.status = "consumed"]
<1>1. /\ handoff \in Handoffs /\ handoffs \in [Handoffs -> Handoff]
      /\ handoffs' = [handoffs EXCEPT ![handoff] = new]
      /\ UNCHANGED <<state, exports, latest, questions, pass, reopened, missed, torn, troubles>>
  BY DEF IInv, TypeOK, ConsumeHandoff
<1>2. new \in Handoff /\ new.status = "consumed"
  BY <1>1, StatusOfHandoff
<1> HIDE DEF new
<1>3. handoffs' \in [Handoffs -> Handoff] /\ handoffs'[handoff].status = "consumed"
  BY <1>1, <1>2
<1>4. TypeOK'
  BY <1>1, <1>3 DEF IInv, TypeOK, state
<1>5. CompletedStagesAreApproved' /\ ReadyIsApproved'
  BY <1>1 DEF IInv, CompletedStagesAreApproved, ReadyIsApproved, Approved, Numbers, state
<1>6. LatestIsThere' /\ HandoffFollowsExport'
  BY <1>1, <1>3 DEF IInv, LatestIsThere, HandoffFollowsExport, state
<1>. QED BY <1>4, <1>5, <1>6 DEF IInv

LEMMA InitAgainKeeps == ASSUME IInv, InitAgain PROVE IInv'
<1>1. PICK k \in 1 .. 4 :
        /\ troubles < MaxTroubles /\ troubles' = troubles + 1
        /\ completed' = {} /\ checkpoints' = <<>> /\ ready' = FALSE /\ checked' = FALSE /\ handoff' = 0
        /\ questions' = After(2, k, [q \in Questions |-> NoQuestion], questions)
        /\ pass' = After(3, k, FALSE, pass)
        /\ latest' = After(4, k, 0, latest)
        /\ torn' = (torn \/ k < 4)
        /\ UNCHANGED <<exports, handoffs, reopened, missed>>
  BY DEF InitAgain
<1>2. /\ questions' \in [Questions -> Question] /\ pass' \in BOOLEAN /\ torn' \in BOOLEAN
      /\ latest' \in {0, latest}
  BY <1>1 DEF IInv, TypeOK, After, NoQuestion, Question
<1>3. MaxTroubles \in Nat /\ MaxCheckpoints \in Nat
  BY PreparationAssumption
<1>4. troubles' \in 0 .. MaxTroubles
  BY <1>1, <1>3 DEF IInv, TypeOK
<1>5. checkpoints' \in Seq(Checkpoint) /\ Len(checkpoints') <= MaxCheckpoints
  BY <1>1, <1>3
<1>6. TypeOK'
  BY <1>1, <1>2, <1>4, <1>5 DEF IInv, TypeOK
<1>7. CompletedStagesAreApproved' /\ ReadyIsApproved' /\ HandoffFollowsExport'
  BY <1>1 DEF CompletedStagesAreApproved, ReadyIsApproved, HandoffFollowsExport
<1>8. LatestIsThere'
  BY <1>1, <1>2 DEF IInv, LatestIsThere
<1>. QED BY <1>6, <1>7, <1>8 DEF IInv

-----------------------------------------------------------------------------
(* The theorems.                                                           *)

LEMMA Initially == Init => IInv
<1> SUFFICES ASSUME Init PROVE IInv
  OBVIOUS
<1>1. MaxCheckpoints \in Nat /\ MaxTroubles \in Nat
  BY PreparationAssumption
<1>2. checkpoints \in Seq(Checkpoint) /\ Len(checkpoints) <= MaxCheckpoints /\ troubles \in 0 .. MaxTroubles
  BY <1>1 DEF Init
<1>3. questions \in [Questions -> Question] /\ handoffs \in [Handoffs -> Handoff]
  BY DEF Init, NoQuestion, Question, NoHandoff, Handoff
<1>4. TypeOK
  BY <1>2, <1>3 DEF Init, TypeOK
<1>. QED BY <1>4 DEF Init, IInv, CompletedStagesAreApproved, LatestIsThere, HandoffFollowsExport,
                    ReadyIsApproved

LEMMA Preserved == IInv /\ [Next]_vars => IInv'
<1> SUFFICES ASSUME IInv, [Next]_vars PROVE IInv'
  OBVIOUS
<1>1. CASE UNCHANGED vars
  BY <1>1 DEF vars, state, snapshots, IInv, TypeOK, CompletedStagesAreApproved, LatestIsThere,
              HandoffFollowsExport, ReadyIsApproved, Approved, Numbers
<1>2. CASE AddQuestion \/ \E q \in Known : ResolveQuestion(q) \/ DeferQuestion(q) \/ ReopenQuestion(q)
  BY <1>2, QuestionCommands, QuestionsKeep DEF IInv
<1>. QED BY <1>1, <1>2, AdvanceKeeps, OpenKeeps, ApproveKeeps, RejectKeeps, CheckKeeps, ExportKeeps,
            GenerateKeeps, ConsumeKeeps, InitAgainKeeps DEF Next

LEMMA Invariant == Spec => []IInv
BY Initially, Preserved, PTL DEF Spec

\* The files of a preparation stay well formed.
THEOREM PreparationTypes == Spec => []TypeOK
BY Invariant, PTL DEF IInv

\* runAdvance, runCheckpointApprove and runCheckpointReject keep the completed stages within those
\* whose checkpoint was approved.
THEOREM CompletionIsApproved == Spec => []CompletedStagesAreApproved
BY Invariant, PTL DEF IInv

\* runExportPacket and runHandoff write what they point at before they point at it.
THEOREM PointersResolve == Spec => []LatestIsThere
BY Invariant, PTL DEF IInv

\* A new packet marks the handoff that was made from the one before.
THEOREM HandoffsFollow == Spec => []HandoffFollowsExport
BY Invariant, PTL DEF IInv

\* runExportPacket asks for readiness, and whatever withdraws convergence withdraws readiness with
\* it: no packet is published on an approval that was called off, nor over a question opened since,
\* unless the command that opened it died before it wrote the state.
THEOREM ExportsAreApproved == Spec => ExportsFollowApproval
<1> DEFINE Approval == latest' # latest /\ latest' # 0 => Approved("convergence") /\ reopened \subseteq missed
<1>1. IInv /\ [Next]_vars => [Approval]_vars
  <2> SUFFICES ASSUME IInv, Next, latest' # latest, latest' # 0
        PROVE Approved("convergence") /\ reopened \subseteq missed
    OBVIOUS
  <2>1. CASE ExportPacket
    BY <2>1 DEF ExportPacket, MayExport, IInv, ReadyIsApproved
  <2>2. CASE InitAgain
    BY <2>2 DEF InitAgain, After
  <2>3. CASE GenerateHandoff \/ ConsumeHandoff \/ CheckConvergence
    BY <2>3 DEF GenerateHandoff, ConsumeHandoff, CheckConvergence, snapshots
  <2>4. CASE \E stage \in Stages : Advance(stage)
    BY <2>4 DEF Advance, OnlyState, snapshots
  <2>5. CASE \E type \in Types : OpenCheckpoint(type)
    BY <2>5 DEF OpenCheckpoint, OnlyState, snapshots
  <2>6. CASE \E c \in Numbers : ApproveCheckpoint(c) \/ RejectCheckpoint(c)
    BY <2>6 DEF ApproveCheckpoint, RejectCheckpoint, OnlyState, snapshots
  <2>7. CASE AddQuestion \/ \E q \in Known : ResolveQuestion(q) \/ DeferQuestion(q) \/ ReopenQuestion(q)
    <3>1. PICK q \in Questions, new \in Question : WriteQuestion(q, new)
      BY <2>7, QuestionCommands DEF IInv
    <3>. QED BY <3>1, QuestionEffect DEF IInv, snapshots
  <2>. QED BY <2>1, <2>2, <2>3, <2>4, <2>5, <2>6, <2>7 DEF Next
<1>. QED BY <1>1, Invariant, PTL DEF Spec, ExportsFollowApproval

-----------------------------------------------------------------------------
(* Campaign: what a run of the driver is planned under, how many iterations *)
(* a campaign begins, and after which runs it goes on.                      *)
(*                                                                          *)
(* All of it hangs on two things that outlive an invocation: the campaign   *)
(* file, which the invocation in progress knows by heart (CampaignIsKnown)  *)
(* and which lists every iteration under the goal in the goal file of its   *)
(* run (HistoryTellsGoals); and the goal file, which a phase was asked      *)
(* under (FilesTellGoals) and which is written again only with what it says *)
(* (GoalOfTheRun).  The cap is looked at several steps before the iteration *)
(* counts: RoomLeft carries what was seen to where it is used.              *)

\* The steps at which the goal of the run has been written.
OnRun == {"begin", "plan", "finalize", "apply", "watch", "finish"}

\* Somebody can tell what the campaign is: its file, or the invocation that has loaded it.
Told == Readable \/ (script # None /\ Governed /\ script.at # "load")

CampaignIsKnown ==
  script # None /\ Governed /\ script.at # "load" =>
    /\ script.known = campaign /\ campaign \in State
    /\ script.cap <= highest

RunIsThere ==
  script # None =>
    /\ script.run = None \/ script.run \in DOMAIN runs
    /\ script.at \in OnRun \cup {"goal"} => script.run \in DOMAIN runs
    /\ script.at \notin {"load", "resolve"} => script.goal \in Goals
    /\ script.at \in {"stop", "begin", "watch", "finish"} => Governed
    /\ script.at \in {"finalize", "apply"} => runs[script.run].applied < Phases

\* A run that does not exist has no goal file; the phases of one that does were asked under
\* the goal in its file.
FilesTellGoals ==
  \A r \in Runs :
    /\ r \notin DOMAIN runs => goalFile[r] = None
    /\ r \notin spoilt =>
         /\ goalFile[r] # Torn
         /\ r \in DOMAIN runs => \A p \in DOMAIN runs[r].asked : runs[r].asked[p] = goalFile[r]

\* The goal the invocation writes is the goal of the run, if the run has one.
GoalOfTheRun ==
  script # None =>
    /\ (script.at = "goal" \/ (script.at = "open" /\ script.run # None)) /\ script.run \notin spoilt =>
         goalFile[script.run] \in {None, script.goal}
    /\ script.at \in OnRun => goalFile[script.run] = script.goal

HistoryTellsGoals ==
  Told =>
    \A n \in DOMAIN campaign.history :
      LET entry == campaign.history[n] IN
      /\ entry.run \in DOMAIN runs
      /\ entry.run \notin spoilt => goalFile[entry.run] = entry.goal

\* The active run has an iteration that was begun and not finished: resuming it does not count.
ActiveIsUnfinished ==
  Told => campaign.active = None \/ Unfinished(campaign, campaign.active)

\* What the campaign began by itself it has counted.
AllCounted == Told => automatic <= campaign.started

\* Until the iteration begins, what was seen of the cap holds.
RoomLeft ==
  script # None /\ Governed =>
    /\ script.at = "resolve" /\ ~script.given => script.run = campaign.active
    /\ script.at \in {"open", "goal", "begin"} /\ ~script.given =>
         \/ script.run # None /\ Unfinished(campaign, script.run)
         \/ campaign.started < script.cap
    /\ script.at = "finish" /\ script.next # None => campaign.started < script.cap

PassedIsAccepted ==
  script # None =>
    /\ script.passed \subseteq DOMAIN runs
    /\ script.at = "finish" /\ script.next # None =>
         runs[script.run].accepted /\ runs[script.run].evidence

CampaignIInv ==
  /\ CampaignTypeOK
  /\ CampaignIsKnown /\ RunIsThere
  /\ FilesTellGoals /\ GoalOfTheRun /\ HistoryTellsGoals
  /\ ActiveIsUnfinished /\ AllCounted /\ RoomLeft /\ CapIsHard
  /\ PassedIsAccepted /\ OnlyAcceptanceLeadsOn

-----------------------------------------------------------------------------
(* What is kept by the steps that leave something alone.                   *)

LEMMA KnownScript == ASSUME CampaignTypeOK, script # None PROVE script \in Script
  BY DEF CampaignTypeOK

LEMMA ToldIsState == ASSUME CampaignIInv, Told PROVE campaign \in State
  BY DEF CampaignIInv, CampaignTypeOK, CampaignIsKnown, Told, Readable

\* The campaign and the goal files are as they were.
LEMMA CampaignKept ==
  ASSUME CampaignIInv, UNCHANGED <<runs, goalFile, campaign, spoilt, automatic, highest>>, Told' => Told
  PROVE  /\ FilesTellGoals' /\ HistoryTellsGoals' /\ ActiveIsUnfinished' /\ AllCounted'
         /\ CapIsHard'
<1>1. FilesTellGoals'
  BY DEF CampaignIInv, FilesTellGoals
<1>2. HistoryTellsGoals'
  BY DEF CampaignIInv, HistoryTellsGoals
<1>3. ActiveIsUnfinished'
  BY DEF CampaignIInv, ActiveIsUnfinished, Unfinished
<1>4. AllCounted' /\ CapIsHard'
  BY DEF CampaignIInv, AllCounted, CapIsHard
<1> QED BY <1>1, <1>2, <1>3, <1>4

\* A run makes progress: the files tell the same.
LEMMA RunsKept ==
  ASSUME CampaignIInv, UNCHANGED <<goalFile, campaign, spoilt, automatic, highest>>, Told' => Told,
         DOMAIN runs' = DOMAIN runs,
         \A r \in Runs \ spoilt : r \in DOMAIN runs =>
           \A p \in DOMAIN runs'[r].asked : runs'[r].asked[p] = goalFile[r]
  PROVE  /\ FilesTellGoals' /\ HistoryTellsGoals' /\ ActiveIsUnfinished' /\ AllCounted'
         /\ CapIsHard'
<1>1. FilesTellGoals'
  BY DEF CampaignIInv, FilesTellGoals
<1>2. HistoryTellsGoals'
  BY DEF CampaignIInv, HistoryTellsGoals
<1>3. ActiveIsUnfinished'
  BY DEF CampaignIInv, ActiveIsUnfinished, Unfinished
<1>4. AllCounted' /\ CapIsHard'
  BY DEF CampaignIInv, AllCounted, CapIsHard
<1> QED BY <1>1, <1>2, <1>3, <1>4

\* An invocation that ends leaves nothing to keep of itself.
LEMMA NoScript ==
  ASSUME script' = None
  PROVE  /\ CampaignIsKnown' /\ RunIsThere' /\ GoalOfTheRun' /\ RoomLeft'
         /\ PassedIsAccepted' /\ OnlyAcceptanceLeadsOn'
         /\ (Told' => Readable')
  BY DEF CampaignIsKnown, RunIsThere, GoalOfTheRun, RoomLeft, PassedIsAccepted,
         OnlyAcceptanceLeadsOn, Told

\* The invocation ends and has written nothing, or what the campaign file says already.
LEMMA EndKeeps ==
  ASSUME CampaignIInv, script' = None, CampaignTypeOK',
         UNCHANGED <<runs, goalFile, campaign, spoilt, automatic, highest>>
  PROVE  CampaignIInv'
<1>1. Told' => Told
  BY NoScript DEF Told, Readable
<1>2. /\ FilesTellGoals' /\ HistoryTellsGoals' /\ ActiveIsUnfinished' /\ AllCounted'
      /\ CapIsHard'
  BY <1>1, CampaignKept
<1> QED BY <1>2, NoScript DEF CampaignIInv

-----------------------------------------------------------------------------
(* The choice of the run and its goal.                                      *)

LEMMA InvokeKeeps == CampaignIInv /\ Invoke => CampaignIInv'
<1> SUFFICES ASSUME CampaignIInv, Invoke PROVE CampaignIInv'
  OBVIOUS
<1>1. PICK mode \in {"plain", "govern", "prepare"}, cap \in Caps,
           run \in DOMAIN runs \cup {None}, todo \in Todos \cup {None} :
        script' = [at |-> "load", mode |-> mode, cap |-> cap, given |-> run # None, todo |-> todo,
                   run |-> run, goal |-> None, known |-> None, next |-> None, passed |-> {}]
  BY DEF Invoke
<1>2. UNCHANGED <<unchecked, runs, goalFile, campaign, spoilt, automatic, highest, deaths>>
  BY DEF Invoke
<1>3. DOMAIN runs \subseteq Runs
  BY CampaignAssumption DEF CampaignIInv, CampaignTypeOK, Runs
<1>4. CampaignTypeOK'
  <2>1. script' \in Script
    BY <1>1, <1>3 DEF Script, Steps
  <2>2. invocations' \in 0 .. MaxInvocations
    BY CampaignAssumption DEF CampaignIInv, CampaignTypeOK, Invoke
  <2> QED BY <2>1, <2>2, <1>2 DEF CampaignIInv, CampaignTypeOK
<1>5. CampaignIsKnown' /\ RunIsThere' /\ GoalOfTheRun' /\ RoomLeft'
  BY <1>1, <1>2 DEF CampaignIsKnown, RunIsThere, GoalOfTheRun, RoomLeft, OnRun
<1>6. PassedIsAccepted' /\ OnlyAcceptanceLeadsOn'
  BY <1>1 DEF PassedIsAccepted, OnlyAcceptanceLeadsOn
<1>7. Told' => Told
  BY <1>1, <1>2 DEF Told, Readable, Governed
<1> QED BY <1>2, <1>4, <1>5, <1>6, <1>7, CampaignKept DEF CampaignIInv

LEMMA FreshIsState == \A cap \in Caps : Fresh(cap) \in State
  BY DEF Fresh, State

LEMMA LoadKeeps == CampaignIInv /\ LoadCampaign => CampaignIInv'
<1> SUFFICES ASSUME CampaignIInv, LoadCampaign PROVE CampaignIInv'
  OBVIOUS
<1>1. script # None /\ script.at = "load" /\ script \in Script
  BY KnownScript DEF LoadCampaign, CampaignIInv
<1>2. UNCHANGED <<unchecked, runs, goalFile, spoilt, invocations, deaths>>
  BY DEF LoadCampaign
<1>3. DOMAIN runs \subseteq Runs
  BY CampaignAssumption DEF CampaignIInv, CampaignTypeOK, Runs
<1>4. CASE ~Governed
  <2>1. script' = [script EXCEPT !.at = "resolve"] /\ UNCHANGED <<campaign, automatic, highest>>
    BY <1>4 DEF LoadCampaign, Go
  <2>2. /\ script' \in Script /\ script'.at = "resolve" /\ ~(Governed')
        /\ script'.run = script.run /\ script'.passed = script.passed
    BY <1>1, <1>4, <2>1 DEF Script, Steps, Governed
  <2>3. CampaignTypeOK'
    BY <1>2, <2>1, <2>2 DEF CampaignIInv, CampaignTypeOK
  <2>4. CampaignIsKnown' /\ GoalOfTheRun' /\ RoomLeft'
    BY <2>2 DEF CampaignIsKnown, GoalOfTheRun, RoomLeft, OnRun
  <2>5. RunIsThere'
    BY <1>1, <1>2, <2>2 DEF CampaignIInv, RunIsThere, OnRun
  <2>6. PassedIsAccepted' /\ OnlyAcceptanceLeadsOn'
    BY <1>1, <1>2, <2>2 DEF CampaignIInv, PassedIsAccepted, OnlyAcceptanceLeadsOn
  <2>7. Told' => Told
    BY <2>1, <2>2 DEF Told, Readable
  <2> QED BY <1>2, <2>1, <2>3, <2>4, <2>5, <2>6, <2>7, CampaignKept DEF CampaignIInv
<1>5. CASE Governed
  <2>1. /\ campaign' = IF Readable THEN [campaign EXCEPT !.cap = script.cap] ELSE Fresh(script.cap)
        /\ script' = [script EXCEPT !.at = "resolve", !.known = campaign',
                        !.run = IF script.given THEN @ ELSE campaign'.active]
        /\ automatic' = IF Readable THEN automatic ELSE 0
        /\ highest' = IF Readable /\ highest > script.cap THEN highest ELSE script.cap
    BY <1>5 DEF LoadCampaign
  <2>2. script.cap \in Caps /\ script.cap \in Nat /\ highest \in Nat /\ automatic \in Nat
    BY <1>1, CampaignAssumption DEF CampaignIInv, CampaignTypeOK, Script
  <2>3. campaign' \in State
    <3>1. CASE Readable
      BY <2>1, <2>2, <3>1 DEF CampaignIInv, CampaignTypeOK, Readable, State
    <3>2. CASE ~Readable
      BY <2>1, <2>2, <3>2, FreshIsState
    <3> QED BY <3>1, <3>2
  <2>4. /\ campaign'.history # <<>> \/ campaign'.active # None => Readable
        /\ Readable => /\ campaign'.history = campaign.history
                       /\ campaign'.active = campaign.active
                       /\ campaign'.started = campaign.started
        /\ ~Readable => campaign'.active = None /\ campaign'.history = <<>> /\ campaign'.started = 0
    <3>1. CASE Readable
      BY <2>1, <3>1 DEF CampaignIInv, CampaignTypeOK, Readable, State
    <3>2. CASE ~Readable
      BY <2>1, <3>2 DEF Fresh
    <3> QED BY <3>1, <3>2
  <2>5. HistoryTellsGoals'
    BY <1>2, <2>4 DEF CampaignIInv, HistoryTellsGoals, Told
  <2>6. ActiveIsUnfinished'
    BY <2>4 DEF CampaignIInv, ActiveIsUnfinished, Told, Unfinished
  <2>7. AllCounted' /\ CapIsHard'
    <3>1. CASE Readable
      BY <2>1, <2>2, <2>3, <2>4, <3>1 DEF CampaignIInv, AllCounted, CapIsHard, Told, State
    <3>2. CASE ~Readable
      BY <2>1, <2>2, <2>4, <3>2 DEF AllCounted, CapIsHard
    <3> QED BY <3>1, <3>2
  <2>8. FilesTellGoals'
    BY <1>2 DEF CampaignIInv, FilesTellGoals
  <2>9. campaign'.active = None \/ campaign'.active \in DOMAIN runs
    <3> SUFFICES ASSUME campaign'.active # None PROVE campaign'.active \in DOMAIN runs
      OBVIOUS
    <3>1. Readable /\ campaign.active = campaign'.active
      BY <2>4
    <3>2. Unfinished(campaign, campaign.active)
      BY <3>1 DEF CampaignIInv, ActiveIsUnfinished, Told
    <3> QED BY <3>1, <3>2 DEF CampaignIInv, HistoryTellsGoals, Told, Unfinished
  <2>10. /\ script' \in Script /\ script'.at = "resolve" /\ script'.known = campaign'
         /\ script'.cap = script.cap /\ script'.passed = script.passed
         /\ script'.run \in {script.run, campaign'.active}
         /\ script'.given = script.given
         /\ ~script.given => script'.run = campaign'.active
    BY <1>1, <1>3, <2>1, <2>3, <2>9 DEF Script, Steps
  <2>11. highest' \in Nat /\ automatic' \in Nat /\ script.cap <= highest'
    BY <2>1, <2>2
  <2>12. CampaignTypeOK'
    BY <1>2, <2>3, <2>10, <2>11 DEF CampaignIInv, CampaignTypeOK
  <2>13. CampaignIsKnown' /\ GoalOfTheRun' /\ RoomLeft'
    BY <2>3, <2>10, <2>11 DEF CampaignIsKnown, GoalOfTheRun, RoomLeft, OnRun
  <2>14. RunIsThere'
    BY <1>1, <1>2, <2>9, <2>10 DEF CampaignIInv, RunIsThere, OnRun
  <2>15. PassedIsAccepted' /\ OnlyAcceptanceLeadsOn'
    BY <1>1, <1>2, <2>10 DEF CampaignIInv, PassedIsAccepted, OnlyAcceptanceLeadsOn
  <2> QED BY <2>5, <2>6, <2>7, <2>8, <2>12, <2>13, <2>14, <2>15 DEF CampaignIInv
<1> QED BY <1>4, <1>5

LEMMA GoalsAreGoals ==
  ASSUME CampaignIInv, script # None, NEW g \in ResolveGoal
  PROVE  /\ g \in Goals
         /\ script.run # None /\ script.run \in Runs \ spoilt => goalFile[script.run] \in {None, g}
<1>1. Registered \subseteq Goals
  BY CampaignAssumption DEF Goals
<1>2. CASE script.run # None
  <2>1. g \in PersistedGoal(script.run)
    BY <1>2 DEF ResolveGoal
  <2> QED BY <1>1, <2>1 DEF PersistedGoal, CampaignIInv, FilesTellGoals, Goals
<1>3. CASE script.run = None
  BY <1>1, <1>3 DEF ResolveGoal
<1> QED BY <1>2, <1>3

LEMMA ResolveKeeps == CampaignIInv /\ Resolve => CampaignIInv'
<1> SUFFICES ASSUME CampaignIInv, Resolve PROVE CampaignIInv'
  OBVIOUS
<1>1. script # None /\ script.at = "resolve" /\ script \in Script
  BY KnownScript DEF Resolve, CampaignIInv
<1>2. UNCHANGED <<unchecked, runs, goalFile, campaign, bookkeeping>>
  BY DEF Resolve
<1>3. UNCHANGED <<spoilt, automatic, highest, invocations, deaths>>
  BY <1>2 DEF bookkeeping
<1>4. CASE script' = None
  <2>1. CampaignTypeOK'
    BY <1>2, <1>3, <1>4 DEF CampaignIInv, CampaignTypeOK
  <2> QED BY <1>2, <1>3, <1>4, <2>1, EndKeeps
<1>5. CASE script' # None
  <2>1. PICK g \in ResolveGoal :
          script' = [script EXCEPT !.goal = g,
                       !.at = IF Governed /\ script.run = None /\ AtCap(script.known)
                              THEN "stop" ELSE "open"]
    BY <1>5 DEF Resolve, End
  <2>2. script.mode # "prepare"
    BY <1>5 DEF Resolve, End
  <2>3. /\ g \in Goals
        /\ script.run # None /\ script.run \in Runs \ spoilt => goalFile[script.run] \in {None, g}
    BY <1>1, GoalsAreGoals
  <2>4. /\ script' \in Script /\ script'.at \in {"stop", "open"} /\ script'.goal = g
        /\ script'.known = script.known /\ script'.cap = script.cap /\ script'.run = script.run
        /\ script'.given = script.given /\ script'.next = script.next
        /\ script'.passed = script.passed /\ (Governed' <=> Governed)
    BY <1>1, <2>1, <2>3 DEF Script, Steps, Governed
  <2>5. script'.at = "stop" => Governed
    BY <1>1, <2>1 DEF Script, Steps
  <2>6. Governed /\ script.run = None /\ script'.at = "open" => ~AtCap(script.known)
    BY <1>1, <2>1 DEF Script, Steps
  <2>7. CampaignTypeOK'
    BY <1>2, <1>3, <2>4 DEF CampaignIInv, CampaignTypeOK
  <2>8. CampaignIsKnown'
    BY <1>1, <1>2, <1>3, <2>4 DEF CampaignIInv, CampaignIsKnown
  <2>9. RunIsThere'
    BY <1>1, <1>2, <2>3, <2>4, <2>5 DEF CampaignIInv, RunIsThere, OnRun
  <2>10. DOMAIN runs \subseteq Runs
    BY CampaignAssumption DEF CampaignIInv, CampaignTypeOK, Runs
  <2>11. GoalOfTheRun'
    BY <1>1, <1>2, <1>3, <2>3, <2>4, <2>10 DEF CampaignIInv, RunIsThere, GoalOfTheRun, OnRun
  <2>12. RoomLeft'
    <3> SUFFICES ASSUME Governed, script'.at = "open", ~script.given
                 PROVE  \/ script.run # None /\ Unfinished(campaign, script.run)
                        \/ campaign.started < script.cap
      BY <1>2, <2>4 DEF RoomLeft, Unfinished
    <3>1. script.run = campaign.active /\ script.known = campaign /\ campaign \in State
      BY <1>1 DEF CampaignIInv, RoomLeft, CampaignIsKnown
    <3>2. CASE script.run # None
      BY <1>1, <3>1, <3>2 DEF CampaignIInv, ActiveIsUnfinished, Told
    <3>3. CASE script.run = None
      <4>1. campaign.started \in Nat /\ script.cap \in Nat
        BY <1>1, <3>1, CampaignAssumption DEF State, Script
      <4>2. ~AtCap(campaign)
        BY <2>6, <3>1, <3>3
      <4> QED BY <4>1, <4>2 DEF AtCap
    <3> QED BY <3>2, <3>3
  <2>13. PassedIsAccepted' /\ OnlyAcceptanceLeadsOn'
    BY <1>1, <1>2, <2>4 DEF CampaignIInv, PassedIsAccepted, OnlyAcceptanceLeadsOn
  <2>14. Told' => Told
    BY <1>1, <1>2, <2>4 DEF Told, Readable
  <2> QED BY <1>2, <1>3, <2>7, <2>8, <2>9, <2>11, <2>12, <2>13, <2>14, CampaignKept DEF CampaignIInv
<1> QED BY <1>4, <1>5

LEMMA StopKeeps == CampaignIInv /\ Stop => CampaignIInv'
<1> SUFFICES ASSUME CampaignIInv, Stop PROVE CampaignIInv'
  OBVIOUS
<1>1. script # None /\ script.at = "stop" /\ script' = None /\ campaign' = script.known
  BY DEF Stop, End
<1>2. script.known = campaign
  BY <1>1 DEF CampaignIInv, RunIsThere, CampaignIsKnown
<1>3. UNCHANGED <<unchecked, runs, goalFile, spoilt, automatic, highest, invocations, deaths>>
  BY DEF Stop, bookkeeping
<1>4. CampaignTypeOK'
  BY <1>1, <1>2, <1>3 DEF CampaignIInv, CampaignTypeOK
<1> QED BY <1>1, <1>2, <1>3, <1>4, EndKeeps

LEMMA RunTypes ==
  ASSUME CampaignIInv
  PROVE  /\ runs \in Seq(Run) /\ DOMAIN runs = 1 .. Len(runs) /\ Len(runs) \in Nat
         /\ DOMAIN runs \subseteq Runs
         /\ \A r \in DOMAIN runs : runs[r] \in Run
  BY CampaignAssumption DEF CampaignIInv, CampaignTypeOK, Runs

LEMMA CampaignOpenKeeps == CampaignIInv /\ Open => CampaignIInv'
<1> SUFFICES ASSUME CampaignIInv, Open PROVE CampaignIInv'
  OBVIOUS
<1>1. script # None /\ script.at = "open" /\ script \in Script
  BY KnownScript DEF Open, CampaignIInv
<1>2. UNCHANGED <<unchecked, goalFile, campaign, bookkeeping>>
  BY DEF Open
<1>3. UNCHANGED <<spoilt, automatic, highest, invocations, deaths>>
  BY <1>2 DEF bookkeeping
<1>4. CASE script.run # None
  <2>1. script' = [script EXCEPT !.at = "goal"] /\ runs' = runs
    BY <1>4 DEF Open, Go
  <2>2. /\ script' \in Script /\ script'.at = "goal" /\ script'.goal = script.goal
        /\ script'.known = script.known /\ script'.cap = script.cap /\ script'.run = script.run
        /\ script'.given = script.given /\ script'.passed = script.passed
        /\ (Governed' <=> Governed)
    BY <1>1, <2>1 DEF Script, Steps, Governed
  <2>3. CampaignTypeOK'
    BY <1>2, <1>3, <2>1, <2>2 DEF CampaignIInv, CampaignTypeOK
  <2>4. CampaignIsKnown'
    BY <1>1, <1>2, <1>3, <2>2 DEF CampaignIInv, CampaignIsKnown
  <2>5. RunIsThere' /\ GoalOfTheRun'
    BY <1>1, <1>2, <1>3, <1>4, <2>1, <2>2 DEF CampaignIInv, RunIsThere, GoalOfTheRun, OnRun
  <2>6. RoomLeft'
    BY <1>1, <1>2, <2>2 DEF CampaignIInv, RoomLeft, Unfinished
  <2>7. PassedIsAccepted' /\ OnlyAcceptanceLeadsOn'
    BY <1>1, <2>1, <2>2 DEF CampaignIInv, PassedIsAccepted, OnlyAcceptanceLeadsOn
  <2>8. Told' => Told
    BY <1>1, <1>2, <2>2 DEF Told, Readable
  <2> QED BY <1>2, <1>3, <2>1, <2>3, <2>4, <2>5, <2>6, <2>7, <2>8, CampaignKept DEF CampaignIInv
<1>5. CASE script.run = None
  <2> DEFINE new == Len(runs) + 1
  <2>1. /\ Len(runs) < MaxRuns /\ runs' = Append(runs, NewRun)
        /\ script' = [script EXCEPT !.at = "goal", !.run = Len(runs')]
    BY <1>5 DEF Open
  <2>2. NewRun \in Run
    BY CampaignAssumption DEF NewRun, Run
  <2>3. /\ runs' \in Seq(Run) /\ Len(runs') = new /\ new \in Runs
        /\ DOMAIN runs' = DOMAIN runs \cup {new} /\ new \notin DOMAIN runs
        /\ \A r \in DOMAIN runs : runs'[r] = runs[r]
        /\ runs'[new] = NewRun
    BY <2>1, <2>2, RunTypes, CampaignAssumption DEF Runs
  <2> HIDE DEF new
  <2>4. /\ script' \in Script /\ script'.at = "goal" /\ script'.goal = script.goal
        /\ script'.known = script.known /\ script'.cap = script.cap /\ script'.run = new
        /\ script'.given = script.given /\ script'.passed = script.passed
        /\ (Governed' <=> Governed)
    BY <1>1, <2>1, <2>3 DEF Script, Steps, Governed
  <2>5. CampaignTypeOK'
    <3>1. Len(runs') <= MaxRuns
      BY <2>3, CampaignAssumption DEF Runs
    <3> QED BY <1>2, <1>3, <2>3, <2>4, <3>1 DEF CampaignIInv, CampaignTypeOK
  <2>6. CampaignIsKnown'
    BY <1>1, <1>2, <1>3, <2>4 DEF CampaignIInv, CampaignIsKnown
  <2>7. RunIsThere'
    BY <1>1, <2>3, <2>4 DEF CampaignIInv, RunIsThere, OnRun
  <2>8. goalFile[new] = None
    BY <2>3 DEF CampaignIInv, FilesTellGoals
  <2>9. GoalOfTheRun'
    BY <1>2, <2>4, <2>8 DEF GoalOfTheRun, OnRun
  <2>10. FilesTellGoals'
    <3>1. DOMAIN NewRun.asked = {}
      BY DEF NewRun
    <3>2. Torn # None
      BY CampaignAssumption
    <3> SUFFICES ASSUME NEW r \in Runs
                 PROVE  /\ r \notin DOMAIN runs' => goalFile[r] = None
                        /\ r \notin spoilt =>
                             /\ goalFile[r] # Torn
                             /\ r \in DOMAIN runs' =>
                                  \A p \in DOMAIN runs'[r].asked : runs'[r].asked[p] = goalFile[r]
      BY <1>2, <1>3 DEF FilesTellGoals
    <3>3. CASE r = new
      BY <2>3, <2>8, <3>1, <3>2, <3>3
    <3>4. CASE r # new
      BY <2>3, <3>4 DEF CampaignIInv, FilesTellGoals
    <3> QED BY <3>3, <3>4
  <2>11. Told' => Told
    BY <1>1, <1>2, <2>4 DEF Told, Readable
  <2>12. HistoryTellsGoals'
    BY <1>2, <1>3, <2>3, <2>11 DEF CampaignIInv, HistoryTellsGoals
  <2>13. ActiveIsUnfinished' /\ AllCounted' /\ CapIsHard'
    BY <1>2, <1>3, <2>11 DEF CampaignIInv, ActiveIsUnfinished, Unfinished, AllCounted, CapIsHard
  <2>14. RoomLeft'
    <3> SUFFICES ASSUME Governed, ~script.given PROVE campaign.started < script.cap
      BY <1>2, <2>4 DEF RoomLeft
    <3> QED BY <1>1, <1>5 DEF CampaignIInv, RoomLeft
  <2>15. PassedIsAccepted' /\ OnlyAcceptanceLeadsOn'
    BY <1>1, <2>3, <2>4 DEF CampaignIInv, PassedIsAccepted, OnlyAcceptanceLeadsOn
  <2> QED BY <2>5, <2>6, <2>7, <2>9, <2>10, <2>12, <2>13, <2>14, <2>15 DEF CampaignIInv
<1> QED BY <1>4, <1>5

LEMMA PersistKeeps == CampaignIInv /\ PersistGoal => CampaignIInv'
<1> SUFFICES ASSUME CampaignIInv, PersistGoal PROVE CampaignIInv'
  OBVIOUS
<1>1. script # None /\ script.at = "goal" /\ script \in Script
  BY KnownScript DEF PersistGoal, CampaignIInv
<1>2. /\ UNCHANGED <<unchecked, runs, campaign, spoilt, automatic, highest, invocations, deaths>>
      /\ goalFile' = [goalFile EXCEPT ![script.run] = script.goal]
      /\ script' = [script EXCEPT !.at = AfterOpen]
  BY DEF PersistGoal, Go, bookkeeping
<1>3. script.run \in DOMAIN runs /\ script.run \in Runs /\ script.goal \in Goals
  BY <1>1, RunTypes DEF CampaignIInv, RunIsThere, OnRun
<1>4. AfterOpen \in {"begin", "plan"} /\ (AfterOpen = "begin" => Governed)
  BY DEF AfterOpen
<1>5. /\ script' \in Script /\ script'.at = AfterOpen /\ script'.goal = script.goal
      /\ script'.known = script.known /\ script'.cap = script.cap /\ script'.run = script.run
      /\ script'.given = script.given /\ script'.passed = script.passed
      /\ (Governed' <=> Governed)
  BY <1>1, <1>2, <1>4 DEF Script, Steps, Governed
<1>6. /\ goalFile' \in [Runs -> Goals \cup {None, Torn}]
      /\ goalFile'[script.run] = script.goal
      /\ \A r \in Runs : r # script.run => goalFile'[r] = goalFile[r]
  BY <1>2, <1>3 DEF CampaignIInv, CampaignTypeOK
<1>7. CampaignTypeOK'
  BY <1>2, <1>5, <1>6 DEF CampaignIInv, CampaignTypeOK
<1>8. CampaignIsKnown'
  BY <1>1, <1>2, <1>5 DEF CampaignIInv, CampaignIsKnown
<1>9. RunIsThere'
  BY <1>1, <1>2, <1>3, <1>4, <1>5 DEF CampaignIInv, RunIsThere, OnRun
<1>10. GoalOfTheRun'
  BY <1>4, <1>5, <1>6 DEF GoalOfTheRun, OnRun
<1>11. script.run \notin spoilt => goalFile[script.run] \in {None, script.goal}
  BY <1>1, <1>3, RunTypes, CampaignAssumption DEF CampaignIInv, GoalOfTheRun, Script
<1>12. FilesTellGoals'
  <2>1. script.goal # Torn /\ None \notin Goals
    BY <1>3, CampaignAssumption
  <2> SUFFICES ASSUME NEW r \in Runs
               PROVE  /\ r \notin DOMAIN runs => goalFile'[r] = None
                      /\ r \notin spoilt =>
                           /\ goalFile'[r] # Torn
                           /\ r \in DOMAIN runs =>
                                \A p \in DOMAIN runs[r].asked : runs[r].asked[p] = goalFile'[r]
    BY <1>2 DEF FilesTellGoals
  <2>2. CASE r = script.run
    <3> SUFFICES ASSUME r \notin spoilt, NEW p \in DOMAIN runs[r].asked
                 PROVE  runs[r].asked[p] = goalFile'[r]
      BY <1>3, <1>6, <2>1, <2>2
    <3>1. runs[r].asked[p] = goalFile[r]
      BY <1>3, <2>2 DEF CampaignIInv, FilesTellGoals
    <3>2. runs[r].asked \in Seq(Goals)
      BY <1>3, <2>2, RunTypes DEF Run
    <3>3. runs[r].asked[p] \in Goals
      BY <3>2
    <3> QED BY <1>6, <1>11, <2>1, <2>2, <3>1, <3>3
  <2>3. CASE r # script.run
    BY <1>6, <2>3 DEF CampaignIInv, FilesTellGoals
  <2> QED BY <2>2, <2>3
<1>13. Told' => Told
  BY <1>1, <1>2, <1>5 DEF Told, Readable
<1>14. HistoryTellsGoals'
  <2> SUFFICES ASSUME Told, NEW n \in DOMAIN campaign.history,
                      campaign.history[n].run \notin spoilt
               PROVE  goalFile'[campaign.history[n].run] = campaign.history[n].goal
    BY <1>2, <1>13 DEF CampaignIInv, HistoryTellsGoals
  <2>1. campaign.history \in Seq(Entry)
    BY ToldIsState DEF State
  <2>2. campaign.history[n] \in Entry
    BY <2>1
  <2>3. campaign.history[n].goal \in Goals /\ campaign.history[n].run \in Runs
    BY <2>2 DEF Entry
  <2>4. goalFile[campaign.history[n].run] = campaign.history[n].goal
    BY DEF CampaignIInv, HistoryTellsGoals
  <2>5. None \notin Goals
    BY CampaignAssumption
  <2> QED BY <1>6, <1>11, <2>3, <2>4, <2>5
<1>15. ActiveIsUnfinished' /\ AllCounted' /\ CapIsHard'
  BY <1>2, <1>13 DEF CampaignIInv, ActiveIsUnfinished, Unfinished, AllCounted, CapIsHard
<1>16. RoomLeft'
  BY <1>1, <1>2, <1>4, <1>5 DEF CampaignIInv, RoomLeft, Unfinished
<1>17. PassedIsAccepted' /\ OnlyAcceptanceLeadsOn'
  BY <1>1, <1>2, <1>4, <1>5 DEF CampaignIInv, PassedIsAccepted, OnlyAcceptanceLeadsOn
<1> QED BY <1>7, <1>8, <1>9, <1>10, <1>12, <1>14, <1>15, <1>16, <1>17 DEF CampaignIInv

LEMMA BeginKeeps == CampaignIInv /\ BeginIteration => CampaignIInv'
<1> SUFFICES ASSUME CampaignIInv, BeginIteration PROVE CampaignIInv'
  OBVIOUS
<1> DEFINE resumed == Unfinished(script.known, script.run)
           entry == [run |-> script.run, goal |-> script.goal, done |-> FALSE]
<1>1. script # None /\ script.at = "begin" /\ script \in Script /\ Governed
  BY KnownScript DEF BeginIteration, CampaignIInv, RunIsThere
<1>2. script.known = campaign /\ campaign \in State /\ script.cap <= highest /\ Told
  BY <1>1 DEF CampaignIInv, CampaignIsKnown, Told
<1>3. /\ UNCHANGED <<unchecked, runs, goalFile, spoilt, highest, invocations, deaths>>
      /\ script' = [script EXCEPT !.at = "plan", !.known = campaign']
      /\ campaign' =
           IF resumed THEN [campaign EXCEPT !.active = script.run]
           ELSE [campaign EXCEPT !.active = script.run, !.started = @ + 1,
                                 !.history = Append(@, entry)]
      /\ automatic' = IF resumed \/ script.given THEN automatic ELSE automatic + 1
  BY <1>2 DEF BeginIteration
<1>4. script.run \in DOMAIN runs /\ script.run \in Runs /\ script.goal \in Goals
  BY <1>1, RunTypes DEF CampaignIInv, RunIsThere, OnRun
<1>5. goalFile[script.run] = script.goal
  BY <1>1 DEF CampaignIInv, GoalOfTheRun, OnRun
<1>6. entry \in Entry
  BY <1>4 DEF Entry
<1>7. resumed <=> Unfinished(campaign, script.run)
  BY <1>2
<1> HIDE DEF resumed
<1>8. /\ campaign' \in State /\ campaign'.active = script.run
      /\ campaign'.started = IF resumed THEN campaign.started ELSE campaign.started + 1
      /\ campaign'.history = IF resumed THEN campaign.history ELSE Append(campaign.history, entry)
  <2>1. CASE resumed
    BY <1>2, <1>3, <1>4, <2>1 DEF State
  <2>2. CASE ~resumed
    <3>1. Append(campaign.history, entry) \in Seq(Entry)
      BY <1>2, <1>6 DEF State
    <3> DEFINE history == Append(campaign.history, entry)
               started == campaign.started + 1
    <3>2. campaign' = [campaign EXCEPT !.active = script.run, !.started = started,
                                       !.history = history]
      BY <1>3, <2>2
    <3>3. started \in Nat /\ history \in Seq(Entry)
      BY <1>2, <3>1 DEF State
    <3>4. started = campaign.started + 1 /\ history = Append(campaign.history, entry)
      OBVIOUS
    <3> HIDE DEF entry, history, started
    <3>5. /\ campaign' \in State /\ campaign'.active = script.run
          /\ campaign'.started = started /\ campaign'.history = history
      BY <1>2, <1>4, <3>2, <3>3 DEF State
    <3> QED BY <2>2, <3>4, <3>5
  <2> QED BY <2>1, <2>2
<1>9. campaign.history \in Seq(Entry) /\ campaign.started \in Nat
  BY <1>2 DEF State
<1>10. \A n \in DOMAIN campaign'.history :
         \/ n \in DOMAIN campaign.history /\ campaign'.history[n] = campaign.history[n]
         \/ campaign'.history[n] = entry
  <2>1. CASE resumed
    BY <1>8, <2>1
  <2>2. CASE ~resumed
    <3> HIDE DEF entry
    <3> QED BY <1>6, <1>8, <1>9, <2>2
  <2> QED BY <2>1, <2>2
<1>11. Unfinished(campaign', script.run)
  <2>1. CASE resumed
    BY <1>7, <1>8, <2>1 DEF Unfinished
  <2>2. CASE ~resumed
    <3> DEFINE n == Len(campaign.history) + 1
    <3>1. n \in DOMAIN campaign'.history /\ campaign'.history[n] = entry
      <4> HIDE DEF entry
      <4> QED BY <1>6, <1>8, <1>9, <2>2
    <3>2. campaign'.history[n].run = script.run /\ ~campaign'.history[n].done
      BY <3>1
    <3> HIDE DEF n
    <3> QED BY <3>1, <3>2 DEF Unfinished
  <2> QED BY <2>1, <2>2
<1>12. /\ script' \in Script /\ script'.at = "plan" /\ script'.goal = script.goal
       /\ script'.known = campaign' /\ script'.cap = script.cap /\ script'.run = script.run
       /\ script'.given = script.given /\ script'.passed = script.passed
  BY <1>1, <1>3, <1>8 DEF Script, Steps
<1>13. automatic' \in Nat /\ automatic' <= campaign'.started /\ automatic' <= highest
  <2>1. automatic \in Nat /\ automatic <= campaign.started /\ automatic <= highest /\ highest \in Nat
    BY <1>2 DEF CampaignIInv, CampaignTypeOK, AllCounted, CapIsHard
  <2>2. script.cap \in Nat
    BY <1>1, CampaignAssumption DEF Script
  <2>3. ~resumed /\ ~script.given => campaign.started < script.cap
    BY <1>1, <1>7 DEF CampaignIInv, RoomLeft
  <2> HIDE DEF entry
  <2> QED BY <1>2, <1>3, <1>8, <1>9, <2>1, <2>2, <2>3
<1>14. CampaignTypeOK'
  BY <1>3, <1>8, <1>12, <1>13 DEF CampaignIInv, CampaignTypeOK
<1>15. CampaignIsKnown'
  BY <1>2, <1>3, <1>8, <1>12 DEF CampaignIsKnown
<1>16. RunIsThere' /\ GoalOfTheRun'
  BY <1>3, <1>4, <1>5, <1>12 DEF RunIsThere, GoalOfTheRun, OnRun
<1>17. FilesTellGoals'
  BY <1>3 DEF CampaignIInv, FilesTellGoals
<1>18. HistoryTellsGoals'
  <2> SUFFICES ASSUME NEW n \in DOMAIN campaign'.history
               PROVE  /\ campaign'.history[n].run \in DOMAIN runs
                      /\ campaign'.history[n].run \notin spoilt =>
                           goalFile[campaign'.history[n].run] = campaign'.history[n].goal
    BY <1>3 DEF HistoryTellsGoals
  <2>1. CASE campaign'.history[n] = entry
    BY <1>4, <1>5, <2>1
  <2>2. CASE n \in DOMAIN campaign.history /\ campaign'.history[n] = campaign.history[n]
    BY <1>2, <2>2 DEF CampaignIInv, HistoryTellsGoals
  <2> QED BY <1>10, <2>1, <2>2
<1>19. ActiveIsUnfinished' /\ AllCounted' /\ CapIsHard'
  BY <1>3, <1>8, <1>11, <1>13 DEF ActiveIsUnfinished, AllCounted, CapIsHard
<1>20. RoomLeft'
  BY <1>12 DEF RoomLeft
<1>21. PassedIsAccepted' /\ OnlyAcceptanceLeadsOn'
  BY <1>1, <1>3, <1>12 DEF CampaignIInv, PassedIsAccepted, OnlyAcceptanceLeadsOn
<1> QED BY <1>14, <1>15, <1>16, <1>17, <1>18, <1>19, <1>20, <1>21 DEF CampaignIInv

-----------------------------------------------------------------------------
(* The planning of the run, and the orchestrator besides.                   *)

\* What the steps of a run leave alone: everything but the run, which keeps what it was
\* asked under and what it was accepted with.
RunMoves ==
  /\ UNCHANGED <<unchecked, goalFile, campaign, bookkeeping>>
  /\ runs' \in Seq(Run) /\ DOMAIN runs' = DOMAIN runs /\ Len(runs') = Len(runs)
  /\ \A r \in DOMAIN runs :
       /\ runs[r].accepted => runs'[r].accepted
       /\ runs[r].evidence => runs'[r].evidence
       /\ \A p \in DOMAIN runs'[r].asked :
            \/ p \in DOMAIN runs[r].asked /\ runs'[r].asked[p] = runs[r].asked[p]
            \/ runs'[r].asked[p] = goalFile[r]

LEMMA StillRuns == ASSUME CampaignIInv, UNCHANGED <<unchecked, runs, goalFile, campaign, bookkeeping>>
                   PROVE  RunMoves
<1>1. runs \in Seq(Run)
  BY RunTypes
<1> QED BY <1>1 DEF RunMoves

LEMMA RunMovesKeeps ==
  ASSUME CampaignIInv, RunMoves, Told' => Told
  PROVE  /\ FilesTellGoals' /\ HistoryTellsGoals' /\ ActiveIsUnfinished' /\ AllCounted'
         /\ CapIsHard'
<1>1. UNCHANGED <<goalFile, campaign, spoilt, automatic, highest>> /\ DOMAIN runs' = DOMAIN runs
  BY DEF RunMoves, bookkeeping
<1>2. ASSUME NEW r \in Runs \ spoilt, r \in DOMAIN runs, NEW p \in DOMAIN runs'[r].asked
      PROVE  runs'[r].asked[p] = goalFile[r]
  BY <1>2 DEF RunMoves, CampaignIInv, FilesTellGoals
<1> QED BY <1>1, <1>2, RunsKept

LEMMA RunMovesTypes ==
  ASSUME CampaignIInv, RunMoves, script' \in Script \cup {None} PROVE CampaignTypeOK'
  BY DEF CampaignIInv, CampaignTypeOK, RunMoves, bookkeeping

\* The invocation goes from one step of the run to another.
LEMMA OnTheWay ==
  ASSUME CampaignIInv, RunMoves, script # None, script.at \in OnRun,
         NEW step \in {"plan", "finalize", "apply", "watch"},
         script' = [script EXCEPT !.at = step],
         step = "watch" => Governed,
         step \in {"finalize", "apply"} => runs'[script.run].applied < Phases
  PROVE  CampaignIInv'
<1>1. script \in Script
  BY KnownScript DEF CampaignIInv
<1>2. /\ script' \in Script /\ script'.at = step /\ script'.goal = script.goal
      /\ script'.known = script.known /\ script'.cap = script.cap /\ script'.run = script.run
      /\ script'.given = script.given /\ script'.passed = script.passed
      /\ (Governed' <=> Governed)
  BY <1>1 DEF Script, Steps, Governed
<1>3. UNCHANGED <<goalFile, campaign, spoilt, automatic, highest>> /\ DOMAIN runs' = DOMAIN runs
  BY DEF RunMoves, bookkeeping
<1>4. CampaignTypeOK'
  BY <1>2, RunMovesTypes
<1>5. CampaignIsKnown'
  BY <1>2, <1>3 DEF CampaignIInv, CampaignIsKnown, OnRun
<1>6. RunIsThere' /\ GoalOfTheRun'
  BY <1>2, <1>3 DEF CampaignIInv, RunIsThere, GoalOfTheRun, OnRun
<1>7. RoomLeft'
  BY <1>2 DEF RoomLeft
<1>8. PassedIsAccepted' /\ OnlyAcceptanceLeadsOn'
  BY <1>2, <1>3 DEF CampaignIInv, RunMoves, PassedIsAccepted, OnlyAcceptanceLeadsOn
<1>9. Told' => Told
  BY <1>2, <1>3 DEF Told, Readable, OnRun
<1> QED BY <1>4, <1>5, <1>6, <1>7, <1>8, <1>9, RunMovesKeeps DEF CampaignIInv

LEMMA RequestKeeps == CampaignIInv /\ RequestPhase => CampaignIInv'
<1> SUFFICES ASSUME CampaignIInv, RequestPhase PROVE CampaignIInv'
  OBVIOUS
<1>1. /\ script # None /\ script.at = "plan" /\ script' = [script EXCEPT !.at = "finalize"]
      /\ runs[script.run].applied < Phases
      /\ UNCHANGED <<unchecked, goalFile, campaign, bookkeeping>>
  BY DEF RequestPhase, Go
<1>2. script.run \in DOMAIN runs /\ script.goal \in Goals /\ goalFile[script.run] = script.goal
  BY <1>1 DEF CampaignIInv, RunIsThere, GoalOfTheRun, OnRun
<1>3. RunMoves /\ runs'[script.run].applied = runs[script.run].applied
  <2>1. CASE runs' = runs
    BY <1>1, <2>1, StillRuns
  <2>2. CASE runs' # runs
    <3> DEFINE asked == Append(runs[script.run].asked, script.goal)
               run == [runs[script.run] EXCEPT !.asked = asked]
    <3>1. runs' = [runs EXCEPT ![script.run] = run]
      BY <2>2 DEF RequestPhase
    <3>2. runs[script.run] \in Run /\ runs[script.run].asked \in Seq(Goals)
      BY <1>2, RunTypes DEF Run
    <3>3. /\ asked \in Seq(Goals)
          /\ \A p \in DOMAIN asked :
               \/ p \in DOMAIN runs[script.run].asked /\ asked[p] = runs[script.run].asked[p]
               \/ asked[p] = script.goal
      BY <1>2, <3>2
    <3> HIDE DEF asked
    <3>4. /\ run \in Run /\ run.asked = asked /\ run.applied = runs[script.run].applied
          /\ run.accepted = runs[script.run].accepted /\ run.evidence = runs[script.run].evidence
      BY <3>2, <3>3 DEF Run
    <3> HIDE DEF run
    <3>5. /\ runs' \in Seq(Run) /\ DOMAIN runs' = DOMAIN runs /\ Len(runs') = Len(runs)
          /\ runs'[script.run] = run
          /\ \A r \in DOMAIN runs : r # script.run => runs'[r] = runs[r]
      BY <1>2, <3>1, <3>4, RunTypes
    <3> QED BY <1>1, <1>2, <3>3, <3>4, <3>5 DEF RunMoves
  <2> QED BY <2>1, <2>2
<1> QED BY <1>1, <1>3, OnTheWay DEF OnRun

LEMMA FinalizeKeeps == CampaignIInv /\ FinalizePhase => CampaignIInv'
<1> SUFFICES ASSUME CampaignIInv, FinalizePhase PROVE CampaignIInv'
  OBVIOUS
<1>1. /\ script # None /\ script.at = "finalize" /\ script' = [script EXCEPT !.at = "apply"]
      /\ UNCHANGED <<unchecked, runs, goalFile, campaign, bookkeeping>>
  BY DEF FinalizePhase, Go
<1>2. runs'[script.run].applied < Phases
  BY <1>1 DEF CampaignIInv, RunIsThere
<1> QED BY <1>1, <1>2, StillRuns, OnTheWay DEF OnRun

LEMMA ApplyKeeps == CampaignIInv /\ ApplyPhase => CampaignIInv'
<1> SUFFICES ASSUME CampaignIInv, ApplyPhase PROVE CampaignIInv'
  OBVIOUS
<1>1. /\ script # None /\ script.at = "apply" /\ script' = [script EXCEPT !.at = "plan"]
      /\ runs' = [runs EXCEPT ![script.run].applied = @ + 1]
      /\ UNCHANGED <<unchecked, goalFile, campaign, bookkeeping>>
  BY DEF ApplyPhase, Go
<1>2. script.run \in DOMAIN runs /\ runs[script.run].applied < Phases
  BY <1>1 DEF CampaignIInv, RunIsThere, OnRun
<1>3. RunMoves
  <2> DEFINE run == [runs[script.run] EXCEPT !.applied = @ + 1]
  <2>1. runs[script.run] \in Run
    BY <1>2, RunTypes
  <2>2. /\ run \in Run /\ run.asked = runs[script.run].asked
        /\ run.accepted = runs[script.run].accepted /\ run.evidence = runs[script.run].evidence
    BY <1>2, <2>1, CampaignAssumption DEF Run
  <2>3. runs' = [runs EXCEPT ![script.run] = run]
    BY <1>1
  <2> HIDE DEF run
  <2>4. /\ runs' \in Seq(Run) /\ DOMAIN runs' = DOMAIN runs /\ Len(runs') = Len(runs)
        /\ runs'[script.run] = run
        /\ \A r \in DOMAIN runs : r # script.run => runs'[r] = runs[r]
    BY <1>2, <2>2, <2>3, RunTypes
  <2> QED BY <1>1, <2>2, <2>4 DEF RunMoves
<1> QED BY <1>1, <1>3, OnTheWay DEF OnRun

LEMMA PlannedKeeps == CampaignIInv /\ Planned => CampaignIInv'
<1> SUFFICES ASSUME CampaignIInv, Planned PROVE CampaignIInv'
  OBVIOUS
<1>1. /\ script # None /\ script.at = "plan"
      /\ UNCHANGED <<unchecked, runs, goalFile, campaign, bookkeeping>>
  BY DEF Planned
<1>2. CASE Governed
  BY <1>1, <1>2, StillRuns, OnTheWay DEF Planned, Go, OnRun
<1>3. CASE ~Governed
  <2>1. script' = None /\ RunMoves
    BY <1>1, <1>3, StillRuns DEF Planned, End
  <2>2. CampaignTypeOK'
    BY <2>1, RunMovesTypes
  <2> QED BY <1>1, <2>1, <2>2, EndKeeps DEF bookkeeping
<1> QED BY <1>2, <1>3

\* The orchestrator moves a run, whatever the invocation does.
LEMMA RunGoesOn ==
  ASSUME CampaignIInv, RunMoves, script' = script,
         \A r \in DOMAIN runs : runs'[r].applied = runs[r].applied
  PROVE  CampaignIInv'
<1>1. UNCHANGED <<goalFile, campaign, spoilt, automatic, highest>> /\ DOMAIN runs' = DOMAIN runs
  BY DEF RunMoves, bookkeeping
<1>2. CampaignTypeOK'
  BY RunMovesTypes DEF CampaignIInv, CampaignTypeOK
<1>3. CampaignIsKnown'
  BY <1>1 DEF CampaignIInv, CampaignIsKnown, Governed
<1>4. RunIsThere'
  BY <1>1 DEF CampaignIInv, RunIsThere, Governed, OnRun
<1>5. GoalOfTheRun'
  BY <1>1 DEF CampaignIInv, GoalOfTheRun
<1>6. RoomLeft'
  BY <1>1 DEF CampaignIInv, RoomLeft, Governed, Unfinished
<1>7. PassedIsAccepted' /\ OnlyAcceptanceLeadsOn'
  BY <1>1 DEF CampaignIInv, RunMoves, RunIsThere, PassedIsAccepted, OnlyAcceptanceLeadsOn, OnRun
<1>8. Told' => Told
  BY <1>1 DEF Told, Readable, Governed
<1> QED BY <1>2, <1>3, <1>4, <1>5, <1>6, <1>7, <1>8, RunMovesKeeps DEF CampaignIInv

\* A run gets its acceptance, or the artifact of it.
LEMMA FlagMoves ==
  ASSUME CampaignIInv, NEW r \in DOMAIN runs,
         UNCHANGED <<unchecked, goalFile, campaign, script, bookkeeping>>,
         \/ runs' = [runs EXCEPT ![r].accepted = TRUE]
         \/ runs' = [runs EXCEPT ![r].evidence = TRUE]
  PROVE  CampaignIInv'
<1>1. PICK run \in {[runs[r] EXCEPT !.accepted = TRUE], [runs[r] EXCEPT !.evidence = TRUE]} :
        runs' = [runs EXCEPT ![r] = run]
  OBVIOUS
<1>2. runs[r] \in Run
  BY RunTypes
<1>3. /\ run \in Run /\ run.asked = runs[r].asked /\ run.applied = runs[r].applied
      /\ runs[r].accepted => run.accepted
      /\ runs[r].evidence => run.evidence
  BY <1>2 DEF Run
<1>4. /\ runs' \in Seq(Run) /\ DOMAIN runs' = DOMAIN runs /\ Len(runs') = Len(runs)
      /\ runs'[r] = run
      /\ \A q \in DOMAIN runs : q # r => runs'[q] = runs[q]
  BY <1>1, <1>3, RunTypes
<1>5. RunMoves
  BY <1>3, <1>4 DEF RunMoves
<1>6. \A q \in DOMAIN runs : runs'[q].applied = runs[q].applied
  BY <1>3, <1>4
<1> QED BY <1>5, <1>6, RunGoesOn

LEMMA AcceptKeeps ==
  ASSUME CampaignIInv, NEW r \in DOMAIN runs, AcceptRun(r) \/ SaveAcceptance(r) PROVE CampaignIInv'
  BY FlagMoves DEF AcceptRun, SaveAcceptance

-----------------------------------------------------------------------------
(* The end of an iteration, and of an invocation.                           *)

LEMMA WatchKeeps == CampaignIInv /\ Watch => CampaignIInv'
<1> SUFFICES ASSUME CampaignIInv, Watch PROVE CampaignIInv'
  OBVIOUS
<1>1. script # None /\ script.at = "watch" /\ script \in Script /\ Governed
  BY KnownScript DEF Watch, CampaignIInv, RunIsThere
<1>2. UNCHANGED <<unchecked, runs, goalFile, campaign, bookkeeping>>
  BY DEF Watch
<1>3. UNCHANGED <<spoilt, automatic, highest>>
  BY <1>2 DEF bookkeeping
<1>4. PICK outcome \in Classify(script.run) :
        \E g \in (IF outcome = "accepted" /\ ~AtCap(script.known) /\ NextGoal # {}
                 THEN NextGoal ELSE {None}) :
          script' = [script EXCEPT !.at = "finish", !.next = g]
  BY DEF Watch
<1>5. PICK g \in (IF outcome = "accepted" /\ ~AtCap(script.known) /\ NextGoal # {}
                 THEN NextGoal ELSE {None}) :
        script' = [script EXCEPT !.at = "finish", !.next = g]
  BY <1>4
<1>6. NextGoal \subseteq Todos
  BY CampaignAssumption DEF NextGoal
<1>7. g \in Todos \cup {None}
  BY <1>6
<1>8. g # None => outcome = "accepted" /\ ~AtCap(script.known)
  OBVIOUS
<1>9. outcome = "accepted" => runs[script.run].accepted /\ runs[script.run].evidence
  BY DEF Classify
<1>10. /\ script' \in Script /\ script'.at = "finish" /\ script'.goal = script.goal
      /\ script'.known = script.known /\ script'.cap = script.cap /\ script'.run = script.run
      /\ script'.given = script.given /\ script'.passed = script.passed /\ script'.next = g
      /\ (Governed' <=> Governed)
  BY <1>1, <1>5, <1>7 DEF Script, Steps, Governed
<1>11. CampaignTypeOK'
  BY <1>2, <1>10, StillRuns, RunMovesTypes
<1>12. script.known = campaign /\ campaign \in State
  BY <1>1 DEF CampaignIInv, CampaignIsKnown
<1>13. g # None => campaign.started < script.cap
  <2>1. campaign.started \in Nat /\ script.cap \in Nat
    BY <1>1, <1>12, CampaignAssumption DEF State, Script
  <2> QED BY <1>8, <1>12, <2>1 DEF AtCap
<1>14. CampaignIsKnown'
  BY <1>1, <1>2, <1>3, <1>10 DEF CampaignIInv, CampaignIsKnown
<1>15. RunIsThere' /\ GoalOfTheRun'
  BY <1>1, <1>2, <1>10 DEF CampaignIInv, RunIsThere, GoalOfTheRun, OnRun
<1>16. RoomLeft'
  BY <1>2, <1>10, <1>13 DEF RoomLeft
<1>17. PassedIsAccepted' /\ OnlyAcceptanceLeadsOn'
  BY <1>1, <1>2, <1>8, <1>9, <1>10 DEF CampaignIInv, PassedIsAccepted, OnlyAcceptanceLeadsOn
<1>18. Told' => Told
  BY <1>1, <1>2, <1>10 DEF Told, Readable
<1> QED BY <1>2, <1>3, <1>11, <1>14, <1>15, <1>16, <1>17, <1>18, CampaignKept DEF CampaignIInv

\* The iterations of the run are marked; nothing else of the history changes.
LEMMA FinishedHistory ==
  ASSUME NEW c \in State, NEW r
  PROVE  /\ Finished(c, r) \in State
         /\ Finished(c, r).active = None /\ Finished(c, r).started = c.started
         /\ DOMAIN Finished(c, r).history = DOMAIN c.history
         /\ \A n \in DOMAIN c.history :
              /\ Finished(c, r).history[n].run = c.history[n].run
              /\ Finished(c, r).history[n].goal = c.history[n].goal
<1> DEFINE mark == [n \in DOMAIN c.history |-> IF c.history[n].run = r
                                                THEN [c.history[n] EXCEPT !.done = TRUE]
                                                ELSE c.history[n]]
<1>1. c.history \in Seq(Entry)
  BY DEF State
<1>2. /\ DOMAIN mark = DOMAIN c.history
      /\ \A n \in DOMAIN c.history :
           mark[n] \in Entry /\ mark[n].run = c.history[n].run /\ mark[n].goal = c.history[n].goal
  <2>1. DOMAIN mark = DOMAIN c.history
    OBVIOUS
  <2> SUFFICES ASSUME NEW n \in DOMAIN c.history
               PROVE  /\ mark[n] \in Entry /\ mark[n].run = c.history[n].run
                      /\ mark[n].goal = c.history[n].goal
    BY <2>1
  <2>2. c.history[n] \in Entry
    BY <1>1
  <2>3. mark[n] = IF c.history[n].run = r THEN [c.history[n] EXCEPT !.done = TRUE]
                  ELSE c.history[n]
    OBVIOUS
  <2> HIDE DEF mark
  <2> QED BY <2>2, <2>3 DEF Entry
<1>3. mark \in Seq(Entry)
  <2>1. DOMAIN mark = 1 .. Len(c.history) /\ Len(c.history) \in Nat
    BY <1>1, <1>2
  <2>2. mark = [n \in 1 .. Len(c.history) |-> mark[n]]
    BY <2>1
  <2>3. \A n \in 1 .. Len(c.history) : mark[n] \in Entry
    BY <1>2, <2>1
  <2> HIDE DEF mark
  <2>4. mark \in [1 .. Len(c.history) -> Entry]
    BY <2>2, <2>3
  <2> QED BY <2>1, <2>4
<1>4. Finished(c, r) = [c EXCEPT !.active = None, !.history = mark]
  BY DEF Finished
<1> HIDE DEF mark
<1>5. /\ Finished(c, r) \in State /\ Finished(c, r).active = None
      /\ Finished(c, r).started = c.started /\ Finished(c, r).history = mark
  BY <1>3, <1>4 DEF State
<1> QED BY <1>2, <1>5

LEMMA FinishKeeps == CampaignIInv /\ FinishIteration => CampaignIInv'
<1> SUFFICES ASSUME CampaignIInv, FinishIteration PROVE CampaignIInv'
  OBVIOUS
<1>1. script # None /\ script.at = "finish" /\ script \in Script /\ Governed
  BY KnownScript DEF FinishIteration, CampaignIInv, RunIsThere
<1>2. /\ UNCHANGED <<unchecked, runs, goalFile, spoilt, automatic, highest, invocations, deaths>>
      /\ campaign' = Finished(script.known, script.run)
  BY DEF FinishIteration, bookkeeping
<1>3. script.known = campaign /\ campaign \in State /\ Told /\ script.cap <= highest
  BY <1>1 DEF CampaignIInv, CampaignIsKnown, Told
<1>4. /\ campaign' \in State /\ campaign'.active = None /\ campaign'.started = campaign.started
      /\ DOMAIN campaign'.history = DOMAIN campaign.history
      /\ \A n \in DOMAIN campaign.history :
           /\ campaign'.history[n].run = campaign.history[n].run
           /\ campaign'.history[n].goal = campaign.history[n].goal
  BY <1>2, <1>3, FinishedHistory
<1>5. FilesTellGoals'
  BY <1>2 DEF CampaignIInv, FilesTellGoals
<1>6. HistoryTellsGoals'
  BY <1>2, <1>3, <1>4 DEF CampaignIInv, HistoryTellsGoals
<1>7. ActiveIsUnfinished'
  BY <1>4 DEF ActiveIsUnfinished
<1>8. AllCounted' /\ CapIsHard'
  BY <1>2, <1>3, <1>4 DEF CampaignIInv, AllCounted, CapIsHard
<1>9. CASE script.next = None
  <2>1. script' = None
    BY <1>9 DEF FinishIteration, End
  <2>2. CampaignTypeOK'
    BY <1>2, <1>4, <2>1 DEF CampaignIInv, CampaignTypeOK
  <2> QED BY <1>5, <1>6, <1>7, <1>8, <2>1, <2>2, NoScript DEF CampaignIInv
<1>10. CASE script.next # None
  <2>1. script' = [script EXCEPT !.at = "open", !.known = campaign', !.given = FALSE,
                     !.todo = None, !.run = None, !.goal = script.next, !.next = None,
                     !.passed = @ \cup {script.run}]
    BY <1>10 DEF FinishIteration
  <2>2. script.run \in DOMAIN runs /\ script.run \in Runs
    BY <1>1, RunTypes DEF CampaignIInv, RunIsThere, OnRun
  <2>3. script.next \in Todos /\ script.next \in Goals
    BY <1>1, <1>10 DEF Script, Goals
  <2>4. script.passed \cup {script.run} \in SUBSET Runs
    BY <1>1, <2>2 DEF Script
  <2>5. /\ script' \in Script /\ script'.at = "open" /\ script'.goal = script.next
        /\ script'.known = campaign' /\ script'.cap = script.cap /\ script'.run = None
        /\ script'.next = None /\ script'.passed = script.passed \cup {script.run}
    <3> DEFINE known == campaign'
               goal == script.next
               passed == script.passed \cup {script.run}
    <3>1. known \in State /\ goal \in Goals /\ passed \in SUBSET Runs
      BY <1>4, <2>3, <2>4
    <3> HIDE DEF known, goal, passed
    <3>2. script' = [script EXCEPT !.at = "open", !.known = known, !.given = FALSE, !.todo = None,
                       !.run = None, !.goal = goal, !.next = None, !.passed = passed]
      BY <2>1 DEF known, goal, passed
    <3>3. /\ script'.at = "open" /\ script'.goal = goal /\ script'.known = known
          /\ script'.cap = script.cap /\ script'.run = None /\ script'.next = None
          /\ script'.passed = passed
      BY <1>1, <3>2 DEF Script
    <3>4. script' \in Script
      BY <1>1, <3>1, <3>2 DEF Script, Steps
    <3> QED BY <3>3, <3>4 DEF known, goal, passed
  <2>6. CampaignTypeOK'
    BY <1>2, <1>4, <2>5 DEF CampaignIInv, CampaignTypeOK
  <2>7. CampaignIsKnown'
    BY <1>2, <1>3, <1>4, <2>5 DEF CampaignIsKnown
  <2>8. RunIsThere' /\ GoalOfTheRun'
    BY <2>3, <2>5 DEF RunIsThere, GoalOfTheRun, OnRun
  <2>9. RoomLeft'
    <3>1. campaign.started < script.cap
      BY <1>1, <1>10 DEF CampaignIInv, RoomLeft
    <3> QED BY <1>4, <2>5, <3>1 DEF RoomLeft
  <2>10. PassedIsAccepted' /\ OnlyAcceptanceLeadsOn'
    BY <1>1, <1>2, <1>10, <2>2, <2>5 DEF CampaignIInv, PassedIsAccepted, OnlyAcceptanceLeadsOn
  <2> QED BY <1>5, <1>6, <1>7, <1>8, <2>6, <2>7, <2>8, <2>9, <2>10 DEF CampaignIInv
<1> QED BY <1>9, <1>10

LEMMA DiesKeeps == CampaignIInv /\ Dies => CampaignIInv'
<1> SUFFICES ASSUME CampaignIInv, Dies PROVE CampaignIInv'
  OBVIOUS
<1>1. /\ script # None /\ script \in Script /\ script' = None
      /\ UNCHANGED <<unchecked, runs, automatic, highest, invocations>>
      /\ deaths' \in 0 .. MaxDeaths
  <2>1. deaths < MaxDeaths /\ deaths' = deaths + 1
    BY DEF Dies
  <2>2. deaths' \in 0 .. MaxDeaths
    BY <2>1, CampaignAssumption DEF CampaignIInv, CampaignTypeOK
  <2> QED BY <2>2, KnownScript DEF Dies, End, CampaignIInv
<1>2. CASE UNCHANGED <<goalFile, campaign, spoilt>>
  <2>1. CampaignTypeOK'
    BY <1>1, <1>2 DEF CampaignIInv, CampaignTypeOK
  <2> QED BY <1>1, <1>2, <2>1, EndKeeps
<1>3. CASE /\ script.at = "goal"
           /\ goalFile' = [goalFile EXCEPT ![script.run] = Torn]
           /\ spoilt' = spoilt \cup {script.run}
           /\ UNCHANGED campaign
  <2>1. script.run \in DOMAIN runs /\ script.run \in Runs
    BY <1>1, <1>3, RunTypes DEF CampaignIInv, RunIsThere, OnRun
  <2>2. /\ goalFile' \in [Runs -> Goals \cup {None, Torn}]
        /\ \A r \in Runs : r # script.run => goalFile'[r] = goalFile[r]
    BY <1>3, <2>1 DEF CampaignIInv, CampaignTypeOK
  <2>3. CampaignTypeOK'
    BY <1>1, <1>3, <2>1, <2>2 DEF CampaignIInv, CampaignTypeOK
  <2>4. Told' => Told
    BY <1>1, <1>3, NoScript DEF Told, Readable
  <2>5. FilesTellGoals'
    BY <1>1, <1>3, <2>1, <2>2 DEF CampaignIInv, FilesTellGoals
  <2>6. HistoryTellsGoals'
    BY <1>1, <1>3, <2>2, <2>4, RunTypes DEF CampaignIInv, HistoryTellsGoals
  <2>7. ActiveIsUnfinished' /\ AllCounted' /\ CapIsHard'
    BY <1>1, <1>3, <2>4 DEF CampaignIInv, ActiveIsUnfinished, Unfinished, AllCounted, CapIsHard
  <2> QED BY <1>1, <2>3, <2>5, <2>6, <2>7, NoScript DEF CampaignIInv
<1>4. CASE campaign' = Torn /\ UNCHANGED <<goalFile, spoilt>>
  <2>1. ~Told'
    BY <1>1, <1>4 DEF Told, Readable
  <2>2. CampaignTypeOK'
    BY <1>1, <1>4 DEF CampaignIInv, CampaignTypeOK
  <2>3. FilesTellGoals'
    BY <1>1, <1>4 DEF CampaignIInv, FilesTellGoals
  <2>4. HistoryTellsGoals' /\ ActiveIsUnfinished' /\ AllCounted' /\ CapIsHard'
    BY <1>1, <2>1 DEF CampaignIInv, HistoryTellsGoals, ActiveIsUnfinished, AllCounted, CapIsHard
  <2> QED BY <1>1, <2>2, <2>3, <2>4, NoScript DEF CampaignIInv
<1> QED BY <1>2, <1>3, <1>4 DEF Dies

\* Somebody edits todolist.md.
LEMMA Elsewhere ==
  ASSUME CampaignIInv, unchecked' \subseteq Todos, UNCHANGED <<runs, goalFile, campaign, script, bookkeeping>>
  PROVE  CampaignIInv'
<1>1. UNCHANGED <<spoilt, automatic, highest, invocations, deaths>>
  BY DEF bookkeeping
<1>2. CampaignTypeOK'
  BY <1>1 DEF CampaignIInv, CampaignTypeOK
<1>3. CampaignIsKnown' /\ RunIsThere' /\ GoalOfTheRun' /\ RoomLeft'
  BY <1>1 DEF CampaignIInv, CampaignIsKnown, RunIsThere, GoalOfTheRun, RoomLeft, Governed, Unfinished
<1>4. PassedIsAccepted' /\ OnlyAcceptanceLeadsOn'
  BY DEF CampaignIInv, PassedIsAccepted, OnlyAcceptanceLeadsOn
<1>5. Told' => Told
  BY DEF Told, Readable, Governed
<1> QED BY <1>1, <1>2, <1>3, <1>4, <1>5, CampaignKept DEF CampaignIInv

LEMMA CampaignCheckKeeps == CampaignIInv /\ Check => CampaignIInv'
<1> SUFFICES ASSUME CampaignIInv, Check PROVE CampaignIInv'
  OBVIOUS
<1>1. unchecked' \subseteq Todos /\ UNCHANGED <<runs, goalFile, campaign, script, bookkeeping>>
  BY DEF Check, CampaignIInv, CampaignTypeOK
<1> QED BY <1>1, Elsewhere

-----------------------------------------------------------------------------
(* The theorems.                                                            *)

LEMMA CampaignInitially == CampaignInit => CampaignIInv
<1> SUFFICES ASSUME CampaignInit PROVE CampaignIInv
  OBVIOUS
<1>1. ~Told /\ script = None
  BY DEF CampaignInit, Told, Readable
<1>2. CampaignTypeOK
  BY CampaignAssumption DEF CampaignInit, CampaignTypeOK
<1>3. CampaignIsKnown /\ RunIsThere /\ GoalOfTheRun /\ RoomLeft
  BY <1>1 DEF CampaignIsKnown, RunIsThere, GoalOfTheRun, RoomLeft
<1>4. FilesTellGoals
  BY CampaignAssumption DEF CampaignInit, FilesTellGoals
<1>5. HistoryTellsGoals /\ ActiveIsUnfinished /\ AllCounted
  BY <1>1 DEF HistoryTellsGoals, ActiveIsUnfinished, AllCounted
<1>6. CapIsHard
  BY DEF CampaignInit, CapIsHard
<1>7. PassedIsAccepted /\ OnlyAcceptanceLeadsOn
  BY <1>1 DEF PassedIsAccepted, OnlyAcceptanceLeadsOn
<1> QED BY <1>2, <1>3, <1>4, <1>5, <1>6, <1>7 DEF CampaignIInv

LEMMA CampaignPreserved == CampaignIInv /\ [CampaignNext]_campaignVars => CampaignIInv'
<1> SUFFICES ASSUME CampaignIInv, [CampaignNext]_campaignVars PROVE CampaignIInv'
  OBVIOUS
<1>1. CASE UNCHANGED campaignVars
  <2>1. unchecked' \subseteq Todos /\ UNCHANGED <<runs, goalFile, campaign, script, bookkeeping>>
    BY <1>1 DEF campaignVars, CampaignIInv, CampaignTypeOK
  <2> QED BY <2>1, Elsewhere
<1>2. CASE Invoke \/ LoadCampaign \/ Resolve \/ Stop
  BY <1>2, InvokeKeeps, LoadKeeps, ResolveKeeps, StopKeeps
<1>3. CASE Open \/ PersistGoal \/ BeginIteration
  BY <1>3, CampaignOpenKeeps, PersistKeeps, BeginKeeps
<1>4. CASE RequestPhase \/ FinalizePhase \/ ApplyPhase \/ Planned
  BY <1>4, RequestKeeps, FinalizeKeeps, ApplyKeeps, PlannedKeeps
<1>5. CASE Watch \/ FinishIteration \/ Dies \/ Check
  BY <1>5, WatchKeeps, FinishKeeps, DiesKeeps, CampaignCheckKeeps
<1>6. CASE \E r \in DOMAIN runs : AcceptRun(r) \/ SaveAcceptance(r)
  BY <1>6, AcceptKeeps
<1> QED BY <1>1, <1>2, <1>3, <1>4, <1>5, <1>6 DEF CampaignNext

LEMMA Inductive == CampaignSpec => []CampaignIInv
<1> QED BY CampaignInitially, CampaignPreserved, PTL DEF CampaignSpec

\* The types of Campaign.
THEOREM CampaignTypes == CampaignSpec => []CampaignTypeOK
<1>1. CampaignIInv => CampaignTypeOK
  BY DEF CampaignIInv
<1> QED BY <1>1, Inductive, PTL

\* However often the driver dies, and whichever runs are resumed by name or by the campaign,
\* the phases of a run the campaign counts were all planned under the goal of its iteration,
\* unless the goal file of the run was torn.
THEOREM ScopeIsTheGoals == CampaignSpec => []ScopeFollowsGoal
<1>1. CampaignIInv => ScopeFollowsGoal
  <2> SUFFICES ASSUME CampaignIInv, Readable, NEW n \in DOMAIN campaign.history,
                      campaign.history[n].run \notin spoilt,
                      NEW p \in DOMAIN runs[campaign.history[n].run].asked
               PROVE  runs[campaign.history[n].run].asked[p] = campaign.history[n].goal
    BY DEF ScopeFollowsGoal
  <2>1. /\ campaign.history[n].run \in DOMAIN runs
        /\ goalFile[campaign.history[n].run] = campaign.history[n].goal
    BY DEF CampaignIInv, HistoryTellsGoals, Told
  <2>2. campaign.history[n].run \in Runs
    BY <2>1, RunTypes
  <2> QED BY <2>1, <2>2 DEF CampaignIInv, FilesTellGoals
<1> QED BY <1>1, Inductive, PTL

\* --iteration-cap holds for every number of runs, deaths and invocations.
THEOREM TheCapIsHard == CampaignSpec => []CapIsHard
<1>1. CampaignIInv => CapIsHard
  BY DEF CampaignIInv
<1> QED BY <1>1, Inductive, PTL

\* A governed campaign leaves a run for the next goal only when the run is accepted and has
\* its acceptance artifact.
THEOREM AcceptanceLeadsOn == CampaignSpec => []OnlyAcceptanceLeadsOn
<1>1. CampaignIInv => OnlyAcceptanceLeadsOn
  BY DEF CampaignIInv
<1> QED BY <1>1, Inductive, PTL

-----------------------------------------------------------------------------
(* The ledgers.  Each write leaves the other ledgers alone, so what holds   *)
(* of options and of decisions is inductive with the types, whatever a file *)
(* reads as.  What Ledgers keeps of the checkpoints, their links, is apart  *)
(* from what Preparation keeps of them.                                     *)

CONSTANT Names
VARIABLES options, tradeoffs, decisions, approvals, spoiled

Ledger == INSTANCE Ledgers WITH checkpoints <- approvals
ledgers == <<options, tradeoffs, decisions, approvals, spoiled>>

\* Changing the status of a record changes nothing else of it.
LEMMA StatusOfOption ==
  ASSUME NEW r \in Ledger!Option, NEW status \in {"active", "selected", "rejected", "superseded"}
  PROVE /\ [r EXCEPT !.status = status] \in Ledger!Option
        /\ [r EXCEPT !.status = status].status = status
        /\ [r EXCEPT !.status = status].stage = r.stage
BY DEF Ledger!Option

LEMMA StatusOfDecision ==
  ASSUME NEW r \in Ledger!Decision, NEW status \in {"proposed", "approved", "rejected", "superseded"}
  PROVE /\ [r EXCEPT !.status = status] \in Ledger!Decision
        /\ [r EXCEPT !.status = status].status = status
        /\ [r EXCEPT !.status = status].checkpoint = r.checkpoint
BY DEF Ledger!Decision

LEMMA StatusOfApproval ==
  ASSUME NEW r \in Ledger!Checkpoint,
         NEW status \in {"pending_human", "approved", "rejected", "superseded"}
  PROVE /\ [r EXCEPT !.status = status] \in Ledger!Checkpoint
        /\ [r EXCEPT !.status = status].status = status
        /\ [r EXCEPT !.status = status].links = r.links
BY DEF Ledger!Checkpoint

\* A ledger with another record in the place of each is a ledger; so is the one without records.
LEMMA LedgersAndRecords ==
  ASSUME NEW Record, NEW ledger \in Ledger!LedgerOf(Record)
  PROVE /\ Ledger!Nothing \in Ledger!LedgerOf(Record) /\ DOMAIN Ledger!Nothing = {}
        /\ DOMAIN ledger \in SUBSET Nat /\ ledger \in [DOMAIN ledger -> Record]
        /\ \A n \in DOMAIN ledger : n \in Nat /\ ledger[n] \in Record
        /\ \A f \in [DOMAIN ledger -> Record] : f \in Ledger!LedgerOf(Record)
<1>1. PICK N \in SUBSET Nat : ledger \in [N -> Record]
  BY DEF Ledger!LedgerOf
<1>2. DOMAIN ledger = N
  BY <1>1
<1>3. Ledger!Nothing \in [{} -> Record] /\ DOMAIN Ledger!Nothing = {}
  BY DEF Ledger!Nothing
<1>4. \A f \in [DOMAIN ledger -> Record] : f \in Ledger!LedgerOf(Record)
  BY <1>2 DEF Ledger!LedgerOf
<1>5. Ledger!Nothing \in Ledger!LedgerOf(Record)
  BY <1>3 DEF Ledger!LedgerOf
<1>. QED BY <1>1, <1>2, <1>3, <1>4, <1>5

\* A ledger with a record more is one.
LEMMA RecordAdded ==
  ASSUME NEW Record, NEW ledger \in Ledger!LedgerOf(Record), NEW n \in Nat, NEW record \in Record,
         NEW more, more = Ledger!Added(ledger, n, record)
  PROVE /\ more \in Ledger!LedgerOf(Record)
        /\ DOMAIN more = DOMAIN ledger \cup {n}
        /\ more[n] = record
        /\ \A m \in DOMAIN ledger \ {n} : more[m] = ledger[m]
<1>1. DOMAIN ledger \in SUBSET Nat /\ ledger \in [DOMAIN ledger -> Record]
  BY LedgersAndRecords
<1>2. /\ more \in [DOMAIN ledger \cup {n} -> Record]
      /\ DOMAIN more = DOMAIN ledger \cup {n}
      /\ more[n] = record
      /\ \A m \in DOMAIN ledger \ {n} : more[m] = ledger[m]
  BY <1>1 DEF Ledger!Added
<1>3. DOMAIN ledger \cup {n} \in SUBSET Nat
  BY <1>1
<1>4. more \in Ledger!LedgerOf(Record)
  BY <1>2, <1>3 DEF Ledger!LedgerOf
<1>. QED BY <1>2, <1>4

\* What the three steps on options do.
LEMMA OptionEffect ==
  ASSUME Ledger!TypeOK, Ledger!OptionStep
  PROVE /\ options' \in Ledger!LedgerOf(Ledger!Option)
        /\ Ledger!OneSelectedPerStage => Ledger!OneSelectedPerStage'
        /\ UNCHANGED <<tradeoffs, decisions, approvals>>
        /\ spoiled' \subseteq Ledger!Files /\ ("decisions" \in spoiled => "decisions" \in spoiled')
<1>0. /\ options \in Ledger!LedgerOf(Ledger!Option) /\ spoiled \subseteq Ledger!Files
      /\ \A i \in DOMAIN options : options[i] \in Ledger!Option
  BY LedgersAndRecords DEF Ledger!TypeOK
\* What is written is as good as what was read.
<1> DEFINE Good(written) ==
             /\ written \in Ledger!LedgerOf(Ledger!Option)
             /\ Ledger!OneSelectedPerStage /\ "options" \notin spoiled =>
                  \A i, j \in DOMAIN written :
                    /\ written[i].status = "selected" /\ written[j].status = "selected"
                    /\ written[i].stage = written[j].stage
                    => i = j
<1>1. ASSUME NEW written, Good(written), Ledger!WriteOptions(written)
      PROVE /\ options' \in Ledger!LedgerOf(Ledger!Option)
            /\ Ledger!OneSelectedPerStage => Ledger!OneSelectedPerStage'
            /\ UNCHANGED <<tradeoffs, decisions, approvals>>
            /\ spoiled' \subseteq Ledger!Files /\ ("decisions" \in spoiled => "decisions" \in spoiled')
  <2>1. UNCHANGED <<tradeoffs, decisions, approvals>>
    BY <1>1 DEF Ledger!WriteOptions
  <2>2. CASE options' = written /\ UNCHANGED spoiled
    BY <1>0, <1>1, <2>1, <2>2 DEF Ledger!OneSelectedPerStage
  <2>3. CASE options' = Ledger!Nothing /\ spoiled' = spoiled \ {"options"}
    <3>1. options' \in Ledger!LedgerOf(Ledger!Option) /\ DOMAIN options' = {}
      BY <1>0, <2>3, LedgersAndRecords
    <3>. QED BY <1>0, <2>1, <2>3, <3>1 DEF Ledger!OneSelectedPerStage
  <2>4. CASE options' \in Ledger!LedgerOf(Ledger!Option) /\ spoiled' = spoiled \cup {"options"}
    BY <1>0, <2>1, <2>4 DEF Ledger!OneSelectedPerStage, Ledger!Files
  <2>. QED BY <1>1, <2>2, <2>3, <2>4 DEF Ledger!WriteOptions, Ledger!ReadsBack
<1>2. ASSUME NEW stage \in Stages, Ledger!AddOption(stage)
      PROVE \E written : Good(written) /\ Ledger!WriteOptions(written)
  <2> DEFINE new == [stage |-> stage, status |-> "active"]
  <2>1. new \in Ledger!Option /\ new.status = "active"
    BY DEF Ledger!Option
  <2>2. Good(options)
    BY <1>0 DEF Ledger!OneSelectedPerStage
  <2> HIDE DEF new
  <2>3. ASSUME NEW n \in Nat PROVE Good(Ledger!Added(options, n, new))
    <3> DEFINE written == Ledger!Added(options, n, new)
    <3>1. /\ written \in Ledger!LedgerOf(Ledger!Option) /\ DOMAIN written = DOMAIN options \cup {n}
          /\ written[n] = new /\ \A m \in DOMAIN options \ {n} : written[m] = options[m]
      <4>1. options \in Ledger!LedgerOf(Ledger!Option)
        BY <1>0
      <4>2. new \in Ledger!Option
        BY <2>1
      <4> HIDE DEF Good
      <4>3. written = Ledger!Added(options, n, new)
        OBVIOUS
      <4> HIDE DEF written
      <4>4. DOMAIN options \in SUBSET Nat /\ options \in [DOMAIN options -> Ledger!Option]
        BY <4>1, LedgersAndRecords
      <4>5. DOMAIN options \cup {n} \in SUBSET Nat
        BY <4>4
      <4>6. /\ written \in [DOMAIN options \cup {n} -> Ledger!Option] /\ DOMAIN written = DOMAIN options \cup {n}
            /\ written[n] = new /\ \A m \in DOMAIN options \ {n} : written[m] = options[m]
        BY <4>2, <4>3, <4>4 DEF Ledger!Added
      <4>. QED BY <4>5, <4>6 DEF Ledger!LedgerOf
    <3> HIDE DEF written
    <3>2. \A m \in DOMAIN written : written[m].status = "selected" =>
            m \in DOMAIN options /\ written[m] = options[m]
      BY <2>1, <3>1
    <3>3. Good(written)
      BY <3>1, <3>2 DEF Ledger!OneSelectedPerStage
    <3>. QED BY <3>3 DEF written
  <2> HIDE DEF Good
  <2>. QED BY <1>2, <2>2, <2>3 DEF Ledger!AddOption, new
<1>3. ASSUME NEW o \in DOMAIN options, Ledger!SelectOption(o)
      PROVE \E written : Good(written) /\ Ledger!WriteOptions(written)
  <2> DEFINE chosen(i) == [options[i] EXCEPT !.status = "selected"]
             replaced(i) == [options[i] EXCEPT !.status = "superseded"]
             rival(i) == options[i].stage = options[o].stage /\ options[i].status = "selected"
             new(i) == IF i = o THEN chosen(i) ELSE IF rival(i) THEN replaced(i) ELSE options[i]
             written == [i \in DOMAIN options |-> new(i)]
  <2>1. Ledger!WriteOptions(written)
    BY <1>3 DEF Ledger!SelectOption
  <2>2. \A i \in DOMAIN options :
          /\ chosen(i) \in Ledger!Option /\ replaced(i) \in Ledger!Option
          /\ chosen(i).stage = options[i].stage /\ replaced(i).stage = options[i].stage
          /\ replaced(i).status = "superseded"
    BY <1>0, StatusOfOption
  <2> HIDE DEF chosen, replaced
  <2>3. \A i \in DOMAIN options : new(i) \in Ledger!Option /\ new(i).stage = options[i].stage
    BY <1>0, <2>2
  <2>4. \A i \in DOMAIN options \ {o} : new(i).status = "selected" =>
          options[i].status = "selected" /\ options[i].stage # options[o].stage
    BY <2>2
  <2> HIDE DEF new
  <2>5. written \in [DOMAIN options -> Ledger!Option]
    BY <2>3
  <2>6. \A i \in DOMAIN options : written[i] = new(i)
    OBVIOUS
  <2>7. DOMAIN written = DOMAIN options
    OBVIOUS
  <2> HIDE DEF written
  <2>8. written \in Ledger!LedgerOf(Ledger!Option)
    BY <1>0, <2>5, LedgersAndRecords
  <2>9. Good(written)
    BY <2>3, <2>4, <2>6, <2>7, <2>8 DEF Ledger!OneSelectedPerStage
  <2>. QED BY <2>1, <2>9
<1>4. ASSUME NEW o \in DOMAIN options, Ledger!RejectOption(o)
      PROVE \E written : Good(written) /\ Ledger!WriteOptions(written)
  <2> DEFINE new == [options[o] EXCEPT !.status = "rejected"]
             written == [options EXCEPT ![o] = new]
  <2>1. Ledger!WriteOptions(written)
    BY <1>4 DEF Ledger!RejectOption
  <2>2. new \in Ledger!Option /\ new.status = "rejected"
    BY <1>0, StatusOfOption
  <2> HIDE DEF new
  <2>3. /\ written \in [DOMAIN options -> Ledger!Option] /\ DOMAIN written = DOMAIN options
        /\ \A i \in DOMAIN options : written[i] = IF i = o THEN new ELSE options[i]
    BY <1>0, <2>2
  <2> HIDE DEF written
  <2>4. written \in Ledger!LedgerOf(Ledger!Option)
    BY <1>0, <2>3, LedgersAndRecords
  <2>5. Good(written)
    BY <2>2, <2>3, <2>4 DEF Ledger!OneSelectedPerStage
  <2>. QED BY <2>1, <2>5
<1> HIDE DEF Good
<1>. QED BY <1>1, <1>2, <1>3, <1>4 DEF Ledger!OptionStep

\* What the steps on tradeoffs do.
LEMMA TradeoffEffect ==
  ASSUME Ledger!TypeOK, Ledger!TradeoffStep
  PROVE /\ tradeoffs' \in Ledger!LedgerOf(Ledger!Tradeoff)
        /\ UNCHANGED <<options, decisions, approvals>>
        /\ spoiled' \subseteq Ledger!Files
        /\ \A file \in {"options", "decisions"} : file \in spoiled => file \in spoiled'
<1>0. tradeoffs \in Ledger!LedgerOf(Ledger!Tradeoff) /\ spoiled \subseteq Ledger!Files
  BY DEF Ledger!TypeOK
<1>1. PICK written \in Ledger!LedgerOf(Ledger!Tradeoff) : Ledger!WriteTradeoffs(written)
  <2>1. CASE Ledger!AddTradeoff
    <3>1. "active" \in Ledger!Tradeoff
      BY DEF Ledger!Tradeoff
    <3>2. \A n \in Nat : Ledger!Added(tradeoffs, n, "active") \in Ledger!LedgerOf(Ledger!Tradeoff)
      BY <1>0, <3>1, RecordAdded
    <3>. QED BY <1>0, <2>1, <3>2 DEF Ledger!AddTradeoff
  <2>2. ASSUME NEW t \in DOMAIN tradeoffs, Ledger!ConvergeTradeoff(t) \/ Ledger!SupersedeTradeoff(t)
        PROVE \E w \in Ledger!LedgerOf(Ledger!Tradeoff) : Ledger!WriteTradeoffs(w)
    <3>1. PICK status \in Ledger!Tradeoff : Ledger!WriteTradeoffs([tradeoffs EXCEPT ![t] = status])
      BY <2>2 DEF Ledger!ConvergeTradeoff, Ledger!SupersedeTradeoff, Ledger!Tradeoff
    <3>2. \A n \in DOMAIN tradeoffs : tradeoffs[n] \in Ledger!Tradeoff
      BY <1>0, LedgersAndRecords
    <3>3. [tradeoffs EXCEPT ![t] = status] \in [DOMAIN tradeoffs -> Ledger!Tradeoff]
      <4>1. tradeoffs \in [DOMAIN tradeoffs -> Ledger!Tradeoff]
        BY <1>0 DEF Ledger!LedgerOf
      <4>. QED BY <4>1
    <3>4. [tradeoffs EXCEPT ![t] = status] \in Ledger!LedgerOf(Ledger!Tradeoff)
      BY <1>0, <3>3, LedgersAndRecords
    <3>. QED BY <3>1, <3>4
  <2>. QED BY <2>1, <2>2 DEF Ledger!TradeoffStep
<1>2. Ledger!Nothing \in Ledger!LedgerOf(Ledger!Tradeoff)
  BY <1>0, LedgersAndRecords
<1>. QED BY <1>0, <1>1, <1>2 DEF Ledger!WriteTradeoffs, Ledger!ReadsBack, Ledger!Files

\* What the steps on checkpoints do: whatever was decided upon stays so, with what it names.
LEMMA CheckpointEffect ==
  ASSUME Ledger!TypeOK, Ledger!CheckpointStep
  PROVE /\ approvals' \in Seq(Ledger!Checkpoint)
        /\ DOMAIN approvals \subseteq DOMAIN approvals'
        /\ \A c \in DOMAIN approvals :
             /\ approvals'[c].links = approvals[c].links
             /\ approvals[c].status \in {"approved", "rejected"} =>
                  approvals'[c].status \in {"approved", "rejected"}
        /\ UNCHANGED <<options, tradeoffs, decisions, spoiled>>
<1>0. /\ approvals \in Seq(Ledger!Checkpoint)
      /\ \A c \in DOMAIN approvals : approvals[c] \in Ledger!Checkpoint
  BY SequencesAndFunctions DEF Ledger!TypeOK
<1>1. UNCHANGED <<options, tradeoffs, decisions, spoiled>>
  BY DEF Ledger!CheckpointStep, Ledger!OpenCheckpoint, Ledger!ApproveCheckpoint,
     Ledger!RejectCheckpoint, Ledger!WriteCheckpoints
<1>2. ASSUME NEW type \in Types, NEW links \in SUBSET Names, Ledger!OpenCheckpoint(type, links)
      PROVE /\ approvals' \in Seq(Ledger!Checkpoint)
            /\ DOMAIN approvals \subseteq DOMAIN approvals'
            /\ \A c \in DOMAIN approvals :
                 /\ approvals'[c].links = approvals[c].links
                 /\ approvals[c].status \in {"approved", "rejected"} =>
                      approvals'[c].status \in {"approved", "rejected"}
  <2> DEFINE superseded(c) == [approvals[c] EXCEPT !.status = "superseded"]
             old(c) == IF approvals[c].type = type /\ approvals[c].status = "pending_human"
                       THEN superseded(c) ELSE approvals[c]
             kept == [c \in DOMAIN approvals |-> old(c)]
             new == [type |-> type, status |-> "pending_human", links |-> links]
  <2>1. approvals' = Append(kept, new)
    BY <1>2 DEF Ledger!OpenCheckpoint, Ledger!WriteCheckpoints
  <2>2. new \in Ledger!Checkpoint
    BY DEF Ledger!Checkpoint
  <2>3. \A c \in DOMAIN approvals :
          superseded(c) \in Ledger!Checkpoint /\ superseded(c).links = approvals[c].links
    BY <1>0, StatusOfApproval
  <2> HIDE DEF superseded, new
  <2>4. \A c \in DOMAIN approvals :
          /\ old(c) \in Ledger!Checkpoint /\ old(c).links = approvals[c].links
          /\ approvals[c].status \in {"approved", "rejected"} => old(c) = approvals[c]
    BY <1>0, <2>3
  <2> HIDE DEF old
  <2>5. kept \in [DOMAIN approvals -> Ledger!Checkpoint]
    BY <2>4
  <2>6. \A c \in DOMAIN approvals : kept[c] = old(c)
    OBVIOUS
  <2> HIDE DEF kept
  <2>7. kept \in Seq(Ledger!Checkpoint) /\ DOMAIN kept = DOMAIN approvals
    BY <1>0, <2>5, SequencesAndFunctions
  <2>8. /\ approvals' \in Seq(Ledger!Checkpoint)
        /\ DOMAIN kept \subseteq DOMAIN approvals'
        /\ \A c \in DOMAIN kept : approvals'[c] = kept[c]
    BY <2>1, <2>2, <2>7, SequencesAndFunctions
  <2>. QED BY <2>4, <2>6, <2>7, <2>8
<1>3. ASSUME NEW c \in DOMAIN approvals, Ledger!ApproveCheckpoint(c) \/ Ledger!RejectCheckpoint(c)
      PROVE /\ approvals' \in Seq(Ledger!Checkpoint)
            /\ DOMAIN approvals' = DOMAIN approvals
            /\ \A d \in DOMAIN approvals :
                 /\ approvals'[d].links = approvals[d].links
                 /\ approvals[d].status \in {"approved", "rejected"} =>
                      approvals'[d].status \in {"approved", "rejected"}
  <2>1. PICK status \in {"approved", "rejected"} :
          approvals' = [approvals EXCEPT ![c] = [approvals[c] EXCEPT !.status = status]]
    BY <1>3 DEF Ledger!ApproveCheckpoint, Ledger!RejectCheckpoint, Ledger!WriteCheckpoints
  <2> DEFINE new == [approvals[c] EXCEPT !.status = status]
  <2>2. new \in Ledger!Checkpoint /\ new.status = status /\ new.links = approvals[c].links
    <3>1. approvals[c] \in Ledger!Checkpoint
      BY <1>0
    <3>2. status \in {"pending_human", "approved", "rejected", "superseded"}
      OBVIOUS
    <3>. QED BY <3>1, <3>2, StatusOfApproval
  <2>3. approvals' = [approvals EXCEPT ![c] = new]
    BY <2>1
  <2> HIDE DEF new
  <2>4. approvals' \in Seq(Ledger!Checkpoint) /\ DOMAIN approvals' = DOMAIN approvals
    BY <1>0, <2>2, <2>3, SequencesAndFunctions
  <2>5. \A d \in DOMAIN approvals : approvals'[d] = IF d = c THEN new ELSE approvals[d]
    BY <2>3
  <2>. QED BY <2>2, <2>4, <2>5
<1>. QED BY <1>1, <1>2, <1>3 DEF Ledger!CheckpointStep

\* What the steps on decisions do: an approved one was approved before, or just now via a
\* checkpoint that was approved itself, or the ledger is spoiled.
LEMMA DecisionEffect ==
  ASSUME Ledger!TypeOK, Ledger!DecisionStep
  PROVE /\ decisions' \in Ledger!LedgerOf(Ledger!Decision)
        /\ "decisions" \notin spoiled' =>
             \A d \in DOMAIN decisions' : decisions'[d].status = "approved" =>
               \/ d \in DOMAIN decisions /\ decisions'[d] = decisions[d] /\ "decisions" \notin spoiled
               \/ /\ decisions'[d].checkpoint \in DOMAIN approvals
                  /\ d \in approvals[decisions'[d].checkpoint].links
                  /\ approvals[decisions'[d].checkpoint].status = "approved"
        /\ UNCHANGED <<options, tradeoffs, approvals>>
        /\ spoiled' \subseteq Ledger!Files /\ ("options" \in spoiled => "options" \in spoiled')
<1>0. /\ decisions \in Ledger!LedgerOf(Ledger!Decision) /\ spoiled \subseteq Ledger!Files
      /\ \A d \in DOMAIN decisions : decisions[d] \in Ledger!Decision
      /\ decisions \in [DOMAIN decisions -> Ledger!Decision]
      /\ DOMAIN approvals \subseteq Nat
  <2>1. decisions \in Ledger!LedgerOf(Ledger!Decision) /\ approvals \in Seq(Ledger!Checkpoint)
    BY DEF Ledger!TypeOK
  <2>2. decisions \in [DOMAIN decisions -> Ledger!Decision]
    BY <2>1 DEF Ledger!LedgerOf
  <2>3. DOMAIN approvals \subseteq Nat
    BY <2>1, SequencesAndFunctions
  <2>. QED BY <2>1, <2>2, <2>3, LedgersAndRecords DEF Ledger!TypeOK
<1> DEFINE Linked(d, record) == /\ record.checkpoint \in DOMAIN approvals
                                /\ d \in approvals[record.checkpoint].links
                                /\ approvals[record.checkpoint].status = "approved"
           Good(written) ==
             /\ written \in Ledger!LedgerOf(Ledger!Decision)
             /\ \A d \in DOMAIN written : written[d].status = "approved" =>
                  \/ d \in DOMAIN decisions /\ written[d] = decisions[d]
                  \/ Linked(d, written[d])
<1>1. ASSUME NEW written, Good(written), Ledger!WriteDecisions(written)
      PROVE /\ decisions' \in Ledger!LedgerOf(Ledger!Decision)
            /\ "decisions" \notin spoiled' =>
                 \A d \in DOMAIN decisions' : decisions'[d].status = "approved" =>
                   \/ d \in DOMAIN decisions /\ decisions'[d] = decisions[d] /\ "decisions" \notin spoiled
                   \/ Linked(d, decisions'[d])
            /\ UNCHANGED <<options, tradeoffs, approvals>>
            /\ spoiled' \subseteq Ledger!Files /\ ("options" \in spoiled => "options" \in spoiled')
  <2> HIDE DEF Linked
  <2>1. UNCHANGED <<options, tradeoffs, approvals>>
    BY <1>1 DEF Ledger!WriteDecisions
  <2>2. CASE decisions' = written /\ UNCHANGED spoiled
    BY <1>0, <1>1, <2>1, <2>2
  <2>3. CASE decisions' = Ledger!Nothing /\ spoiled' = spoiled \ {"decisions"}
    <3>1. decisions' \in Ledger!LedgerOf(Ledger!Decision) /\ DOMAIN decisions' = {}
      BY <1>0, <2>3, LedgersAndRecords
    <3>. QED BY <1>0, <2>1, <2>3, <3>1
  <2>4. CASE decisions' \in Ledger!LedgerOf(Ledger!Decision) /\ spoiled' = spoiled \cup {"decisions"}
    BY <1>0, <2>1, <2>4 DEF Ledger!Files
  <2>. QED BY <1>1, <2>2, <2>3, <2>4 DEF Ledger!WriteDecisions, Ledger!ReadsBack
<1>2. ASSUME NEW d \in DOMAIN decisions, NEW new \in Ledger!Decision,
             new.status = "approved" => Linked(d, new)
      PROVE Good([decisions EXCEPT ![d] = new])
  <2> DEFINE written == [decisions EXCEPT ![d] = new]
  <2> HIDE DEF Linked
  <2>1. /\ written \in [DOMAIN decisions -> Ledger!Decision] /\ DOMAIN written = DOMAIN decisions
        /\ \A e \in DOMAIN decisions : written[e] = IF e = d THEN new ELSE decisions[e]
    BY <1>0
  <2> HIDE DEF written
  <2>2. written \in Ledger!LedgerOf(Ledger!Decision)
    BY <1>0, <2>1, LedgersAndRecords
  <2>3. Good(written)
    BY <1>2, <2>1, <2>2
  <2>. QED BY <2>3 DEF written
<1>3. CASE Ledger!ProposeDecision
  <2> DEFINE new == [status |-> "proposed", checkpoint |-> 0]
  <2>1. new \in Ledger!Decision /\ new.status = "proposed"
    BY DEF Ledger!Decision
  <2>2. Good(decisions)
    BY <1>0
  <2> HIDE DEF new
  <2>3. ASSUME NEW n \in Nat PROVE Good(Ledger!Added(decisions, n, new))
    <3> DEFINE written == Ledger!Added(decisions, n, new)
    <3>1. /\ written \in Ledger!LedgerOf(Ledger!Decision) /\ DOMAIN written = DOMAIN decisions \cup {n}
          /\ written[n] = new /\ \A m \in DOMAIN decisions \ {n} : written[m] = decisions[m]
      <4>1. decisions \in Ledger!LedgerOf(Ledger!Decision)
        BY <1>0
      <4>2. new \in Ledger!Decision
        BY <2>1
      <4> HIDE DEF Good
      <4>3. written = Ledger!Added(decisions, n, new)
        OBVIOUS
      <4> HIDE DEF written
      <4>4. DOMAIN decisions \in SUBSET Nat /\ decisions \in [DOMAIN decisions -> Ledger!Decision]
        BY <4>1, LedgersAndRecords
      <4>5. DOMAIN decisions \cup {n} \in SUBSET Nat
        BY <4>4
      <4>6. /\ written \in [DOMAIN decisions \cup {n} -> Ledger!Decision] /\ DOMAIN written = DOMAIN decisions \cup {n}
            /\ written[n] = new /\ \A m \in DOMAIN decisions \ {n} : written[m] = decisions[m]
        BY <4>2, <4>3, <4>4 DEF Ledger!Added
      <4>. QED BY <4>5, <4>6 DEF Ledger!LedgerOf
    <3> HIDE DEF written, Linked
    <3>2. Good(written)
      BY <2>1, <3>1
    <3>. QED BY <3>2 DEF written
  <2> HIDE DEF Good
  <2>4. \E written : Good(written) /\ Ledger!WriteDecisions(written)
    BY <1>3, <2>2, <2>3 DEF Ledger!ProposeDecision, new
  <2>. QED BY <1>1, <2>4
<1>4. ASSUME NEW d \in DOMAIN decisions, NEW c \in DOMAIN approvals, Ledger!ApproveDecision(d, c)
      PROVE \E written : Good(written) /\ Ledger!WriteDecisions(written)
  <2> DEFINE new == [status |-> "approved", checkpoint |-> c]
  <2>1. new \in Ledger!Decision /\ Linked(d, new)
    BY <1>0, <1>4 DEF Ledger!ApproveDecision, Ledger!Decision
  <2>2. Ledger!WriteDecisions([decisions EXCEPT ![d] = new])
    BY <1>4 DEF Ledger!ApproveDecision
  <2> HIDE DEF new, Linked, Good
  <2>. QED BY <1>2, <2>1, <2>2
<1>5. ASSUME NEW d \in DOMAIN decisions, Ledger!RejectDecision(d) \/ Ledger!SupersedeDecision(d)
      PROVE \E written : Good(written) /\ Ledger!WriteDecisions(written)
  <2>1. PICK status \in {"rejected", "superseded"} :
          Ledger!WriteDecisions([decisions EXCEPT ![d] = [decisions[d] EXCEPT !.status = status]])
    BY <1>5 DEF Ledger!RejectDecision, Ledger!SupersedeDecision
  <2> DEFINE new == [decisions[d] EXCEPT !.status = status]
  <2>2. new \in Ledger!Decision /\ new.status = status
    <3>1. decisions[d] \in Ledger!Decision
      BY <1>0
    <3>2. status \in {"proposed", "approved", "rejected", "superseded"}
      OBVIOUS
    <3>. QED BY <3>1, <3>2, StatusOfDecision
  <2>3. Ledger!WriteDecisions([decisions EXCEPT ![d] = new])
    BY <2>1
  <2> HIDE DEF new, Linked, Good
  <2>. QED BY <1>2, <2>2, <2>3
<1> HIDE DEF Good
<1>. QED BY <1>1, <1>3, <1>4, <1>5 DEF Ledger!DecisionStep

\* What a forced init leaves, all or some of the way.
LEMMA InitEffect ==
  ASSUME Ledger!TypeOK, Ledger!InitAgain
  PROVE /\ Ledger!TypeOK'
        /\ \/ options' = options /\ ("options" \in spoiled => "options" \in spoiled')
           \/ DOMAIN options' = {}
        /\ DOMAIN decisions' = {} \/ "decisions" \in spoiled'
<1>1. /\ approvals' = <<>>
      /\ tradeoffs' \in {Ledger!Nothing, tradeoffs} /\ options' \in {Ledger!Nothing, options}
      /\ decisions' \in {Ledger!Nothing, decisions} /\ spoiled' \subseteq Ledger!Files
      /\ \/ options' = Ledger!Nothing
         \/ options' = options /\ ("options" \in spoiled => "options" \in spoiled')
      /\ decisions' = Ledger!Nothing \/ "decisions" \in spoiled'
  BY DEF Ledger!InitAgain, Ledger!TypeOK, Ledger!Files
<1>2. DOMAIN Ledger!Nothing = {}
  BY DEF Ledger!Nothing
<1>3. Ledger!TypeOK'
  BY <1>1, LedgersAndRecords DEF Ledger!TypeOK
<1>. QED BY <1>1, <1>2, <1>3

\* Whatever the files read as, they read as records of their types.
LEMMA LedgersTyped == Ledger!TypeOK /\ [Ledger!Next]_ledgers => Ledger!TypeOK'
BY OptionEffect, TradeoffEffect, CheckpointEffect, DecisionEffect, InitEffect DEF Ledger!TypeOK,
   Ledger!Next, Ledger!vars, ledgers

LEMMA LedgersInitially ==
  Ledger!Init => Ledger!TypeOK /\ Ledger!OneSelectedPerStage /\ Ledger!ApprovedViaCheckpoint
<1>1. DOMAIN Ledger!Nothing = {} /\ \A Record : Ledger!Nothing \in [{} -> Record]
  BY DEF Ledger!Nothing
<1>2. \A Record : Ledger!Nothing \in Ledger!LedgerOf(Record)
  BY <1>1 DEF Ledger!LedgerOf
<1>. QED BY <1>1, <1>2 DEF Ledger!Init, Ledger!TypeOK, Ledger!OneSelectedPerStage,
                           Ledger!ApprovedViaCheckpoint

\* runOptionSelect takes back every other selection of the stage, so that no sequence of option
\* commands leaves a stage with two selected options, whatever records are lost in between.
THEOREM StagesHaveOneSelection == Ledger!Spec => []Ledger!OneSelectedPerStage
<1>1. Ledger!TypeOK /\ Ledger!OneSelectedPerStage /\ [Ledger!Next]_ledgers =>
        Ledger!OneSelectedPerStage'
  <2> SUFFICES ASSUME Ledger!TypeOK, Ledger!OneSelectedPerStage, [Ledger!Next]_ledgers
               PROVE  Ledger!OneSelectedPerStage'
    OBVIOUS
  <2>1. options' = options /\ ("options" \in spoiled => "options" \in spoiled') =>
          Ledger!OneSelectedPerStage'
    BY DEF Ledger!OneSelectedPerStage
  <2>2. DOMAIN options' = {} => Ledger!OneSelectedPerStage'
    BY DEF Ledger!OneSelectedPerStage
  <2>. QED BY <2>1, <2>2, OptionEffect, TradeoffEffect, CheckpointEffect, DecisionEffect, InitEffect
           DEF Ledger!Next, Ledger!vars, ledgers
<1>. QED BY <1>1, LedgersInitially, LedgersTyped, PTL DEF Ledger!Spec, Ledger!vars, ledgers

\* runDecisionApprove asks for an approved checkpoint that names the decision; no later command
\* makes that checkpoint pending again or unlinks the decision, and a new decision with the number
\* of a lost one is not approved before it was approved itself.
THEOREM ApprovalsAreLinked == Ledger!Spec => []Ledger!ApprovedViaCheckpoint
<1>1. Ledger!TypeOK /\ Ledger!ApprovedViaCheckpoint /\ [Ledger!Next]_ledgers =>
        Ledger!ApprovedViaCheckpoint'
  <2> SUFFICES ASSUME Ledger!TypeOK, Ledger!ApprovedViaCheckpoint, [Ledger!Next]_ledgers
               PROVE  Ledger!ApprovedViaCheckpoint'
    OBVIOUS
  <2>1. CASE Ledger!CheckpointStep
    BY <2>1, CheckpointEffect DEF Ledger!ApprovedViaCheckpoint
  <2>2. CASE Ledger!DecisionStep
    BY <2>2, DecisionEffect DEF Ledger!ApprovedViaCheckpoint
  <2>3. CASE UNCHANGED <<decisions, approvals>> /\ ("decisions" \in spoiled => "decisions" \in spoiled')
    BY <2>3 DEF Ledger!ApprovedViaCheckpoint
  <2>4. CASE Ledger!InitAgain
    BY <2>4, InitEffect DEF Ledger!ApprovedViaCheckpoint
  <2>. QED BY <2>1, <2>2, <2>3, <2>4, OptionEffect, TradeoffEffect DEF Ledger!Next, Ledger!vars, ledgers
<1>. QED BY <1>1, LedgersInitially, LedgersTyped, PTL DEF Ledger!Spec, Ledger!vars, ledgers
=============================================================================
