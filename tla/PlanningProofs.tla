---------------------------- MODULE PlanningProofs ----------------------------
(***************************************************************************)
(* Theorems of Planning, for any number of conversations, troubles and     *)
(* concurrent calls.                                                       *)
(*                                                                         *)
(* Its calls are chains of file accesses, and what a call has read may be  *)
(* out of date at its next access.  Knows says what is not: requests,      *)
(* freezes and task files are never taken back, so a call may rely on one  *)
(* that it has seen.  Links says what is left for requests that are not    *)
(* alone: a request begins without a conversation, and one that has been   *)
(* alone all the time is the only one to write the link of its phase.      *)
(***************************************************************************)
EXTENDS Planning, TLAPS

-----------------------------------------------------------------------------
(* The bridge: its pages keep their types, and a snapshot is of a page.    *)

\* A snapshot is of a page.
SnapshotsHavePages == \A c \in Convs : record[c] # None => chat[c] # None

LEMMA NoneIsApart == None \notin Pages
BY ConversationsAssumption

LEMMA PageTurns ==
  ASSUME NEW p \in Pages, NEW turn \in {"sent", "running", "finished"}
  PROVE  [p EXCEPT !.turn = turn] \in Pages
  BY DEF Pages

Sound == ConversationsTypeOK /\ SnapshotsHavePages

LEMMA AnswersSeen ==
  ASSUME NEW c \in Convs, chat[c] \in Pages
  PROVE  Seen(c) \subseteq Answers \cup {"silent"} /\ Halves \subseteq Answers
<1>1. Halves \subseteq Answers
  BY ConversationsAssumption DEF Halves, Answers
<1>2. chat[c].answer \in Answers \cup {None}
  BY DEF Pages
<1> QED BY <1>1, <1>2 DEF Seen

\* A conversation that exists goes on to exist, on a page and with a snapshot of their types.
Kept == Sound' /\ \A c \in Convs : chat[c] # None => chat'[c] # None

LEMMA BridgeKeeps ==
  ASSUME Sound, [ConversationsNext]_conversations
  PROVE  Kept
<1>0. None \notin Pages /\ "silent" \in Snapshots /\ None \in Snapshots /\ Answers \subseteq Snapshots
  BY NoneIsApart DEF Snapshots
<1>1. ASSUME UNCHANGED conversations PROVE Kept
  BY <1>1 DEF Kept, conversations, Sound, SnapshotsHavePages, ConversationsTypeOK
<1>2. ASSUME NEW c \in Convs, NEW page \in Pages, NEW said \in Snapshots,
             chat' = [chat EXCEPT ![c] = page] \/ (chat[c] # None /\ chat' = chat),
             record' = [record EXCEPT ![c] = said] \/ record' = record
      PROVE  Kept
  <2>1. ConversationsTypeOK' /\ \A d \in Convs : d # c => chat'[d] = chat[d] /\ record'[d] = record[d]
    BY <1>2 DEF Sound, ConversationsTypeOK
  <2>2. chat'[c] # None
    BY <1>0, <1>2 DEF Sound, ConversationsTypeOK
  <2> QED BY <2>1, <2>2, <1>2 DEF Kept, Sound, SnapshotsHavePages
<1>3. ASSUME NEW c \in Convs, chat[c] # None PROVE chat[c] \in Pages
  BY <1>3 DEF Sound, ConversationsTypeOK
<1>4. ASSUME NEW c \in Convs, chat[c] # None, Submitted(c), NEW said \in Snapshots,
             record' = [record EXCEPT ![c] = said] \/ record' = record
      PROVE  Kept
  <2>1. [chat[c] EXCEPT !.turn = "sent"] \in Pages
    BY <1>3, <1>4, PageTurns
  <2>2. PICK page \in Pages : chat' = [chat EXCEPT ![c] = page] \/ (chat[c] # None /\ chat' = chat)
    BY <1>4, <2>1 DEF Submitted
  <2> QED BY <1>2, <1>4, <2>2
<1>5. ASSUME NEW c \in Convs, chat[c] # None, UNCHANGED chat, NEW said \in Snapshots, SnapshotTaken(c, said)
      PROVE  Kept
  <2>1. chat[c] \in Pages /\ record' = [record EXCEPT ![c] = said]
    BY <1>3, <1>5 DEF SnapshotTaken
  <2> QED BY <1>2, <1>5, <2>1
<1>6. ASSUME NEW c \in Convs, record[c] # None PROVE chat[c] # None /\ Seen(c) \subseteq Snapshots
  <2>1. chat[c] # None
    BY <1>6 DEF Sound, SnapshotsHavePages
  <2>2. Seen(c) \subseteq Answers \cup {"silent"}
    BY <1>3, <2>1, AnswersSeen
  <2> QED BY <1>0, <2>1, <2>2
<1>7. ASSUME NEW c \in Convs, StartConversation(c) PROVE Kept
  <2>1. [turn |-> "sent", answer |-> None] \in Pages
    BY DEF Pages
  <2> QED BY <1>0, <1>2, <1>7, <2>1 DEF StartConversation, SnapshotTaken
<1>8. ASSUME NEW c \in Convs, SendMessage(c) PROVE Kept
  BY <1>0, <1>4, <1>6, <1>8 DEF SendMessage, SnapshotTaken
<1>9. ASSUME NEW c \in Convs, SendMessageFails(c) PROVE Kept
  BY <1>0, <1>4, <1>9 DEF SendMessageFails
<1>10. ASSUME NEW c \in Convs, Reply(c) PROVE Kept
  <2>1. chat[c] \in Pages /\ record' = record
    BY <1>3, <1>10 DEF Reply
  <2>2. CASE chat' = [chat EXCEPT ![c].turn = "running"]
    <3>1. [chat[c] EXCEPT !.turn = "running"] \in Pages
      BY <2>1, PageTurns
    <3>2. PICK page \in Pages : chat' = [chat EXCEPT ![c] = page]
      BY <2>2, <3>1
    <3> QED BY <1>0, <1>2, <2>1, <3>2
  <2>3. CASE \E a \in Answers : chat' = [chat EXCEPT ![c] = [turn |-> "finished", answer |-> a]]
    <3>1. PICK a \in Answers : chat' = [chat EXCEPT ![c] = [turn |-> "finished", answer |-> a]]
      BY <2>3
    <3>2. [turn |-> "finished", answer |-> a] \in Pages
      BY DEF Pages
    <3> QED BY <1>0, <1>2, <2>1, <3>1, <3>2
  <2> QED BY <1>10, <2>2, <2>3 DEF Reply
<1>11. ASSUME NEW c \in Convs, WaitForCompletion(c) PROVE Kept
  <2>1. PICK said \in Seen(c) : SnapshotTaken(c, said)
    BY <1>11 DEF WaitForCompletion
  <2> QED BY <1>5, <1>6, <1>11, <2>1 DEF WaitForCompletion
<1>12. ASSUME NEW c \in Convs, PollStatus(c) PROVE Kept
  <2>1. PICK said \in Seen(c) : SnapshotTaken(c, IF said = "silent" THEN record[c] ELSE said)
    BY <1>12 DEF PollStatus
  <2>2. record[c] \in Snapshots /\ said \in Snapshots /\ chat[c] # None
    BY <1>6, <1>12 DEF PollStatus, Sound, ConversationsTypeOK
  <2>3. (IF said = "silent" THEN record[c] ELSE said) \in Snapshots
    BY <2>2
  <2> QED BY <1>5, <1>12, <2>1, <2>2, <2>3 DEF PollStatus
<1>13. ASSUME NEW c \in Convs, Recover(c) PROVE Kept
  <2>1. chat[c] # None /\ UNCHANGED chat
    BY <1>13 DEF Recover
  <2>2. PICK said \in Seen(c) \cup Halves : SnapshotTaken(c, said)
    BY <1>13 DEF Recover
  <2>3. said \in Snapshots
    BY <1>0, <1>3, <2>1, AnswersSeen
  <2> QED BY <1>5, <2>1, <2>2, <2>3
<1>14. ASSUME BridgeRestart PROVE Kept
  BY <1>0, <1>14 DEF BridgeRestart, Kept, Sound, SnapshotsHavePages, ConversationsTypeOK
<1>15. CASE ConversationsNext
  BY <1>7, <1>8, <1>9, <1>10, <1>11, <1>12, <1>13, <1>14, <1>15 DEF ConversationsNext
<1> QED BY <1>1, <1>15

-----------------------------------------------------------------------------
(* The inductive invariant.                                                *)

RequestSteps == {"seed", "start", "link", "waiting"}
FreezeSteps == {"freeze", "tasks", "stage"}
ApplySteps == {"normalize", "gate", "run"} \cup FreezeSteps
FinalizeSteps == {"wait", "recover", "export", "extract", "remind", "result", "repair", "normalize"}
PersistNexts == {"wait", "export", "extract", "remind", "normalize", None}

\* What a call c in progress may rely on.
Knows(c) ==
  /\ c.at = "state" => request[c.phase] # None
  /\ c.at \in {"seed", "start"} => c.conv = None
  /\ c.at \in {"link", "waiting"} => c.conv # None
  /\ c.at \in FinalizeSteps => c.conv # None /\ c.state # None
  /\ c.at \in {"result", "repair"} => c.payload # None
  /\ c.at \in ApplySteps => Normalizes(c.payload)
  /\ c.at = "persist" =>
       /\ c.state # None /\ c.next \in PersistNexts
       /\ c.next # None => c.conv # None /\ (c.next = "normalize" => Normalizes(c.payload))
  /\ c.at \in FreezeSteps => FreezesFor(c.phase)
  /\ c.at \in {"tasks", "stage"} => freeze[c.phase] # None
  /\ c.at = "tasks" => c.phase = Graph
  /\ c.at = "stage" /\ c.phase = Graph => tasks

CallsKnow == \A k \in Callers : call[k] # None => Knows(call[k])

\* A request of phase p in progress.
IsRequest(c, p) == c # None /\ c.at \in RequestSteps /\ c.phase = p

\* While the requests of a phase come one after the other.
Alone(p) ==
  /\ \A j, k \in Callers : IsRequest(call[j], p) /\ IsRequest(call[k], p) => j = k
  /\ \A k \in Callers : IsRequest(call[k], p) =>
       /\ ~Linked(p)
       /\ call[k].at = "waiting" => link[p] = call[k].conv
  /\ Linked(p) => link[p] = request[p].conv

LinkedWaits == \A p \in Phases : Linked(p) => request[p].status = "waiting"
Links == LinkedWaits /\ \A p \in Phases \ overlapped : Alone(p)

IInv == TypeOK /\ SnapshotsHavePages /\ CallsKnow /\ Links /\ StageIsBacked

-----------------------------------------------------------------------------
(* Phases and stages.                                                      *)

LEMMA PhaseNumbers ==
  /\ Number(Requirement) = 1 /\ Number(Architecture) = 2 /\ Number(Graph) = 3
  /\ \A p \in Phases : Number(p) \in 1 .. 3
<1>1. PhaseOf[1] = Requirement /\ PhaseOf[2] = Architecture /\ PhaseOf[3] = Graph
  BY DEF PhaseOf
<1>2. Requirement # Architecture /\ Requirement # Graph /\ Architecture # Graph
  BY DEF Requirement, Architecture, Graph
<1>3. Number(Requirement) = 1 /\ Number(Architecture) = 2 /\ Number(Graph) = 3
  <2>1. \A n \in 1 .. 3 : n = 1 \/ n = 2 \/ n = 3
    OBVIOUS
  <2>2. \A n \in 1 .. 3 : /\ PhaseOf[n] = Requirement <=> n = 1
                          /\ PhaseOf[n] = Architecture <=> n = 2
                          /\ PhaseOf[n] = Graph <=> n = 3
    BY <1>1, <1>2, <2>1
  <2>3. 1 \in 1 .. 3 /\ 2 \in 1 .. 3 /\ 3 \in 1 .. 3
    OBVIOUS
  <2> HIDE <2>1
  <2> QED BY <2>2, <2>3 DEF Number
<1> QED BY <1>3 DEF Phases

LEMMA StageNumbers ==
  /\ Stages[1] = "intake" /\ Stages[2] = "requirement_frozen"
  /\ Stages[3] = "architecture_frozen" /\ Stages[4] = "foundation_ready"
  /\ \A n \in 1 .. 4 : Ordinal(Stages[n]) = n
<1>1. /\ Stages[1] = "intake" /\ Stages[2] = "requirement_frozen"
      /\ Stages[3] = "architecture_frozen" /\ Stages[4] = "foundation_ready"
  BY DEF Stages
<1>2. \A m, n \in 1 .. 4 : Stages[m] = Stages[n] => m = n
  <2>1. \A n \in 1 .. 4 : n = 1 \/ n = 2 \/ n = 3 \/ n = 4
    OBVIOUS
  <2> QED BY <1>1, <2>1
<1>3. ASSUME NEW n \in 1 .. 4 PROVE Ordinal(Stages[n]) = n
  BY <1>2 DEF Ordinal
<1> QED BY <1>1, <1>3

LEMMA Targets ==
  ASSUME NEW p \in Phases
  PROVE  /\ Target(p) \in {Stages[n] : n \in 1 .. 4} /\ Ordinal(Target(p)) = Number(p) + 1
         /\ Target(p) = "foundation_ready" <=> p = Graph
<1>1. Number(p) \in 1 .. 3 /\ Number(p) + 1 \in 1 .. 4
  BY PhaseNumbers
<1>2. Ordinal(Target(p)) = Number(p) + 1
  BY <1>1, StageNumbers DEF Target
<1>3. Number(p) = 3 <=> p = Graph
  BY PhaseNumbers DEF Phases
<1>4. Target(p) = "foundation_ready" <=> Number(p) = 3
  <2>1. Number(p) = 1 \/ Number(p) = 2 \/ Number(p) = 3
    BY <1>1
  <2> QED BY <2>1, StageNumbers DEF Target
<1> QED BY <1>1, <1>2, <1>3, <1>4 DEF Target

-----------------------------------------------------------------------------
(* Records.                                                                *)

LEMMA NoneIsNoRecord ==
  /\ None \notin Convs /\ None \notin RequestStates /\ None \notin FinalizeStates
  /\ None \notin Results /\ None \notin Calls /\ None \notin Payloads
BY PlanningNoneAssumption

FinalizeStatuses == {"requested", "waiting", "materializing", "materialized", "applied"}

LEMMA FinalizeStateChanges ==
  ASSUME NEW s \in FinalizeStates, NEW to \in FinalizeStatuses
  PROVE  /\ Status(s, to) \in FinalizeStates /\ Reminded(s) \in FinalizeStates
         /\ Recovered(s) \in FinalizeStates
BY DEF FinalizeStates, FinalizeStatuses, Status, Reminded, Recovered

LEMMA NewCalls ==
  ASSUME NEW p \in Phases, NEW step \in Steps
  PROVE  /\ NewCall(p, step) \in Calls
         /\ NewCall(p, step).at = step /\ NewCall(p, step).phase = p
         /\ NewCall(p, step).next = None /\ NewCall(p, step).conv = None
BY DEF NewCall, Calls

LEMMA FineOrTrouble ==
  ASSUME TypeOK, Fine \/ Trouble PROVE troubles' \in 0 .. MaxTroubles
  BY PlanningAssumption DEF TypeOK, Fine, Trouble

-----------------------------------------------------------------------------
(* What the steps have in common.                                          *)

\* What a call may rely on is never taken back.
Grows ==
  /\ \A p \in Phases : (request[p] # None => request'[p] # None)
                       /\ (freeze[p] # None => freeze'[p] # None)
  /\ tasks => tasks'

LEMMA OthersKnow ==
  ASSUME IInv, Grows, NEW k \in Callers,
         \A j \in Callers : j # k => call'[j] = call[j],
         call'[k] # None => Knows(call[k])'
  PROVE  CallsKnow'
<1> SUFFICES ASSUME NEW j \in Callers, j # k, call'[j] # None PROVE Knows(call[j])'
  BY DEF CallsKnow
<1>1. /\ call'[j] = call[j] /\ Knows(call[j])
      /\ call[j].phase \in Phases
  <2>1. call'[j] = call[j] /\ Knows(call[j]) /\ call[j] \in Calls
    BY DEF IInv, CallsKnow, TypeOK
  <2> QED BY <2>1 DEF Calls
<1>2. FreezesFor(call[j].phase) => FreezesFor(call[j].phase)'
  BY <1>1 DEF Grows, FreezesFor
<1> QED BY <1>1, <1>2 DEF Knows, Grows

\* The files a call relies on are left alone.
Around ==
  /\ [ConversationsNext]_conversations
  /\ UNCHANGED <<stage, freeze, tasks, request, link>>
  /\ finalize' \in [Phases -> FinalizeStates \cup {None}]
  /\ result' \in [Phases -> Results \cup {None}]
  /\ made' \in 0 .. MaxCalls /\ troubles' \in 0 .. MaxTroubles

LEMMA AroundKeeps ==
  ASSUME IInv, Around, overlapped' \subseteq Phases, call' \in [Callers -> Calls \cup {None}]
  PROVE  TypeOK' /\ SnapshotsHavePages' /\ StageIsBacked' /\ LinkedWaits' /\ Grows
<1>1. ConversationsTypeOK' /\ SnapshotsHavePages'
  BY BridgeKeeps DEF IInv, TypeOK, Sound, Around, Kept
<1>2. TypeOK'
  BY <1>1 DEF IInv, TypeOK, Around
<1>3. StageIsBacked' /\ LinkedWaits' /\ Grows
  BY DEF IInv, Around, StageIsBacked, Links, LinkedWaits, Linked, Grows
<1> QED BY <1>1, <1>2, <1>3

\* Links stand while no call begins to request a phase, or is about to say what it is linked to.
LEMMA LinksLeft ==
  ASSUME IInv, UNCHANGED <<request, link, overlapped>>,
         NEW k \in Callers, NEW new \in Calls \cup {None}, call' = [call EXCEPT ![k] = new],
         new # None /\ new.at \in RequestSteps =>
           IsRequest(call[k], new.phase) /\ new.at # "waiting"
  PROVE  Links'
<1>1. /\ call'[k] = new /\ \A j \in Callers : j # k => call'[j] = call[j]
  BY DEF IInv, TypeOK
<1>2. LinkedWaits'
  BY DEF IInv, Links, LinkedWaits, Linked
<1>3. ASSUME NEW p \in Phases \ overlapped PROVE Alone(p)'
  <2>1. Alone(p)
    BY DEF IInv, Links
  <2>2. ASSUME NEW j \in Callers, IsRequest(call'[j], p)
        PROVE  IsRequest(call[j], p) /\ (call'[j].at = "waiting" => call'[j] = call[j])
    <3>1. CASE j = k
      BY <1>1, <2>2, <3>1 DEF IsRequest
    <3>2. CASE j # k
      BY <1>1, <2>2, <3>2
    <3> QED BY <3>1, <3>2
  <2> QED BY <2>1, <2>2 DEF Alone, IsRequest, Linked
<1> QED BY <1>2, <1>3 DEF Links

\* One call takes a step, and may write the state or the result of its phase. It does not begin
\* to request a phase.
LEMMA CallSteps ==
  ASSUME IInv, Around, UNCHANGED overlapped,
         NEW k \in Callers, NEW new \in Calls \cup {None}, call' = [call EXCEPT ![k] = new],
         new # None => Knows(new),
         new # None /\ new.at \in RequestSteps =>
           IsRequest(call[k], new.phase) /\ new.at # "waiting"
  PROVE  IInv'
<1>1. /\ call' \in [Callers -> Calls \cup {None}]
      /\ call'[k] = new /\ \A j \in Callers : j # k => call'[j] = call[j]
  BY DEF IInv, TypeOK
<1>2. TypeOK' /\ SnapshotsHavePages' /\ StageIsBacked' /\ Grows
  BY <1>1, AroundKeeps DEF IInv, TypeOK
<1>3. UNCHANGED <<stage, freeze, tasks, request, link>>
  BY DEF Around
<1>4. call'[k] # None => Knows(call[k])'
  BY <1>1, <1>3 DEF Knows, FreezesFor
<1>5. CallsKnow'
  BY <1>1, <1>2, <1>4, OthersKnow
<1>6. Links'
  BY <1>3, LinksLeft
<1> QED BY <1>2, <1>5, <1>6 DEF IInv

\* One call writes what others rely on, which grows.
LEMMA CallWrites ==
  ASSUME IInv, UNCHANGED <<conversations, finalize, result, overlapped, made>>, Fine \/ Trouble,
         NEW k \in Callers, NEW new \in Calls \cup {None}, call' = [call EXCEPT ![k] = new],
         stage' \in {Stages[n] : n \in 1 .. 4}, tasks' \in BOOLEAN,
         freeze' \in [Phases -> {"valid", "thin", None}],
         request' \in [Phases -> RequestStates \cup {None}],
         link' \in [Phases -> Convs \cup {None}],
         Grows, StageIsBacked', Links', new # None => Knows(call[k])'
  PROVE  IInv'
<1>1. /\ call' \in [Callers -> Calls \cup {None}]
      /\ call'[k] = new /\ \A j \in Callers : j # k => call'[j] = call[j]
  BY DEF IInv, TypeOK
<1>2. TypeOK' /\ SnapshotsHavePages'
  BY <1>1, FineOrTrouble DEF IInv, TypeOK, conversations, ConversationsTypeOK, SnapshotsHavePages
<1>3. CallsKnow'
  BY <1>1, OthersKnow
<1> QED BY <1>2, <1>3 DEF IInv

-----------------------------------------------------------------------------
(* Steps of finalizePhase.                                                 *)

\* The files of a phase keep their types; nothing else is written.
Written == Around /\ UNCHANGED overlapped

LEMMA NothingWritten ==
  ASSUME IInv, [ConversationsNext]_conversations, UNCHANGED files, Fine \/ Trouble, Same
  PROVE  Written
BY FineOrTrouble DEF Written, Around, files, Same, IInv, TypeOK

LEMMA NothingStarted ==
  ASSUME IInv, NEW k \in Callers, NEW new, Start(k, new)
  PROVE  Around
BY PlanningAssumption DEF Start, Around, files, conversations, IInv, TypeOK

\* What a call that is not at its first step has at hand.
LEMMA CallsHave ==
  ASSUME IInv, NEW k \in Callers, call[k] # None
  PROVE  /\ call[k] \in Calls /\ Knows(call[k])
         /\ call[k].phase \in Phases
         /\ call[k].conv # None => call[k].conv \in Convs
         /\ call[k].state # None => call[k].state \in FinalizeStates
         /\ call[k].payload # None => call[k].payload \in Payloads
         /\ call[k].next # None => call[k].next \in Steps
<1>1. call[k] \in Calls /\ Knows(call[k])
  BY DEF IInv, TypeOK, CallsKnow
<1> QED BY <1>1 DEF Calls

\* The steps after which a call saves its state, to go on with finalizePhase or to end.
LEMMA FinalizePersists ==
  ASSUME IInv, Written, NEW k \in Callers, call[k] # None, NEW s \in FinalizeStates,
         NEW n \in {"wait", "export", "extract", "remind", None}, n # None => call[k].conv # None,
         Persisting(k, s, n)
  PROVE  IInv'
<1>1. TypeOK /\ call[k] \in Calls /\ n \in Steps \cup {None} /\ n \in PersistNexts /\ s # None
  BY CallsHave, NoneIsNoRecord DEF IInv, Steps, PersistNexts
<1> DEFINE new == [call[k] EXCEPT !.at = "persist", !.state = s, !.next = n]
<1>2. call' = [call EXCEPT ![k] = new]
  BY <1>1 DEF Persisting, TypeOK
<1>3. /\ new \in Calls /\ new.at = "persist" /\ new.state = s /\ new.next = n
      /\ new.conv = call[k].conv /\ new.phase = call[k].phase /\ new.payload = call[k].payload
  BY <1>1 DEF Calls, Steps
<1> HIDE DEF new
<1>5. Knows(new)
  BY <1>1, <1>3 DEF Knows, FinalizeSteps, FreezeSteps, ApplySteps
<1> QED BY <1>2, <1>3, <1>5, CallSteps DEF Written, RequestSteps

\* The steps after which a call goes on with finalizePhase at once.
LEMMA FinalizeGoesOn ==
  ASSUME IInv, Written, NEW k \in Callers, At(k, "wait") \/ At(k, "export"),
         NEW step \in {"recover", "extract"}, Goto(k, step)
  PROVE  IInv'
<1>1. /\ TypeOK /\ call[k] # None /\ call[k] \in Calls /\ step \in Steps
      /\ call[k].conv # None /\ call[k].state # None /\ Knows(call[k])
  BY CallsHave DEF IInv, Steps, At, Knows, FinalizeSteps
<1> DEFINE new == [call[k] EXCEPT !.at = step]
<1>2. call' = [call EXCEPT ![k] = new]
  BY <1>1 DEF Goto, TypeOK
<1>3. /\ new \in Calls /\ new.at = step /\ new.conv = call[k].conv /\ new.state = call[k].state
      /\ new.next = call[k].next
  BY <1>1 DEF Calls
<1> HIDE DEF new
<1>4. Knows(new)
  BY <1>1, <1>3 DEF Knows, FinalizeSteps, FreezeSteps, ApplySteps
<1> QED BY <1>2, <1>3, <1>4, CallSteps DEF Written, RequestSteps

\* A call ends without having written anything.
LEMMA CallEnds ==
  ASSUME IInv, Written, NEW k \in Callers, Return(k) PROVE IInv'
BY CallSteps DEF Written, RequestSteps, Return, Knows

LEMMA PostponeKeeps ==
  ASSUME IInv, Written, NEW k \in Callers, call[k] # None, call[k].state # None, Postpone(k)
  PROVE  IInv'
<1>1. Status(call[k].state, "materializing") \in FinalizeStates
  BY CallsHave, FinalizeStateChanges DEF FinalizeStatuses
<1> QED BY <1>1, FinalizePersists DEF Postpone

\* The states a call may go on with.
LEMMA StatesOf ==
  ASSUME IInv, NEW k \in Callers, call[k] # None, call[k].state # None, NEW to \in FinalizeStatuses
  PROVE  /\ call[k].state \in FinalizeStates /\ Status(call[k].state, to) \in FinalizeStates
         /\ Reminded(call[k].state) \in FinalizeStates
         /\ Reminded(Status(call[k].state, to)) \in FinalizeStates
         /\ Recovered(Status(call[k].state, to)) \in FinalizeStates
BY CallsHave, FinalizeStateChanges

LEMMA ReadFinalizeKeeps ==
  ASSUME IInv, NEW k \in Callers, ReadFinalize(k) PROVE IInv'
<1>1. call[k] # None /\ call[k].phase \in Phases /\ request[call[k].phase] # None
  BY CallsHave DEF ReadFinalize, At, Knows, FinalizeSteps
<1>2. Written
  BY NothingWritten DEF ReadFinalize
<1> DEFINE p == call[k].phase
           s == IF finalize[p] = None THEN FromRequest(p) ELSE finalize[p]
           n == IF call[k].conv = None THEN None
                ELSE IF s.status \in {"waiting", "requested"} THEN "wait" ELSE "export"
<1>3. FromRequest(p) \in FinalizeStates
  <2>1. request[p] \in RequestStates
    BY <1>1 DEF IInv, TypeOK
  <2> QED BY <2>1 DEF FromRequest, RequestStates, FinalizeStates
<1>4. s \in FinalizeStates
  BY <1>1, <1>3 DEF IInv, TypeOK
<1>5. Persisting(k, s, n)
  BY DEF ReadFinalize
<1>6. n \in {"wait", "export", "extract", "remind", None} /\ (n # None => call[k].conv # None)
  OBVIOUS
<1> HIDE DEF s, n
<1> QED BY <1>1, <1>2, <1>4, <1>5, <1>6, FinalizePersists

LEMMA WaitReturnsKeeps ==
  ASSUME IInv, NEW k \in Callers, WaitReturns(k) PROVE IInv'
<1>1. call[k] # None /\ call[k].conv # None /\ call[k].conv \in Convs /\ call[k].state # None
  BY CallsHave DEF WaitReturns, At, Knows, FinalizeSteps
<1>2. Written
  BY <1>1, NothingWritten DEF WaitReturns, ConversationsNext
<1>3. Status(call[k].state, "materializing") \in FinalizeStates
  BY <1>1, StatesOf DEF FinalizeStatuses
<1>4. AfterWait(k) \in {"extract", "export"}
  BY DEF AfterWait
<1> QED BY <1>1, <1>2, <1>3, <1>4, FinalizePersists DEF WaitReturns

LEMMA WaitFailsKeeps ==
  ASSUME IInv, NEW k \in Callers, WaitFails(k) PROVE IInv'
<1>1. call[k] # None /\ call[k].conv # None /\ call[k].conv \in Convs /\ call[k].state # None
  BY CallsHave DEF WaitFails, At, Knows, FinalizeSteps
<1>2. [ConversationsNext]_conversations /\ (Fine \/ Trouble)
  BY <1>1 DEF WaitFails, ConversationsNext
<1>3. Written
  BY <1>2, NothingWritten DEF WaitFails
<1>4. Status(call[k].state, "waiting") \in FinalizeStates
  BY <1>1, StatesOf DEF FinalizeStatuses
<1>5. CASE Persisting(k, Status(call[k].state, "waiting"), None)
  BY <1>1, <1>3, <1>4, <1>5, FinalizePersists
<1>6. CASE Goto(k, "recover")
  BY <1>3, <1>6, FinalizeGoesOn DEF WaitFails
<1> QED BY <1>5, <1>6 DEF WaitFails

LEMMA RecoverConversationKeeps ==
  ASSUME IInv, NEW k \in Callers, RecoverConversation(k) PROVE IInv'
<1>1. call[k] # None /\ call[k].conv # None /\ call[k].conv \in Convs /\ call[k].state # None
  BY CallsHave DEF RecoverConversation, At, Knows, FinalizeSteps
<1>2. Written
  BY <1>1, NothingWritten DEF RecoverConversation, ConversationsNext
<1>3. \A to \in {"waiting", "materializing"} :
        Recovered(Status(call[k].state, to)) \in FinalizeStates
  BY <1>1, StatesOf DEF FinalizeStatuses
<1>4. AfterWait(k) \in {"extract", "export"}
  BY DEF AfterWait
<1>5. CASE Persisting(k, Recovered(Status(call[k].state, "materializing")), AfterWait(k))
  BY <1>1, <1>2, <1>3, <1>4, <1>5, FinalizePersists
<1>6. CASE Persisting(k, Recovered(Status(call[k].state, "waiting")), None)
  BY <1>1, <1>2, <1>3, <1>6, FinalizePersists
<1> QED BY <1>5, <1>6 DEF RecoverConversation

LEMMA RecoverFailsKeeps ==
  ASSUME IInv, NEW k \in Callers, RecoverFails(k) PROVE IInv'
<1>1. call[k] # None /\ call[k].state # None
  BY CallsHave DEF RecoverFails, At, Knows, FinalizeSteps
<1>2. Written
  BY NothingWritten DEF RecoverFails
<1>3. Status(call[k].state, "waiting") \in FinalizeStates
  BY <1>1, StatesOf DEF FinalizeStatuses
<1> QED BY <1>1, <1>2, <1>3, FinalizePersists DEF RecoverFails

LEMMA ReadingKeeps ==
  ASSUME IInv, NEW k \in Callers, ExportMarkdown(k) \/ ReadingFails(k) \/ ExtractNothing(k)
  PROVE  IInv'
<1>1. call[k] # None /\ call[k].conv # None /\ call[k].state # None
  BY CallsHave DEF ExportMarkdown, ReadingFails, ExtractNothing, At, Knows, FinalizeSteps
<1>2. Written
  BY NothingWritten DEF ExportMarkdown, ReadingFails, ExtractNothing
<1>3. CASE ExportMarkdown(k)
  BY <1>2, <1>3, FinalizeGoesOn DEF ExportMarkdown
<1>4. CASE Postpone(k)
  BY <1>1, <1>2, <1>4, PostponeKeeps
<1>5. CASE Persisting(k, Reminded(Status(call[k].state, "materializing")), "remind")
  <2>1. Reminded(Status(call[k].state, "materializing")) \in FinalizeStates
    BY <1>1, StatesOf DEF FinalizeStatuses
  <2> QED BY <1>1, <1>2, <1>5, <2>1, FinalizePersists
<1> QED BY <1>3, <1>4, <1>5 DEF ReadingFails, ExtractNothing

LEMMA ExtractKeeps ==
  ASSUME IInv, NEW k \in Callers, Extract(k) PROVE IInv'
<1>1. /\ call[k] # None /\ call[k].conv # None /\ call[k].state # None
      /\ call[k] \in Calls /\ Knows(call[k])
  BY CallsHave DEF Extract, At, Knows, FinalizeSteps
<1>2. Written
  BY NothingWritten DEF Extract
<1> DEFINE payload == record[call[k].conv]
           new == [call[k] EXCEPT !.at = "result", !.payload = payload]
<1>3. payload \in Payloads /\ payload # None
  BY PlanningAssumption, NoneIsNoRecord DEF Extract
<1> HIDE DEF payload
<1>4. /\ new \in Calls /\ new.at = "result" /\ new.payload = payload
      /\ new.conv = call[k].conv /\ new.state = call[k].state /\ new.next = call[k].next
  BY <1>1, <1>3 DEF Calls, Steps
<1>5. call' = [call EXCEPT ![k] = new]
  BY DEF Extract, payload, IInv, TypeOK
<1> HIDE DEF new
<1>6. Knows(new)
  BY <1>1, <1>3, <1>4
     DEF Knows, FinalizeSteps, FreezeSteps, ApplySteps, Extract, At
<1> QED BY <1>2, <1>4, <1>5, <1>6, CallSteps DEF Written, RequestSteps

LEMMA RemindKeeps ==
  ASSUME IInv, NEW k \in Callers, Remind(k) PROVE IInv'
<1>1. /\ call[k] # None /\ call[k].conv \in Convs /\ call[k].conv # None /\ call[k].state # None
      /\ call[k] \in Calls
  BY CallsHave DEF Remind, At, Knows, FinalizeSteps
<1>2. Written
  BY <1>1, NothingWritten DEF Remind, ConversationsNext
<1> DEFINE s == Reminded(Status(call[k].state, "waiting"))
           new == [call[k] EXCEPT !.at = "persist", !.next = "wait", !.again = TRUE, !.state = s]
<1>3. s \in FinalizeStates /\ s # None
  BY <1>1, StatesOf, NoneIsNoRecord DEF FinalizeStatuses
<1> HIDE DEF s
<1>4. /\ new \in Calls /\ new.at = "persist" /\ new.next = "wait" /\ new.state = s
      /\ new.conv = call[k].conv
  BY <1>1, <1>3 DEF Calls, Steps
<1>5. call' = [call EXCEPT ![k] = new]
  BY DEF Remind, s, IInv, TypeOK
<1> HIDE DEF new
<1>6. Knows(new)
  BY <1>1, <1>3, <1>4 DEF Knows, FinalizeSteps, FreezeSteps, ApplySteps, PersistNexts
<1> QED BY <1>2, <1>4, <1>5, <1>6, CallSteps DEF Written, RequestSteps

LEMMA RemindFailsKeeps ==
  ASSUME IInv, NEW k \in Callers, RemindFails(k) PROVE IInv'
<1>1. call[k] # None /\ call[k].conv # None /\ call[k].conv \in Convs /\ call[k].state # None
  BY CallsHave DEF RemindFails, At, Knows, FinalizeSteps
<1>2. [ConversationsNext]_conversations /\ (Fine \/ Trouble)
  BY <1>1 DEF RemindFails, ConversationsNext
<1>3. Written
  BY <1>2, NothingWritten DEF RemindFails
<1> QED BY <1>1, <1>3, PostponeKeeps DEF RemindFails

\* A materialized result is of the conversation and the payload of its call.
LEMMA ResultWritten ==
  ASSUME IInv, NEW k \in Callers, call[k] # None, call[k].conv # None, call[k].payload # None,
         NEW b \in BOOLEAN,
         result' = [result EXCEPT ![call[k].phase] =
                     [conv |-> call[k].conv, payload |-> call[k].payload, normalized |-> b]],
         UNCHANGED <<conversations, stage, freeze, tasks, request, link, finalize>>, Fine, Same
  PROVE  Written
<1>1. call[k].conv \in Convs /\ call[k].payload \in Payloads
  BY CallsHave
<1>2. [conv |-> call[k].conv, payload |-> call[k].payload, normalized |-> b] \in Results
  BY <1>1 DEF Results
<1>3. result' \in [Phases -> Results \cup {None}]
  BY <1>2 DEF IInv, TypeOK
<1> QED BY <1>3, FineOrTrouble DEF Written, Around, Same, IInv, TypeOK

LEMMA SaveResultKeeps ==
  ASSUME IInv, NEW k \in Callers, SaveResult(k) PROVE IInv'
<1>1. call[k] # None /\ call[k].conv # None /\ call[k].state # None /\ call[k].payload # None
  BY CallsHave DEF SaveResult, At, Knows, FinalizeSteps
<1>2. Written
  BY <1>1, ResultWritten DEF SaveResult
<1>3. Status(call[k].state, "materialized") \in FinalizeStates
  BY <1>1, StatesOf DEF FinalizeStatuses
<1> QED BY <1>1, <1>2, <1>3, FinalizePersists DEF SaveResult

LEMMA FinalizePhaseKeeps ==
  ASSUME IInv, NEW k \in Callers, NEW p \in Phases, FinalizePhase(k, p) PROVE IInv'
<1>1. request[p] # None /\ request[p].conv \in Convs \cup {None}
  BY DEF FinalizePhase, IInv, TypeOK, RequestStates
<1> DEFINE new == [NewCall(p, "state") EXCEPT !.conv = request[p].conv]
<1>2. /\ new \in Calls /\ new.at = "state" /\ new.phase = p /\ new.next = None
  <2>1. "state" \in Steps
    BY DEF Steps
  <2> QED BY <1>1, <2>1 DEF NewCall, Calls
<1>3. Start(k, new) /\ UNCHANGED overlapped
  BY DEF FinalizePhase
<1> HIDE DEF new
<1>4. Around /\ call' = [call EXCEPT ![k] = new]
  BY <1>3, NothingStarted DEF Start
<1>5. Knows(new)
  BY <1>1, <1>2 DEF Knows, FinalizeSteps, FreezeSteps, ApplySteps
<1> QED BY <1>2, <1>3, <1>4, <1>5, CallSteps DEF RequestSteps

-----------------------------------------------------------------------------
(* A call saves its state.                                                 *)

LEMMA PersistKeeps ==
  ASSUME IInv, NEW k \in Callers, Persist(k) PROVE IInv'
<1>1. /\ call[k] # None /\ call[k] \in Calls /\ Knows(call[k]) /\ call[k].phase \in Phases
      /\ call[k].state \in FinalizeStates
      /\ call[k].next # None => call[k].next \in Steps
  BY CallsHave DEF Persist, At, Knows, FinalizeSteps
<1>2. finalize' \in [Phases -> FinalizeStates \cup {None}]
  BY <1>1 DEF Persist, IInv, TypeOK
<1>3. Written
  BY <1>2, FineOrTrouble DEF Persist, Written, Around, Same, IInv, TypeOK
<1>4. CASE call[k].next = None
  BY <1>3, <1>4, CallEnds DEF Persist
<1>5. CASE call[k].next # None
  <2> DEFINE new == [call[k] EXCEPT !.at = call[k].next, !.next = None]
  <2>1. call' = [call EXCEPT ![k] = new]
    BY <1>5 DEF Persist, IInv, TypeOK
  <2>2. /\ new \in Calls /\ new.at = call[k].next /\ new.next = None
        /\ new.conv = call[k].conv /\ new.state = call[k].state /\ new.payload = call[k].payload
    BY <1>1, <1>5 DEF Calls
  <2> HIDE DEF new
  <2>3. /\ call[k].conv # None /\ call[k].state # None /\ call[k].next \in PersistNexts
        /\ call[k].next = "normalize" => Normalizes(call[k].payload)
    BY <1>1, <1>5 DEF Persist, At, Knows, FinalizeSteps
  <2>4. Knows(new)
    BY <1>5, <2>2, <2>3 DEF Knows, FinalizeSteps, FreezeSteps, ApplySteps, PersistNexts
  <2> QED BY <1>3, <1>5, <2>1, <2>2, <2>3, <2>4, CallSteps DEF Written, RequestSteps, PersistNexts
<1> QED BY <1>4, <1>5

-----------------------------------------------------------------------------
(* Steps of requestPhase.                                                  *)

LEMMA RequestPhaseKeeps ==
  ASSUME IInv, NEW k \in Callers, NEW p \in Phases, RequestPhase(k, p) PROVE IInv'
<1> DEFINE conv == IF request[p] = None THEN None ELSE request[p].conv
           new == [NewCall(p, "seed") EXCEPT !.conv = conv]
<1>1. ~Linked(p) /\ conv = None /\ call[k] = None
  BY DEF RequestPhase, Free, AlreadyRequested, Linked, IInv, Links, LinkedWaits
<1>2. Start(k, new)
  BY DEF RequestPhase
<1> HIDE DEF conv
<1>3. new \in Calls /\ new.at = "seed" /\ new.phase = p /\ new.conv = None /\ new # None
  <2>1. "seed" \in Steps
    BY DEF Steps
  <2> QED BY <1>1, <2>1, NoneIsNoRecord DEF NewCall, Calls
<1> HIDE DEF new
<1>4. Around /\ call' = [call EXCEPT ![k] = new]
  BY <1>2, NothingStarted DEF Start
<1>5. /\ call' \in [Callers -> Calls \cup {None}]
      /\ call'[k] = new /\ \A j \in Callers : j # k => call'[j] = call[j]
  BY <1>3, <1>4 DEF IInv, TypeOK
<1>6. overlapped' = IF Requests(p) = {} THEN overlapped \ {p} ELSE overlapped \cup {p}
  BY DEF RequestPhase
<1>7. TypeOK' /\ SnapshotsHavePages' /\ StageIsBacked' /\ LinkedWaits' /\ Grows
  <2>1. overlapped' \subseteq Phases
    BY <1>6 DEF IInv, TypeOK
  <2> QED BY <1>4, <1>5, <2>1, AroundKeeps
<1>8. UNCHANGED <<stage, freeze, tasks, request, link>>
  BY <1>4 DEF Around
<1>9. CallsKnow'
  <2>1. Knows(call[k])'
    BY <1>3, <1>5 DEF Knows, FinalizeSteps, FreezeSteps, ApplySteps
  <2> QED BY <1>5, <1>7, <2>1, OthersKnow
<1>10. ASSUME NEW q \in Phases, q \notin overlapped' PROVE Alone(q)'
  <2>1. CASE q = p
    <3>1. Requests(p) = {}
      BY <1>6, <1>10, <2>1
    <3>2. \A j \in Callers : ~IsRequest(call[j], p)
      BY <3>1 DEF Requests, IsRequest, RequestSteps, At
    <3>3. \A j \in Callers : IsRequest(call'[j], p) => j = k
      BY <1>5, <3>2
    <3>4. ~Linked(p)'
      BY <1>1, <1>8 DEF Linked
    <3> QED BY <1>3, <1>5, <2>1, <3>3, <3>4 DEF Alone
  <2>2. CASE q # p
    <3>1. Alone(q)
      BY <1>6, <1>10, <2>2 DEF IInv, Links
    <3>2. ASSUME NEW j \in Callers, IsRequest(call'[j], q) PROVE call'[j] = call[j]
      BY <1>3, <1>5, <2>2, <3>2 DEF IsRequest
    <3> QED BY <1>8, <3>1, <3>2 DEF Alone, Linked
  <2> QED BY <2>1, <2>2
<1>11. Links'
  BY <1>7, <1>10 DEF Links
<1> QED BY <1>7, <1>9, <1>11 DEF IInv

LEMMA BeginKeeps ==
  ASSUME IInv, NEW k \in Callers, Begin(k) PROVE IInv'
<1>1. call[k] # None /\ call[k] \in Calls /\ call[k].at = "start"
  BY CallsHave DEF Begin, At
<1>2. PICK c \in Convs :
        StartConversation(c) /\ call' = [call EXCEPT ![k].at = "link", ![k].conv = c]
  BY DEF Begin, Unused
<1>3. Written
  BY <1>2, NothingWritten DEF Begin, ConversationsNext
<1> DEFINE new == [call[k] EXCEPT !.at = "link", !.conv = c]
<1>4. call' = [call EXCEPT ![k] = new]
  BY <1>2 DEF IInv, TypeOK
<1>5. /\ new \in Calls /\ new.at = "link" /\ new.phase = call[k].phase /\ new.conv = c
      /\ c # None
  BY <1>1, NoneIsNoRecord DEF Calls, Steps
<1> HIDE DEF new
<1>6. Knows(new)
  BY <1>5 DEF Knows, FinalizeSteps, FreezeSteps, ApplySteps
<1> QED BY <1>1, <1>3, <1>4, <1>5, <1>6, CallSteps DEF Written, RequestSteps, IsRequest

\* A request writes the state of its phase: without a conversation, or at its end with its own,
\* when the link file names it.
LEMMA RequestWrites ==
  ASSUME IInv, NEW k \in Callers, IsRequest(call[k], call[k].phase),
         UNCHANGED <<conversations, stage, freeze, tasks, link, finalize, result, overlapped, made>>,
         Fine \/ Trouble,
         NEW state \in RequestStates, request' = [request EXCEPT ![call[k].phase] = state],
         NEW new \in Calls \cup {None}, call' = [call EXCEPT ![k] = new],
         \/ /\ state.conv = None
            /\ new = None \/ (new.at = "start" /\ new.conv = None /\ new.phase = call[k].phase)
         \/ /\ state.status = "waiting" /\ state.conv = call[k].conv
            /\ call[k].at = "waiting" /\ new = None
  PROVE  IInv'
<1> DEFINE p == call[k].phase
<1>1. /\ p \in Phases /\ call[k] # None
      /\ call'[k] = new /\ \A j \in Callers : j # k => call'[j] = call[j]
  BY CallsHave DEF IInv, TypeOK, IsRequest
<1> HIDE DEF p
<1>2. /\ request' \in [Phases -> RequestStates \cup {None}] /\ request'[p] = state
      /\ \A q \in Phases : q # p => request'[q] = request[q]
      /\ state # None
  BY <1>1, NoneIsNoRecord DEF IInv, TypeOK, p
<1>3. Grows /\ StageIsBacked'
  BY <1>2 DEF Grows, IInv, StageIsBacked
<1>4. LinkedWaits'
  BY <1>2 DEF IInv, Links, LinkedWaits, Linked
<1>5. ASSUME NEW q \in Phases \ overlapped PROVE Alone(q)'
  <2>1. Alone(q)
    BY DEF IInv, Links
  <2>2. CASE q # p
    <3>1. \A j \in Callers : IsRequest(call'[j], q) => call'[j] = call[j]
      BY <1>1, <2>2 DEF IsRequest, p
    <3> QED BY <1>2, <2>1, <2>2, <3>1 DEF Alone, Linked
  <2>3. CASE q = p
    <3>1. IsRequest(call[k], q)
      BY <2>3 DEF p
    <3>2. \A j \in Callers : IsRequest(call[j], q) => j = k
      BY <2>1, <3>1 DEF Alone
    <3>3. \A j \in Callers : IsRequest(call'[j], q) => j = k
      BY <1>1, <3>2
    <3>4. CASE state.conv = None /\ (new = None \/ new.at = "start")
      BY <1>1, <1>2, <2>3, <3>3, <3>4 DEF Alone, Linked, IsRequest
    <3>5. CASE state.conv = call[k].conv /\ call[k].at = "waiting" /\ new = None
      <4>1. link[q] = call[k].conv
        BY <2>1, <3>1, <3>5 DEF Alone
      <4> QED BY <1>1, <1>2, <2>3, <3>3, <3>5, <4>1 DEF Alone, Linked, IsRequest
    <3> QED BY <3>4, <3>5
  <2> QED BY <2>2, <2>3
<1>6. Links'
  BY <1>4, <1>5 DEF Links
<1>7. new # None => Knows(call[k])'
  BY <1>1 DEF Knows, FinalizeSteps, FreezeSteps, ApplySteps
<1>8. /\ stage' \in {Stages[n] : n \in 1 .. 4} /\ tasks' \in BOOLEAN
      /\ freeze' \in [Phases -> {"valid", "thin", None}]
      /\ link' \in [Phases -> Convs \cup {None}]
  BY DEF IInv, TypeOK
<1> QED BY <1>2, <1>3, <1>6, <1>7, <1>8, CallWrites

LEMMA SavingKeeps ==
  ASSUME IInv, NEW k \in Callers, Seed(k) \/ BeginFails(k) \/ AwaitAnswer(k) PROVE IInv'
<1> DEFINE c == call[k]
           seeded == [status |-> "requested", conv |-> c.conv]
           answered == [status |-> "waiting", conv |-> c.conv]
           new == [c EXCEPT !.at = "start"]
<1>1. /\ c # None /\ c \in Calls /\ Knows(c) /\ IsRequest(c, c.phase)
      /\ c.conv \in Convs \cup {None}
  <2>1. c # None /\ c.at \in RequestSteps
    BY DEF Seed, BeginFails, AwaitAnswer, At, RequestSteps
  <2> QED BY <2>1, CallsHave DEF IsRequest
<1>2. seeded \in RequestStates /\ answered \in RequestStates
  BY <1>1 DEF RequestStates
<1>3. /\ UNCHANGED <<conversations, stage, freeze, tasks, link, finalize, result, overlapped, made>>
      /\ Fine \/ Trouble
  BY DEF Seed, BeginFails, AwaitAnswer, SaveRequest, Same
<1>4. CASE Seed(k)
  <2>1. /\ request' = [request EXCEPT ![c.phase] = seeded] /\ call' = [call EXCEPT ![k] = new]
    BY <1>4 DEF Seed, SaveRequest, Goto, IInv, TypeOK
  <2>2. seeded.conv = None /\ c.conv = None
    BY <1>1, <1>4 DEF Seed, At, Knows
  <2>3. new \in Calls /\ new.at = "start" /\ new.phase = c.phase /\ new.conv = c.conv
    BY <1>1 DEF Calls, Steps
  <2> HIDE DEF seeded, answered, new
  <2> QED BY <1>1, <1>2, <1>3, <2>1, <2>2, <2>3, RequestWrites
<1>5. CASE BeginFails(k)
  <2>1. /\ request' = [request EXCEPT ![c.phase] = seeded] /\ call' = [call EXCEPT ![k] = None]
    BY <1>5 DEF BeginFails, SaveRequest, Return
  <2>2. seeded.conv = None
    BY <1>1, <1>5 DEF BeginFails, At, Knows
  <2> HIDE DEF seeded, answered, new
  <2> QED BY <1>1, <1>2, <1>3, <2>1, <2>2, RequestWrites
<1>6. CASE AwaitAnswer(k)
  <2>1. /\ request' = [request EXCEPT ![c.phase] = answered] /\ call' = [call EXCEPT ![k] = None]
    BY <1>6 DEF AwaitAnswer, SaveRequest, Return
  <2>2. answered.status = "waiting" /\ answered.conv = c.conv /\ c.at = "waiting"
    BY <1>6 DEF AwaitAnswer, At
  <2> HIDE DEF seeded, answered, new
  <2> QED BY <1>1, <1>2, <1>3, <2>1, <2>2, RequestWrites
<1> QED BY <1>4, <1>5, <1>6

LEMMA LinkKeeps ==
  ASSUME IInv, NEW k \in Callers, Link(k) PROVE IInv'
<1> DEFINE c == call[k]
           p == c.phase
           new == [c EXCEPT !.at = "waiting"]
<1>1. /\ c # None /\ c \in Calls /\ p \in Phases /\ c.conv \in Convs /\ c.conv # None
      /\ IsRequest(c, p)
  BY CallsHave DEF Link, At, Knows, IsRequest, RequestSteps
<1>2. call' = [call EXCEPT ![k] = new]
  BY DEF Link, Goto, IInv, TypeOK
<1>3. new \in Calls /\ new.at = "waiting" /\ new.phase = p /\ new.conv = c.conv
  BY <1>1 DEF Calls, Steps
<1> HIDE DEF new
<1>4. call'[k] = new /\ \A j \in Callers : j # k => call'[j] = call[j]
  BY <1>2 DEF IInv, TypeOK
<1>5. /\ link' = [link EXCEPT ![p] = c.conv]
      /\ UNCHANGED <<conversations, stage, freeze, tasks, request, finalize, result, overlapped, made>>
      /\ Fine
  BY DEF Link, Same
<1> HIDE DEF c, p
<1>6. /\ link' \in [Phases -> Convs \cup {None}] /\ link'[p] = c.conv
      /\ \A q \in Phases : q # p => link'[q] = link[q]
  BY <1>1, <1>5 DEF IInv, TypeOK
<1>7. Grows /\ StageIsBacked' /\ LinkedWaits'
  BY <1>5 DEF Grows, IInv, StageIsBacked, Links, LinkedWaits, Linked
<1>8. ASSUME NEW q \in Phases \ overlapped PROVE Alone(q)'
  <2>1. Alone(q)
    BY DEF IInv, Links
  <2>2. CASE q # p
    <3>1. \A j \in Callers : IsRequest(call'[j], q) => call'[j] = call[j]
      BY <1>3, <1>4, <2>2 DEF IsRequest
    <3> QED BY <1>5, <1>6, <2>1, <2>2, <3>1 DEF Alone, Linked
  <2>3. CASE q = p
    <3>1. ~Linked(q) /\ \A j \in Callers : IsRequest(call[j], q) => j = k
      BY <1>1, <2>1, <2>3 DEF Alone, c
    <3>2. \A j \in Callers : IsRequest(call'[j], q) => j = k
      BY <1>4, <3>1
    <3>3. ~Linked(q)'
      BY <1>5, <3>1 DEF Linked
    <3> QED BY <1>3, <1>4, <1>6, <2>3, <3>2, <3>3 DEF Alone
  <2> QED BY <2>2, <2>3
<1>9. Links'
  BY <1>5, <1>7, <1>8 DEF Links
<1>10. Knows(call[k])'
  BY <1>1, <1>3, <1>4 DEF Knows, FinalizeSteps, FreezeSteps, ApplySteps
<1>11. /\ stage' \in {Stages[n] : n \in 1 .. 4} /\ tasks' \in BOOLEAN
      /\ freeze' \in [Phases -> {"valid", "thin", None}]
      /\ request' \in [Phases -> RequestStates \cup {None}]
  BY <1>5 DEF IInv, TypeOK
<1> QED BY <1>2, <1>3, <1>5, <1>6, <1>7, <1>9, <1>10, <1>11, CallWrites

-----------------------------------------------------------------------------
(* Steps of applyPhase, and of what is put directly.                       *)

LEMMA ApplyPhaseKeeps ==
  ASSUME IInv, NEW k \in Callers, NEW p \in Phases, ApplyPhase(k, p) PROVE IInv'
<1>1. /\ result[p] \in Results /\ finalize[p] \in FinalizeStates /\ finalize[p] # None
      /\ result[p].conv \in Convs /\ result[p].conv # None
      /\ result[p].payload \in Payloads /\ result[p].payload # None
  BY NoneIsNoRecord DEF ApplyPhase, IInv, TypeOK, Results
<1> DEFINE payload == result[p].payload
           first == [NewCall(p, "normalize") EXCEPT !.state = finalize[p], !.payload = payload,
                                                    !.conv = result[p].conv]
           repairing == [first EXCEPT !.at = "repair", !.payload = Repaired(payload)]
           failing == [first EXCEPT !.at = "persist"]
<1>2. "normalize" \in Steps /\ "repair" \in Steps /\ "persist" \in Steps
  BY DEF Steps
<1>3. Repaired(payload) \in Payloads /\ Repaired(payload) # None
  BY NoneIsNoRecord DEF Repaired, Payloads
<1>4. /\ first \in Calls /\ first.at = "normalize" /\ first.conv = result[p].conv
      /\ first.state = finalize[p] /\ first.payload = payload /\ first.next = None
  BY <1>1, <1>2 DEF NewCall, Calls
<1>5. \E new \in {first, repairing, failing} :
        Start(k, new) /\ (new = first => Normalizes(payload) \/ new = failing \/ new = repairing)
  BY DEF ApplyPhase
<1> HIDE DEF first
<1>6. /\ repairing \in Calls /\ repairing.at = "repair" /\ repairing.conv = result[p].conv
      /\ repairing.state = finalize[p] /\ repairing.payload # None
  BY <1>2, <1>3, <1>4 DEF Calls
<1>7. /\ failing \in Calls /\ failing.at = "persist" /\ failing.next = None
      /\ failing.state = finalize[p]
  BY <1>2, <1>4 DEF Calls
<1> HIDE DEF repairing, failing, payload
<1>8. Normalizes(payload) => Knows(first)
  BY <1>1, <1>4 DEF Knows, FinalizeSteps, FreezeSteps, ApplySteps
<1>9. Knows(repairing) /\ Knows(failing)
  BY <1>1, <1>6, <1>7 DEF Knows, FinalizeSteps, FreezeSteps, ApplySteps, PersistNexts
<1>10. PICK new \in {first, repairing, failing} : Start(k, new) /\ Knows(new)
  BY <1>5, <1>8, <1>9
<1>11. Around /\ call' = [call EXCEPT ![k] = new]
  BY <1>10, NothingStarted DEF Start
<1>12. new \in Calls /\ new.at \notin RequestSteps
  BY <1>4, <1>6, <1>7 DEF RequestSteps
<1>13. UNCHANGED overlapped
  BY DEF ApplyPhase
<1> QED BY <1>10, <1>11, <1>12, <1>13, CallSteps

LEMMA PutDirectlyKeeps ==
  ASSUME IInv, NEW k \in Callers, NEW p \in Phases, PutDirectly(k, p) PROVE IInv'
<1>1. PICK payload \in Posted : Start(k, [NewCall(p, "run") EXCEPT !.payload = payload])
  BY DEF PutDirectly
<1> DEFINE new == [NewCall(p, "run") EXCEPT !.payload = payload]
<1>2. payload \in {"valid", "thin"} /\ payload \in Payloads /\ "run" \in Steps
  BY PlanningAssumption DEF Payloads, Steps
<1>3. new \in Calls /\ new.at = "run" /\ new.payload = payload
  BY <1>2 DEF NewCall, Calls
<1>4. Start(k, new)
  BY <1>1
<1> HIDE DEF new
<1>5. Around /\ call' = [call EXCEPT ![k] = new]
  BY <1>4, NothingStarted DEF Start
<1>6. Knows(new)
  BY <1>2, <1>3 DEF Knows, FinalizeSteps, FreezeSteps, ApplySteps, Normalizes
<1>7. UNCHANGED overlapped
  BY DEF PutDirectly
<1> QED BY <1>3, <1>5, <1>6, <1>7, CallSteps DEF RequestSteps

LEMMA RepairKeeps ==
  ASSUME IInv, NEW k \in Callers, Repair(k) PROVE IInv'
<1> DEFINE c == call[k]
<1>1. c # None /\ c \in Calls /\ c.conv # None /\ c.state \in FinalizeStates /\ c.payload # None
  BY CallsHave DEF Repair, At, Knows, FinalizeSteps
<1>2. Written
  BY <1>1, ResultWritten DEF Repair
<1> DEFINE next == AfterRepair(c.payload)
           new == [c EXCEPT !.at = "persist", !.state = Reminded(c.state), !.next = next]
<1>3. Reminded(c.state) \in FinalizeStates /\ Reminded(c.state) # None
  BY <1>1, FinalizeStateChanges, NoneIsNoRecord DEF FinalizeStatuses
<1>4. /\ next \in Steps \cup {None} /\ next \in PersistNexts
      /\ next # None => Normalizes(c.payload)
  BY DEF AfterRepair, Steps, PersistNexts
<1>5. call' = [call EXCEPT ![k] = new]
  BY DEF Repair, Persisting, IInv, TypeOK
<1> HIDE DEF next
<1>6. /\ new \in Calls /\ new.at = "persist" /\ new.state = Reminded(c.state) /\ new.next = next
      /\ new.conv = c.conv /\ new.payload = c.payload
  BY <1>1, <1>3, <1>4 DEF Calls, Steps
<1> HIDE DEF new, c
<1>7. Knows(new)
  BY <1>1, <1>3, <1>4, <1>6
     DEF Knows, FinalizeSteps, FreezeSteps, ApplySteps
<1> QED BY <1>2, <1>5, <1>6, <1>7, CallSteps DEF Written, RequestSteps

\* A call goes on with the same payload.
LEMMA ApplyGoesOn ==
  ASSUME IInv, Written, NEW k \in Callers, NEW step \in {"gate", "run", "freeze"}, Goto(k, step),
         call[k] # None, call[k].at \in ApplySteps,
         step = "freeze" => FreezesFor(call[k].phase)
  PROVE  IInv'
<1> DEFINE c == call[k]
           new == [c EXCEPT !.at = step]
<1>1. c \in Calls /\ Normalizes(c.payload) /\ step \in Steps
  BY CallsHave DEF Knows, Steps
<1>2. call' = [call EXCEPT ![k] = new]
  BY DEF Goto, IInv, TypeOK
<1>3. new \in Calls /\ new.at = step /\ new.phase = c.phase /\ new.payload = c.payload
  BY <1>1 DEF Calls
<1> HIDE DEF new
<1>4. Knows(new)
  BY <1>1, <1>3 DEF Knows, FinalizeSteps, FreezeSteps, ApplySteps
<1> QED BY <1>2, <1>3, <1>4, CallSteps DEF Written, RequestSteps

LEMMA NormalizeKeeps ==
  ASSUME IInv, NEW k \in Callers, Normalize(k) PROVE IInv'
<1> DEFINE c == call[k]
<1>1. c # None /\ c.at \in ApplySteps /\ c.conv # None /\ c.payload # None
  <2>1. c # None /\ c.at \in ApplySteps /\ c.conv # None /\ Normalizes(c.payload)
    BY CallsHave DEF Normalize, At, Knows, FinalizeSteps, ApplySteps
  <2> QED BY <2>1, NoneIsNoRecord DEF Normalizes, Payloads
<1>2. Written
  BY <1>1, ResultWritten DEF Normalize
<1>3. CASE c.phase = Graph
  BY <1>1, <1>2, <1>3, ApplyGoesOn DEF Normalize
<1>4. CASE c.phase # Graph
  BY <1>1, <1>2, <1>4, ApplyGoesOn DEF Normalize
<1> QED BY <1>3, <1>4

LEMMA GateKeeps ==
  ASSUME IInv, NEW k \in Callers, Gate(k) PROVE IInv'
<1>1. Written
  BY NothingWritten DEF Gate
<1>2. call[k] # None /\ call[k].at \in ApplySteps
  BY DEF Gate, At, ApplySteps
<1>3. CASE Goto(k, "run")
  BY <1>1, <1>2, <1>3, ApplyGoesOn
<1>4. CASE Return(k)
  BY <1>1, <1>4, CallEnds
<1> QED BY <1>3, <1>4 DEF Gate

\* A run that may move to a stage stands on the freezes of the earlier ones.
LEMMA MovingIsBacked ==
  ASSUME StageIsBacked, NEW p \in Phases, MayMove(p) PROVE FreezesFor(p)
<1>1. Number(p) \in 1 .. 3 /\ Number(p) \in 1 .. 4 /\ Number(p) + 1 \in 1 .. 4
  BY PhaseNumbers
<1>2. Ordinal(stage) = Number(p) \/ Ordinal(stage) = Number(p) + 1
  BY <1>1, StageNumbers, Targets DEF MayMove
<1>3. ASSUME NEW q \in Phases, Number(q) < Number(p) PROVE freeze[q] # None
  <2>1. Number(q) \in 1 .. 3
    BY PhaseNumbers
  <2>2. Ordinal(stage) > Number(q)
    BY <1>1, <1>2, <1>3, <2>1
  <2> QED BY <2>2 DEF StageIsBacked
<1> QED BY <1>3 DEF FreezesFor

LEMMA ReadRunKeeps ==
  ASSUME IInv, NEW k \in Callers, ReadRun(k) PROVE IInv'
<1>1. Written
  BY NothingWritten DEF ReadRun
<1>2. call[k] # None /\ call[k].at \in ApplySteps /\ call[k].phase \in Phases
  BY CallsHave DEF ReadRun, At, ApplySteps
<1>3. CASE MayMove(call[k].phase) /\ Goto(k, "freeze")
  <2>1. FreezesFor(call[k].phase)
    BY <1>2, <1>3, MovingIsBacked DEF IInv
  <2> QED BY <1>1, <1>2, <1>3, <2>1, ApplyGoesOn
<1>4. CASE Return(k)
  BY <1>1, <1>4, CallEnds
<1> QED BY <1>3, <1>4 DEF ReadRun

LEMMA SaveFreezeKeeps ==
  ASSUME IInv, NEW k \in Callers, SaveFreeze(k) PROVE IInv'
<1> DEFINE c == call[k]
           p == c.phase
           step == IF p = Graph THEN "tasks" ELSE "stage"
           new == [c EXCEPT !.at = step]
<1>1. /\ c # None /\ c \in Calls /\ p \in Phases /\ c.payload \in {"valid", "thin"}
      /\ FreezesFor(p)
  BY CallsHave DEF SaveFreeze, At, Knows, ApplySteps, FreezeSteps, Normalizes
<1>2. call' = [call EXCEPT ![k] = new]
  BY DEF SaveFreeze, Goto, IInv, TypeOK
<1>3. step \in {"tasks", "stage"} /\ (step = "tasks" <=> p = Graph)
  OBVIOUS
<1> HIDE DEF step
<1>4. new \in Calls /\ new.at = step /\ new.phase = p /\ new.payload = c.payload
  BY <1>1, <1>3 DEF Calls, Steps
<1> HIDE DEF new
<1>5. call'[k] = new
  BY <1>2 DEF IInv, TypeOK
<1>6. /\ freeze' = [freeze EXCEPT ![p] = c.payload] /\ Fine
      /\ UNCHANGED <<conversations, stage, tasks, request, link, finalize, result, overlapped, made>>
  BY DEF SaveFreeze, Same
<1> HIDE DEF c, p
<1>7. /\ freeze' \in [Phases -> {"valid", "thin", None}] /\ freeze'[p] # None
      /\ \A q \in Phases : q # p => freeze'[q] = freeze[q]
  BY <1>1, <1>6, NoneIsNoRecord DEF IInv, TypeOK, Payloads
<1>8. Grows /\ StageIsBacked'
  BY <1>6, <1>7 DEF Grows, IInv, StageIsBacked
<1>9. Links'
  BY <1>2, <1>3, <1>4, <1>6, LinksLeft DEF RequestSteps
<1>10. Knows(call[k])'
  <2>1. \A q \in Phases : Number(q) < Number(p) => freeze'[q] # None
    BY <1>1, <1>8 DEF Grows, FreezesFor
  <2> QED BY <1>1, <1>3, <1>4, <1>5, <1>7, <2>1
          DEF Knows, FinalizeSteps, ApplySteps, FreezeSteps, Normalizes, FreezesFor
<1>11. /\ stage' \in {Stages[n] : n \in 1 .. 4} /\ tasks' \in BOOLEAN
       /\ request' \in [Phases -> RequestStates \cup {None}]
       /\ link' \in [Phases -> Convs \cup {None}]
  BY <1>6 DEF IInv, TypeOK
<1> QED BY <1>2, <1>4, <1>6, <1>7, <1>8, <1>9, <1>10, <1>11, CallWrites

LEMMA SaveTasksKeeps ==
  ASSUME IInv, NEW k \in Callers, SaveTasks(k) PROVE IInv'
<1> DEFINE c == call[k]
           new == [c EXCEPT !.at = "stage"]
<1>1. c # None /\ c \in Calls /\ Knows(c) /\ c.at = "tasks"
  BY CallsHave DEF SaveTasks, At
<1>2. call' = [call EXCEPT ![k] = new]
  BY DEF SaveTasks, Goto, IInv, TypeOK
<1>3. new \in Calls /\ new.at = "stage" /\ new.phase = c.phase /\ new.payload = c.payload
  BY <1>1 DEF Calls, Steps
<1> HIDE DEF new
<1>4. call'[k] = new
  BY <1>2 DEF IInv, TypeOK
<1>5. /\ tasks' = TRUE /\ Fine
      /\ UNCHANGED <<conversations, stage, freeze, request, link, finalize, result, overlapped, made>>
  BY DEF SaveTasks, Same
<1> HIDE DEF c
<1>6. Grows /\ StageIsBacked'
  BY <1>5 DEF Grows, IInv, StageIsBacked
<1>7. Links'
  BY <1>2, <1>3, <1>5, LinksLeft DEF RequestSteps
<1>8. Knows(call[k])'
  BY <1>1, <1>3, <1>4, <1>5 DEF Knows, FinalizeSteps, ApplySteps, FreezeSteps, FreezesFor
<1>9. /\ stage' \in {Stages[n] : n \in 1 .. 4} /\ tasks' \in BOOLEAN
      /\ freeze' \in [Phases -> {"valid", "thin", None}]
      /\ request' \in [Phases -> RequestStates \cup {None}]
      /\ link' \in [Phases -> Convs \cup {None}]
  BY <1>5 DEF IInv, TypeOK
<1> QED BY <1>2, <1>3, <1>5, <1>6, <1>7, <1>8, <1>9, CallWrites

LEMMA SaveRunKeeps ==
  ASSUME IInv, NEW k \in Callers, SaveRun(k) PROVE IInv'
<1> DEFINE c == call[k]
           p == c.phase
           s == Status(c.state, "applied")
           marking == [c EXCEPT !.at = "persist", !.state = s, !.next = None]
<1>1. /\ c # None /\ c \in Calls /\ p \in Phases /\ Knows(c) /\ c.at = "stage"
      /\ c.state # None => c.state \in FinalizeStates
  BY CallsHave DEF SaveRun, At
<1>2. PICK new \in Calls \cup {None} :
        /\ call' = [call EXCEPT ![k] = new]
        /\ new # None => new.at = "persist" /\ new.state # None /\ new.next = None
  <2>1. CASE c.state = None
    BY <2>1 DEF SaveRun, Return
  <2>2. CASE c.state # None
    <3>1. s \in FinalizeStates /\ s # None
      BY <1>1, <2>2, FinalizeStateChanges, NoneIsNoRecord DEF FinalizeStatuses
    <3>2. call' = [call EXCEPT ![k] = marking]
      BY <2>2 DEF SaveRun, MarkPlanningApplied, Persisting, IInv, TypeOK
    <3> HIDE DEF s
    <3>3. marking \in Calls /\ marking.at = "persist" /\ marking.state = s /\ marking.next = None
      BY <1>1, <3>1 DEF Calls, Steps
    <3> HIDE DEF marking
    <3> QED BY <3>1, <3>2, <3>3
  <2> QED BY <2>1, <2>2
<1>3. call'[k] = new
  BY <1>2 DEF IInv, TypeOK
<1>4. /\ stage' = Target(p) /\ Fine
      /\ UNCHANGED <<conversations, freeze, tasks, request, link, finalize, result, overlapped, made>>
  BY DEF SaveRun, Same
<1>5. FreezesFor(p) /\ freeze[p] # None /\ (p = Graph => tasks)
  BY <1>1 DEF Knows, FreezeSteps
<1> HIDE DEF c, p
<1>6. ASSUME NEW q \in Phases, Ordinal(Target(p)) > Number(q) PROVE freeze[q] # None
  <2>1. Number(q) < Number(p) \/ Number(q) = Number(p)
    BY <1>1, <1>6, Targets, PhaseNumbers
  <2>2. Number(q) = Number(p) => q = p
    BY <1>1, PhaseNumbers DEF Phases
  <2> QED BY <1>5, <2>1, <2>2 DEF FreezesFor
<1>7. StageIsBacked'
  <2>1. Target(p) = "foundation_ready" => tasks
    BY <1>1, <1>5, Targets
  <2> QED BY <1>4, <1>6, <2>1 DEF StageIsBacked
<1>8. Grows
  BY <1>4 DEF Grows
<1>9. Links'
  BY <1>2, <1>4, LinksLeft DEF RequestSteps
<1>10. new # None => Knows(call[k])'
  BY <1>2, <1>3 DEF Knows, FinalizeSteps, FreezeSteps, ApplySteps, PersistNexts
<1>11. /\ stage' \in {Stages[n] : n \in 1 .. 4} /\ tasks' \in BOOLEAN
       /\ freeze' \in [Phases -> {"valid", "thin", None}]
       /\ request' \in [Phases -> RequestStates \cup {None}]
       /\ link' \in [Phases -> Convs \cup {None}]
  BY <1>1, <1>4, Targets DEF IInv, TypeOK
<1> QED BY <1>2, <1>4, <1>7, <1>8, <1>9, <1>10, <1>11, CallWrites

-----------------------------------------------------------------------------
(* The environment.                                                        *)

LEMMA CrashKeeps ==
  ASSUME IInv, Crash PROVE IInv'
<1>1. TypeOK'
  BY FineOrTrouble DEF Crash, files, conversations, ConversationsTypeOK, IInv, TypeOK
<1>2. \A k \in Callers : call'[k] = None
  BY DEF Crash
<1>3. CallsKnow'
  BY <1>2 DEF CallsKnow
<1>4. ASSUME NEW p \in Phases \ overlapped PROVE Alone(p)'
  <2>1. Alone(p)
    BY DEF IInv, Links
  <2> QED BY <1>2, <2>1 DEF Crash, files, Alone, IsRequest, Linked
<1>5. SnapshotsHavePages' /\ Links' /\ StageIsBacked'
  BY <1>4 DEF Crash, files, conversations, IInv, SnapshotsHavePages, Links, LinkedWaits, Linked,
              StageIsBacked
<1> QED BY <1>1, <1>3, <1>5 DEF IInv

\* A step that leaves every call and what calls rely on alone.
LEMMA QuietKeeps ==
  ASSUME IInv, Around, UNCHANGED <<call, overlapped>> PROVE IInv'
<1>1. TypeOK' /\ SnapshotsHavePages' /\ StageIsBacked' /\ LinkedWaits'
  BY AroundKeeps DEF IInv, TypeOK
<1>2. CallsKnow'
  BY DEF IInv, Around, CallsKnow, Knows, FreezesFor
<1>3. ASSUME NEW p \in Phases \ overlapped PROVE Alone(p)'
  <2>1. Alone(p)
    BY DEF IInv, Links
  <2> QED BY <2>1 DEF Around, Alone, IsRequest, Linked
<1>4. Links'
  BY <1>1, <1>3 DEF Links
<1> QED BY <1>1, <1>2, <1>4 DEF IInv

\* The bridge and ChatGPT write no file.
LEMMA BridgeStepKeeps ==
  ASSUME IInv, Restart \/ ChatGPT PROVE IInv'
<1>1. [ConversationsNext]_conversations
  BY DEF Restart, ChatGPT, ConversationsNext
<1>2. Written
  BY <1>1, NothingWritten DEF Restart, ChatGPT, Same
<1> QED BY <1>2, QuietKeeps DEF Written, Restart, ChatGPT

LEMMA StutterKeeps ==
  ASSUME IInv, UNCHANGED vars PROVE IInv'
<1>1. Around
  BY DEF vars, files, Around, IInv, TypeOK
<1> QED BY <1>1, QuietKeeps DEF vars

-----------------------------------------------------------------------------
(* The theorems.                                                           *)

LEMMA InitHolds ==
  ASSUME Init PROVE IInv
<1>1. ConversationsTypeOK /\ SnapshotsHavePages
  BY DEF Init, ConversationsInit, ConversationsTypeOK, SnapshotsHavePages, Snapshots
<1>2. stage \in {Stages[n] : n \in 1 .. 3} /\ stage # "foundation_ready"
  <2>1. PICK n \in 1 .. 3 : stage = Stages[n]
    BY PlanningAssumption DEF Init
  <2>2. n = 1 \/ n = 2 \/ n = 3
    OBVIOUS
  <2> QED BY <2>1, <2>2, StageNumbers
<1>3. TypeOK
  <2>1. stage \in {Stages[n] : n \in 1 .. 4} /\ 0 \in 0 .. MaxTroubles /\ 0 \in 0 .. MaxCalls
    BY <1>2, PlanningAssumption
  <2>2. freeze \in [Phases -> {"valid", "thin", None}]
    BY PlanningAssumption DEF Init
  <2> QED BY <1>1, <2>1, <2>2 DEF Init, TypeOK
<1>4. CallsKnow /\ \A k \in Callers : call[k] = None
  BY DEF Init, CallsKnow
<1>5. StageIsBacked
  <2>1. PICK n \in 1 .. 3 : stage = Stages[n]
    BY <1>2
  <2>2. Ordinal(stage) \in 1 .. 4
    BY <2>1, StageNumbers
  <2>3. ASSUME NEW p \in Phases, Ordinal(stage) > Number(p) PROVE freeze[p] # None
    <3>1. Number(p) \in 1 .. 3
      BY PhaseNumbers
    <3>2. ~(Ordinal(stage) <= Number(p))
      BY <2>2, <2>3, <3>1
    <3> QED BY <3>2 DEF Init
  <2> QED BY <1>2, <2>3 DEF StageIsBacked
<1>6. Links
  BY <1>4 DEF Init, Links, LinkedWaits, Linked, Alone, IsRequest
<1> QED BY <1>1, <1>3, <1>4, <1>5, <1>6 DEF IInv

LEMMA FinalizingKeeps ==
  ASSUME IInv, NEW k \in Callers, Finalizing(k) PROVE IInv'
BY ReadFinalizeKeeps, WaitReturnsKeeps, WaitFailsKeeps, RecoverConversationKeeps, RecoverFailsKeeps,
   ReadingKeeps, ExtractKeeps, RemindKeeps, RemindFailsKeeps, SaveResultKeeps DEF Finalizing

LEMMA RequestingKeeps ==
  ASSUME IInv, NEW k \in Callers, Requesting(k) PROVE IInv'
BY SavingKeeps, BeginKeeps, LinkKeeps DEF Requesting

LEMMA ApplyingKeeps ==
  ASSUME IInv, NEW k \in Callers, Applying(k) PROVE IInv'
BY RepairKeeps, NormalizeKeeps, GateKeeps, ReadRunKeeps, SaveFreezeKeeps, SaveTasksKeeps,
   SaveRunKeeps DEF Applying

LEMMA NextKeeps ==
  ASSUME IInv, [Next]_vars PROVE IInv'
<1>1. ASSUME NEW k \in Callers, NEW p \in Asked,
             RequestPhase(k, p) \/ FinalizePhase(k, p) \/ ApplyPhase(k, p) \/ PutDirectly(k, p)
      PROVE  IInv'
  <2>1. p \in Phases
    BY PlanningAssumption
  <2> QED BY <1>1, <2>1, RequestPhaseKeeps, FinalizePhaseKeeps, ApplyPhaseKeeps, PutDirectlyKeeps
<1>2. ASSUME NEW k \in Callers, GoOn(k) PROVE IInv'
  BY <1>2, PersistKeeps, RequestingKeeps, FinalizingKeeps, ApplyingKeeps DEF GoOn
<1>3. CASE ChatGPT \/ Crash \/ Restart
  BY <1>3, BridgeStepKeeps, CrashKeeps
<1>4. CASE UNCHANGED vars
  BY <1>4, StutterKeeps
<1> QED BY <1>1, <1>2, <1>3, <1>4 DEF Next

\* The invariant every behaviour of the planning lane keeps.
LEMMA PlanningInvariant == Spec => []IInv
<1>1. Init => IInv
  BY InitHolds
<1>2. IInv /\ [Next]_vars => IInv'
  BY NextKeeps
<1> QED BY <1>1, <1>2, PTL DEF Spec

\* The files, the calls in progress and the bridge's pages are of the types the schemas give
\* them.
THEOREM PlanningTypes == Spec => []TypeOK
<1>1. IInv => TypeOK
  BY DEF IInv
<1> QED BY <1>1, PlanningInvariant, PTL

\* A frozen run has its freezes, a founded run its task graph and task files, however many calls
\* of whatever kind overlap.
THEOREM StagesAreBacked == Spec => []StageIsBacked
<1>1. IInv => StageIsBacked
  BY DEF IInv
<1> QED BY <1>1, PlanningInvariant, PTL

\* Only a call that requests a phase writes its request and its link. It has found the phase
\* without a conversation, and unless it was beside another the phase still is.
LEMMA LinksStay ==
  ASSUME IInv, [Next]_vars, NEW p \in Phases, Linked(p), ~Racing(p)
  PROVE  /\ request'[p] # None /\ request'[p].conv = request[p].conv
         /\ p \notin overlapped => link'[p] = request[p].conv
<1>1. ASSUME NEW k \in Callers PROVE ~IsRequest(call[k], p)
  <2>1. CASE p \in overlapped
    BY <2>1 DEF Racing, Requests, IsRequest, RequestSteps, At
  <2>2. CASE p \notin overlapped
    BY <2>2 DEF IInv, Links, Alone
  <2> QED BY <2>1, <2>2
<1>2. ASSUME NEW k \in Callers, Seed(k) \/ BeginFails(k) \/ Link(k) \/ AwaitAnswer(k)
      PROVE  request'[p] = request[p] /\ link'[p] = link[p]
  <2>1. call[k].phase # p
    BY <1>1, <1>2 DEF Seed, BeginFails, Link, AwaitAnswer, At, IsRequest, RequestSteps
  <2> QED BY <1>2, <2>1 DEF Seed, BeginFails, Link, AwaitAnswer, SaveRequest, IInv, TypeOK
<1>3. \/ UNCHANGED <<request, link>>
      \/ \E k \in Callers : Seed(k) \/ BeginFails(k) \/ Link(k) \/ AwaitAnswer(k)
  <2>1. ASSUME NEW k \in Callers, GoOn(k), ~(Seed(k) \/ BeginFails(k) \/ Link(k) \/ AwaitAnswer(k))
        PROVE  UNCHANGED <<request, link>>
    BY <2>1 DEF GoOn, Persist, Requesting, Finalizing, Applying, Begin,
         ReadFinalize, WaitReturns, WaitFails, RecoverConversation, RecoverFails, ExportMarkdown,
         ReadingFails, Extract, ExtractNothing, Remind, RemindFails, SaveResult,
         Repair, Normalize, Gate, ReadRun, SaveFreeze, SaveTasks, SaveRun, files
  <2>2. ASSUME NEW k \in Callers, NEW q \in Asked,
               RequestPhase(k, q) \/ FinalizePhase(k, q) \/ ApplyPhase(k, q) \/ PutDirectly(k, q)
        PROVE  UNCHANGED <<request, link>>
    BY <2>2 DEF RequestPhase, FinalizePhase, ApplyPhase, PutDirectly, Start, files
  <2>3. CASE ChatGPT \/ Crash \/ Restart \/ UNCHANGED vars
    BY <2>3 DEF ChatGPT, Crash, Restart, vars, files
  <2> QED BY <2>1, <2>2, <2>3 DEF Next
<1>4. request'[p] = request[p] /\ link'[p] = link[p]
  BY <1>2, <1>3
<1>5. p \notin overlapped => link[p] = request[p].conv
  BY DEF IInv, Links, Alone
<1> QED BY <1>4, <1>5 DEF Linked

\* A phase that is linked to a conversation stays with it, whoever requests, finalizes or applies
\* it and wherever a crash cuts a call off, unless requests for it race.
THEOREM LinksAreKept == Spec => LinkIsKept
<1>1. IInv /\ [Next]_vars
        => [\A p \in Phases :
             Linked(p) /\ ~Racing(p) =>
               /\ request'[p] # None /\ request'[p].conv = request[p].conv
               /\ p \notin overlapped => link'[p] = request[p].conv]_vars
  BY LinksStay
<1> QED BY <1>1, PlanningInvariant, PTL DEF Spec, LinkIsKept
=============================================================================
