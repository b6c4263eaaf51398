---------------------------- MODULE ReviewProofs ----------------------------
(***************************************************************************)
(* Proofs about Review.                                                    *)
(*                                                                         *)
(* The worker's memory is an intention: it has a copy of the state that it *)
(* is about to save, and the name of the step that comes then.  The        *)
(* invariant says what the files must hold at each step: the copy is what  *)
(* the file says except while it is being saved; a step that sends the     *)
(* reminder finds the flag in the file and no reminder yet; a step that    *)
(* completes the review finds the gate recorded.  So whenever the process  *)
(* dies, and the memory is gone, the files say what was done.              *)
(***************************************************************************)
EXTENDS Review, FiniteSetTheorems, WellFoundedInduction, TLAPS

\* A state to go on with: its conversation exists, and its flag tells of the reminder.
InUse(s) ==
  /\ s.conv # None /\ chat[s.conv] # None
  /\ reminders[s.conv] >= 1 => s.reminded

\* A review that a finalize job works on, or that a request job would find in use.
StateInUse ==
  /\ job.kind = "finalize" => state # None
  /\ state # None /\ (job.kind = "finalize" \/ state.status # "requested") => InUse(state)

\* A snapshot is of a page.
SnapshotsHavePages == \A c \in Convs : record[c] # None => chat[c] # None

\* A conversation that has not begun has not been reminded.
UnusedUnreminded == \A c \in Convs : chat[c] = None => reminders[c] = 0

Gated == result # None /\ gates # <<>> /\ gates[Len(gates)] = result.status

\* The worker of a request job.
RequestCall ==
  /\ call.at \in {"read", "persist", "start", "finish", "fail", "enqueue"}
  /\ call.at \notin {"read", "persist"} => state # None /\ call.state = state
  /\ call.at \in {"start", "fail"} => state.status = "requested"
  /\ call.at = "finish" \/ (call.at = "enqueue" /\ job.status = "succeeded") => state.status # "requested"
  /\ call.at = "persist" =>
       /\ call.state # None
       /\ \/ /\ call.next \in {"start", "fail"} /\ call.state.status = "requested"
             /\ state # None => state.status = "requested"
          \/ call.next = "finish" /\ call.state.status = "waiting" /\ InUse(call.state)

\* What has to be so for a step of a finalize job that finds s in the file.
Ready(step, s) ==
  /\ step = "remind" => s.reminded /\ reminders[s.conv] = 0
  /\ step = "gate" => result # None
  /\ step = "complete" => Gated /\ s.status = "applied"

FinalizeSteps == {"wait", "export", "extract", "remind", "gate", "complete", "pending"}

\* The worker of a finalize job.
FinalizeCall ==
  /\ call.at \in {"read", "persist", "recover", "result", "enqueue"} \cup FinalizeSteps
  /\ call.at \notin {"read", "persist"} => call.state = state /\ Ready(call.at, state)
  /\ call.at = "result" => call.verdict # None
  /\ call.at = "enqueue" => job.status = "succeeded" /\ state.status = "requested"
  /\ call.at = "persist" =>
       /\ call.next \in FinalizeSteps
       /\ call.state # None /\ call.state.conv = state.conv /\ InUse(call.state)
       /\ Ready(call.next, call.state)

CallKnows ==
  call # None =>
    /\ call.at = "enqueue" \/ job.status = "running"
    /\ job.kind = "request" => RequestCall
    /\ job.kind = "finalize" => FinalizeCall

\* A finalize job that has come to its end, other than by giving the conversation up.
Outcome ==
  call = None /\ job.kind = "finalize"
    /\ (job.status \in {"blocked", "manual_attention_required"}
         \/ (job.status = "succeeded" /\ state.status # "requested"))
    => Gated /\ state.status = "applied"

IInv ==
  /\ TypeOK /\ SnapshotsHavePages /\ StateInUse /\ UnusedUnreminded /\ CallKnows
  /\ OneReminderPerConversation /\ Outcome /\ VerdictAppliedOnce

-----------------------------------------------------------------------------
(* Records.                                                                *)

StateStatuses == {"requested", "waiting", "materializing", "applied"}

LEMMA StatusState ==
  ASSUME NEW s \in States, NEW to \in StateStatuses
  PROVE  /\ Status(s, to) \in States /\ Status(s, to).status = to /\ Status(s, to).conv = s.conv
         /\ Status(s, to).reminded = s.reminded
  BY DEF States, Status, StateStatuses

LEMMA RemindedState ==
  ASSUME NEW s \in States
  PROVE  /\ Reminded(s) \in States /\ Reminded(s).status = s.status /\ Reminded(s).conv = s.conv
         /\ Reminded(s).reminded = TRUE
  BY DEF States, Reminded

LEMMA RecoveredState ==
  ASSUME NEW s \in States
  PROVE  /\ Recovered(s) \in States /\ Recovered(s).status = s.status /\ Recovered(s).conv = s.conv
         /\ Recovered(s).reminded = s.reminded
  BY DEF States, Recovered

LEMMA NoneIsApart ==
  /\ None \notin States /\ None \notin Results /\ None \notin Calls /\ None \notin Convs
  /\ None \notin Verdicts /\ None \notin Steps /\ None \notin Pages
  BY ReviewAssumption, ConversationsAssumption

LEMMA SettledJob ==
  ASSUME NEW j \in Jobs, NEW to \in {"queued", "running"} \cup Settled
  PROVE  [j EXCEPT !.status = to] \in Jobs /\ [j EXCEPT !.status = to].kind = j.kind
         /\ [j EXCEPT !.status = to].status = to
  BY DEF Jobs

LEMMA RetriedJob ==
  ASSUME NEW j \in Jobs
  PROVE  Retried(j) \in Jobs /\ Retried(j).kind = j.kind /\ Retried(j).status \in {"queued", "failed"}
<1>1. j.attempt \in 1 .. Budget /\ Budget \in Nat
  BY ReviewAssumption DEF Jobs
<1>2. CASE j.attempt < Budget
  <2>1. j.attempt + 1 \in 1 .. Budget
    BY <1>1, <1>2
  <2>2. [j EXCEPT !.status = "queued", !.attempt = @ + 1] \in Jobs
    BY <2>1 DEF Jobs
  <2> QED BY <1>2, <2>2 DEF Retried, Jobs
<1>3. CASE ~(j.attempt < Budget)
  <2>1. [j EXCEPT !.status = "failed"] \in Jobs
    BY DEF Jobs, Settled
  <2> QED BY <1>3, <2>1 DEF Retried, Jobs
<1> QED BY <1>2, <1>3

\* What the worker remembers after it has chosen what to save, or where to go on.
LEMMA PersistingCall ==
  ASSUME NEW new \in States, NEW next \in Steps, call \in Calls, Persisting(new, next)
  PROVE  call' \in Calls /\ call'.at = "persist" /\ call'.state = new /\ call'.next = next
  BY DEF Persisting, Calls, Steps

LEMMA GotoCall ==
  ASSUME NEW step \in Steps, call \in Calls, Goto(step)
  PROVE  call' \in Calls /\ call'.at = step /\ call'.state = call.state
  BY DEF Goto, Calls

-----------------------------------------------------------------------------
(* The bridge.                                                             *)

LEMMA PageTurns ==
  ASSUME NEW p \in Pages, NEW turn \in {"sent", "running", "finished"}
  PROVE  [p EXCEPT !.turn = turn] \in Pages
  BY DEF Pages

Sound == ConversationsTypeOK /\ SnapshotsHavePages

LEMMA AnswersSeen ==
  ASSUME NEW c \in Convs, chat[c] \in Pages
  PROVE  Seen(c) \subseteq Answers \cup {"silent"} /\ Halves \subseteq Answers
<1>1. Halves \subseteq Answers
  BY ConversationsAssumption DEF Halves, Answers
<1>2. chat[c].answer \in Answers \cup {None}
  BY DEF Pages
<1> QED BY <1>1, <1>2 DEF Seen

\* A conversation that exists goes on to exist, on a page and with a snapshot of their types.
Kept == Sound' /\ \A c \in Convs : chat[c] # None => chat'[c] # None

LEMMA BridgeKeeps ==
  ASSUME Sound, [ConversationsNext]_conversations
  PROVE  Kept
<1>0. None \notin Pages /\ "silent" \in Snapshots /\ None \in Snapshots /\ Answers \subseteq Snapshots
  BY NoneIsApart DEF Snapshots
<1>1. ASSUME UNCHANGED conversations PROVE Kept
  BY <1>1 DEF Kept, conversations, Sound, SnapshotsHavePages, ConversationsTypeOK
<1>2. ASSUME NEW c \in Convs, NEW page \in Pages, NEW said \in Snapshots,
             chat' = [chat EXCEPT ![c] = page] \/ (chat[c] # None /\ chat' = chat),
             record' = [record EXCEPT ![c] = said] \/ record' = record
      PROVE  Kept
  <2>1. ConversationsTypeOK' /\ \A d \in Convs : d # c => chat'[d] = chat[d] /\ record'[d] = record[d]
    BY <1>2 DEF Sound, ConversationsTypeOK
  <2>2. chat'[c] # None
    BY <1>0, <1>2 DEF Sound, ConversationsTypeOK
  <2> QED BY <2>1, <2>2, <1>2 DEF Kept, Sound, SnapshotsHavePages
<1>3. ASSUME NEW c \in Convs, chat[c] # None PROVE chat[c] \in Pages
  BY <1>3 DEF Sound, ConversationsTypeOK
<1>4. ASSUME NEW c \in Convs, chat[c] # None, Submitted(c), NEW said \in Snapshots,
             record' = [record EXCEPT ![c] = said] \/ record' = record
      PROVE  Kept
  <2>1. [chat[c] EXCEPT !.turn = "sent"] \in Pages
    BY <1>3, <1>4, PageTurns
  <2>2. PICK page \in Pages : chat' = [chat EXCEPT ![c] = page] \/ (chat[c] # None /\ chat' = chat)
    BY <1>4, <2>1 DEF Submitted
  <2> QED BY <1>2, <1>4, <2>2
<1>5. ASSUME NEW c \in Convs, chat[c] # None, UNCHANGED chat, NEW said \in Snapshots, SnapshotTaken(c, said)
      PROVE  Kept
  <2>1. chat[c] \in Pages /\ record' = [record EXCEPT ![c] = said]
    BY <1>3, <1>5 DEF SnapshotTaken
  <2> QED BY <1>2, <1>5, <2>1
<1>6. ASSUME NEW c \in Convs, record[c] # None PROVE chat[c] # None /\ Seen(c) \subseteq Snapshots
  <2>1. chat[c] # None
    BY <1>6 DEF Sound, SnapshotsHavePages
  <2>2. Seen(c) \subseteq Answers \cup {"silent"}
    BY <1>3, <2>1, AnswersSeen
  <2> QED BY <1>0, <2>1, <2>2
<1>7. ASSUME NEW c \in Convs, StartConversation(c) PROVE Kept
  <2>1. [turn |-> "sent", answer |-> None] \in Pages
    BY DEF Pages
  <2> QED BY <1>0, <1>2, <1>7, <2>1 DEF StartConversation, SnapshotTaken
<1>8. ASSUME NEW c \in Convs, SendMessage(c) PROVE Kept
  BY <1>0, <1>4, <1>6, <1>8 DEF SendMessage, SnapshotTaken
<1>9. ASSUME NEW c \in Convs, SendMessageFails(c) PROVE Kept
  BY <1>0, <1>4, <1>9 DEF SendMessageFails
<1>10. ASSUME NEW c \in Convs, Reply(c) PROVE Kept
  <2>1. chat[c] \in Pages /\ record' = record
    BY <1>3, <1>10 DEF Reply
  <2>2. CASE chat' = [chat EXCEPT ![c].turn = "running"]
    <3>1. [chat[c] EXCEPT !.turn = "running"] \in Pages
      BY <2>1, PageTurns
    <3>2. PICK page \in Pages : chat' = [chat EXCEPT ![c] = page]
      BY <2>2, <3>1
    <3> QED BY <1>0, <1>2, <2>1, <3>2
  <2>3. CASE \E a \in Answers : chat' = [chat EXCEPT ![c] = [turn |-> "finished", answer |-> a]]
    <3>1. PICK a \in Answers : chat' = [chat EXCEPT ![c] = [turn |-> "finished", answer |-> a]]
      BY <2>3
    <3>2. [turn |-> "finished", answer |-> a] \in Pages
      BY DEF Pages
    <3> QED BY <1>0, <1>2, <2>1, <3>1, <3>2
  <2> QED BY <1>10, <2>2, <2>3 DEF Reply
<1>11. ASSUME NEW c \in Convs, WaitForCompletion(c) PROVE Kept
  <2>1. PICK said \in Seen(c) : SnapshotTaken(c, said)
    BY <1>11 DEF WaitForCompletion
  <2> QED BY <1>5, <1>6, <1>11, <2>1 DEF WaitForCompletion
<1>12. ASSUME NEW c \in Convs, PollStatus(c) PROVE Kept
  <2>1. PICK said \in Seen(c) : SnapshotTaken(c, IF said = "silent" THEN record[c] ELSE said)
    BY <1>12 DEF PollStatus
  <2>2. record[c] \in Snapshots /\ said \in Snapshots /\ chat[c] # None
    BY <1>6, <1>12 DEF PollStatus, Sound, ConversationsTypeOK
  <2>3. (IF said = "silent" THEN record[c] ELSE said) \in Snapshots
    BY <2>2
  <2> QED BY <1>5, <1>12, <2>1, <2>2, <2>3 DEF PollStatus
<1>13. ASSUME NEW c \in Convs, Recover(c) PROVE Kept
  <2>1. chat[c] # None /\ UNCHANGED chat
    BY <1>13 DEF Recover
  <2>2. PICK said \in Seen(c) \cup Halves : SnapshotTaken(c, said)
    BY <1>13 DEF Recover
  <2>3. said \in Snapshots
    BY <1>0, <1>3, <2>1, AnswersSeen
  <2> QED BY <1>5, <2>1, <2>2, <2>3
<1>14. ASSUME BridgeRestart PROVE Kept
  BY <1>0, <1>14 DEF BridgeRestart, Kept, Sound, SnapshotsHavePages, ConversationsTypeOK
<1>15. CASE ConversationsNext
  BY <1>7, <1>8, <1>9, <1>10, <1>11, <1>12, <1>13, <1>14, <1>15 DEF ConversationsNext
<1> QED BY <1>1, <1>15

-----------------------------------------------------------------------------
(* What the steps have in common.                                          *)

\* The bridge, the evidence and the count of troubles: what goes on around the files.
Around ==
  /\ [ConversationsNext]_conversations
  /\ evidence' \in {evidence, None}
  /\ troubles' \in 0 .. MaxTroubles
Quiet == Around /\ UNCHANGED <<job, state, result, gates, reminders>>

LEMMA FineOrTrouble ==
  ASSUME TypeOK, Fine \/ Trouble PROVE evidence' = evidence /\ troubles' \in 0 .. MaxTroubles
  BY ReviewAssumption DEF TypeOK, Fine, Trouble

LEMMA AroundKeeps ==
  ASSUME IInv, Around, UNCHANGED reminders
  PROVE  /\ ConversationsTypeOK' /\ SnapshotsHavePages' /\ UnusedUnreminded' /\ OneReminderPerConversation'
         /\ evidence' \in Evidence \cup {None}
         /\ \A c \in Convs : chat[c] # None => chat'[c] # None
<1>1. Sound' /\ \A c \in Convs : chat[c] # None => chat'[c] # None
  BY BridgeKeeps DEF IInv, TypeOK, Sound, Around, Kept
<1>2. UnusedUnreminded' /\ OneReminderPerConversation'
  BY <1>1 DEF IInv, UnusedUnreminded, OneReminderPerConversation
<1>3. evidence' \in Evidence \cup {None}
  BY DEF IInv, TypeOK, Around
<1> QED BY <1>1, <1>2, <1>3 DEF Sound

\* What is in use stays in use.
LEMMA InUseKeeps ==
  ASSUME IInv, Around, UNCHANGED reminders, NEW s \in States, InUse(s)
  PROVE  s.conv \in Convs /\ s.conv # None /\ chat'[s.conv] # None
         /\ (reminders'[s.conv] >= 1 => s.reminded)
<1>1. s.conv \in Convs /\ s.conv # None
  BY DEF InUse, States
<1> QED BY <1>1, AroundKeeps DEF InUse

\* A step within a call, that writes no file.
LEMMA WithinCall ==
  ASSUME IInv, Quiet, call' \in Calls, CallKnows'
  PROVE  IInv'
<1>1. call' # None
  BY NoneIsApart
<1>2. UNCHANGED <<job, state, result, gates, reminders>> /\ Around
  BY DEF Quiet
<1>3. TypeOK' /\ SnapshotsHavePages' /\ UnusedUnreminded' /\ OneReminderPerConversation'
  BY <1>2, AroundKeeps DEF IInv, TypeOK, Around
<1>4. StateInUse'
  <2>1. state \in States \cup {None}
    BY DEF IInv, TypeOK
  <2> QED
    BY <1>2, <2>1, InUseKeeps DEF IInv, StateInUse, InUse
<1>5. Outcome' /\ VerdictAppliedOnce'
  BY <1>1, <1>2 DEF IInv, Outcome, VerdictAppliedOnce
<1> QED BY <1>3, <1>4, <1>5 DEF IInv

\* A step that ends the call.
LEMMA CallReturns ==
  ASSUME IInv, Around, UNCHANGED <<state, result, gates, reminders>>, call' = None,
         job' \in Jobs, job'.kind = "finalize" => state # None /\ InUse(state),
         Outcome'
  PROVE  IInv'
<1>1. TypeOK' /\ SnapshotsHavePages' /\ UnusedUnreminded' /\ OneReminderPerConversation'
  BY AroundKeeps DEF IInv, TypeOK, Around
<1>2. StateInUse'
  <2>1. state \in States \cup {None}
    BY DEF IInv, TypeOK
  <2> QED
    BY <2>1, InUseKeeps DEF IInv, StateInUse, InUse
<1>3. VerdictAppliedOnce' /\ CallKnows'
  BY DEF IInv, VerdictAppliedOnce, CallKnows
<1> QED BY <1>1, <1>2, <1>3 DEF IInv

\* What a running call of a finalize job has in hand.
LEMMA FinalizeInHand ==
  ASSUME IInv, call # None, job.kind = "finalize", call.at \notin {"persist", "enqueue"}
  PROVE  /\ call \in Calls /\ job.status = "running" /\ state \in States /\ state # None /\ InUse(state)
         /\ state.conv \in Convs /\ chat[state.conv] # None
         /\ call.at # "read" => call.state = state /\ Ready(call.at, state)
<1>1. call \in Calls /\ FinalizeCall /\ job.status = "running"
  BY DEF IInv, TypeOK, CallKnows
<1>2. state \in States /\ state # None /\ InUse(state)
  BY DEF IInv, TypeOK, StateInUse
<1>3. state.conv \in Convs
  BY <1>2 DEF InUse, States
<1> QED BY <1>1, <1>2, <1>3 DEF FinalizeCall, InUse

\* A finalize job chooses what to save and where to go on.
LEMMA FinalizePersists ==
  ASSUME IInv, Quiet, call # None, job.kind = "finalize", call.at \notin {"persist", "enqueue"},
         NEW new \in States, NEW next \in FinalizeSteps, Persisting(new, next),
         new.conv = state.conv, state.reminded => new.reminded, Ready(next, new)
  PROVE  IInv'
<1>1. call' \in Calls /\ call'.at = "persist" /\ call'.state = new /\ call'.next = next
  BY FinalizeInHand, PersistingCall DEF FinalizeSteps, Steps
<1>2. UNCHANGED <<job, state, result, gates, reminders>> /\ Around
  BY DEF Quiet
<1>3. InUse(new)
  BY FinalizeInHand DEF InUse
<1>4. new # None
  BY NoneIsApart
<1>5. FinalizeCall'
  BY <1>1, <1>2, <1>3, <1>4, InUseKeeps DEF FinalizeCall, InUse, Ready, Gated
<1>6. CallKnows'
  BY <1>2, <1>5, FinalizeInHand DEF CallKnows
<1> QED BY <1>1, <1>6, WithinCall

\* A finalize job goes on without saving.
LEMMA FinalizeGoesOn ==
  ASSUME IInv, Quiet, call # None, job.kind = "finalize", call.at \notin {"persist", "enqueue"},
         call' \in Calls, call'.state = state,
         call'.at \in {"recover", "result"} \cup FinalizeSteps,
         call'.at = "result" => call'.verdict # None, Ready(call'.at, state)
  PROVE  IInv'
<1>1. UNCHANGED <<job, state, result, gates, reminders>>
  BY DEF Quiet
<1>2. FinalizeCall'
  BY <1>1 DEF FinalizeCall, FinalizeSteps, Ready, Gated
<1>3. CallKnows'
  BY <1>1, <1>2, FinalizeInHand DEF CallKnows
<1> QED BY <1>3, WithinCall

\* A request job chooses what to save, or goes on.
LEMMA RequestGoesOn ==
  ASSUME IInv, Quiet, call # None, job.kind = "request", job.status = "running",
         call' \in Calls, RequestCall'
  PROVE  IInv'
<1>1. UNCHANGED <<job, state, result, gates, reminders>>
  BY DEF Quiet
<1>2. CallKnows'
  BY <1>1 DEF CallKnows
<1> QED BY <1>2, WithinCall

\* The jobs and calls that the invariant speaks of.
LEMMA InHand ==
  ASSUME IInv, call # None
  PROVE  /\ call \in Calls /\ job \in Jobs /\ job.kind \in {"request", "finalize"}
         /\ call.at # "enqueue" => job.status = "running"
         /\ job.kind = "request" => RequestCall
         /\ job.kind = "finalize" => FinalizeCall
  BY DEF IInv, TypeOK, CallKnows, Jobs

LEMMA InUseThen == ASSUME IInv, job.kind = "finalize" PROVE state # None /\ InUse(state)
  BY DEF IInv, StateInUse

-----------------------------------------------------------------------------
(* The steps of both jobs.                                                 *)

LEMMA StartJobKeeps == ASSUME IInv, StartJob PROVE IInv'
<1>1. /\ call = None /\ job' = [job EXCEPT !.status = "running"]
      /\ call' = [at |-> "read", state |-> None, next |-> None, again |-> FALSE, verdict |-> None]
      /\ UNCHANGED <<conversations, state, result, gates, reminders>> /\ Fine
  BY DEF StartJob, Settle
<1>2. job' \in Jobs /\ job'.kind = job.kind /\ job'.status = "running"
  BY <1>1, SettledJob DEF IInv, TypeOK
<1>3. call' \in Calls
  BY <1>1 DEF Calls, Steps
<1>4. call' # None
  BY <1>3, NoneIsApart
<1>5. Around
  BY <1>1, FineOrTrouble DEF IInv, Around
<1>6. TypeOK' /\ SnapshotsHavePages' /\ UnusedUnreminded' /\ OneReminderPerConversation'
  BY <1>1, <1>2, <1>3, <1>5, AroundKeeps DEF IInv, TypeOK, Around
<1>7. StateInUse'
  BY <1>1, <1>2 DEF IInv, StateInUse, InUse, conversations
<1>8. CallKnows'
  BY <1>1, <1>2 DEF CallKnows, RequestCall, FinalizeCall
<1>9. Outcome' /\ VerdictAppliedOnce'
  BY <1>1, <1>4 DEF IInv, Outcome, VerdictAppliedOnce
<1> QED BY <1>6, <1>7, <1>8, <1>9 DEF IInv

LEMMA PersistKeeps == ASSUME IInv, Persist PROVE IInv'
<1>1. /\ call # None /\ call.at = "persist" /\ state' = call.state
      /\ call' = [call EXCEPT !.at = call.next, !.next = None]
      /\ UNCHANGED <<conversations, job, result, gates, reminders>> /\ Fine
  BY DEF Persist
<1>2. /\ call \in Calls /\ job.status = "running"
      /\ (job.kind = "request" => RequestCall) /\ (job.kind = "finalize" => FinalizeCall)
      /\ job.kind \in {"request", "finalize"}
  BY <1>1, InHand
<1>3. call.next \in Steps /\ call.state # None /\ call.state \in States
  BY <1>1, <1>2 DEF RequestCall, FinalizeCall, FinalizeSteps, Steps, Calls
<1>4. call' \in Calls /\ call'.at = call.next /\ call'.state = call.state
  BY <1>1, <1>2, <1>3 DEF Calls
<1>5. call' # None
  BY <1>4, NoneIsApart
<1>6. Around
  BY <1>1, FineOrTrouble DEF IInv, Around
<1>7. TypeOK' /\ SnapshotsHavePages' /\ UnusedUnreminded' /\ OneReminderPerConversation'
  BY <1>1, <1>3, <1>4, <1>6, AroundKeeps DEF IInv, TypeOK, Around
<1>8. StateInUse'
  BY <1>1, <1>2, <1>3 DEF StateInUse, InUse, RequestCall, FinalizeCall, conversations
<1>9. job.kind = "request" => RequestCall'
  BY <1>1, <1>2, <1>3, <1>4 DEF RequestCall
<1>10. job.kind = "finalize" => FinalizeCall'
  BY <1>1, <1>2, <1>3, <1>4 DEF FinalizeCall, FinalizeSteps, Ready, Gated
<1>11. CallKnows'
  BY <1>1, <1>2, <1>9, <1>10 DEF CallKnows
<1>12. Outcome' /\ VerdictAppliedOnce'
  BY <1>1, <1>5 DEF IInv, Outcome, VerdictAppliedOnce
<1> QED BY <1>7, <1>8, <1>11, <1>12 DEF IInv

LEMMA EnqueueKeeps == ASSUME IInv, Enqueue PROVE IInv'
<1>1. /\ call # None /\ call.at = "enqueue" /\ call' = None
      /\ UNCHANGED <<conversations, state, result, gates, reminders>> /\ Fine
  BY DEF Enqueue, Return
<1>2. /\ job'.status = "queued" /\ job' \in Jobs
      /\ job'.kind = "finalize" => job.kind = "request" /\ job.status = "succeeded"
  BY ReviewAssumption DEF Enqueue, Jobs
<1>3. Around
  BY <1>1, FineOrTrouble DEF IInv, Around
<1>4. job'.kind = "finalize" => state # None /\ InUse(state)
  BY <1>1, <1>2, InHand DEF RequestCall, IInv, StateInUse
<1>5. Outcome'
  BY <1>2 DEF Outcome
<1> QED BY <1>1, <1>2, <1>3, <1>4, <1>5, CallReturns

-----------------------------------------------------------------------------
(* The request job.                                                        *)

LEMMA ReadRequestKeeps == ASSUME IInv, ReadRequest PROVE IInv'
<1>1. /\ call # None /\ call.at = "read" /\ job.kind = "request" /\ evidence' = None
      /\ UNCHANGED <<conversations, job, state, result, gates, reminders, troubles>>
  BY DEF ReadRequest, At, files
<1>2. call \in Calls /\ job.status = "running"
  BY <1>1, InHand
<1>3. Quiet
  BY <1>1 DEF Quiet, Around, IInv, TypeOK
<1>4. CASE Dispatched
  <2>1. call' = [call EXCEPT !.at = "finish", !.state = state] /\ state # None /\ state \in States
    BY <1>4 DEF ReadRequest, Dispatched, IInv, TypeOK
  <2>2. call' \in Calls /\ call'.at = "finish" /\ call'.state = state
    BY <1>2, <2>1 DEF Calls, Steps
  <2>3. RequestCall'
    BY <1>1, <1>4, <2>1, <2>2 DEF RequestCall, Dispatched
  <2> QED BY <1>1, <1>2, <1>3, <2>2, <2>3, RequestGoesOn
<1>5. CASE ~Dispatched
  <2>1. Persisting(Seeded, "start")
    BY <1>5 DEF ReadRequest
  <2>2. Seeded \in States /\ Seeded.status = "requested"
    BY DEF Seeded, States, IInv, TypeOK
  <2>3. call' \in Calls /\ call'.at = "persist" /\ call'.state = Seeded /\ call'.next = "start"
    BY <1>2, <2>1, <2>2, PersistingCall DEF Steps
  <2>4. state # None => state.status = "requested"
    BY <1>5 DEF IInv, TypeOK, StateInUse, InUse, Dispatched, States
  <2>5. Seeded # None
    BY <2>2, NoneIsApart
  <2>6. RequestCall'
    BY <1>1, <2>2, <2>3, <2>4, <2>5 DEF RequestCall
  <2> QED BY <1>1, <1>2, <1>3, <2>3, <2>6, RequestGoesOn
<1> QED BY <1>4, <1>5

LEMMA RefuseRequestKeeps == ASSUME IInv, RefuseRequest PROVE IInv'
<1>1. /\ call # None /\ job.kind = "request" /\ job' = [job EXCEPT !.status = "manual_attention_required"]
      /\ call' = None /\ UNCHANGED <<conversations, state, result, gates, reminders>> /\ Fine
  BY DEF RefuseRequest, At, Settle, Return
<1>2. job' \in Jobs /\ job'.kind = "request"
  BY <1>1, SettledJob DEF IInv, TypeOK, Settled
<1>3. Around
  BY <1>1, FineOrTrouble DEF IInv, Around
<1>4. Outcome'
  BY <1>2 DEF Outcome
<1> QED BY <1>1, <1>2, <1>3, <1>4, CallReturns

LEMMA BeginKeeps == ASSUME IInv, Begin PROVE IInv'
<1>1. /\ call # None /\ call.at = "start" /\ job.kind = "request"
      /\ UNCHANGED <<job, state, result, gates, reminders>> /\ Fine
  BY DEF Begin, At, files
<1>2. PICK c \in Unused :
        /\ StartConversation(c)
        /\ Persisting([call.state EXCEPT !.status = "waiting", !.conv = c], "finish")
  BY DEF Begin
<1>3. call \in Calls /\ job.status = "running" /\ call.state \in States /\ c \in Convs
  BY <1>1, InHand, NoneIsApart DEF RequestCall, IInv, TypeOK, Unused
<1>4. Quiet
  BY <1>1, <1>2, <1>3, FineOrTrouble DEF IInv, Quiet, Around, ConversationsNext
<1> DEFINE new == [call.state EXCEPT !.status = "waiting", !.conv = c]
<1>5. new \in States /\ new.status = "waiting" /\ new.conv = c
  BY <1>3 DEF States
<1>6. Persisting(new, "finish")
  BY <1>2
<1> HIDE DEF new
<1>7. call' \in Calls /\ call'.at = "persist" /\ call'.state = new /\ call'.next = "finish"
  BY <1>3, <1>5, <1>6, PersistingCall DEF Steps
<1>8. chat'[c] # None /\ reminders'[c] = 0 /\ c # None /\ new # None
  <2>1. chat' = [chat EXCEPT ![c] = [turn |-> "sent", answer |-> None]]
    BY <1>2 DEF StartConversation
  <2>2. [turn |-> "sent", answer |-> None] \in Pages
    BY DEF Pages
  <2>3. reminders[c] = 0
    BY <1>2 DEF Unused, IInv, UnusedUnreminded
  <2> QED
    BY <1>1, <1>3, <1>5, <2>1, <2>2, <2>3, NoneIsApart DEF IInv, TypeOK, ConversationsTypeOK
<1>9. RequestCall'
  BY <1>1, <1>5, <1>7, <1>8 DEF RequestCall, InUse
<1> QED BY <1>1, <1>3, <1>4, <1>7, <1>9, RequestGoesOn

LEMMA BeginFailsKeeps == ASSUME IInv, BeginFails PROVE IInv'
<1>1. /\ call # None /\ call.at = "start" /\ job.kind = "request" /\ Persisting(call.state, "fail")
      /\ UNCHANGED <<conversations, job, state, result, gates, reminders>> /\ Trouble
  BY DEF BeginFails, At, files
<1>2. call \in Calls /\ job.status = "running" /\ call.state \in States /\ call.state = state
      /\ state # None /\ state.status = "requested"
  BY <1>1, InHand, NoneIsApart DEF RequestCall, IInv, TypeOK
<1>3. Quiet
  BY <1>1, FineOrTrouble DEF IInv, Quiet, Around
<1>4. call' \in Calls /\ call'.at = "persist" /\ call'.state = state /\ call'.next = "fail"
  BY <1>1, <1>2, PersistingCall DEF Steps
<1>5. RequestCall'
  BY <1>1, <1>2, <1>4 DEF RequestCall
<1> QED BY <1>1, <1>2, <1>3, <1>4, <1>5, RequestGoesOn

LEMMA FinishKeeps == ASSUME IInv, Finish PROVE IInv'
<1>1. /\ call # None /\ call.at = "finish" /\ job.kind = "request"
      /\ job' = [job EXCEPT !.status = "succeeded"]
      /\ UNCHANGED <<conversations, state, result, gates, reminders>> /\ Fine
  BY DEF Finish, At, Settle
<1>2. call \in Calls /\ RequestCall
  BY <1>1, InHand
<1>3. job' \in Jobs /\ job'.kind = "request" /\ job'.status = "succeeded"
  BY <1>1, SettledJob DEF IInv, TypeOK, Settled
<1>4. Around
  BY <1>1, FineOrTrouble DEF IInv, Around
<1>5. CASE call' = None
  <2>1. Outcome'
    BY <1>3 DEF Outcome
  <2> QED BY <1>1, <1>3, <1>4, <1>5, <2>1, CallReturns
<1>6. CASE Goto("enqueue")
  <2>1. call' \in Calls /\ call'.at = "enqueue" /\ call'.state = call.state
    BY <1>2, <1>6, GotoCall DEF Steps
  <2>2. TypeOK' /\ SnapshotsHavePages' /\ UnusedUnreminded' /\ OneReminderPerConversation'
    BY <1>1, <1>3, <1>4, <2>1, AroundKeeps DEF IInv, TypeOK, Around
  <2>3. StateInUse'
    BY <1>1, <1>3 DEF IInv, StateInUse, InUse, conversations
  <2>4. CallKnows'
    BY <1>1, <1>2, <1>3, <2>1 DEF CallKnows, RequestCall
  <2>5. call' # None
    BY <2>1, NoneIsApart
  <2>6. Outcome' /\ VerdictAppliedOnce'
    BY <1>1, <2>5 DEF IInv, Outcome, VerdictAppliedOnce
  <2> QED BY <2>2, <2>3, <2>4, <2>6 DEF IInv
<1> QED BY <1>5, <1>6 DEF Finish, Return

LEMMA RequestFailsKeeps == ASSUME IInv, RequestFails PROVE IInv'
<1>1. /\ call # None /\ call.at = "fail" /\ job.kind = "request"
      /\ UNCHANGED <<conversations, state, result, gates, reminders>> /\ Fine
      /\ job' \in {Retried(job), [job EXCEPT !.status = "manual_attention_required"]}
  BY DEF RequestFails, At, Settle
<1>2. call \in Calls /\ RequestCall /\ job \in Jobs
  BY <1>1, InHand
<1>3. job' \in Jobs /\ job'.kind = "request"
  <2>1. CASE job' = Retried(job)
    BY <1>1, <1>2, <2>1, RetriedJob
  <2>2. CASE job' = [job EXCEPT !.status = "manual_attention_required"]
    <3>1. "manual_attention_required" \in {"queued", "running"} \cup Settled
      BY DEF Settled
    <3> QED BY <1>1, <1>2, <2>2, <3>1, SettledJob
  <2> QED BY <1>1, <2>1, <2>2
<1>4. Around
  BY <1>1, FineOrTrouble DEF IInv, Around
<1>5. CASE call' = None
  <2>1. Outcome'
    BY <1>3 DEF Outcome
  <2> QED BY <1>1, <1>3, <1>4, <1>5, <2>1, CallReturns
<1>6. CASE Goto("enqueue") /\ job' = Retried(job)
  <2>1. call' \in Calls /\ call'.at = "enqueue" /\ call'.state = call.state
    BY <1>2, <1>6, GotoCall DEF Steps
  <2>2. TypeOK' /\ SnapshotsHavePages' /\ UnusedUnreminded' /\ OneReminderPerConversation'
    BY <1>1, <1>3, <1>4, <2>1, AroundKeeps DEF IInv, TypeOK, Around
  <2>3. StateInUse'
    BY <1>1, <1>3 DEF IInv, StateInUse, InUse, conversations
  <2>4. job'.status # "succeeded"
    BY <1>2, <1>6, RetriedJob
  <2>5. CallKnows'
    BY <1>1, <1>2, <1>3, <2>1, <2>4 DEF CallKnows, RequestCall
  <2>6. call' # None
    BY <2>1, NoneIsApart
  <2>7. Outcome' /\ VerdictAppliedOnce'
    BY <1>1, <2>6 DEF IInv, Outcome, VerdictAppliedOnce
  <2> QED BY <2>2, <2>3, <2>5, <2>7 DEF IInv
<1> QED BY <1>5, <1>6 DEF RequestFails, Return

-----------------------------------------------------------------------------
(* The finalize job.                                                       *)

\* What a step of a finalize job knows.
FinalizeAt(step) == call # None /\ call.at = step /\ job.kind = "finalize"

LEMMA ReadReviewKeeps == ASSUME IInv, ReadReview PROVE IInv'
<1>1. FinalizeAt("read") /\ UNCHANGED <<conversations, job, state, result, gates, reminders>> /\ Fine
  BY DEF ReadReview, At, FinalizeAt, files
<1>2. call \in Calls /\ state \in States /\ state # None
  BY <1>1, FinalizeInHand DEF FinalizeAt
<1>3. Quiet
  BY <1>1, FineOrTrouble DEF IInv, Quiet, Around
<1>4. CASE HasVerdict
  <2>1. call' = [call EXCEPT !.at = "gate", !.state = state]
    BY <1>4 DEF ReadReview
  <2>2. call' \in Calls /\ call'.at = "gate" /\ call'.state = state
    BY <1>2, <2>1 DEF Calls, Steps
  <2>3. Ready("gate", state)
    BY <1>4 DEF HasVerdict, Ready
  <2> QED BY <1>1, <1>3, <2>2, <2>3, FinalizeGoesOn DEF FinalizeAt, FinalizeSteps
<1>5. CASE ~HasVerdict
  <2>1. PICK next \in {"pending", "wait", "export"} : Persisting(state, next)
    BY <1>5 DEF ReadReview
  <2>2. Ready(next, state)
    BY <2>1 DEF Ready
  <2> QED BY <1>1, <1>2, <1>3, <2>1, <2>2, FinalizePersists DEF FinalizeAt, FinalizeSteps
<1> QED BY <1>4, <1>5

\* The state that was saved last is saved again with another status, and perhaps as recovered.
LEMMA SavesStatus ==
  ASSUME IInv, Quiet, NEW step \in {"wait", "recover", "export", "extract", "remind"}, FinalizeAt(step),
         NEW to \in StateStatuses, NEW next \in {"wait", "export", "extract", "pending"},
         Persisting(Status(call.state, to), next) \/ Persisting(Recovered(Status(call.state, to)), next)
  PROVE  IInv'
<1>1. call \in Calls /\ state \in States /\ call.state = state
  BY FinalizeInHand DEF FinalizeAt
<1>2. /\ Status(state, to) \in States /\ Status(state, to).conv = state.conv
      /\ Status(state, to).reminded = state.reminded
  BY <1>1, StatusState
<1>3. /\ Recovered(Status(state, to)) \in States /\ Recovered(Status(state, to)).conv = state.conv
      /\ Recovered(Status(state, to)).reminded = state.reminded
  BY <1>2, RecoveredState
<1>4. PICK new \in States : /\ Persisting(new, next)
                            /\ new.conv = state.conv /\ new.reminded = state.reminded
  BY <1>1, <1>2, <1>3
<1>5. Ready(next, new)
  BY DEF Ready
<1> QED BY <1>4, <1>5, FinalizePersists DEF FinalizeAt, FinalizeSteps

LEMMA StatusesAndAfterWait ==
  /\ {"requested", "waiting", "materializing"} \subseteq StateStatuses
  /\ AfterWait \in {"extract", "export"}
  BY DEF StateStatuses, AfterWait

\* The conversation of a step that talks with the bridge.
LEMMA ConversationInHand ==
  ASSUME IInv, NEW step \in {"wait", "recover", "export", "extract", "remind", "result"}, FinalizeAt(step)
  PROVE  /\ call \in Calls /\ call.state = state /\ call.state.conv \in Convs /\ state \in States
         /\ chat[call.state.conv] # None
  BY FinalizeInHand DEF FinalizeAt

LEMMA WaitReturnsKeeps == ASSUME IInv, WaitReturns PROVE IInv'
<1>1. /\ FinalizeAt("wait") /\ WaitForCompletion(call.state.conv) /\ Fine
      /\ UNCHANGED <<job, state, result, gates, reminders>>
      /\ Persisting(Status(call.state, "materializing"), AfterWait)
  BY DEF WaitReturns, At, FinalizeAt, files
<1>2. Quiet
  BY <1>1, FineOrTrouble, ConversationInHand DEF IInv, Quiet, Around, ConversationsNext
<1> QED BY <1>1, <1>2, SavesStatus, StatusesAndAfterWait

LEMMA WaitIsHopelessKeeps == ASSUME IInv, WaitIsHopeless PROVE IInv'
<1>1. /\ FinalizeAt("wait") /\ (Fine \/ Trouble)
      /\ UNCHANGED <<conversations, job, state, result, gates, reminders>>
      /\ Persisting(Status(call.state, "requested"), "pending")
  BY DEF WaitIsHopeless, At, FinalizeAt, files
<1>2. Quiet
  BY <1>1, FineOrTrouble DEF IInv, Quiet, Around
<1> QED BY <1>1, <1>2, SavesStatus, StatusesAndAfterWait

LEMMA WaitFailsKeeps == ASSUME IInv, WaitFails PROVE IInv'
<1>1. /\ FinalizeAt("wait") /\ UNCHANGED <<job, state, result, gates, reminders>>
  BY DEF WaitFails, At, FinalizeAt, files
<1>2. (Fine \/ Trouble) /\ (UNCHANGED conversations \/ PollStatus(call.state.conv))
  BY DEF WaitFails
<1>3. Quiet
  BY <1>1, <1>2, FineOrTrouble, ConversationInHand DEF IInv, Quiet, Around, ConversationsNext
<1>4. CASE call.state.recovered
  <2>1. Persisting(Status(call.state, "waiting"), "pending")
    BY <1>4 DEF WaitFails
  <2> QED BY <1>1, <1>3, <2>1, SavesStatus, StatusesAndAfterWait
<1>5. CASE ~call.state.recovered
  <2>1. Goto("recover")
    BY <1>5 DEF WaitFails
  <2>2. call' \in Calls /\ call'.at = "recover" /\ call'.state = state
    BY <1>1, <2>1, ConversationInHand, GotoCall DEF Steps
  <2>3. Ready("recover", state)
    BY DEF Ready
  <2> QED BY <1>1, <1>3, <2>2, <2>3, FinalizeGoesOn DEF FinalizeAt
<1> QED BY <1>4, <1>5

LEMMA RecoverConversationKeeps == ASSUME IInv, RecoverConversation PROVE IInv'
<1>1. /\ FinalizeAt("recover") /\ Recover(call.state.conv) /\ (Fine \/ Trouble)
      /\ UNCHANGED <<job, state, result, gates, reminders>>
  BY DEF RecoverConversation, At, FinalizeAt, files
<1>2. Quiet
  BY <1>1, FineOrTrouble, ConversationInHand DEF IInv, Quiet, Around, ConversationsNext
<1>3. \/ Persisting(Recovered(Status(call.state, "materializing")), AfterWait)
      \/ Persisting(Recovered(Status(call.state, "waiting")), "pending")
      \/ Persisting(Recovered(Status(call.state, "requested")), "pending")
  BY DEF RecoverConversation
<1> QED BY <1>1, <1>2, <1>3, SavesStatus, StatusesAndAfterWait

LEMMA RecoverFailsKeeps == ASSUME IInv, RecoverFails PROVE IInv'
<1>1. /\ FinalizeAt("recover") /\ Trouble
      /\ UNCHANGED <<conversations, job, state, result, gates, reminders>>
      /\ Persisting(Status(call.state, "waiting"), "pending")
  BY DEF RecoverFails, At, FinalizeAt, files
<1>2. Quiet
  BY <1>1, FineOrTrouble DEF IInv, Quiet, Around
<1> QED BY <1>1, <1>2, SavesStatus, StatusesAndAfterWait

LEMMA ReadingFailsKeeps == ASSUME IInv, ReadingFails PROVE IInv'
<1>1. /\ (FinalizeAt("export") \/ FinalizeAt("extract"))
      /\ (Fine \/ Trouble)
      /\ UNCHANGED <<conversations, job, state, result, gates, reminders>>
      /\ Persisting(Status(call.state, "materializing"), "pending")
  BY DEF ReadingFails, At, FinalizeAt, files, Postpone
<1>2. Quiet
  BY <1>1, FineOrTrouble DEF IInv, Quiet, Around
<1> QED BY <1>1, <1>2, SavesStatus, StatusesAndAfterWait

LEMMA ExportKeeps == ASSUME IInv, ExportMarkdown PROVE IInv'
<1>1. /\ FinalizeAt("export") /\ Goto("extract") /\ Fine
      /\ UNCHANGED <<conversations, job, state, result, gates, reminders>>
  BY DEF ExportMarkdown, At, FinalizeAt, files
<1>2. Quiet
  BY <1>1, FineOrTrouble DEF IInv, Quiet, Around
<1>3. call' \in Calls /\ call'.at = "extract" /\ call'.state = state
  BY <1>1, ConversationInHand, GotoCall DEF Steps
<1>4. Ready("extract", state)
  BY DEF Ready
<1> QED BY <1>1, <1>2, <1>3, <1>4, FinalizeGoesOn DEF FinalizeAt, FinalizeSteps

\* A verdict is found, or the review is given up as incomplete.
LEMMA VerdictKeeps ==
  ASSUME IInv, FinalizeAt("extract"), NEW v \in Verdicts,
         call' = [call EXCEPT !.at = "result", !.verdict = v],
         UNCHANGED <<conversations, job, state, result, gates, reminders>>, Fine
  PROVE  IInv'
<1>1. call \in Calls /\ call.state = state
  BY ConversationInHand
<1>2. call' \in Calls /\ call'.at = "result" /\ call'.state = state /\ call'.verdict = v
  BY <1>1 DEF Calls, Steps
<1>3. Quiet
  BY FineOrTrouble DEF IInv, Quiet, Around
<1>4. Ready("result", state) /\ v # None
  BY NoneIsApart DEF Ready
<1> QED BY <1>2, <1>3, <1>4, FinalizeGoesOn DEF FinalizeAt

LEMMA ExtractKeeps == ASSUME IInv, Extract PROVE IInv'
<1>1. Normalized(record[call.state.conv]) \in Verdicts
  BY DEF Normalized, Verdicts
<1> QED BY <1>1, VerdictKeeps DEF Extract, At, FinalizeAt, files

LEMMA GiveUpOnBlockKeeps == ASSUME IInv, GiveUpOnBlock PROVE IInv'
  BY VerdictKeeps DEF GiveUpOnBlock, At, FinalizeAt, files, Verdicts

\* The flag goes into the state that is saved, and there was no reminder yet.
LEMMA AskForBlockKeeps == ASSUME IInv, AskForBlock PROVE IInv'
<1>1. /\ FinalizeAt("extract") /\ ~call.state.reminded /\ Fine
      /\ UNCHANGED <<conversations, job, state, result, gates, reminders>>
      /\ Persisting(Reminded(Status(call.state, "materializing")), "remind")
  BY DEF AskForBlock, At, FinalizeAt, files
<1>2. Quiet
  BY <1>1, FineOrTrouble DEF IInv, Quiet, Around
<1>3. call.state = state /\ state \in States /\ state.conv \in Convs
  BY <1>1, ConversationInHand
<1> DEFINE new == Reminded(Status(state, "materializing"))
<1>4. new \in States /\ new.conv = state.conv /\ new.reminded = TRUE
  <2>1. Status(state, "materializing") \in States /\ Status(state, "materializing").conv = state.conv
    BY <1>3, StatusState DEF StateStatuses
  <2> QED BY <2>1, RemindedState
<1>5. Persisting(new, "remind")
  BY <1>1, <1>3
<1> HIDE DEF new
<1>6. reminders[state.conv] = 0
  <2>1. InUse(state)
    BY <1>1, InUseThen DEF FinalizeAt
  <2>2. ~(reminders[state.conv] >= 1)
    BY <1>1, <1>3, <2>1 DEF InUse
  <2> QED BY <1>3, <2>2 DEF IInv, TypeOK
<1>7. Ready("remind", new)
  BY <1>4, <1>6 DEF Ready
<1> QED BY <1>1, <1>2, <1>4, <1>5, <1>7, FinalizePersists DEF FinalizeAt, FinalizeSteps

\* A reminder is counted, of a conversation that had none; the file has the flag.
LEMMA Reminding ==
  ASSUME IInv, FinalizeAt("remind"), Around, CountReminder, UNCHANGED <<job, state, result, gates>>,
         NEW new \in States, NEW next \in {"wait", "pending"},
         call' \in Calls, call'.at = "persist", call'.state = new, call'.next = next,
         new.conv = state.conv, new.reminded = TRUE
  PROVE  IInv'
<1>1. /\ call.state = state /\ state \in States /\ state.conv \in Convs /\ chat[state.conv] # None
      /\ Ready("remind", state) /\ job.status = "running"
  BY FinalizeInHand, ConversationInHand DEF FinalizeAt
<1>2. reminders[state.conv] = 0 /\ state.reminded
  BY <1>1 DEF Ready
<1>3. reminders \in [Convs -> 0 .. 2]
  BY DEF IInv, TypeOK
<1>4. reminders' = [reminders EXCEPT ![state.conv] = 1]
  BY <1>1, <1>2, <1>3 DEF CountReminder
<1>5. /\ reminders' \in [Convs -> 0 .. 2] /\ reminders'[state.conv] = 1
      /\ \A c \in Convs : c # state.conv => reminders'[c] = reminders[c]
  BY <1>1, <1>3, <1>4
<1>6. Sound' /\ \A c \in Convs : chat[c] # None => chat'[c] # None
  BY BridgeKeeps DEF IInv, TypeOK, Sound, Around, Kept
<1>7. call' # None /\ new # None /\ state.conv # None
  BY <1>1, NoneIsApart
<1>8. TypeOK' /\ SnapshotsHavePages'
  BY <1>5, <1>6 DEF IInv, TypeOK, Around, Sound
<1>9. UnusedUnreminded' /\ OneReminderPerConversation'
  BY <1>1, <1>5, <1>6 DEF IInv, UnusedUnreminded, OneReminderPerConversation
<1>10. StateInUse'
  BY <1>1, <1>2, <1>6, <1>7 DEF IInv, StateInUse, InUse
<1>11. FinalizeCall'
  BY <1>1, <1>6, <1>7 DEF FinalizeCall, FinalizeSteps, InUse, Ready
<1>12. CallKnows'
  BY <1>1, <1>11 DEF CallKnows, FinalizeAt
<1>13. Outcome' /\ VerdictAppliedOnce'
  BY <1>7 DEF IInv, Outcome, VerdictAppliedOnce
<1> QED BY <1>8, <1>9, <1>10, <1>12, <1>13 DEF IInv

LEMMA RemindKeeps == ASSUME IInv, Remind PROVE IInv'
<1>1. /\ FinalizeAt("remind") /\ SendMessage(call.state.conv) /\ CountReminder /\ Fine
      /\ UNCHANGED <<job, state, result, gates>>
      /\ call' = [call EXCEPT !.at = "persist", !.state = Reminded(Status(@, "waiting")),
                              !.next = "wait", !.again = TRUE]
  BY DEF Remind, At, FinalizeAt, files
<1>2. call \in Calls /\ call.state = state /\ state \in States /\ call.state.conv \in Convs
  BY <1>1, ConversationInHand
<1>3. Around
  BY <1>1, <1>2, FineOrTrouble DEF IInv, Around, ConversationsNext
<1> DEFINE new == Reminded(Status(state, "waiting"))
<1>4. new \in States /\ new.conv = state.conv /\ new.reminded = TRUE
  <2>1. Status(state, "waiting") \in States /\ Status(state, "waiting").conv = state.conv
    BY <1>2, StatusState DEF StateStatuses
  <2> QED BY <2>1, RemindedState
<1>5. call' = [call EXCEPT !.at = "persist", !.state = new, !.next = "wait", !.again = TRUE]
  BY <1>1, <1>2
<1> HIDE DEF new
<1>6. call' \in Calls /\ call'.at = "persist" /\ call'.state = new /\ call'.next = "wait"
  BY <1>2, <1>4, <1>5 DEF Calls, Steps
<1> QED BY <1>1, <1>3, <1>4, <1>6, Reminding

LEMMA RemindFailsKeeps == ASSUME IInv, RemindFails PROVE IInv'
<1>1. /\ FinalizeAt("remind") /\ UNCHANGED <<job, state, result, gates>>
      /\ Persisting(Status(call.state, "materializing"), "pending")
  BY DEF RemindFails, At, FinalizeAt, files, Postpone
<1>2. /\ call \in Calls /\ call.state = state /\ state \in States /\ call.state.conv \in Convs
      /\ state.reminded
  BY <1>1, ConversationInHand, FinalizeInHand DEF FinalizeAt, Ready
<1>3. CASE Fine /\ UNCHANGED <<conversations, reminders>>
  <2>1. Quiet
    BY <1>1, <1>3, FineOrTrouble DEF IInv, Quiet, Around
  <2> QED BY <1>1, <2>1, SavesStatus, StatusesAndAfterWait
<1>4. CASE Trouble /\ SendMessageFails(call.state.conv) /\ CountReminder
  <2>1. Around
    BY <1>2, <1>4, FineOrTrouble DEF IInv, Around, ConversationsNext
  <2> DEFINE new == Status(state, "materializing")
  <2>2. new \in States /\ new.conv = state.conv /\ new.reminded = state.reminded
    BY <1>2, StatusState DEF StateStatuses
  <2>3. Persisting(new, "pending")
    BY <1>1, <1>2
  <2> HIDE DEF new
  <2>4. call' \in Calls /\ call'.at = "persist" /\ call'.state = new /\ call'.next = "pending"
    BY <1>2, <2>2, <2>3, PersistingCall DEF Steps
  <2>5. new.reminded = TRUE
    BY <1>2, <2>2 DEF States
  <2> QED BY <1>1, <1>4, <2>1, <2>2, <2>4, <2>5, Reminding
<1> QED BY <1>3, <1>4 DEF RemindFails

LEMMA SaveResultKeeps == ASSUME IInv, SaveResult PROVE IInv'
<1>1. /\ FinalizeAt("result") /\ result' = [status |-> call.verdict, conv |-> call.state.conv] /\ Fine
      /\ Persisting(Status(call.state, "materializing"), "gate")
      /\ UNCHANGED <<conversations, job, state, gates, reminders>>
  BY DEF SaveResult, At, FinalizeAt
<1>2. /\ call \in Calls /\ call.state = state /\ call.state.conv \in Convs /\ state \in States
      /\ job.status = "running" /\ InUse(state) /\ call.verdict \in Verdicts
  <2>1. FinalizeCall
    BY <1>1, InHand DEF FinalizeAt
  <2>2. call \in Calls /\ call.verdict # None
    BY <1>1, <2>1, InHand DEF FinalizeCall, FinalizeAt
  <2>3. call.verdict \in Verdicts
    BY <2>2 DEF Calls
  <2> QED BY <1>1, <2>3, ConversationInHand, FinalizeInHand DEF FinalizeAt
<1>3. result' \in Results /\ result' # None
  <2>1. result' \in Results
    BY <1>1, <1>2 DEF Results
  <2> QED BY <2>1, NoneIsApart
<1> DEFINE new == Status(state, "materializing")
<1>4. new \in States /\ new.conv = state.conv /\ new.reminded = state.reminded /\ new # None
  BY <1>2, StatusState, NoneIsApart DEF StateStatuses
<1>5. Persisting(new, "gate")
  BY <1>1, <1>2
<1> HIDE DEF new
<1>6. call' \in Calls /\ call'.at = "persist" /\ call'.state = new /\ call'.next = "gate"
  BY <1>2, <1>4, <1>5, PersistingCall DEF Steps
<1>7. Around
  BY <1>1, FineOrTrouble DEF IInv, Around
<1>8. TypeOK' /\ SnapshotsHavePages' /\ UnusedUnreminded' /\ OneReminderPerConversation'
  BY <1>1, <1>3, <1>6, <1>7, AroundKeeps DEF IInv, TypeOK, Around
<1>9. StateInUse'
  BY <1>1 DEF IInv, StateInUse, InUse, conversations
<1>10. FinalizeCall'
  BY <1>1, <1>2, <1>3, <1>4, <1>6 DEF FinalizeCall, FinalizeSteps, InUse, Ready, conversations
<1>11. CallKnows'
  BY <1>1, <1>2, <1>10 DEF CallKnows, FinalizeAt
<1>12. Outcome' /\ VerdictAppliedOnce'
  BY <1>1, <1>6, NoneIsApart DEF IInv, Outcome, VerdictAppliedOnce
<1> QED BY <1>8, <1>9, <1>11, <1>12 DEF IInv

\* Appending only what is not there yet leaves no two gates alike next to each other.
LEMMA GateRecorded ==
  ASSUME gates \in Seq(Verdicts), VerdictAppliedOnce, NEW v \in Verdicts,
         gates' = IF gates # <<>> /\ gates[Len(gates)] = v THEN gates ELSE Append(gates, v)
  PROVE  gates' \in Seq(Verdicts) /\ VerdictAppliedOnce' /\ gates' # <<>> /\ gates'[Len(gates')] = v
<1>1. CASE gates # <<>> /\ gates[Len(gates)] = v
  BY <1>1 DEF VerdictAppliedOnce
<1>2. CASE ~(gates # <<>> /\ gates[Len(gates)] = v)
  <2>1. gates' = Append(gates, v) /\ Len(gates') = Len(gates) + 1
    BY <1>2
  <2>2. gates' \in Seq(Verdicts) /\ gates' # <<>> /\ gates'[Len(gates')] = v
    BY <2>1
  <2>3. ASSUME NEW n \in 1 .. Len(gates') - 1 PROVE gates'[n] # gates'[n + 1]
    <3>1. CASE n = Len(gates)
      <4>1. gates # <<>> /\ gates'[n] = gates[Len(gates)] /\ gates'[n + 1] = v
        BY <2>1, <2>3, <3>1
      <4> QED BY <1>2, <4>1
    <3>2. CASE n # Len(gates)
      <4>1. n \in 1 .. Len(gates) - 1 /\ n + 1 \in 1 .. Len(gates)
        BY <2>1, <2>3, <3>2
      <4>2. gates'[n] = gates[n] /\ gates'[n + 1] = gates[n + 1]
        BY <2>1, <4>1
      <4> QED BY <4>1, <4>2 DEF VerdictAppliedOnce
    <3> QED BY <3>1, <3>2
  <2> QED BY <2>2, <2>3 DEF VerdictAppliedOnce
<1> QED BY <1>1, <1>2

LEMMA GateKeeps == ASSUME IInv, GateReview PROVE IInv'
<1>1. /\ FinalizeAt("gate") /\ Fine
      /\ gates' = IF gates # <<>> /\ gates[Len(gates)] = result.status THEN gates
                  ELSE Append(gates, result.status)
      /\ UNCHANGED <<conversations, job, state, result, reminders>>
  BY DEF GateReview, At, FinalizeAt
<1>2. /\ call \in Calls /\ call.state = state /\ state \in States /\ job.status = "running" /\ InUse(state)
      /\ result # None
  BY <1>1, FinalizeInHand DEF FinalizeAt, Ready
<1>3. result \in Results /\ result.status \in Verdicts
  BY <1>2 DEF IInv, TypeOK, Results
<1>4. gates' \in Seq(Verdicts) /\ VerdictAppliedOnce' /\ gates' # <<>> /\ gates'[Len(gates')] = result.status
  BY <1>1, <1>3, GateRecorded DEF IInv, TypeOK
<1>5. Gated'
  BY <1>1, <1>2, <1>4 DEF Gated
<1>6. call' \in Calls /\ FinalizeCall'
  <2>1. CASE call.state.status = "applied"
    <3>1. Goto("complete")
      BY <2>1 DEF GateReview
    <3>2. call' \in Calls /\ call'.at = "complete" /\ call'.state = state
      BY <1>2, <3>1, GotoCall DEF Steps
    <3> QED BY <1>1, <1>2, <1>5, <2>1, <3>2 DEF FinalizeCall, FinalizeSteps, Ready
  <2>2. CASE call.state.status # "applied"
    <3> DEFINE new == Status(state, "applied")
    <3>1. /\ new \in States /\ new.conv = state.conv /\ new.reminded = state.reminded /\ new # None
          /\ new.status = "applied"
      BY <1>2, StatusState, NoneIsApart DEF StateStatuses
    <3>2. Persisting(new, "complete")
      BY <1>2, <2>2 DEF GateReview
    <3> HIDE DEF new
    <3>3. call' \in Calls /\ call'.at = "persist" /\ call'.state = new /\ call'.next = "complete"
      BY <1>2, <3>1, <3>2, PersistingCall DEF Steps
    <3> QED
      BY <1>1, <1>2, <1>5, <3>1, <3>3 DEF FinalizeCall, FinalizeSteps, InUse, Ready, conversations
  <2> QED BY <2>1, <2>2
<1>7. Around
  BY <1>1, FineOrTrouble DEF IInv, Around
<1>8. TypeOK' /\ SnapshotsHavePages' /\ UnusedUnreminded' /\ OneReminderPerConversation'
  BY <1>1, <1>4, <1>6, <1>7, AroundKeeps DEF IInv, TypeOK, Around
<1>9. StateInUse'
  BY <1>1 DEF IInv, StateInUse, InUse, conversations
<1>10. CallKnows'
  BY <1>1, <1>2, <1>6 DEF CallKnows, FinalizeAt
<1>11. Outcome'
  BY <1>6, NoneIsApart DEF Outcome
<1> QED BY <1>4, <1>8, <1>9, <1>10, <1>11 DEF IInv

LEMMA CompleteKeeps == ASSUME IInv, CompleteReview PROVE IInv'
<1> DEFINE to == CASE result.status = "approved" -> "succeeded"
                   [] result.status = "changes_requested" -> "blocked"
                   [] result.status = "rejected" -> "failed"
                   [] result.status = "incomplete" -> "manual_attention_required"
<1>1. /\ FinalizeAt("complete") /\ job' = [job EXCEPT !.status = to] /\ call' = None /\ Fine
      /\ UNCHANGED <<conversations, state, result, gates, reminders>>
  BY DEF CompleteReview, At, FinalizeAt, Settle, Return
<1>2. Gated /\ state.status = "applied" /\ state # None /\ InUse(state)
  BY <1>1, FinalizeInHand DEF FinalizeAt, Ready
<1>3. result.status \in Verdicts
  BY <1>2 DEF Gated, IInv, TypeOK, Results
<1>4. to \in Settled
  BY <1>3 DEF Verdicts, Decided, Settled
<1> HIDE DEF to
<1>5. job' \in Jobs
  BY <1>1, <1>4, SettledJob DEF IInv, TypeOK
<1>6. Around
  BY <1>1, FineOrTrouble DEF IInv, Around
<1>7. Outcome'
  BY <1>1, <1>2 DEF Outcome, Gated
<1> QED BY <1>1, <1>2, <1>5, <1>6, <1>7, CallReturns

LEMMA PendingKeeps == ASSUME IInv, ReviewPending PROVE IInv'
<1>1. /\ FinalizeAt("pending") /\ Fine /\ UNCHANGED <<conversations, state, result, gates, reminders>>
  BY DEF ReviewPending, At, FinalizeAt
<1>2. call \in Calls /\ call.state = state /\ state \in States /\ InUse(state) /\ state # None /\ job \in Jobs
  BY <1>1, FinalizeInHand DEF FinalizeAt, IInv, TypeOK
<1>3. Around
  BY <1>1, FineOrTrouble DEF IInv, Around
<1>4. CASE call.state.status = "requested"
  <2>1. job' = [job EXCEPT !.status = "succeeded"] /\ Goto("enqueue")
    BY <1>4 DEF ReviewPending, Settle
  <2>2. job' \in Jobs /\ job'.kind = "finalize" /\ job'.status = "succeeded"
    BY <1>1, <1>2, <2>1, SettledJob DEF Settled, FinalizeAt
  <2>3. call' \in Calls /\ call'.at = "enqueue" /\ call'.state = state
    BY <1>2, <2>1, GotoCall DEF Steps
  <2>4. TypeOK' /\ SnapshotsHavePages' /\ UnusedUnreminded' /\ OneReminderPerConversation'
    BY <1>1, <1>3, <2>2, <2>3, AroundKeeps DEF IInv, TypeOK, Around
  <2>5. StateInUse'
    BY <1>1, <1>2 DEF StateInUse, InUse, conversations
  <2>6. CallKnows'
    BY <1>1, <1>2, <1>4, <2>2, <2>3 DEF CallKnows, FinalizeCall, Ready
  <2>7. Outcome' /\ VerdictAppliedOnce'
    BY <1>1, <2>3, NoneIsApart DEF IInv, Outcome, VerdictAppliedOnce
  <2> QED BY <2>4, <2>5, <2>6, <2>7 DEF IInv
<1>5. CASE call.state.status # "requested"
  <2>1. job' = Retried(job) /\ call' = None
    BY <1>5 DEF ReviewPending, Return
  <2>2. job' \in Jobs /\ job'.status \in {"queued", "failed"}
    BY <1>2, <2>1, RetriedJob
  <2>3. Outcome'
    BY <2>2 DEF Outcome
  <2> QED BY <1>1, <1>2, <1>3, <2>1, <2>2, <2>3, CallReturns
<1> QED BY <1>4, <1>5

-----------------------------------------------------------------------------
(* The environment.                                                        *)

LEMMA CrashKeeps == ASSUME IInv, Crash PROVE IInv'
<1>1. /\ call # None /\ call' = None /\ Trouble /\ UNCHANGED <<conversations, state, result, gates, reminders>>
      /\ job' = IF job.status = "running" THEN Retried(job) ELSE job
  BY DEF Crash, Return
<1>2. Around
  BY <1>1, FineOrTrouble DEF IInv, Around
<1>3. job \in Jobs
  BY DEF IInv, TypeOK
<1>4. job.kind = "finalize" => state # None /\ InUse(state)
  BY InUseThen
<1>5. CASE job.status = "running"
  <2>1. job' \in Jobs /\ job'.kind = job.kind /\ job'.status \in {"queued", "failed"}
    BY <1>1, <1>3, <1>5, RetriedJob
  <2>2. Outcome'
    BY <2>1 DEF Outcome
  <2> QED BY <1>1, <1>2, <1>4, <2>1, <2>2, CallReturns
<1>6. CASE job.status # "running"
  <2>1. job' = job /\ call.at = "enqueue"
    BY <1>1, <1>6, InHand
  <2>2. Outcome'
    BY <1>1, <2>1, InHand DEF Outcome, FinalizeCall
  <2> QED BY <1>1, <1>2, <1>3, <1>4, <2>1, <2>2, CallReturns
<1> QED BY <1>5, <1>6

LEMMA ApiRetryKeeps == ASSUME IInv, ApiRetry PROVE IInv'
<1>1. /\ call' = None /\ job' = Retried(job) /\ Trouble
      /\ UNCHANGED <<conversations, state, result, gates, reminders>>
  BY DEF ApiRetry
<1>2. Around
  BY <1>1, FineOrTrouble DEF IInv, Around
<1>3. job' \in Jobs /\ job'.kind = job.kind /\ job'.status \in {"queued", "failed"}
  BY <1>1, RetriedJob DEF IInv, TypeOK
<1>4. Outcome'
  BY <1>3 DEF Outcome
<1> QED BY <1>1, <1>2, <1>3, <1>4, InUseThen, CallReturns

\* The bridge and ChatGPT by themselves.
LEMMA BridgeAlone == ASSUME IInv, Quiet, call' = call PROVE IInv'
<1>1. CASE call # None
  <2>1. UNCHANGED <<job, state, result, gates, reminders>> /\ Around /\ call \in Calls
    BY <1>1, InHand DEF Quiet
  <2>2. job.kind = "request" => RequestCall'
    <3>1. ASSUME job.kind = "request", call.at = "persist", call.next = "finish" PROVE InUse(call.state)'
      <4>1. call.state # None /\ InUse(call.state)
        BY <1>1, <3>1, InHand DEF RequestCall
      <4>2. call.state \in States
        BY <2>1, <4>1 DEF Calls
      <4> QED BY <2>1, <4>1, <4>2, InUseKeeps DEF InUse
    <3>2. ASSUME job.kind = "request" PROVE RequestCall
      BY <1>1, <3>2, InHand
    <3> QED BY <2>1, <3>1, <3>2 DEF RequestCall
  <2>3. job.kind = "finalize" => FinalizeCall'
    <3>1. ASSUME job.kind = "finalize", call.at = "persist" PROVE InUse(call.state)'
      <4>1. call.state # None /\ InUse(call.state)
        BY <1>1, <3>1, InHand DEF FinalizeCall
      <4>2. call.state \in States
        BY <2>1, <4>1 DEF Calls
      <4> QED BY <2>1, <4>1, <4>2, InUseKeeps DEF InUse
    <3>2. ASSUME job.kind = "finalize" PROVE FinalizeCall
      BY <1>1, <3>2, InHand
    <3> QED BY <2>1, <3>1, <3>2 DEF FinalizeCall, Ready, Gated
  <2>4. CallKnows'
    BY <1>1, <2>1, <2>2, <2>3, InHand DEF CallKnows
  <2> QED BY <2>1, <2>4, WithinCall
<1>2. CASE call = None
  <2>1. UNCHANGED <<job, state, result, gates, reminders>> /\ Around /\ job \in Jobs
    BY DEF Quiet, IInv, TypeOK
  <2>2. Outcome'
    BY <1>2, <2>1 DEF IInv, Outcome, Gated
  <2> QED BY <1>2, <2>1, <2>2, InUseThen, CallReturns
<1> QED BY <1>1, <1>2

LEMMA EnvironmentKeeps == ASSUME IInv, Restart \/ ChatGPT PROVE IInv'
<1>1. CASE Restart
  <2>1. Quiet /\ call' = call
    BY <1>1, FineOrTrouble DEF IInv, Restart, Quiet, Around, ConversationsNext, files
  <2> QED BY <2>1, BridgeAlone
<1>2. CASE ChatGPT
  <2>1. Quiet /\ call' = call
    BY <1>2, FineOrTrouble DEF IInv, ChatGPT, Quiet, Around, ConversationsNext, files
  <2> QED BY <2>1, BridgeAlone
<1> QED BY <1>1, <1>2

-----------------------------------------------------------------------------
(* The theorems.                                                           *)

LEMMA Initially == Init => IInv
<1> SUFFICES ASSUME Init PROVE IInv
  OBVIOUS
<1>1. None \in Snapshots /\ job \in Jobs /\ job.kind = "request"
  BY ReviewAssumption DEF Init, Snapshots, Jobs
<1>2. TypeOK
  BY <1>1, ReviewAssumption DEF Init, TypeOK, ConversationsInit, ConversationsTypeOK
<1>3. SnapshotsHavePages /\ StateInUse /\ UnusedUnreminded /\ CallKnows
  BY <1>1 DEF Init, ConversationsInit, SnapshotsHavePages, StateInUse, UnusedUnreminded, CallKnows
<1>4. OneReminderPerConversation
  <2> SUFFICES ASSUME NEW c \in Convs PROVE reminders[c] <= 1
    BY DEF OneReminderPerConversation
  <2>1. reminders[c] = 0
    BY DEF Init
  <2>2. 0 <= 1
    OBVIOUS
  <2> QED BY <2>1, <2>2
<1>5. Outcome
  BY <1>1 DEF Outcome
<1>6. VerdictAppliedOnce
  BY DEF Init, VerdictAppliedOnce
<1> QED BY <1>2, <1>3, <1>4, <1>5, <1>6 DEF IInv

LEMMA Preserved == IInv /\ [Next]_vars => IInv'
<1> SUFFICES ASSUME IInv, [Next]_vars PROVE IInv'
  OBVIOUS
<1>1. CASE UNCHANGED vars
  <2>1. Quiet /\ call' = call
    BY <1>1 DEF vars, files, Quiet, Around, IInv, TypeOK
  <2> QED BY <2>1, BridgeAlone
<1>2. CASE Worker
  BY <1>2, StartJobKeeps, PersistKeeps, EnqueueKeeps, ReadRequestKeeps, RefuseRequestKeeps, BeginKeeps,
     BeginFailsKeeps, FinishKeeps, RequestFailsKeeps, ReadReviewKeeps, WaitReturnsKeeps,
     WaitIsHopelessKeeps, WaitFailsKeeps, RecoverConversationKeeps, RecoverFailsKeeps, ExportKeeps,
     ReadingFailsKeeps, ExtractKeeps, AskForBlockKeeps, GiveUpOnBlockKeeps, RemindKeeps,
     RemindFailsKeeps, SaveResultKeeps, GateKeeps, CompleteKeeps, PendingKeeps DEF Worker
<1>3. CASE Crash \/ ApiRetry \/ Restart \/ ChatGPT
  BY <1>3, CrashKeeps, ApiRetryKeeps, EnvironmentKeeps
<1> QED BY <1>1, <1>2, <1>3 DEF Next

LEMMA Invariant == Spec => []IInv
  BY Initially, Preserved, PTL DEF Spec

\* finalizeExecutionReview saves the flag before it sends the reminder, and a conversation is never
\* taken up again with a cleared flag: whatever dies, fails or is delivered again, ChatGPT is asked
\* for the JSON block at most once per conversation.
THEOREM RemindersAreNotRepeated == Spec => []OneReminderPerConversation
<1>1. IInv => OneReminderPerConversation
  BY DEF IInv
<1> QED BY <1>1, Invariant, PTL

\* A finalize job never ends with an outcome whose gate is not the latest recorded one, or with a
\* review that is not marked as applied.
THEOREM OutcomesAreGated == Spec => []OutcomeIsGated
<1>1. IInv => OutcomeIsGated
  BY DEF IInv, Outcome, OutcomeIsGated, Gated
<1> QED BY <1>1, Invariant, PTL

\* However often a verdict is finalized, its gate is recorded once.
THEOREM GatesAreNotRepeated == Spec => []VerdictAppliedOnce
<1>1. IInv => VerdictAppliedOnce
  BY DEF IInv
<1> QED BY <1>1, Invariant, PTL

\* A request that is delivered again leaves a conversation that is in use alone: of the two jobs
\* only the finalize job, which has seen the conversation fail, gives it up.
THEOREM RequestsKeepConversations == Spec => OnlyFinalizeGivesUp
<1> DEFINE Given == state # None /\ state.status # "requested" /\ state'.status = "requested"
                      => job.kind = "finalize"
<1>1. IInv /\ [Next]_vars => [Given]_vars
  <2> SUFFICES ASSUME IInv, Next, state # None, state.status # "requested", state'.status = "requested"
               PROVE  job.kind = "finalize"
    OBVIOUS
  <2>1. CASE Persist
    BY <2>1, InHand DEF Persist, RequestCall
  <2>2. CASE ~Persist
    <3>1. state' = state
      BY <2>2 DEF Next, Worker, StartJob, Enqueue, ReadRequest, RefuseRequest, Begin, BeginFails, Finish,
         RequestFails, ReadReview, WaitReturns, WaitIsHopeless, WaitFails, RecoverConversation,
         RecoverFails, ExportMarkdown, ReadingFails, Extract, AskForBlock, GiveUpOnBlock, Remind,
         RemindFails, SaveResult, GateReview, CompleteReview, ReviewPending, Crash, ApiRetry, Restart,
         ChatGPT, files
    <3> QED BY <3>1
  <2> QED BY <2>1, <2>2
<1> QED BY <1>1, Invariant, PTL DEF Spec, OnlyFinalizeGivesUp

-----------------------------------------------------------------------------
(* The evidence: what the checks of buildRequest come to.                  *)

\* A set of numbers has a least one.
LEMMA LeastNumber ==
  ASSUME NEW S \in SUBSET Nat, S # {}
  PROVE  \E x \in S : \A y \in S : x <= y
<1>1. PICK x \in S : \A y \in S : ~ (<<y, x>> \in OpToRel(<, Nat))
  BY NatLessThanWellFounded, WFMin
<1>2. \A y \in S : ~ (y < x)
  BY <1>1 DEF OpToRel
<1> QED BY <1>2

\* A line of the change itself: it comes after the header of a hunk, or speaks for itself.
Shown(lines, i) ==
  lines[i] = "mark" \/ (lines[i] \in Body /\ \E j \in 1 .. i : lines[j] = "hunk")

\* What the scan of the first n lines has found, without scanning them.
Diagnosed(lines, n) ==
  [payload |-> \E i \in 1 .. n : Shown(lines, i),
   dangling |-> \E i \in 1 .. n : lines[i] = "hunk" /\ \A j \in 1 .. n : j > i => ~Shown(lines, j)]

\* One more line is one more step of the scan ...
LEMMA DiagnosedNext ==
  ASSUME NEW lines \in Seq(LineKinds), NEW n \in 1 .. Len(lines)
  PROVE  Diagnosed(lines, n) = NextDiagnosis(Diagnosed(lines, n - 1), lines[n])
<1> DEFINE before == Diagnosed(lines, n - 1)
           line == lines[n]
           earlier == \E i \in 1 .. n - 1 : lines[i] = "hunk"
<1>1. /\ before.payload = \E i \in 1 .. n - 1 : Shown(lines, i)
      /\ before.dangling = \E i \in 1 .. n - 1 :
           lines[i] = "hunk" /\ \A j \in 1 .. n - 1 : j > i => ~Shown(lines, j)
      /\ before = [payload |-> before.payload, dangling |-> before.dangling]
  BY DEF Diagnosed
<1>2. n \in Nat /\ n >= 1 /\ n - 1 \in Nat /\ \A i : i \in 1 .. n <=> i \in 1 .. n - 1 \/ i = n
  OBVIOUS
<1>3. earlier /\ ~before.dangling => before.payload
  BY <1>1
<1>4. line \in LineKinds
  OBVIOUS
<1>5. Shown(lines, n) <=> line = "mark" \/ (line \in Body /\ earlier)
  BY <1>2 DEF Shown, Body
<1>6. (\E i \in 1 .. n : Shown(lines, i)) <=> before.payload \/ Shown(lines, n)
  BY <1>1, <1>2
<1>7. (\E i \in 1 .. n : lines[i] = "hunk" /\ \A j \in 1 .. n : j > i => ~Shown(lines, j))
        <=> line = "hunk" \/ (before.dangling /\ ~Shown(lines, n))
  <2>1. CASE line = "hunk"
    <3>1. \A j \in 1 .. n : ~(j > n)
      BY <1>2
    <3> QED BY <2>1, <3>1, <1>2
  <2>2. CASE line # "hunk"
    <3>1. \A i \in 1 .. n - 1 : i \in 1 .. n /\ n > i
      BY <1>2
    <3> HIDE DEF before, line
    <3>2. \A i \in 1 .. n : lines[i] = "hunk" => i \in 1 .. n - 1
      BY <1>2, <2>2 DEF line
    <3> QED BY <1>1, <1>2, <2>2, <3>1, <3>2
  <2> QED BY <2>1, <2>2
<1>8. Diagnosed(lines, n) = [payload |-> (before.payload \/ Shown(lines, n)),
                             dangling |-> (line = "hunk" \/ (before.dangling /\ ~Shown(lines, n)))]
  BY <1>6, <1>7 DEF Diagnosed
<1>9. before.dangling => earlier
  BY <1>1
<1>10. before.payload \in BOOLEAN /\ before.dangling \in BOOLEAN
  BY <1>1
<1> HIDE DEF before, earlier, line
<1>11. NextDiagnosis(before, line) = [payload |-> (before.payload \/ Shown(lines, n)),
                             dangling |-> (line = "hunk" \/ (before.dangling /\ ~Shown(lines, n)))]
  BY <1>1, <1>3, <1>4, <1>5, <1>9, <1>10 DEF NextDiagnosis, LineKinds, Body
<1> QED BY <1>8, <1>11 DEF before, line

\* ... so that the scan of a file comes to what Diagnosed says of all its lines: of two functions
\* that take the same steps, the least line at which they differ does not exist.
LEMMA DiagnosisIs ==
  ASSUME NEW lines \in Seq(LineKinds)
  PROVE  Diagnosis(lines) = Diagnosed(lines, Len(lines))
<1> DEFINE N == 0 .. Len(lines)
           First == [payload |-> FALSE, dangling |-> FALSE]
           OneStep(a, n) == IF n = 0 THEN First ELSE NextDiagnosis(a[n - 1], lines[n])
           after == CHOOSE a : a = [n \in N |-> OneStep(a, n)]
           all == [n \in N |-> Diagnosed(lines, n)]
<1>1. Diagnosis(lines) = after[Len(lines)]
  BY DEF Diagnosis
<1>2. all = [n \in N |-> OneStep(all, n)]
  <2> SUFFICES ASSUME NEW n \in N PROVE all[n] = OneStep(all, n)
    OBVIOUS
  <2>1. CASE n = 0
    <3>1. Diagnosed(lines, 0) = First
      BY DEF Diagnosed
    <3> QED BY <2>1, <3>1
  <2>2. CASE n # 0
    <3>1. n \in 1 .. Len(lines) /\ n - 1 \in N
      BY <2>2
    <3> QED BY <3>1, DiagnosedNext
  <2> QED BY <2>1, <2>2
<1>3. after = [n \in N |-> OneStep(after, n)]
  <2> HIDE DEF all, OneStep
  <2> QED BY <1>2
<1>4. Len(lines) \in N /\ N \subseteq Nat
  OBVIOUS
<1> HIDE DEF after
<1>5. \A n \in N : after[n] = all[n]
  <2> DEFINE bad == {n \in N : after[n] # all[n]}
  <2> SUFFICES ASSUME bad # {} PROVE FALSE
    OBVIOUS
  <2>1. PICK n \in bad : \A m \in bad : n <= m
    <3>1. bad \in SUBSET Nat
      BY <1>4
    <3> HIDE DEF bad
    <3> QED BY <3>1, LeastNumber
  <2>2. n \in N /\ after[n] = OneStep(after, n) /\ all[n] = OneStep(all, n)
    <3> HIDE DEF all, OneStep
    <3> QED BY <1>2, <1>3
  <2>3. n # 0 => n - 1 \in N /\ after[n - 1] = all[n - 1]
    BY <2>1, <2>2
  <2>4. OneStep(after, n) = OneStep(all, n)
    <3> HIDE DEF all
    <3> QED BY <2>3
  <2> QED BY <2>2, <2>4
<1> QED BY <1>1, <1>4, <1>5

\* Max is the greatest of a bounded set of numbers.
LEMMA GreatestOf ==
  ASSUME NEW n \in Nat, NEW S \in SUBSET (1 .. n), S # {}
  PROVE  Max(S) \in S /\ \A x \in S : x <= Max(S)
<1> DEFINE T == {u \in Nat : \A x \in S : x <= u}
<1>1. n \in T /\ T \in SUBSET Nat
  OBVIOUS
<1>2. PICK u \in T : \A y \in T : u <= y
  <2> HIDE DEF T
  <2> QED BY <1>1, LeastNumber
<1>3. u \in Nat /\ \A x \in S : x \in Nat /\ x >= 1 /\ x <= u
  OBVIOUS
<1>4. u \in S
  <2> SUFFICES ASSUME u \notin S PROVE FALSE
    OBVIOUS
  <2>1. PICK x \in S : TRUE
    OBVIOUS
  <2>2. \A y \in S : y <= u - 1
    BY <1>3
  <2>3. u - 1 \in T
    BY <1>3, <2>1, <2>2
  <2> QED BY <1>2, <1>3, <2>3
<1>5. \A y \in S : u >= y
  BY <1>3
<1> HIDE DEF T
<1>6. Max(S) \in S /\ \A y \in S : Max(S) >= y
  BY <1>4, <1>5 DEF Max
<1> QED BY <1>3, <1>6

\* Every file of the patch shows a change, and so does every hunk.
AllShown(patch) ==
  \A file \in DOMAIN patch.blocks :
    LET lines == patch.blocks[file]
        shown == {i \in DOMAIN lines : \/ lines[i] = "mark"
                                       \/ lines[i] \in Body /\ \E j \in 1 .. i : lines[j] = "hunk"}
    IN /\ shown # {}
       /\ \A i \in DOMAIN lines : lines[i] = "hunk" => \E j \in shown : j > i

\* diagnosePatch finds nothing wrong with exactly those patches.
LEMMA TruncatedIs ==
  ASSUME NEW patch, patch.marked \in BOOLEAN,
         \A file \in DOMAIN patch.blocks : patch.blocks[file] \in Seq(LineKinds)
  PROVE  ~Truncated(patch)
           <=> /\ ~patch.marked
               /\ AllShown(patch)
<1>1. ASSUME NEW lines \in Seq(LineKinds)
      PROVE  LET shown == {i \in DOMAIN lines :
                             \/ lines[i] = "mark"
                             \/ lines[i] \in Body /\ \E j \in 1 .. i : lines[j] = "hunk"}
             IN /\ shown # {}
                /\ \A i \in DOMAIN lines : lines[i] = "hunk" => \E j \in shown : j > i
             <=> Diagnosis(lines).payload /\ ~Diagnosis(lines).dangling
  <2> DEFINE shown == {i \in DOMAIN lines :
                         \/ lines[i] = "mark"
                         \/ lines[i] \in Body /\ \E j \in 1 .. i : lines[j] = "hunk"}
  <2>1. DOMAIN lines = 1 .. Len(lines)
    OBVIOUS
  <2>2. \A i : i \in shown <=> i \in 1 .. Len(lines) /\ Shown(lines, i)
    BY <2>1 DEF Shown
  <2>3. /\ Diagnosis(lines).payload <=> \E i \in 1 .. Len(lines) : Shown(lines, i)
        /\ Diagnosis(lines).dangling
             <=> \E i \in 1 .. Len(lines) :
                   lines[i] = "hunk" /\ \A j \in 1 .. Len(lines) : j > i => ~Shown(lines, j)
    BY DiagnosisIs DEF Diagnosed
  <2> HIDE DEF shown
  <2>4. shown # {} /\ (\A i \in DOMAIN lines : lines[i] = "hunk" => \E j \in shown : j > i)
          <=> Diagnosis(lines).payload /\ ~Diagnosis(lines).dangling
    BY <2>1, <2>2, <2>3
  <2> QED BY <2>4 DEF shown
<1> QED BY <1>1 DEF Truncated, AllShown

\* The ladder of grades, written out.
LEMMA GradesAre ==
  /\ Range(Grades) = {"placeholder", "compile-check", "unit", "integration"}
  /\ Priority("placeholder") = 1 /\ Priority("compile-check") = 2
  /\ Priority("unit") = 3 /\ Priority("integration") = 4
  /\ \A n \in 1 .. 4 : Strong(Grades[n]) <=> n >= 3
<1>1. /\ Grades[1] = "placeholder" /\ Grades[2] = "compile-check"
      /\ Grades[3] = "unit" /\ Grades[4] = "integration" /\ DOMAIN Grades = 1 .. 4
  BY DEF Grades
<1>2. 1 .. 4 = {1, 2, 3, 4}
  OBVIOUS
<1>3. Range(Grades) = {"placeholder", "compile-check", "unit", "integration"}
  BY <1>1, <1>2 DEF Range
<1>4. \A n \in 1 .. 4 : Priority(Grades[n]) = n
  BY <1>1, <1>2 DEF Priority
<1>5. \A n \in 1 .. 4 : Strong(Grades[n]) <=> n >= 3
  BY <1>1, <1>2 DEF Strong
<1> QED BY <1>1, <1>2, <1>3, <1>4, <1>5

\* A suite is strong evidence if its name tells of integration, or of units and nothing else.
LEMMA GradeOf ==
  ASSUME NEW patterns \in SUBSET Range(Grades)
  PROVE  /\ InferTestEvidenceGrade(patterns) \in Range(Grades)
         /\ Strong(InferTestEvidenceGrade(patterns))
              <=> "placeholder" \notin patterns /\ ("integration" \in patterns \/ patterns = {"unit"})
<1> DEFINE tried == <<"placeholder", "integration", "compile-check", "unit">>
           found == {n \in 1 .. 4 : tried[n] \in patterns}
<1>1. InferTestEvidenceGrade(patterns) = IF found = {} THEN "placeholder" ELSE tried[Min(found)]
  BY DEF InferTestEvidenceGrade
<1>2. patterns \subseteq {"placeholder", "compile-check", "unit", "integration"}
  BY GradesAre
<1>3. /\ 1 \in found <=> "placeholder" \in patterns
      /\ 2 \in found <=> "integration" \in patterns
      /\ 3 \in found <=> "compile-check" \in patterns
      /\ 4 \in found <=> "unit" \in patterns
  OBVIOUS
<1>4. found \subseteq {1, 2, 3, 4}
  OBVIOUS
<1>5. /\ tried[1] = "placeholder" /\ tried[2] = "integration"
      /\ tried[3] = "compile-check" /\ tried[4] = "unit"
  OBVIOUS
<1> HIDE DEF found, tried
<1>6. found # {} => Min(found) \in found /\ \A n \in found : Min(found) <= n
  <2>1. found \in SUBSET Nat
    BY <1>4
  <2>2. found # {} => \E x \in found : \A y \in found : x <= y
    BY <2>1, LeastNumber
  <2> QED BY <2>2 DEF Min
<1>7. CASE found = {}
  BY <1>1, <1>2, <1>3, <1>7, GradesAre DEF Strong
<1>8. CASE found # {}
  <2>0. PICK first \in found : first = Min(found) /\ \A n \in found : first <= n
    BY <1>6, <1>8
  <2>1. /\ 1 \in found => first = 1
        /\ 1 \notin found /\ 2 \in found => first = 2
        /\ 1 \notin found /\ 2 \notin found /\ 3 \in found => first = 3
        /\ 1 \notin found /\ 2 \notin found /\ 3 \notin found => first = 4
    <3>1. first \in {1, 2, 3, 4} /\ \A n \in {1, 2, 3, 4} : n \in found => first <= n
      BY <1>4, <2>0
    <3> QED BY <2>0, <3>1
  <2>2. patterns = {"unit"} <=>
          1 \notin found /\ 2 \notin found /\ 3 \notin found /\ 4 \in found
    BY <1>2, <1>3
  <2>3. 1 \notin found /\ 2 \notin found /\ 3 \notin found => 4 \in found
    BY <1>4, <1>8
  <2>4. InferTestEvidenceGrade(patterns) = tried[first]
    BY <1>1, <1>8, <2>0
  <2> QED BY <1>3, <1>5, <2>1, <2>2, <2>3, <2>4, GradesAre DEF Strong
<1> QED BY <1>7, <1>8

\* The overall grade is strong if some suite that counts is.
LEMMA TestedIs ==
  ASSUME NEW e, e.tests \subseteq Suites
  PROVE  Strong(AssessTestEvidence(e.tests)) <=> Tested(e)
<1> DEFINE ran == {t \in e.tests : CountsTowardOverall(t)}
           counted == {InferTestEvidenceGrade(s.patterns) : s \in ran}
           priorities == {Priority(g) : g \in counted \cup {"placeholder"}}
<1>1. AssessTestEvidence(e.tests) = Grades[Max(priorities)]
  BY DEF AssessTestEvidence
<1>2. \A t \in e.tests : t.patterns \in SUBSET Range(Grades)
  BY DEF Suites
<1>3. counted \subseteq Range(Grades)
  BY <1>2, GradeOf
<1>4. Tested(e) <=> \E s \in ran : Strong(InferTestEvidenceGrade(s.patterns))
  BY <1>2, GradeOf DEF Tested, CountsTowardOverall
<1>5. Tested(e) <=> \E g \in counted : Strong(g)
  BY <1>4
<1> HIDE DEF counted
<1>6. \A g \in Range(Grades) : Priority(g) \in 1 .. 4 /\ (Strong(g) <=> Priority(g) >= 3)
  BY GradesAre DEF Strong
<1>7. priorities \in SUBSET (1 .. 4) /\ priorities # {}
  BY <1>3, <1>6, GradesAre
<1>8. (\E g \in counted : Strong(g)) <=> \E n \in priorities : n >= 3
  BY <1>3, <1>6, GradesAre
<1> HIDE DEF priorities
<1>9. PICK best \in priorities : best = Max(priorities) /\ \A n \in priorities : n <= best
  BY <1>7, GreatestOf
<1>10. best \in 1 .. 4 /\ \A n \in priorities : n \in 1 .. 4
  BY <1>7
<1>11. (\E n \in priorities : n >= 3) <=> best >= 3
  BY <1>9, <1>10
<1>12. Strong(Grades[Max(priorities)]) <=> best >= 3
  BY <1>9, <1>10, GradesAre
<1> QED BY <1>1, <1>5, <1>8, <1>11, <1>12

\* Two patches are the same to comparePatchFingerprints if they change every file alike.
LEMMA SamePatchIs ==
  ASSUME NEW patch, NEW print, print = Fingerprint([blocks |-> print.raw])
  PROVE  SamePatch(Fingerprint(patch), print)
           <=> \A file \in DOMAIN patch.blocks \cup DOMAIN print.semantic :
                 /\ file \in DOMAIN patch.blocks \cap DOMAIN print.semantic
                 /\ Changes(patch.blocks[file]) = print.semantic[file]
<1>1. print.semantic = [file \in DOMAIN print.raw |-> Changes(print.raw[file])]
  BY DEF Fingerprint
<1>2. /\ Fingerprint(patch).raw = patch.blocks
      /\ Fingerprint(patch).semantic = [file \in DOMAIN patch.blocks |-> Changes(patch.blocks[file])]
  BY DEF Fingerprint
<1>3. SamePatch(Fingerprint(patch), print) <=> Fingerprint(patch).semantic = print.semantic
  BY <1>1, <1>2 DEF SamePatch
<1> QED BY <1>1, <1>2, <1>3

\* One matching review reaches the threshold, and the run of them ends with the last entry: so
\* the last entry decides.
LEMMA RepeatedIs ==
  ASSUME NEW e, IsEvidence(e), e.patch # NoPatch
  PROVE  Repeated(e) <=> ~New(e)
<1> DEFINE others == {n \in DOMAIN e.history : e.history[n].execution # 0}
           latest == LatestAttempts(e.history)
           last == e.history[Max(others)]
           N == Len(e.history)
<1>1. N \in Nat /\ DOMAIN e.history = 1 .. N /\ others \in SUBSET (1 .. N)
  BY DEF IsEvidence
<1>2. latest \subseteq others
  BY DEF LatestAttempts
<1>3. Repeated(e) <=> MatchedHistory(e) # {}
  <2>1. MatchedHistory(e) \subseteq 1 .. N
    BY <1>1, <1>2 DEF MatchedHistory
  <2>2. IsFiniteSet(MatchedHistory(e))
    <3>1. IsFiniteSet(1 .. N)
      BY <1>1, FS_Interval
    <3> QED BY <2>1, <3>1, FS_Subset
  <2>3. Cardinality(MatchedHistory(e)) \in Nat
        /\ (Cardinality(MatchedHistory(e)) = 0 <=> MatchedHistory(e) = {})
    BY <2>2, FS_CardinalityType, FS_EmptySet
  <2> QED BY <2>3 DEF Repeated, ConvergenceThreshold
<1>4. CASE others = {}
  <2>1. MatchedHistory(e) = {}
    BY <1>2, <1>4 DEF MatchedHistory
  <2> QED BY <1>3, <1>4, <2>1 DEF New
<1>5. CASE others # {}
  <2>1. Max(others) \in others /\ \A n \in others : n <= Max(others)
    BY <1>1, <1>5, GreatestOf
  <2>2. Max(others) \in latest
    BY <1>1, <2>1 DEF LatestAttempts
  <2>3. MatchedHistory(e) # {} <=> SentBack(e.patch, last)
    <3>1. \A n \in latest : n <= Max(others) /\ n \in Nat
      BY <1>1, <1>2, <2>1
    <3>2. MatchedHistory(e) = {n \in latest : \A m \in latest : m >= n => SentBack(e.patch, e.history[m])}
      BY DEF MatchedHistory
    <3> HIDE DEF latest, others
    <3> QED BY <2>2, <3>1, <3>2
  <2>4. SentBack(e.patch, last) <=> ~New(e)
    <3>1. last.print # NoPatch => last.print = Fingerprint([blocks |-> last.print.raw])
      BY <2>1 DEF IsEvidence
    <3>2. ASSUME last.print # NoPatch
          PROVE  SamePatch(Fingerprint(e.patch), last.print)
           <=> \A file \in DOMAIN e.patch.blocks \cup DOMAIN last.print.semantic :
                 /\ file \in DOMAIN e.patch.blocks \cap DOMAIN last.print.semantic
                 /\ Changes(e.patch.blocks[file]) = last.print.semantic[file]
      <4> HIDE DEF last
      <4> QED BY <3>1, <3>2, SamePatchIs
    <3>3. New(e) <=>
            (last.status \in {"changes_requested", "rejected"} /\ last.print # NoPatch
              => \E file \in DOMAIN e.patch.blocks \cup DOMAIN last.print.semantic :
                   \/ file \notin DOMAIN e.patch.blocks \cap DOMAIN last.print.semantic
                   \/ Changes(e.patch.blocks[file]) # last.print.semantic[file])
      BY <1>5 DEF New
    <3> HIDE DEF last
    <3> QED BY <3>2, <3>3 DEF SentBack
  <2> QED BY <1>3, <2>3, <2>4
<1> QED BY <1>4, <1>5

\* What buildRequest checks is what the definition by quantifiers asks for.
LEMMA AdmissibleIsTrustworthy ==
  ASSUME NEW e, IsEvidence(e)
  PROVE  Admissible(e) <=> Trustworthy(e)
<1>1. CASE e.patch = NoPatch
  BY <1>1 DEF Admissible, PatchMissing, ChangedFiles, Trustworthy, Whole
<1>2. CASE e.patch # NoPatch
  <2>1. Truncated(e.patch) \in BOOLEAN /\ Repeated(e) \in BOOLEAN
    BY DEF Truncated, Repeated
  <2>2. Whole(e) <=> /\ ~PatchMissing(e) /\ ~PatchIncomplete(e)
                     /\ ChangedFiles(e) # {} /\ ~Truncated(e.patch)
    <3>1. Whole(e) <=> /\ ~e.patch.marked /\ DOMAIN e.patch.blocks # {}
                       /\ NamedFiles(e.summary) \subseteq DOMAIN e.patch.blocks /\ AllShown(e.patch)
      BY <1>2 DEF Whole, AllShown
    <3>2. ~Truncated(e.patch) <=> ~e.patch.marked /\ AllShown(e.patch)
      BY <1>2, TruncatedIs DEF IsEvidence
    <3> QED BY <1>2, <3>1, <3>2 DEF PatchMissing, PatchIncomplete, ChangedFiles
  <2>3. Tested(e) => e.tests # {}
    BY DEF Tested
  <2>4. Strong(AssessTestEvidence(e.tests)) <=> Tested(e)
    BY TestedIs DEF IsEvidence
  <2>5. Repeated(e) <=> ~New(e)
    BY <1>2, RepeatedIs
  <2> QED BY <2>2, <2>3, <2>4, <2>5 DEF Admissible, Trustworthy
<1> QED BY <1>1, <1>2

-----------------------------------------------------------------------------
(* What is reviewed.                                                       *)

\* Evidence waits for a request job that has not gone beyond reading.
EvidenceWaits ==
  evidence # None => job.kind = "request" /\ (call = None \/ call.at = "read")

\* The steps there are while it waits.
LEMMA StepsOfWaiting ==
  ASSUME EvidenceWaits, Next, evidence # None
  PROVE  StartJob \/ ReadRequest \/ RefuseRequest \/ Crash \/ ApiRetry \/ Restart \/ ChatGPT
  BY DEF EvidenceWaits, Next, Worker, At, Persist, Enqueue, Begin, BeginFails, Finish, RequestFails,
     ReadReview, WaitReturns, WaitIsHopeless, WaitFails, RecoverConversation, RecoverFails,
     ExportMarkdown, ReadingFails, Extract, AskForBlock, GiveUpOnBlock, Remind, RemindFails,
     SaveResult, GateReview, CompleteReview, ReviewPending

\* Evidence that has been read is not read again.
LEMMA EvidenceIsLeft ==
  ASSUME Next, evidence = None PROVE evidence' = None
  BY DEF Next, Worker, StartJob, Persist, Enqueue, ReadRequest, RefuseRequest, Begin, BeginFails,
     Finish, RequestFails, ReadReview, WaitReturns, WaitIsHopeless, WaitFails, RecoverConversation,
     RecoverFails, ExportMarkdown, ReadingFails, Extract, AskForBlock, GiveUpOnBlock, Remind,
     RemindFails, SaveResult, GateReview, CompleteReview, ReviewPending, Crash, ApiRetry, Restart,
     ChatGPT, Fine, Trouble

\* Until the request is made or refused, jobs are only started, and queued again.
LEMMA WaitingGoesOn ==
  ASSUME IInv, EvidenceWaits, evidence # None,
         StartJob \/ Crash \/ ApiRetry \/ Restart \/ ChatGPT
  PROVE  /\ evidence' = evidence /\ job'.kind = "request" /\ (call' = None \/ call'.at = "read")
         /\ job'.status = "manual_attention_required" => job.status # "running"
<1>1. job \in Jobs /\ job.kind = "request"
  BY DEF IInv, TypeOK, EvidenceWaits
<1>2. CASE StartJob
  BY <1>1, <1>2, SettledJob DEF StartJob, Settle, Fine
<1>3. CASE Crash
  BY <1>1, <1>3, RetriedJob DEF Crash, Return, Trouble
<1>4. CASE ApiRetry
  BY <1>1, <1>4, RetriedJob DEF ApiRetry, Trouble, EvidenceWaits
<1>5. CASE Restart \/ ChatGPT
  BY <1>1, <1>5 DEF Restart, ChatGPT, files, Trouble, Fine, EvidenceWaits
<1> QED BY <1>2, <1>3, <1>4, <1>5

\* EvidenceWaits is an invariant, given IInv.
LEMMA EvidenceWaitsOn == IInv /\ EvidenceWaits /\ [Next]_vars => EvidenceWaits'
<1> SUFFICES ASSUME IInv, EvidenceWaits, [Next]_vars, evidence' # None PROVE EvidenceWaits'
  BY DEF EvidenceWaits
<1>1. CASE UNCHANGED vars
  BY <1>1 DEF vars, files, EvidenceWaits
<1>2. CASE Next
  <2>1. evidence # None
    BY <1>2, EvidenceIsLeft
  <2>2. CASE ReadRequest \/ RefuseRequest
    <3>1. RefuseRequest
      BY <2>2 DEF ReadRequest
    <3>2. job \in Jobs /\ job.kind = "request"
      BY <2>1 DEF IInv, TypeOK, EvidenceWaits
    <3> QED BY <3>1, <3>2 DEF RefuseRequest, Settle, Return, EvidenceWaits, Jobs
  <2> QED BY <1>2, <2>1, <2>2, StepsOfWaiting, WaitingGoesOn DEF EvidenceWaits
<1> QED BY <1>1, <1>2

\* The checks of buildRequest come to this: work is handed to a reviewer only if it is whole,
\* tested and new, whatever is on record of it, and refused for an operator only if it is not.
THEOREM TrustworthyIsReviewed == Spec => OnlyTrustworthyIsReviewed
<1> DEFINE Decides ==
      /\ evidence # None /\ evidence' = None => Trustworthy(evidence)
      /\ evidence # None /\ job.status = "running" /\ job'.status = "manual_attention_required"
           => ~Trustworthy(evidence)
<1>1. IInv /\ EvidenceWaits /\ [Next]_vars => [Decides]_vars
  <2> SUFFICES ASSUME IInv, EvidenceWaits, Next, evidence # None PROVE Decides
    OBVIOUS
  <2>1. Admissible(evidence) <=> Trustworthy(evidence)
    BY AdmissibleIsTrustworthy, EvidenceAssumption DEF IInv, TypeOK
  <2>2. CASE ReadRequest
    BY <2>1, <2>2 DEF ReadRequest, files
  <2>3. CASE RefuseRequest
    BY <2>1, <2>3 DEF RefuseRequest, Fine
  <2>4. CASE StartJob \/ Crash \/ ApiRetry \/ Restart \/ ChatGPT
    BY <2>4, WaitingGoesOn
  <2> QED BY <2>2, <2>3, <2>4, StepsOfWaiting
<1>2. Init => EvidenceWaits
  BY DEF Init, EvidenceWaits
<1>3. Spec => []EvidenceWaits
  BY <1>2, EvidenceWaitsOn, Invariant, PTL DEF Spec
<1> QED BY <1>1, <1>3, Invariant, PTL DEF Spec, OnlyTrustworthyIsReviewed
=============================================================================
