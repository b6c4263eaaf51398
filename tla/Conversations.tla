---------------------------- MODULE Conversations ----------------------------
(***************************************************************************)
(* The ChatGPT bridge as its callers see it: conversations that run on web *)
(* pages, and the snapshot of each one that the bridge keeps in memory.    *)
(*                                                                         *)
(* Exports and extractions read the snapshot, never the page. A message    *)
(* leaves a snapshot without an answer; waits and recoveries take one from *)
(* the page; a restart of the bridge loses them all. What a snapshot taken *)
(* at the wrong time can hold is what makes the callers' life hard.        *)
(***************************************************************************)
CONSTANTS
  Convs,       \* conversation ids
  Structured,  \* the answers that carry a structured JSON block
  Fragments,   \* those that half of an answer can pass for
  None

Answers == Structured \cup {"prose"}
Pages == [turn : {"sent", "running", "finished"}, answer : Answers \cup {None}]
Snapshots == Answers \cup {"silent", None}

ASSUME ConversationsAssumption ==
  /\ Fragments \subseteq Structured
  /\ Structured \cap {"prose", "silent"} = {}
  /\ None \notin Answers \cup {"silent"} \cup Pages

VARIABLES
  chat,    \* the page of a conversation: whose turn it is and the latest finished answer
  record   \* the latest answer in the bridge's snapshot, "silent": none, None: no snapshot

conversations == <<chat, record>>

ConversationsTypeOK ==
  /\ chat \in [Convs -> Pages \cup {None}]
  /\ record \in [Convs -> Snapshots]

ConversationsInit ==
  /\ chat = [c \in Convs |-> None]
  /\ record = [c \in Convs |-> None]

Unused == {c \in Convs : chat[c] = None}

SnapshotTaken(c, said) == record' = [record EXCEPT ![c] = said]

\* startConversation: the prompt is on the page, and the snapshot holds it alone.
StartConversation(c) ==
  /\ chat[c] = None
  /\ chat' = [chat EXCEPT ![c] = [turn |-> "sent", answer |-> None]]
  /\ SnapshotTaken(c, "silent")

\* sendMessage on a conversation the bridge remembers. On a page that already has a
\* conversation URL waitForSubmissionStart is satisfied at once, even when the click did
\* nothing: the message may not have been sent.
Submitted(c) ==
  \/ chat' = [chat EXCEPT ![c].turn = "sent"]
  \/ UNCHANGED chat
SendMessage(c) == record[c] # None /\ Submitted(c) /\ SnapshotTaken(c, "silent")
\* It fails, before or after the message was submitted, and takes no snapshot.
SendMessageFails(c) ==
  /\ chat[c] # None
  /\ Submitted(c)
  /\ UNCHANGED record

\* ChatGPT starts to answer, and finishes.
Reply(c) ==
  /\ chat[c] # None
  /\ \/ chat[c].turn = "sent" /\ chat' = [chat EXCEPT ![c].turn = "running"]
     \/ /\ chat[c].turn = "running"
        /\ \E a \in Answers : chat' = [chat EXCEPT ![c] = [turn |-> "finished", answer |-> a]]
  /\ UNCHANGED record

\* What a look at the page may take for the latest answer: the previous one, while the new
\* one has not begun, or half of the new one. The block of half an answer is not closed,
\* but an object inside it may be, and then passes for the answer.
Halves == Fragments \cup {"prose"}
Seen(c) ==
  (IF chat[c].answer = None THEN {"silent"} ELSE {chat[c].answer})
    \cup (IF chat[c].turn = "running" THEN Halves ELSE {})

\* A status reading: its latest assistant message, if any, enters the snapshot.
PollStatus(c) ==
  /\ record[c] # None
  /\ \E said \in Seen(c) : SnapshotTaken(c, IF said = "silent" THEN record[c] ELSE said)
  /\ UNCHANGED chat

\* waitForCompletion returns once readings with an assistant message are stable: when the
\* answer is finished, before it begins (no stop button shows, and there is a previous
\* answer), or when it pauses for longer than the grace time.
WaitForCompletion(c) ==
  /\ record[c] # None
  /\ \E said \in Seen(c) \ {"silent"} : SnapshotTaken(c, said)
  /\ UNCHANGED chat

\* recoverConversation, of a conversation the bridge may have forgotten. readSnapshot reads
\* the messages before the status: an answer that finishes in between is read by half.
\* A snapshot is "completed" when no stop button shows, even before the answer begins.
LooksCompleted(c) == chat[c].turn # "running"
Recover(c) ==
  /\ chat[c] # None
  /\ \/ \E said \in Seen(c) : SnapshotTaken(c, said)
     \/ chat[c].turn = "finished" /\ \E said \in Halves : SnapshotTaken(c, said)
  /\ UNCHANGED chat

\* The bridge process starts anew: its maps are empty.
BridgeRestart ==
  /\ record' = [c \in Convs |-> None]
  /\ UNCHANGED chat

ConversationsNext ==
  \/ \E c \in Convs :
       \/ StartConversation(c) \/ SendMessage(c) \/ SendMessageFails(c) \/ Reply(c)
       \/ WaitForCompletion(c) \/ PollStatus(c) \/ Recover(c)
  \/ BridgeRestart

ConversationsSpec == ConversationsInit /\ [][ConversationsNext]_conversations
=============================================================================
