-------------------------- MODULE DaemonControlProofs --------------------------
(***************************************************************************)
(* Theorems of DaemonControl, for any jobs, workers, limits and clients.   *)
(*                                                                         *)
(* The limits are looked at with the active jobs of one listing, and hold  *)
(* of the records that run for the pool: while workers are asked, the list *)
(* has all of these (PickSeesHeld), whoever has started, ended or taken    *)
(* jobs besides.  The daemon stops on a count made some file accesses      *)
(* before: nothing but the tick makes a job the pool's, so that what was   *)
(* idle when it was measured still is (IdleSinceMeasured).                 *)
(***************************************************************************)
EXTENDS DaemonControl, FiniteSetTheorems, TLAPS

-----------------------------------------------------------------------------
(* The inductive invariant.                                                *)

\* A set of jobs within the limits, of which no two share a key.
Within(js) ==
  /\ Cardinality(js) <= GlobalLimit
  /\ \A j \in js :
       /\ Cardinality(OfRun(RunOf[j], js)) <= RunLimit
       /\ Cardinality(OfKind(KindOf[j], js)) <= KindLimit[KindOf[j]]
       /\ \A k \in js \ {j} : KeysOf[j] \cap KeysOf[k] = {}

HeldRuns == \A j \in Jobs : heldBy[j] # None => status[j] = "running"

HeldWithin == Within(Held)

PickSeesHeld ==
  /\ tick.at = "pick" => Held \subseteq tick.active
  /\ tick.at = "lease" => /\ tick.job \in Jobs /\ tick.worker \in Workers
                         /\ Held \subseteq tick.active \cup {tick.job}

IdleSinceMeasured ==
  /\ tick.at = "check" /\ tick.running = 0 => Held = {}
  /\ tick.at = "stop" => Held = {}

IInv == TypeOK /\ HeldRuns /\ HeldWithin /\ PickSeesHeld /\ IdleSinceMeasured

-----------------------------------------------------------------------------
(* Counting.                                                               *)

LEMMA Counted ==
  ASSUME NEW S \in SUBSET Jobs
  PROVE  /\ IsFiniteSet(S) /\ Cardinality(S) \in Nat
         /\ \A R \in SUBSET S : Cardinality(R) <= Cardinality(S)
         /\ Cardinality(S) = 0 <=> S = {}
<1>1. IsFiniteSet(Jobs)
  BY DaemonAssumption
<1>2. IsFiniteSet(S)
  BY <1>1, FS_Subset
<1>3. Cardinality(S) \in Nat
  BY <1>2, FS_CardinalityType
<1>4. ASSUME NEW R \in SUBSET S PROVE Cardinality(R) <= Cardinality(S)
  BY <1>2, FS_Subset
<1>5. Cardinality(S) = 0 <=> S = {}
  BY <1>2, FS_EmptySet
<1> QED BY <1>2, <1>3, <1>4, <1>5

LEMMA OneMore ==
  ASSUME NEW S \in SUBSET Jobs, NEW j \in Jobs
  PROVE  Cardinality(S \cup {j}) <= Cardinality(S) + 1
<1>1. IsFiniteSet(S) /\ Cardinality(S) \in Nat
  BY Counted
<1>2. \/ Cardinality(S \cup {j}) = Cardinality(S)
      \/ Cardinality(S \cup {j}) = Cardinality(S) + 1
  BY <1>1, FS_AddElement
<1> QED BY <1>1, <1>2

\* A subset of a set within the limits is within them.
LEMMA SubsetWithin ==
  ASSUME NEW S \in SUBSET Jobs, NEW R \in SUBSET S, Within(S) PROVE Within(R)
<1>1. Cardinality(R) <= GlobalLimit
  BY Counted, DaemonAssumption DEF Within
<1>2. ASSUME NEW j \in R
      PROVE  /\ Cardinality(OfRun(RunOf[j], R)) <= RunLimit
             /\ Cardinality(OfKind(KindOf[j], R)) <= KindLimit[KindOf[j]]
             /\ \A k \in R \ {j} : KeysOf[j] \cap KeysOf[k] = {}
  <2>1. OfRun(RunOf[j], R) \in SUBSET OfRun(RunOf[j], S) /\ OfRun(RunOf[j], S) \in SUBSET Jobs
    BY DEF OfRun
  <2>2. OfKind(KindOf[j], R) \in SUBSET OfKind(KindOf[j], S) /\ OfKind(KindOf[j], S) \in SUBSET Jobs
    BY DEF OfKind
  <2>3. /\ Cardinality(OfRun(RunOf[j], R)) <= Cardinality(OfRun(RunOf[j], S))
        /\ Cardinality(OfRun(RunOf[j], R)) \in Nat /\ Cardinality(OfRun(RunOf[j], S)) \in Nat
    BY <2>1, Counted
  <2>4. /\ Cardinality(OfKind(KindOf[j], R)) <= Cardinality(OfKind(KindOf[j], S))
        /\ Cardinality(OfKind(KindOf[j], R)) \in Nat /\ Cardinality(OfKind(KindOf[j], S)) \in Nat
    BY <2>2, Counted
  <2>5. /\ Cardinality(OfRun(RunOf[j], S)) <= RunLimit
        /\ Cardinality(OfKind(KindOf[j], S)) <= KindLimit[KindOf[j]]
    BY DEF Within
  <2>6. RunLimit \in Nat /\ KindLimit[KindOf[j]] \in Nat
    BY DaemonAssumption
  <2>7. \A k \in R \ {j} : KeysOf[j] \cap KeysOf[k] = {}
    BY DEF Within
  <2> QED BY <2>3, <2>4, <2>5, <2>6, <2>7
<1> QED BY <1>1, <1>2 DEF Within

\* A set within the limits stays within them when a job joins it that is allowed beside a larger
\* one.
LEMMA AllowedWithin ==
  ASSUME NEW active \in SUBSET Jobs, NEW S \in SUBSET active, NEW j \in Jobs,
         Within(S), Allowed(j, active)
  PROVE  Within(S \cup {j})
<1> DEFINE T == S \cup {j}
<1>1. /\ OfRun(RunOf[j], S) \in SUBSET OfRun(RunOf[j], active)
      /\ OfRun(RunOf[j], active) \in SUBSET Jobs
      /\ OfKind(KindOf[j], S) \in SUBSET OfKind(KindOf[j], active)
      /\ OfKind(KindOf[j], active) \in SUBSET Jobs
  BY DEF OfRun, OfKind
<1>2. /\ Cardinality(active) < GlobalLimit
      /\ Cardinality(OfRun(RunOf[j], active)) < RunLimit
      /\ Cardinality(OfKind(KindOf[j], active)) < KindLimit[KindOf[j]]
      /\ \A k \in active : KeysOf[j] \cap KeysOf[k] = {}
  BY DEF Allowed, WithinQuota, KeysFree
<1>3. GlobalLimit \in Nat /\ RunLimit \in Nat /\ \A i \in Jobs : KindLimit[KindOf[i]] \in Nat
  BY DaemonAssumption
<1>4. Cardinality(T) <= GlobalLimit
  <2>1. Cardinality(S) <= Cardinality(active) /\ Cardinality(S) \in Nat /\ Cardinality(active) \in Nat
    BY Counted
  <2>2. Cardinality(T) <= Cardinality(S) + 1 /\ Cardinality(T) \in Nat
    BY OneMore, Counted
  <2> QED BY <1>2, <1>3, <2>1, <2>2
<1>5. ASSUME NEW i \in T PROVE Cardinality(OfRun(RunOf[i], T)) <= RunLimit
  <2>1. CASE RunOf[i] = RunOf[j]
    <3>1. OfRun(RunOf[i], T) = OfRun(RunOf[j], S) \cup {j}
      BY <2>1 DEF OfRun
    <3>2. /\ Cardinality(OfRun(RunOf[j], S)) <= Cardinality(OfRun(RunOf[j], active))
          /\ Cardinality(OfRun(RunOf[j], S)) \in Nat /\ Cardinality(OfRun(RunOf[j], active)) \in Nat
      BY <1>1, Counted
    <3>3. Cardinality(OfRun(RunOf[j], S) \cup {j}) <= Cardinality(OfRun(RunOf[j], S)) + 1
      BY <1>1, OneMore
    <3>4. Cardinality(OfRun(RunOf[j], S) \cup {j}) \in Nat
      BY <1>1, Counted
    <3>5. Cardinality(OfRun(RunOf[j], S) \cup {j}) <= RunLimit
      BY <1>2, <1>3, <3>2, <3>3, <3>4
    <3> QED BY <3>1, <3>5
  <2>2. CASE RunOf[i] # RunOf[j]
    <3>1. OfRun(RunOf[i], T) = OfRun(RunOf[i], S) /\ i \in S
      BY <2>2 DEF OfRun
    <3> QED BY <3>1 DEF Within
  <2> QED BY <2>1, <2>2
<1>6. ASSUME NEW i \in T PROVE Cardinality(OfKind(KindOf[i], T)) <= KindLimit[KindOf[i]]
  <2>1. CASE KindOf[i] = KindOf[j]
    <3>1. OfKind(KindOf[i], T) = OfKind(KindOf[j], S) \cup {j}
      BY <2>1 DEF OfKind
    <3>2. /\ Cardinality(OfKind(KindOf[j], S)) <= Cardinality(OfKind(KindOf[j], active))
          /\ Cardinality(OfKind(KindOf[j], S)) \in Nat
          /\ Cardinality(OfKind(KindOf[j], active)) \in Nat
      BY <1>1, Counted
    <3>3. Cardinality(OfKind(KindOf[j], S) \cup {j}) <= Cardinality(OfKind(KindOf[j], S)) + 1
      BY <1>1, OneMore
    <3>4. Cardinality(OfKind(KindOf[j], S) \cup {j}) \in Nat
      BY <1>1, Counted
    <3>5. KindLimit[KindOf[j]] \in Nat
      BY <1>3
    <3>6. Cardinality(OfKind(KindOf[j], S) \cup {j}) <= KindLimit[KindOf[j]]
      BY <1>2, <3>2, <3>3, <3>4, <3>5
    <3> QED BY <2>1, <3>1, <3>6
  <2>2. CASE KindOf[i] # KindOf[j]
    <3>1. OfKind(KindOf[i], T) = OfKind(KindOf[i], S) /\ i \in S
      BY <2>2 DEF OfKind
    <3> QED BY <3>1 DEF Within
  <2> QED BY <2>1, <2>2
<1>7. ASSUME NEW i \in T, NEW k \in T \ {i} PROVE KeysOf[i] \cap KeysOf[k] = {}
  <2>1. CASE i = j
    BY <1>2, <1>7, <2>1
  <2>2. CASE k = j
    BY <1>2, <1>7, <2>2
  <2>3. CASE i # j /\ k # j
    BY <1>7, <2>3 DEF Within
  <2> QED BY <2>1, <2>2, <2>3
<1> QED BY <1>4, <1>5, <1>6, <1>7 DEF Within

-----------------------------------------------------------------------------
(* What the steps keep.                                                    *)

LEMMA HeldIsJobs == Held \in SUBSET Jobs /\ Running \in SUBSET Jobs
  BY DEF Held, Running

\* The records that run for the pool are what they were, or less.
LEMMA HeldKept ==
  ASSUME IInv, Held' \subseteq Held PROVE HeldWithin'
<1>1. Within(Held')
  BY SubsetWithin, HeldIsJobs DEF IInv, HeldWithin
<1> QED BY <1>1 DEF HeldWithin

LEMMA FileTypes == \A op \in Ops, saw \in Files : Saved(op, saw) \in Files
  BY DEF Ops, Files, States, Saved

\* The steps of control calls, and the tick's that concern the state file, leave jobs alone.
LEMMA JobsKept ==
  ASSUME IInv, UNCHANGED <<status, heldBy>>
  PROVE  HeldRuns' /\ HeldWithin' /\ Held' = Held
<1>1. Held' = Held
  BY DEF Held
<1>2. HeldRuns'
  BY DEF IInv, HeldRuns
<1> QED BY <1>1, <1>2, HeldKept

\* What a step that takes no job for the pool keeps, if it leaves the tick alone.
LEMMA TickKept ==
  ASSUME IInv, Held' \subseteq Held, tick' = tick PROVE PickSeesHeld' /\ IdleSinceMeasured'
  BY DEF IInv, PickSeesHeld, IdleSinceMeasured

Quiet == {"none", "reclaim", "list", "active", "measure", "unpoll"}

LEMMA NoTickKeeps ==
  ASSUME IInv, UNCHANGED <<status, heldBy>>, tick'.at \in Quiet
  PROVE  HeldRuns' /\ HeldWithin' /\ PickSeesHeld' /\ IdleSinceMeasured'
  BY JobsKept DEF PickSeesHeld, IdleSinceMeasured, Quiet

\* A record leaves "running".
LEMMA LeavesKeeps ==
  ASSUME IInv, NEW j \in Jobs, NEW next \in {"queued", "done"}, Leaves(j, next)
  PROVE  /\ status' \in [Jobs -> {"queued", "running", "done"}]
         /\ heldBy' \in [Jobs -> Workers \cup {None}]
         /\ HeldRuns' /\ HeldWithin' /\ Held' \subseteq Held
<1>1. /\ status' \in [Jobs -> {"queued", "running", "done"}]
      /\ \A k \in Jobs : k # j => status'[k] = status[k]
  BY DEF IInv, TypeOK, Leaves
<1>2. /\ heldBy' \in [Jobs -> Workers \cup {None}] /\ heldBy'[j] = None
      /\ \A k \in Jobs : k # j => heldBy'[k] = heldBy[k]
  BY DEF IInv, TypeOK, Leaves
<1>3. HeldRuns'
  BY <1>1, <1>2 DEF IInv, HeldRuns
<1>4. Held' \subseteq Held
  BY <1>2 DEF Held
<1> QED BY <1>1, <1>2, <1>3, <1>4, HeldKept

Ticks == [at : {"none", "reclaim", "list", "active", "pick", "lease", "measure", "check", "stop",
                "unpoll"},
          saw : Files, worker : 1 .. WorkerCount + 1, job : Jobs \cup {None},
          todo : SUBSET Jobs, active : SUBSET Jobs, running : 0 .. Cardinality(Jobs)]
Calls == [op : Ops, at : {"none", "save", "save_again", "tick", "wait"}, saw : Files]

LEMMA Bounds == /\ WorkerCount \in Nat \ {0} /\ Cardinality(Jobs) \in Nat
                /\ NoTick \in Ticks /\ NoCall \in Calls
<1>1. WorkerCount \in Nat \ {0} /\ Cardinality(Jobs) \in Nat
  BY DaemonAssumption, Counted
<1>2. NoCall \in Calls
  BY DEF NoCall, Calls, Ops, Files, States
<1>3. NoTick \in Ticks
  BY <1>1 DEF NoTick, Ticks, Files, States
<1> QED BY <1>1, <1>2, <1>3

LEMMA Types ==
  TypeOK <=>
    /\ file \in Files /\ polling \in BOOLEAN
    /\ status \in [Jobs -> {"queued", "running", "done"}]
    /\ heldBy \in [Jobs -> Workers \cup {None}]
    /\ handles \in [Workers -> Handles \cup {None}] /\ inline \in SUBSET Jobs
    /\ tick \in Ticks /\ call \in [Clients -> Calls]
    /\ calls \in 0 .. MaxCalls /\ alive \in BOOLEAN
  BY DEF TypeOK, Ticks, Calls

\* TickEnds, and a tick that begins.
LEMMA EndTypes == ASSUME TypeOK, TickEnds PROVE tick' = NoTick /\ call' \in [Clients -> Calls]
  BY Bounds, Types DEF TickEnds

LEMMA BeginTypes == ASSUME TypeOK, Begin PROVE tick' \in Ticks /\ tick'.at = "reclaim"
<1>1. NoTick \in Ticks /\ file \in Files /\ Running \in SUBSET Jobs
  BY Bounds, Types, HeldIsJobs
<1> QED BY <1>1 DEF Begin, Ticks

-----------------------------------------------------------------------------
(* The control calls.                                                      *)

LEMMA CallReadsKeeps == ASSUME IInv, NEW c \in Clients, CallReads(c) PROVE IInv'
<1>1. UNCHANGED <<file, polling, status, heldBy, handles, inline, tick, alive>>
  BY DEF CallReads
<1>2. calls' \in 0 .. MaxCalls
  BY DaemonAssumption DEF CallReads, IInv, TypeOK
<1>3. call' \in [Clients -> Calls]
  <2>1. PICK op \in Ops : call' = [call EXCEPT ![c] = [op |-> op, at |-> "save", saw |-> file]]
    BY DEF CallReads
  <2>2. [op |-> op, at |-> "save", saw |-> file] \in Calls
    BY Types DEF IInv, Calls
  <2> QED BY <2>1, <2>2, Types DEF IInv
<1>4. TypeOK'
  BY <1>1, <1>2, <1>3, Types DEF IInv, TypeOK, Calls
<1>5. PickSeesHeld' /\ IdleSinceMeasured'
  BY <1>1, JobsKept, TickKept
<1> QED BY <1>1, <1>4, <1>5, JobsKept DEF IInv

LEMMA CallKeeps == ASSUME IInv, NEW c \in Clients, Call(c) PROVE IInv'
<1>1. UNCHANGED <<polling, status, heldBy, handles, inline, calls, alive>>
  BY DEF Call, CallSaves, CallSavesAgain, CallTicks
<1>2. call[c] \in Calls
  BY Types DEF IInv
<1>3. CASE CallSaves(c) \/ CallSavesAgain(c)
  <2>1. file' = Saved(call[c].op, call[c].saw) /\ tick' = tick
    BY <1>3 DEF CallSaves, CallSavesAgain
  <2>2. file' \in Files
    BY <1>2, <2>1, FileTypes DEF Calls
  <2>3. PICK next \in {[call[c] EXCEPT !.at = "save_again"], [call[c] EXCEPT !.at = "tick"], NoCall} :
          call' = [call EXCEPT ![c] = next]
    BY <1>3 DEF CallSaves, CallSavesAgain
  <2>4. next \in Calls
    BY <1>2, Bounds DEF Calls
  <2>5. call' \in [Clients -> Calls]
    BY <2>3, <2>4, Types DEF IInv
  <2>6. TypeOK'
    BY <1>1, <2>1, <2>2, <2>5 DEF IInv, TypeOK, Calls
  <2>7. PickSeesHeld' /\ IdleSinceMeasured'
    BY <1>1, <2>1, JobsKept, TickKept
  <2> QED BY <1>1, <2>6, <2>7, JobsKept DEF IInv
<1>4. CASE CallTicks(c)
  <2>1. call' \in [Clients -> Calls]
    <3>1. [call[c] EXCEPT !.at = "wait"] \in Calls
      BY <1>2 DEF Calls
    <3> QED BY <1>4, <3>1, Types DEF IInv, CallTicks
  <2>2. file' = file /\ (Begin \/ tick' = tick)
    BY <1>4 DEF CallTicks
  <2>3. CASE Begin
    <3>1. tick' \in Ticks /\ tick'.at = "reclaim"
      BY <2>3, BeginTypes DEF IInv
    <3>2. TypeOK'
      BY <1>1, <2>1, <2>2, <3>1 DEF IInv, TypeOK, Ticks, Calls
    <3> QED BY <1>1, <3>1, <3>2, NoTickKeeps DEF IInv, Quiet
  <2>4. CASE tick' = tick
    <3>1. TypeOK'
      BY <1>1, <2>1, <2>2, <2>4 DEF IInv, TypeOK, Calls
    <3>2. PickSeesHeld' /\ IdleSinceMeasured'
      BY <1>1, <2>4, JobsKept, TickKept
    <3> QED BY <1>1, <3>1, <3>2, JobsKept DEF IInv
  <2> QED BY <2>2, <2>3, <2>4
<1> QED BY <1>3, <1>4 DEF Call

-----------------------------------------------------------------------------
(* The tick.                                                               *)

LEMMA TimerKeeps == IInv /\ TimerTicks => IInv'
<1> SUFFICES ASSUME IInv, TimerTicks PROVE IInv'
  OBVIOUS
<1>1. UNCHANGED <<file, polling, status, heldBy, handles, inline, call, calls, alive>> /\ Begin
  BY DEF TimerTicks
<1>2. tick' \in Ticks /\ tick'.at = "reclaim"
  BY <1>1, BeginTypes DEF IInv
<1>3. TypeOK'
  BY <1>1, <1>2 DEF IInv, TypeOK, Ticks
<1> QED BY <1>1, <1>2, <1>3, NoTickKeeps DEF IInv, Quiet

LEMMA KnownTick == ASSUME IInv PROVE tick \in Ticks
  BY Types DEF IInv

LEMMA ReclaimsKeeps == ASSUME IInv, NEW j \in Jobs, TickReclaims(j) PROVE IInv'
<1>1. /\ UNCHANGED <<file, polling, handles, inline, call, alive>> /\ tick.at = "reclaim"
      /\ tick' = [tick EXCEPT !.active = @ \ {j}]
  BY DEF TickReclaims
<1>2. PICK next \in {"queued", "done"} : Leaves(j, next)
  BY DEF TickReclaims
<1>3. calls' \in 0 .. MaxCalls
  BY DaemonAssumption DEF TickReclaims, IInv, TypeOK
<1>4. tick' \in Ticks /\ tick'.at = "reclaim"
  <2> DEFINE left == tick.active \ {j}
  <2>1. left \in SUBSET Jobs
    BY KnownTick DEF Ticks
  <2>2. tick' = [tick EXCEPT !.active = left]
    BY <1>1
  <2> HIDE DEF left
  <2> QED BY <1>1, <2>1, <2>2, KnownTick DEF Ticks
<1>5. TypeOK'
  BY <1>1, <1>2, <1>3, <1>4, LeavesKeeps DEF IInv, TypeOK, Ticks
<1>6. PickSeesHeld' /\ IdleSinceMeasured'
  BY <1>4 DEF PickSeesHeld, IdleSinceMeasured
<1> QED BY <1>2, <1>5, <1>6, LeavesKeeps DEF IInv

LEMMA ReclaimedKeeps == IInv /\ TickReclaimed => IInv'
<1> SUFFICES ASSUME IInv, TickReclaimed PROVE IInv'
  OBVIOUS
<1>1. UNCHANGED <<file, polling, status, heldBy, handles, inline, call, calls, alive>>
  BY DEF TickReclaimed
<1>2. tick' \in Ticks /\ tick'.at = "list"
  BY KnownTick DEF TickReclaimed, Ticks
<1>3. TypeOK'
  BY <1>1, <1>2 DEF IInv, TypeOK, Ticks
<1> QED BY <1>1, <1>2, <1>3, NoTickKeeps DEF IInv, Quiet

LEMMA ListsKeeps == IInv /\ TickLists => IInv'
<1> SUFFICES ASSUME IInv, TickLists PROVE IInv'
  OBVIOUS
<1>1. UNCHANGED <<file, polling, status, heldBy, handles, inline, call, calls, alive>>
  BY DEF TickLists
<1>2. tick' \in Ticks /\ tick'.at \in {"active", "measure"}
  <2> DEFINE queued == {j \in Jobs : status[j] = "queued"}
  <2>1. queued \in SUBSET Jobs
    OBVIOUS
  <2>2. \/ tick' = [NoTick EXCEPT !.at = "active", !.todo = queued]
        \/ tick' = [NoTick EXCEPT !.at = "measure"]
    BY DEF TickLists
  <2> HIDE DEF queued
  <2> QED BY <2>1, <2>2, Bounds DEF Ticks
<1>3. TypeOK'
  BY <1>1, <1>2 DEF IInv, TypeOK, Ticks
<1> QED BY <1>1, <1>2, <1>3, NoTickKeeps DEF IInv, Quiet

LEMMA HeldRun == ASSUME IInv PROVE Held \subseteq Running
  BY DEF IInv, HeldRuns, Held, Running

LEMMA ListsActiveKeeps == IInv /\ TickListsActive => IInv'
<1> SUFFICES ASSUME IInv, TickListsActive PROVE IInv'
  OBVIOUS
<1>1. UNCHANGED <<file, polling, status, heldBy, handles, inline, call, calls, alive>>
  BY DEF TickListsActive
<1>2. tick' \in Ticks /\ tick'.at = "pick" /\ tick'.active = Running
  BY HeldIsJobs, KnownTick DEF Ticks, TickListsActive
<1>3. TypeOK'
  BY <1>1, <1>2 DEF IInv, TypeOK, Ticks
<1>4. PickSeesHeld' /\ IdleSinceMeasured'
  BY <1>1, <1>2, HeldRun, JobsKept DEF PickSeesHeld, IdleSinceMeasured
<1> QED BY <1>1, <1>3, <1>4, JobsKept DEF IInv

LEMMA PassesKeeps == IInv /\ WorkerPasses => IInv'
<1> SUFFICES ASSUME IInv, WorkerPasses PROVE IInv'
  OBVIOUS
<1>1. UNCHANGED <<file, polling, status, heldBy, handles, inline, call, calls, alive>>
  BY DEF WorkerPasses
<1>2. tick' \in Ticks /\ tick'.at = "pick" /\ tick'.active = tick.active
  <2>1. PICK left \in SUBSET Jobs :
          tick' = [tick EXCEPT !.worker = tick.worker + 1, !.todo = left]
    <3>1. tick.todo \in SUBSET Jobs /\ {} \in SUBSET Jobs
      BY KnownTick DEF Ticks
    <3> QED BY <3>1 DEF WorkerPasses
  <2>2. tick.worker + 1 \in 1 .. WorkerCount + 1
    BY Bounds DEF WorkerPasses, Workers
  <2> QED BY <2>1, <2>2, KnownTick DEF Ticks, WorkerPasses
<1>3. TypeOK'
  BY <1>1, <1>2 DEF IInv, TypeOK, Ticks
<1>4. PickSeesHeld' /\ IdleSinceMeasured'
  BY <1>1, <1>2, JobsKept DEF IInv, PickSeesHeld, IdleSinceMeasured, WorkerPasses
<1> QED BY <1>1, <1>3, <1>4, JobsKept DEF IInv

LEMMA TakesKeeps == IInv /\ WorkerTakes => IInv'
<1> SUFFICES ASSUME IInv, WorkerTakes PROVE IInv'
  OBVIOUS
<1> DEFINE w == tick.worker
<1>1. tick.at = "pick" /\ w \in Workers
  BY DEF WorkerTakes
<1>2. UNCHANGED <<file, polling, handles, inline, call, calls, alive>>
  BY DEF WorkerTakes
<1>3. PICK j \in Candidates :
        /\ status[j] = "queued"
        /\ status' = [status EXCEPT ![j] = "running"]
        /\ heldBy' = [heldBy EXCEPT ![j] = w]
        /\ tick' = [tick EXCEPT !.at = "lease", !.job = j, !.todo = Candidates \ {j}]
  BY DEF WorkerTakes
<1>4. /\ j \in Jobs /\ Allowed(j, tick.active) /\ Candidates \in SUBSET Jobs
      /\ tick.active \in SUBSET Jobs /\ w # None
  BY <1>1, KnownTick, DaemonAssumption DEF Candidates, Ticks
<1>5. /\ tick' \in Ticks /\ tick'.at = "lease" /\ tick'.active = tick.active
      /\ tick'.job = j /\ tick'.worker = w
  <2> DEFINE left == Candidates \ {j}
  <2>1. left \in SUBSET Jobs
    BY <1>4
  <2>2. tick' = [tick EXCEPT !.at = "lease", !.job = j, !.todo = left]
    BY <1>3
  <2> HIDE DEF left
  <2> QED BY <1>4, <2>1, <2>2, KnownTick DEF Ticks
<1>6. /\ heldBy' \in [Jobs -> Workers \cup {None}] /\ heldBy'[j] = w
      /\ \A k \in Jobs : k # j => heldBy'[k] = heldBy[k]
  BY <1>1, <1>3, <1>4 DEF IInv, TypeOK
<1>7. /\ status' \in [Jobs -> {"queued", "running", "done"}] /\ status'[j] = "running"
      /\ \A k \in Jobs : k # j => status'[k] = status[k]
  BY <1>3, <1>4 DEF IInv, TypeOK
<1> HIDE DEF w
<1>8. TypeOK'
  BY <1>2, <1>5, <1>6, <1>7 DEF IInv, TypeOK, Ticks
<1>9. Held' = Held \cup {j}
  BY <1>4, <1>6 DEF Held
<1>10. HeldRuns'
  BY <1>6, <1>7 DEF IInv, HeldRuns
<1>11. HeldWithin'
  <2>1. Held \in SUBSET tick.active
    BY <1>1 DEF IInv, PickSeesHeld
  <2>2. Within(Held \cup {j})
    BY <1>4, <2>1, AllowedWithin DEF IInv, HeldWithin
  <2> QED BY <1>9, <2>2 DEF HeldWithin
<1>12. PickSeesHeld' /\ IdleSinceMeasured'
  BY <1>1, <1>4, <1>5, <1>9 DEF IInv, PickSeesHeld, IdleSinceMeasured
<1> QED BY <1>8, <1>10, <1>11, <1>12 DEF IInv

LEMMA BeginsKeeps == IInv /\ WorkerBegins => IInv'
<1> SUFFICES ASSUME IInv, WorkerBegins PROVE IInv'
  OBVIOUS
<1>1. /\ UNCHANGED <<file, polling, status, heldBy, inline, call, calls, alive>>
      /\ tick.at = "lease" /\ tick.job \in Jobs /\ tick.worker \in Workers
      /\ Held \subseteq tick.active \cup {tick.job}
  BY DEF WorkerBegins, IInv, PickSeesHeld
<1>2. handles' \in [Workers -> Handles \cup {None}]
  <2>1. [job |-> tick.job, settled |-> FALSE] \in Handles
    BY <1>1 DEF Handles
  <2> QED BY <2>1 DEF WorkerBegins, IInv, TypeOK
<1>3. /\ tick' \in Ticks /\ tick'.at = "pick"
      /\ tick'.active = tick.active \cup {tick.job}
  <2> DEFINE more == tick.active \cup {tick.job}
             next == tick.worker + 1
  <2>1. more \in SUBSET Jobs
    BY <1>1, KnownTick DEF Ticks
  <2>2. next \in 1 .. WorkerCount + 1
    BY <1>1, Bounds DEF Workers
  <2>3. tick' = [tick EXCEPT !.at = "pick", !.worker = next, !.job = None, !.active = more]
    BY DEF WithStarted, WorkerBegins
  <2> HIDE DEF next
  <2>4. tick' \in Ticks /\ tick'.at = "pick" /\ tick'.active = more
    <3> HIDE DEF more
    <3> QED BY <2>1, <2>2, <2>3, KnownTick DEF Ticks
  <2> QED BY <2>4
<1>4. TypeOK'
  BY <1>1, <1>2, <1>3 DEF IInv, TypeOK, Ticks
<1>5. PickSeesHeld' /\ IdleSinceMeasured'
  BY <1>1, <1>3, JobsKept DEF PickSeesHeld, IdleSinceMeasured
<1> QED BY <1>1, <1>4, <1>5, JobsKept DEF IInv

LEMMA FailsKeeps == IInv /\ TickFails => IInv'
<1> SUFFICES ASSUME IInv, TickFails PROVE IInv'
  OBVIOUS
<1>1. /\ UNCHANGED <<file, polling, status, heldBy, handles, inline, calls>> /\ alive' \in BOOLEAN
      /\ tick' = NoTick /\ call' \in [Clients -> Calls]
  BY EndTypes DEF TickFails, IInv
<1>2. TypeOK'
  BY <1>1, Bounds DEF IInv, TypeOK, Ticks, Calls
<1>3. tick'.at = "none"
  BY <1>1 DEF NoTick
<1> QED BY <1>1, <1>2, <1>3, NoTickKeeps DEF IInv, Quiet

LEMMA MeasuresKeeps == IInv /\ TickMeasures => IInv'
<1> SUFFICES ASSUME IInv, TickMeasures PROVE IInv'
  OBVIOUS
<1>1. UNCHANGED <<file, polling, status, heldBy, handles, inline, call, calls, alive>>
  BY DEF TickMeasures
<1> DEFINE n == Cardinality(Running)
<1>2. Running \in SUBSET Jobs /\ n \in 0 .. Cardinality(Jobs) /\ (n = 0 => Running = {})
  BY Counted, Bounds DEF Running
<1>3. tick' = [NoTick EXCEPT !.at = "check", !.running = n]
  BY DEF TickMeasures
<1> HIDE DEF n
<1>4. tick' \in Ticks /\ tick'.at = "check" /\ tick'.running = n
  BY <1>2, <1>3, Bounds DEF Ticks
<1>5. TypeOK'
  BY <1>1, <1>4 DEF IInv, TypeOK, Ticks
<1>6. Held \subseteq Running
  BY HeldRun
<1>7. PickSeesHeld' /\ IdleSinceMeasured'
  BY <1>1, <1>2, <1>4, <1>6, JobsKept DEF PickSeesHeld, IdleSinceMeasured
<1> QED BY <1>1, <1>5, <1>7, JobsKept DEF IInv

LEMMA ChecksKeeps == IInv /\ TickChecks => IInv'
<1> SUFFICES ASSUME IInv, TickChecks PROVE IInv'
  OBVIOUS
<1>1. /\ UNCHANGED <<file, polling, status, heldBy, handles, inline, calls, alive>>
      /\ tick.at = "check"
  BY DEF TickChecks
<1>2. CASE Drained /\ tick' = [tick EXCEPT !.at = "stop", !.saw = file] /\ UNCHANGED call
  <2>1. file \in Files
    BY DEF IInv, TypeOK
  <2>2. tick' \in Ticks /\ tick'.at = "stop"
    BY <1>2, <2>1, KnownTick DEF Ticks
  <2>3. TypeOK'
    BY <1>1, <1>2, <2>2 DEF IInv, TypeOK, Ticks
  <2>4. Held = {}
    BY <1>1, <1>2 DEF Drained, IInv, IdleSinceMeasured
  <2>5. PickSeesHeld' /\ IdleSinceMeasured'
    BY <1>1, <2>2, <2>4, JobsKept DEF PickSeesHeld, IdleSinceMeasured
  <2> QED BY <1>1, <2>3, <2>5, JobsKept DEF IInv
<1>3. CASE TickEnds
  <2>1. tick' = NoTick /\ call' \in [Clients -> Calls]
    BY <1>3, EndTypes DEF IInv
  <2>2. TypeOK'
    BY <1>1, <2>1, Bounds DEF IInv, TypeOK, Ticks, Calls
  <2>3. tick'.at = "none"
    BY <2>1 DEF NoTick
  <2> QED BY <1>1, <2>2, <2>3, NoTickKeeps DEF IInv, Quiet
<1> QED BY <1>2, <1>3 DEF TickChecks

LEMMA StopsKeeps == IInv /\ (TickStops \/ TickStopsPolling) => IInv'
<1> SUFFICES ASSUME IInv, TickStops \/ TickStopsPolling PROVE IInv'
  OBVIOUS
<1>1. UNCHANGED <<status, heldBy, handles, inline, calls, alive>>
  BY DEF TickStops, TickStopsPolling
<1>2. CASE TickStops
  <2>1. /\ file' = [tick.saw EXCEPT !.state = "stopped"] /\ tick' = [tick EXCEPT !.at = "unpoll"]
        /\ UNCHANGED <<polling, call>>
    BY <1>2 DEF TickStops
  <2>2. tick' \in Ticks /\ tick'.at = "unpoll"
    BY <2>1, KnownTick DEF Ticks
  <2>3. file' \in Files
    BY <2>1, KnownTick DEF Ticks, Files, States
  <2>4. TypeOK'
    BY <1>1, <2>1, <2>2, <2>3 DEF IInv, TypeOK, Ticks
  <2> QED BY <1>1, <2>2, <2>4, NoTickKeeps DEF IInv, Quiet
<1>3. CASE TickStopsPolling
  <2>1. file' = file /\ polling' = FALSE /\ tick' = NoTick /\ call' \in [Clients -> Calls]
    BY <1>3, EndTypes DEF IInv, TickStopsPolling
  <2>2. TypeOK'
    BY <1>1, <2>1, Bounds DEF IInv, TypeOK, Ticks, Calls
  <2>3. tick'.at = "none"
    BY <2>1 DEF NoTick
  <2> QED BY <1>1, <2>2, <2>3, NoTickKeeps DEF IInv, Quiet
<1> QED BY <1>2, <1>3

-----------------------------------------------------------------------------
(* Jobs.                                                                   *)

LEMMA SettlesKeeps == ASSUME IInv, NEW w \in Workers, JobSettles(w) PROVE IInv'
<1> DEFINE j == handles[w].job
<1>1. /\ UNCHANGED <<file, polling, inline, tick, call, calls, alive>>
      /\ handles[w] \in Handles /\ j \in Jobs
  BY DEF JobSettles, IInv, TypeOK, Handles
<1>2. PICK next \in {"done", "queued"} : Leaves(j, next)
  BY DEF JobSettles
<1>3. handles' \in [Workers -> Handles \cup {None}]
  <2>1. [handles[w] EXCEPT !.settled = TRUE] \in Handles
    BY <1>1 DEF Handles
  <2> QED BY <2>1 DEF JobSettles, IInv, TypeOK
<1> HIDE DEF j
<1>4. TypeOK'
  BY <1>1, <1>2, <1>3, LeavesKeeps DEF IInv, TypeOK
<1> QED BY <1>1, <1>2, <1>4, LeavesKeeps, TickKept DEF IInv

LEMMA EndsKeeps ==
  ASSUME IInv, NEW w \in Workers, SettleFails(w) \/ HandleEnds(w) PROVE IInv'
<1>1. UNCHANGED <<file, polling, status, heldBy, inline, tick, call, calls>> /\ alive' \in BOOLEAN
  BY DEF SettleFails, HandleEnds, IInv, TypeOK
<1>2. handles' \in [Workers -> Handles \cup {None}]
  BY DEF SettleFails, HandleEnds, IInv, TypeOK
<1>3. TypeOK'
  BY <1>1, <1>2 DEF IInv, TypeOK
<1> QED BY <1>1, <1>3, JobsKept, TickKept DEF IInv

\* Jobs that the API runs are none of the pool's.
LEMMA InlineStartsKeeps == ASSUME IInv, NEW j \in Jobs, InlineStarts(j) PROVE IInv'
<1>1. UNCHANGED <<file, polling, heldBy, handles, tick, call, alive>> /\ heldBy[j] = None
  BY DEF InlineStarts, IInv, HeldRuns
<1>2. /\ status' \in [Jobs -> {"queued", "running", "done"}]
      /\ \A k \in Jobs : k # j => status'[k] = status[k]
  BY DEF InlineStarts, IInv, TypeOK
<1>3. calls' \in 0 .. MaxCalls /\ inline' \in SUBSET Jobs
  BY DaemonAssumption DEF InlineStarts, IInv, TypeOK
<1>4. Held' = Held
  BY <1>1 DEF Held
<1>5. TypeOK'
  BY <1>1, <1>2, <1>3 DEF IInv, TypeOK
<1>6. HeldRuns'
  BY <1>1, <1>2 DEF IInv, HeldRuns
<1> QED BY <1>1, <1>4, <1>5, <1>6, HeldKept, TickKept DEF IInv

LEMMA TakenKeeps == ASSUME IInv, NEW j \in Jobs, InlineEnds(j) \/ ApiTakes(j) PROVE IInv'
<1>1. UNCHANGED <<file, polling, handles, tick, call, alive>>
  BY DEF InlineEnds, ApiTakes
<1>2. PICK next \in {"done", "queued"} : Leaves(j, next)
  BY DEF InlineEnds, ApiTakes
<1>3. calls' \in 0 .. MaxCalls /\ inline' \in SUBSET Jobs
  BY DaemonAssumption DEF InlineEnds, ApiTakes, IInv, TypeOK
<1>4. TypeOK'
  BY <1>1, <1>2, <1>3, LeavesKeeps DEF IInv, TypeOK
<1> QED BY <1>1, <1>2, <1>4, LeavesKeeps, TickKept DEF IInv

-----------------------------------------------------------------------------
(* The theorems.                                                           *)

LEMMA Initially == Init => IInv
<1> SUFFICES ASSUME Init PROVE IInv
  OBVIOUS
<1>1. TypeOK
  <2>1. NoTick \in Ticks /\ NoCall \in Calls
    BY Bounds
  <2>2. tick \in Ticks /\ call \in [Clients -> Calls]
    BY <2>1 DEF Init
  <2>3. calls \in 0 .. MaxCalls
    BY DaemonAssumption DEF Init
  <2> QED BY <2>2, <2>3 DEF Init, TypeOK, Ticks, Calls, Files, States
<1>2. Held = {}
  BY DEF Init, Held
<1>3. HeldRuns
  BY DEF Init, HeldRuns
<1>4. HeldWithin
  <2>1. Cardinality({}) = 0
    BY FS_EmptySet
  <2> QED BY <1>2, <2>1, DaemonAssumption DEF HeldWithin, Within
<1>5. PickSeesHeld /\ IdleSinceMeasured
  BY <1>2 DEF Init, NoTick, PickSeesHeld, IdleSinceMeasured
<1> QED BY <1>1, <1>3, <1>4, <1>5 DEF IInv

LEMMA Preserved == IInv /\ [Next]_vars => IInv'
<1> SUFFICES ASSUME IInv, [Next]_vars PROVE IInv'
  OBVIOUS
<1>1. CASE UNCHANGED vars
  <2>1. TypeOK'
    BY <1>1 DEF vars, IInv, TypeOK
  <2> QED BY <1>1, <2>1, JobsKept, TickKept DEF vars, IInv
<1>2. CASE TimerTicks \/ Tick
  BY <1>2, TimerKeeps, ReclaimedKeeps, ListsKeeps, ListsActiveKeeps, PassesKeeps, TakesKeeps,
     BeginsKeeps, FailsKeeps, MeasuresKeeps, ChecksKeeps, StopsKeeps DEF Tick
<1>3. CASE \E c \in Clients : CallReads(c) \/ Call(c)
  BY <1>3, CallReadsKeeps, CallKeeps
<1>4. CASE \E w \in Workers : JobSettles(w) \/ SettleFails(w) \/ HandleEnds(w)
  BY <1>4, SettlesKeeps, EndsKeeps
<1>5. CASE \E j \in Jobs : TickReclaims(j) \/ InlineStarts(j) \/ InlineEnds(j) \/ ApiTakes(j)
  BY <1>5, ReclaimsKeeps, InlineStartsKeeps, TakenKeeps
<1> QED BY <1>1, <1>2, <1>3, <1>4, <1>5 DEF Next

LEMMA Inductive == Spec => []IInv
<1> QED BY Initially, Preserved, PTL DEF Spec

\* The types of DaemonControl.
THEOREM ControlTypeOK == Spec => []TypeOK
<1>1. IInv => TypeOK
  BY DEF IInv
<1> QED BY <1>1, Inductive, PTL

\* The jobs that run for the pool by their records are never more, of all, of one run or of one
\* kind, than the limits say, nor share a concurrency key, although the cycle lists the active
\* jobs once and drainRun, retries and reclaims start, end and take jobs meanwhile.
THEOREM PoolKeepsLimits == Spec => []LimitsRespected
<1>1. IInv => LimitsRespected
  BY DEF IInv, HeldWithin, Within, LimitsRespected
<1> QED BY <1>1, Inductive, PTL

\* maybeFinalizeDraining writes "stopped" only when no record runs for a worker, whatever calls
\* have written the state since the tick measured; what a worker still has to do then is to
\* leave a job that it has settled or lost.
THEOREM StoppedDaemonIsIdle == Spec => StoppedIsIdle
<1>1. IInv /\ [Next]_vars => [file'.state = "stopped" /\ file.state # "stopped" => Held' = {}]_vars
  <2> SUFFICES ASSUME IInv, Next, file'.state = "stopped", file.state # "stopped"
               PROVE  Held' = {}
    OBVIOUS
  <2>1. file' # file
    OBVIOUS
  <2>2. CASE TickStops
    <3>1. Held = {} /\ heldBy' = heldBy
      BY <2>2 DEF TickStops, IInv, IdleSinceMeasured
    <3> QED BY <3>1 DEF Held
  <2>3. ASSUME NEW c \in Clients, CallSaves(c) \/ CallSavesAgain(c) PROVE FALSE
    <3>1. call[c] \in Calls /\ file' = Saved(call[c].op, call[c].saw)
      BY <2>3, Types DEF IInv, CallSaves, CallSavesAgain
    <3>2. \A op \in Ops, saw \in Files : Saved(op, saw).state # "stopped"
      BY DEF Ops, Files, States, Saved
    <3> QED BY <3>1, <3>2 DEF Calls
  <2> QED BY <2>1, <2>2, <2>3 DEF Next, TimerTicks, Tick, TickReclaimed, TickLists,
        TickListsActive, WorkerPasses, WorkerTakes, WorkerBegins, TickFails, TickMeasures, TickChecks,
        TickStopsPolling, CallReads, Call, CallTicks, JobSettles, SettleFails, HandleEnds,
        TickReclaims, InlineStarts, InlineEnds, ApiTakes
<1> QED BY <1>1, Inductive, PTL DEF Spec, StoppedIsIdle
=============================================================================
