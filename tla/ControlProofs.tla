--------------------------- MODULE ControlProofs ---------------------------
(***************************************************************************)
(* What a pair under the control plane keeps for every set of files, every *)
(* guarded direction and every bound: the state is well typed, both halves *)
(* of PlanSlot are mailboxes, a pass that applies a reviewed plan does     *)
(* nothing else, and a resync survives the loss of the folder.             *)
(***************************************************************************)
EXTENDS Control, TLAPS

USE DEF Folders, NoFolder

(* A pass that applies a plan has only actions of that plan left to do,    *)
(* and only a pass has any, or has spent the resync.                       *)
OfToken ==
  /\ phase = "run" /\ intent # Sync => todo \subseteq intent.token
  /\ phase # "run" => todo = {} /\ spent = {}
  /\ walking => phase \in {"scan", "run"}

IInv == TypeOK /\ OfToken

(* What stands for no apply is well typed.                                 *)
LEMMA SyncIntent == Sync \in Intents /\ Sync.seq = 0 /\ ~Sync.skip
  BY DEF Sync, Intents

(* A plan is a set of actions, and its deletions are destructive actions.  *)
LEMMA PlanTyped ==
  ASSUME NEW l \in SUBSET Items, NEW c \in SUBSET Items, NEW r \in SUBSET Items
  PROVE  Plan(l, c, r) \subseteq Actions
<1> SUFFICES ASSUME NEW a \in Plan(l, c, r) PROVE a \in Actions
  OBVIOUS
<1>1. \A x \in Items : \A k \in Kinds : <<k, x>> \in Actions
  BY DEF Actions
<1> QED
  BY <1>1 DEF Plan, Kinds

LEMMA DestructiveActions == Destructive \subseteq Actions
  BY DEF Destructive, Actions, Kinds

LEMMA InitTyped == Init /\ SparesAssumption => IInv
<1> SUFFICES ASSUME Init, SparesAssumption PROVE IInv
  OBVIOUS
<1>1. WorldTyped
  BY BoundsAssumption DEF Init, SparesAssumption, WorldTyped
<1>2. IndexTyped /\ MemoryTyped
  BY DEF Init, IndexTyped, MemoryTyped
<1>3. PassTyped
  BY SyncIntent DEF Init, PassTyped
<1>4. PlansCounted /\ AppliesCounted
  BY SyncIntent DEF Init, PlansCounted, AppliesCounted
<1>5. OfToken
  BY DEF Init, OfToken
<1> QED
  BY <1>1, <1>2, <1>3, <1>4, <1>5 DEF IInv, TypeOK

-----------------------------------------------------------------------------
(* Both sides of the pair and the folder at the path.                      *)
LEMMA WorldKept == WorldTyped /\ UNCHANGED <<world, seen, left>> => WorldTyped'
  BY DEF WorldTyped, world

LEMMA IndexKept == IndexTyped /\ UNCHANGED index => IndexTyped'
  BY DEF IndexTyped, index

LEMMA PassKept ==
  PassTyped /\ OfToken /\ UNCHANGED <<pass, slot>> => PassTyped' /\ OfToken'
  BY DEF PassTyped, OfToken, pass

LEMMA PlansKept == PlansCounted /\ UNCHANGED <<plans, phase, claimed>> => PlansCounted'
  BY DEF PlansCounted, plans

LEMMA AppliesKept == AppliesCounted /\ UNCHANGED <<applies, intent>> => AppliesCounted'
  BY DEF AppliesCounted, applies

LEMMA EventTyped == left \in Nat /\ Event => left' \in Nat
  BY DEF Event

LEMMA WorldSteps == IInv /\ World => IInv'
<1> SUFFICES ASSUME IInv, World PROVE IInv'
  OBVIOUS
<1> USE DEF IInv, TypeOK
<1>1. /\ UNCHANGED <<index, root, latches, plans, applies, jobs, pending, pass, seen>>
      /\ Event
  BY DEF World, EditLocal, EditRemote, Swap
<1>2. /\ here' \in Folders \cup {NoFolder}
      /\ content' \in [Folders -> SUBSET Items] /\ remote' \subseteq Items
  <2>1. \A set \in SUBSET Items, x \in Items : Toggle(set, x) \in SUBSET Items
    BY DEF Toggle
  <2>2. CASE EditLocal
    <3>1. here \in Folders
      BY <2>2 DEF EditLocal, WorldTyped
    <3> QED
      BY <2>1, <2>2, <3>1 DEF EditLocal, WorldTyped
  <2>3. CASE EditRemote
    BY <2>1, <2>3 DEF EditRemote, WorldTyped
  <2>4. CASE Swap
    BY <2>4 DEF Swap, WorldTyped
  <2> QED
    BY <2>2, <2>3, <2>4 DEF World
<1>3. WorldTyped'
  BY <1>1, <1>2, EventTyped DEF WorldTyped
<1>4. MemoryTyped'
  BY <1>1 DEF MemoryTyped, root, latches, plans
<1> QED
  BY <1>1, <1>3, <1>4, IndexKept, PassKept, PlansKept, AppliesKept DEF root, pass

-----------------------------------------------------------------------------
(* Commands and timers.                                                    *)
LEMMA CommandSteps == IInv /\ (Commands \/ Tick) => IInv'
<1> SUFFICES ASSUME IInv, Commands \/ Tick PROVE IInv'
  OBVIOUS
<1> USE DEF IInv, TypeOK
<1>1. UNCHANGED <<world, root, pending, pass, seen>>
  BY DEF Commands, Tick, Pause, Resume, Resync, ResetIndex, Approve, RequestPlan,
         RequestApply, SetPaused
<1>2. WorldTyped'
  <2>1. left' \in Nat
    BY EventTyped DEF Commands, Tick, Pause, Resume, Resync, ResetIndex, Approve,
                      RequestPlan, RequestApply, WorldTyped
  <2> QED
    BY <1>1, <2>1 DEF WorldTyped, world
<1>3. IndexTyped'
  <2>1. CASE Pause \/ Resume
    BY <2>1 DEF Pause, Resume, SetPaused, IndexTyped
  <2>2. CASE Approve
    BY <2>2 DEF Approve, IndexTyped, MemoryTyped
  <2>3. CASE Resync \/ ResetIndex \/ RequestPlan \/ RequestApply \/ Tick
    BY <2>3, IndexKept DEF Resync, ResetIndex, RequestPlan, RequestApply, Tick
  <2> QED
    BY <2>1, <2>2, <2>3 DEF Commands
<1>4. MemoryTyped'
  <2>1. UNCHANGED <<known, force, slot, pending, stored>>
    BY <1>1 DEF root, plans, Commands, Tick, Pause, Resume, Resync, ResetIndex, Approve,
                RequestPlan, RequestApply, SetPaused
  <2>2. jobs' \subseteq {"sync", "plan"}
    BY DEF Commands, Tick, Pause, Resume, Resync, ResetIndex, Approve, RequestPlan,
           RequestApply, SetPaused, Due, DueUnlessPaused, MemoryTyped
  <2>3. paused' \in BOOLEAN /\ walk' \in BOOLEAN /\ reset' \in BOOLEAN
    BY DEF Commands, Tick, Pause, Resume, Resync, ResetIndex, Approve, RequestPlan,
           RequestApply, SetPaused, latches, MemoryTyped
  <2> QED
    BY <2>1, <2>2, <2>3 DEF MemoryTyped
<1>5. PassTyped' /\ OfToken'
  BY <1>1, PassKept DEF root
<1>6. PlansCounted'
  <2>1. CASE RequestPlan
    BY <2>1, <1>1 DEF RequestPlan, PlansCounted, pass
  <2>2. CASE ~RequestPlan
    <3>1. UNCHANGED plans
      BY <2>2 DEF Commands, Tick, Pause, Resume, Resync, ResetIndex, Approve, RequestApply,
                  SetPaused
    <3> QED
      BY <3>1, <1>1, PlansKept DEF pass
  <2> QED
    BY <2>1, <2>2
<1>7. AppliesCounted'
  <2>1. CASE RequestApply
    <3>1. PICK token \in stored, skip \in BOOLEAN :
            queued' = {[seq |-> applyRequested + 1, token |-> token, skip |-> skip]}
      BY <2>1 DEF RequestApply
    <3>2. [seq |-> applyRequested + 1, token |-> token, skip |-> skip] \in Intents
      BY <3>1 DEF Intents, AppliesCounted, MemoryTyped
    <3>3. applyRequested' = applyRequested + 1 /\ UNCHANGED <<applyCompleted, intent>>
      BY <2>1, <1>1 DEF RequestApply, pass
    <3>4. intent.seq <= applyRequested
      BY SyncIntent DEF AppliesCounted
    <3>5. intent.seq \in Nat
      BY DEF PassTyped, Intents
    <3> QED
      BY <3>1, <3>2, <3>3, <3>4, <3>5 DEF AppliesCounted
  <2>2. CASE ~RequestApply
    <3>1. UNCHANGED applies
      BY <2>2 DEF Commands, Tick, Pause, Resume, Resync, ResetIndex, Approve, RequestPlan,
                  SetPaused
    <3> QED
      BY <3>1, <1>1, AppliesKept DEF pass
  <2> QED
    BY <2>1, <2>2
<1> QED
  BY <1>2, <1>3, <1>4, <1>5, <1>6, <1>7

-----------------------------------------------------------------------------
(* The ways a pass or a plan job leaves what it was asked.                 *)

(* The apply a pass carried is answered as the pass ends.                  *)
LEMMA ApplySealed ==
  ASSUME AppliesCounted, intent \in Intents, SealApply({intent}), intent' = Sync,
         UNCHANGED <<applyRequested, queued>>
  PROVE  AppliesCounted'
<1>1. intent.seq \in Nat
  BY DEF Intents
<1>2. CASE intent.seq > 0
  <2>1. intent # Sync
    BY <1>2, SyncIntent
  <2>2. applyCompleted' = intent.seq
    BY <1>2 DEF SealApply
  <2> QED
    BY <2>1, <2>2, <1>1, SyncIntent DEF AppliesCounted, Intents
<1>3. CASE ~(intent.seq > 0)
  <2>1. UNCHANGED applyCompleted
    BY <1>3 DEF SealApply
  <2> QED
    BY <2>1, SyncIntent DEF AppliesCounted, Intents
<1> QED
  BY <1>2, <1>3

(* An apply that is queued is answered without a pass.                     *)
LEMMA ApplyDropped ==
  ASSUME AppliesCounted, SealApply(queued), queued' = {}, intent = Sync,
         UNCHANGED <<applyRequested, intent>>
  PROVE  AppliesCounted'
<1>1. CASE \E i \in queued : i.seq > 0
  <2>1. PICK i \in queued : applyCompleted' = i.seq
    BY <1>1 DEF SealApply
  <2> QED
    BY <2>1 DEF AppliesCounted
<1>2. CASE ~\E i \in queued : i.seq > 0
  BY <1>2 DEF SealApply, AppliesCounted
<1> QED
  BY <1>1, <1>2

(* The plan half is idle before and after.                                 *)
LEMMA NoPlanStep ==
  ASSUME PlansCounted, UNCHANGED <<requested, completed, claimed>>,
         phase # "plan", phase' # "plan"
  PROVE  PlansCounted'
  BY DEF PlansCounted

(* Nothing is left of a pass that is over.                                 *)
LEMMA PassEmptied ==
  ASSUME phase' = "idle", intent' = Sync, walking' = FALSE, settles' = FALSE,
         todo' = {}, put' = {}, drop' = {}, spent' = {}
  PROVE  PassTyped' /\ OfToken'
  BY SyncIntent DEF PassTyped, OfToken

LEMMA Committed == IndexTyped /\ put \subseteq Items /\ Commit /\ UNCHANGED saved => IndexTyped'
  BY DEF IndexTyped, Commit

(* A pass cut short by its folder, or by a failing call.                   *)
LEMMA CutSteps == IInv /\ (RootLost \/ Abort \/ Idle) => IInv'
<1> SUFFICES ASSUME IInv, RootLost \/ Abort \/ Idle PROVE IInv'
  OBVIOUS
<1> USE DEF IInv, TypeOK
<1>1. PassOver
  BY DEF RootLost, Abort, Idle
<1>2. phase # "plan"
  BY DEF RootLost, Abort, Idle
<1>3. WorldTyped'
  BY <1>1, EventTyped, WorldKept DEF RootLost, Abort, Idle, PassOver, WorldTyped, world
<1>4. IndexTyped'
  BY Committed, IndexKept DEF RootLost, Abort, Idle, PassTyped
<1>5. MemoryTyped'
  BY <1>1 DEF RootLost, Abort, Idle, PassOver, MemoryTyped, root, plans, PassTyped
<1>6. PassTyped' /\ OfToken'
  BY <1>1, PassEmptied DEF PassOver
<1>7. PlansCounted'
  BY <1>1, <1>2, NoPlanStep DEF PassOver, plans
<1>8. AppliesCounted'
  BY <1>1, ApplySealed DEF PassOver, PassTyped
<1> QED
  BY <1>3, <1>4, <1>5, <1>6, <1>7, <1>8

LEMMA DivergeStep == IInv /\ Diverge => IInv'
<1> SUFFICES ASSUME IInv, Diverge PROVE IInv'
  OBVIOUS
<1> USE DEF IInv, TypeOK
<1>1. Fresh \subseteq Actions
  BY PlanTyped DEF Fresh, WorldTyped, IndexTyped, MemoryTyped
<1>2. WorldTyped'
  BY DEF Diverge, Scanned, WorldTyped, MemoryTyped, world
<1>3. IndexTyped'
  BY IndexKept DEF Diverge
<1>4. MemoryTyped'
  BY <1>1 DEF Diverge, MemoryTyped, root, latches
<1>5. PassTyped' /\ OfToken'
  BY SyncIntent DEF Diverge, PassTyped, OfToken, root
<1>6. PlansCounted'
  BY NoPlanStep DEF Diverge
<1>7. AppliesCounted'
  BY ApplySealed DEF Diverge, PassTyped
<1> QED
  BY <1>2, <1>3, <1>4, <1>5, <1>6, <1>7

(* A sync job begins, or is turned away.                                   *)
LEMMA ExaminedTyped ==
  ASSUME WorldTyped, MemoryTyped
  PROVE  Examined \in [slot : {"ready", "held", "closed"}, known : Folders, force : BOOLEAN]
<1> DEFINE Slots == [slot : {"ready", "held", "closed"}, known : Folders, force : BOOLEAN]
<1>1. Standing \in Slots
  BY DEF Standing, MemoryTyped
<1>2. \A f \in Folders, b \in BOOLEAN : Ready(f, b) \in Slots
  BY DEF Ready
<1>3. ExamineReady \in Slots
  BY <1>1, <1>2 DEF ExamineReady, WorldTyped
<1>4. ASSUME NEW s \in Slots PROVE RetryUnavailable(s) \in Slots
  BY <1>2 DEF RetryUnavailable, Judged, Lifted, WorldTyped
<1> QED
  BY <1>1, <1>3, <1>4 DEF Examined

LEMMA StartSyncStep == IInv /\ StartSync => IInv'
<1> SUFFICES ASSUME IInv, StartSync PROVE IInv'
  OBVIOUS
<1> USE DEF IInv, TypeOK
<1>1. PICK now \in [slot : {"ready", "held", "closed"}, known : Folders, force : BOOLEAN] :
        /\ slot' = now.slot /\ known' = now.known /\ force' = now.force
        /\ saved' = SaveFlags(now)
        /\ now = IF paused THEN Standing ELSE Examined
        /\ IF now.slot = "ready" /\ ~paused
           THEN phase' = "top" /\ UNCHANGED <<applyCompleted, queued>>
           ELSE DropApply
  <2>1. Standing \in [slot : {"ready", "held", "closed"}, known : Folders, force : BOOLEAN]
    BY DEF Standing, MemoryTyped
  <2> QED
    BY <2>1, ExaminedTyped DEF StartSync
<1>2. WorldTyped'
  BY DEF StartSync, WorldTyped, world
<1>3. IndexTyped'
  BY <1>1 DEF StartSync, SaveFlags, IndexTyped, MemoryTyped
<1>4. MemoryTyped'
  BY <1>1 DEF StartSync, MemoryTyped, latches, plans
<1>5. intent = Sync /\ UNCHANGED intent
  BY DEF StartSync, PassTyped
<1>6. phase' \in {"idle", "top"} /\ (phase' = "top" => slot' = "ready")
  BY <1>1 DEF StartSync, DropApply
<1>7. PassTyped' /\ OfToken'
  BY <1>5, <1>6 DEF StartSync, PassTyped, OfToken
<1>8. PlansCounted'
  BY <1>6, NoPlanStep DEF StartSync, plans
<1>9. AppliesCounted'
  <2>1. CASE UNCHANGED <<applyCompleted, queued>>
    BY <2>1, <1>5 DEF StartSync, AppliesCounted
  <2>2. CASE DropApply
    BY <2>2, <1>5, ApplyDropped DEF StartSync, DropApply
  <2> QED
    BY <1>1, <2>1, <2>2
<1> QED
  BY <1>2, <1>3, <1>4, <1>7, <1>8, <1>9

(* A pass begins: it takes the apply, the latches and a reset.             *)
LEMMA TopSteps == IInv /\ (Top \/ TopLost \/ Blocked) => IInv'
<1> SUFFICES ASSUME IInv, Top \/ TopLost \/ Blocked PROVE IInv'
  OBVIOUS
<1> USE DEF IInv, TypeOK
<1>0. phase = "top" /\ phase' \in {"idle", "scan"} /\ intent = Sync
  BY DEF Top, TopLost, Blocked, PassTyped
<1>1. WorldTyped'
  BY EventTyped DEF Top, TopLost, Blocked, WorldTyped, world
<1>2. IndexTyped'
  BY DEF Top, TopLost, Blocked, IndexTyped, index
<1>3. MemoryTyped'
  BY DEF Top, TopLost, Blocked, MemoryTyped, root, latches, plans
<1>4. PlansCounted'
  BY <1>0, NoPlanStep DEF Top, TopLost, Blocked, plans
<1>5. CASE TopLost \/ Blocked
  <2>1. PassTyped' /\ OfToken'
    BY <1>0, <1>5 DEF TopLost, Blocked, PassTyped, OfToken, root
  <2>2. AppliesCounted'
    BY <1>0, <1>5, ApplyDropped, AppliesKept DEF TopLost, Blocked
  <2> QED
    BY <1>1, <1>2, <1>3, <1>4, <2>1, <2>2
<1>6. CASE Top
  <2>1. intent' \in Intents
    BY <1>6, SyncIntent DEF Top, AppliesCounted
  <2>2. PassTyped' /\ OfToken'
    BY <1>6, <2>1 DEF Top, PassTyped, OfToken, root, MemoryTyped
  <2>3. AppliesCounted'
    <3>1. CASE queued = {}
      BY <1>6, <3>1 DEF Top, AppliesCounted
    <3>2. CASE queued # {}
      BY <1>6, <3>2 DEF Top, AppliesCounted
    <3> QED
      BY <3>1, <3>2
  <2> QED
    BY <1>1, <1>2, <1>3, <1>4, <2>2, <2>3
<1> QED
  BY <1>5, <1>6

(* What the scan leaves to do is of the plan it made.                      *)
LEMMA ScanStep == IInv /\ Scan => IInv'
<1> SUFFICES ASSUME IInv, Scan PROVE IInv'
  OBVIOUS
<1> USE DEF IInv, TypeOK
<1>1. Fresh \subseteq Actions
  BY PlanTyped DEF Fresh, WorldTyped, IndexTyped, MemoryTyped
<1>2. Withheld(Fresh) \subseteq Destructive
  BY DEF Withheld, Unapproved
<1>3. WorldTyped'
  BY DEF Scan, Scanned, WorldTyped, MemoryTyped, world
<1>4. IndexTyped' /\ AppliesCounted'
  BY IndexKept, AppliesKept DEF Scan
<1>5. MemoryTyped'
  BY <1>2 DEF Scan, MemoryTyped, root, latches, plans
<1>6. PassTyped' /\ OfToken'
  BY <1>1 DEF Scan, PassTyped, OfToken, root, MemoryTyped
<1>7. PlansCounted'
  BY NoPlanStep DEF Scan, plans
<1> QED
  BY <1>3, <1>4, <1>5, <1>6, <1>7

(* One action after the other, whatever becomes of it.                     *)
LEMMA RunSteps ==
  IInv /\ (Checkpoint \/ \E a \in Actions : Execute(a) \/ Skip(a) \/ Fail(a)) => IInv'
<1> SUFFICES ASSUME IInv, Checkpoint \/ \E a \in Actions : Execute(a) \/ Skip(a) \/ Fail(a)
             PROVE  IInv'
  OBVIOUS
<1> USE DEF IInv, TypeOK
<1>1. /\ phase = "run"
      /\ UNCHANGED <<root, latches, plans, applies, jobs, pending, phase, claimed, intent,
                     walking, settles>>
  BY DEF Checkpoint, Execute, Skip, Fail
<1>2. MemoryTyped' /\ AppliesCounted'
  BY <1>1, AppliesKept DEF MemoryTyped, root, latches, plans
<1>3. PlansCounted'
  BY <1>1, PlansKept
<1>4. CASE Checkpoint
  <2>1. IndexTyped' /\ WorldTyped'
    BY <1>4, Committed, WorldKept DEF Checkpoint, PassTyped
  <2>2. PassTyped' /\ OfToken'
    BY <1>1, <1>4 DEF Checkpoint, PassTyped, OfToken, root
  <2> QED
    BY <1>2, <1>3, <2>1, <2>2
<1>5. ASSUME NEW a \in Actions, Execute(a) \/ Skip(a) \/ Fail(a) PROVE IInv'
  <2>1. a[2] \in Items
    BY DEF Actions
  <2>2. IndexTyped'
    BY <1>5, IndexKept DEF Execute, Skip, Fail
  <2>3. WorldTyped'
    <3>1. CASE Skip(a) \/ Fail(a)
      BY <3>1, EventTyped DEF Skip, Fail, WorldTyped, world
    <3>2. CASE Execute(a)
      <4>1. remote' \subseteq Items /\ content' \in [Folders -> SUBSET Items]
        BY <3>2, <2>1 DEF Execute, Effect, WorldTyped, MemoryTyped
      <4> QED
        BY <3>2, <2>1, <4>1 DEF Execute, WorldTyped, MemoryTyped
    <3> QED
      BY <1>5, <3>1, <3>2
  <2>4. PassTyped' /\ OfToken'
    <3>1. todo' \subseteq todo
      BY <1>5 DEF Execute, Skip, Fail
    <3>2. put' \subseteq Items /\ drop' \subseteq Items
      BY <1>5, <2>1 DEF Execute, Skip, Fail, PassTyped
    <3>3. spent' \subseteq Destructive
      BY <1>5 DEF Execute, Skip, Fail, PassTyped, IndexTyped
    <3> QED
      BY <1>1, <3>1, <3>2, <3>3 DEF PassTyped, OfToken, root
  <2> QED
    BY <1>2, <1>3, <2>2, <2>3, <2>4
<1> QED
  BY <1>4, <1>5

LEMMA FinishStep == IInv /\ Finish => IInv'
<1> SUFFICES ASSUME IInv, Finish PROVE IInv'
  OBVIOUS
<1> USE DEF IInv, TypeOK
<1>1. WorldTyped'
  BY WorldKept DEF Finish
<1>2. IndexTyped'
  BY DEF Finish, Commit, IndexTyped, PassTyped
<1>3. MemoryTyped'
  BY DEF Finish, MemoryTyped, latches, plans
<1>4. PassTyped' /\ OfToken'
  BY PassEmptied DEF Finish
<1>5. PlansCounted'
  BY NoPlanStep DEF Finish, plans
<1>6. AppliesCounted'
  BY ApplySealed DEF Finish, PassTyped
<1> QED
  BY <1>1, <1>2, <1>3, <1>4, <1>5, <1>6

(* Plan jobs.                                                              *)
LEMMA PlanSteps == IInv /\ (StartPlan \/ SealPlan) => IInv'
<1> SUFFICES ASSUME IInv, StartPlan \/ SealPlan PROVE IInv'
  OBVIOUS
<1> USE DEF IInv, TypeOK
<1>1. WorldTyped'
  BY EventTyped DEF StartPlan, SealPlan, WorldTyped, world
<1>2. IndexTyped' /\ AppliesCounted'
  BY IndexKept, AppliesKept DEF StartPlan, SealPlan
<1>3. Fresh \subseteq Actions
  BY PlanTyped DEF Fresh, WorldTyped, IndexTyped, MemoryTyped
<1>4. MemoryTyped'
  BY <1>3 DEF StartPlan, SealPlan, MemoryTyped, root, latches
<1>5. PassTyped' /\ OfToken'
  BY DEF StartPlan, SealPlan, PassTyped, OfToken, root
<1>6. PlansCounted'
  BY DEF StartPlan, SealPlan, PlansCounted
<1> QED
  BY <1>1, <1>2, <1>4, <1>5, <1>6

LEMMA RestartStep == IInv /\ Restart => IInv'
<1> SUFFICES ASSUME IInv, Restart PROVE IInv'
  OBVIOUS
<1> USE DEF IInv, TypeOK
<1>1. here' \in Folders
  BY DEF Restart, WorldTyped
<1>2. content' \in [Folders -> SUBSET Items]
  BY DEF Restart, WorldTyped
<1>3. WorldTyped'
  BY <1>1, <1>2, EventTyped DEF Restart, WorldTyped
<1>4. IndexTyped'
  BY IndexKept DEF Restart
<1>5. MemoryTyped'
  BY <1>1 DEF Restart, MemoryTyped, IndexTyped
<1>6. PassTyped' /\ OfToken'
  BY PassEmptied DEF Restart
<1>7. PlansCounted' /\ AppliesCounted'
  BY SyncIntent DEF Restart, PlansCounted, AppliesCounted
<1> QED
  BY <1>3, <1>4, <1>5, <1>6, <1>7

LEMMA StepTyped == IInv /\ [Next]_vars => IInv'
<1> SUFFICES ASSUME IInv, [Next]_vars PROVE IInv'
  OBVIOUS
<1>1. CASE UNCHANGED vars
  BY <1>1, WorldKept, IndexKept, PassKept, PlansKept, AppliesKept
  DEF IInv, TypeOK, vars, MemoryTyped, root, latches, plans, pass
<1>2. CASE World \/ Commands \/ Tick
  BY <1>2, WorldSteps, CommandSteps
<1>3. CASE StartSync \/ StartPlan \/ SealPlan \/ Restart
  BY <1>3, StartSyncStep, PlanSteps, RestartStep
<1>4. CASE Top \/ TopLost \/ Blocked \/ RootLost \/ Abort \/ Idle
  BY <1>4, TopSteps, CutSteps
<1>5. CASE \/ Diverge \/ Scan \/ Finish \/ Checkpoint
           \/ \E a \in Actions : Execute(a) \/ Skip(a) \/ Fail(a)
  BY <1>5, DivergeStep, ScanStep, FinishStep, RunSteps
<1> QED
  BY <1>1, <1>2, <1>3, <1>4, <1>5 DEF Next, PassStep, Faults

LEMMA AlwaysIInv == Spec => []IInv
  BY InitTyped, StepTyped, SparesAssumption, PTL DEF Spec

(* What is left to do shrinks by one action at a time.                     *)
LEMMA TodoShrinks ==
  ASSUME IInv, Next, phase' = "run", NEW a \in todo, a \notin todo'
  PROVE  \E b \in Actions : Execute(b) \/ Skip(b) \/ Fail(b)
<1>1. phase = "run"
  BY DEF IInv, OfToken
<1>2. ~Checkpoint
  BY DEF Checkpoint
<1> QED
  BY <1>1, <1>2 DEF Next, World, Commands, PassStep, Faults, EditLocal, EditRemote, Swap, Pause,
     Resume, Resync, ResetIndex, Approve, RequestPlan, RequestApply, SetPaused, Tick, StartSync,
     StartPlan, SealPlan, TopLost, Top, Idle, RootLost, Abort, PassOver, Diverge, Scan,
     Finish, Blocked, Restart, pass

-----------------------------------------------------------------------------
(* The state of a pair under the control plane is well typed, and what     *)
(* PlanSlot counts is in order: no request is answered before it is        *)
(* booked, and the apply in work is none that was answered.                *)
THEOREM TypeCorrect == Spec => []TypeOK
  BY AlwaysIInv, PTL DEF IInv

(* Whatever happens in a pass that applies a plan is of the plan the user  *)
(* looked at when the apply was booked (execute_plan_and_commit).          *)
THEOREM ReviewedOnly == Spec => AppliedIsReviewed
<1> DEFINE Reviewed ==
      \A a \in todo \ todo' :
        phase' = "run" /\ intent # Sync =>
          a \in intent.token /\ (intent.skip /\ a \in Destructive => UNCHANGED world)
<1>1. ASSUME IInv, [Next]_vars PROVE [Reviewed]_vars
  <2> SUFFICES ASSUME Next, phase' = "run", intent # Sync, NEW a \in todo, a \notin todo'
               PROVE  a \in intent.token /\ (intent.skip /\ a \in Destructive => UNCHANGED world)
    BY <1>1
  <2>1. a \in intent.token
    BY <1>1 DEF IInv, OfToken
  <2>2. PICK b \in Actions : Execute(b) \/ Skip(b) \/ Fail(b)
    BY <1>1, TodoShrinks
  <2>3. a = b
    BY <2>2 DEF Execute, Skip, Fail
  <2> QED
    BY <2>1, <2>2, <2>3 DEF Execute, Skip, Fail
<1> QED
  BY <1>1, AlwaysIInv, PTL DEF Spec, AppliedIsReviewed

(* A resync outlives the folder (reconcile_blocking_inner).                *)
THEOREM ResyncKept == Spec => ResyncIsKept
<1> DEFINE Kept ==
      (walk \/ walking) /\ ~(walk' \/ walking') =>
         \/ phase = "run" /\ todo = {} /\ here = known
         \/ phase = "scan" /\ intent # Sync /\ here = known
         \/ left' < left
<1>1. ASSUME IInv, [Next]_vars PROVE [Kept]_vars
  <2> SUFFICES ASSUME Next, walk \/ walking, ~(walk' \/ walking') PROVE Kept
    BY <1>1
  <2>0. left \in Nat /\ walk \in BOOLEAN /\ walking \in BOOLEAN
    BY <1>1 DEF IInv, TypeOK, WorldTyped, MemoryTyped, PassTyped
  <2>1. \/ UNCHANGED <<walk, walking>> \/ Event \/ Resync \/ ResetIndex
        \/ Top \/ Idle \/ RootLost \/ Diverge \/ Finish
    BY DEF Next, World, Commands, PassStep, Faults, EditLocal, EditRemote, Swap, Pause, Resume,
           Approve, RequestPlan, RequestApply, SetPaused, Tick, StartSync, StartPlan, SealPlan,
           TopLost, Scan, Checkpoint, Execute, Skip, Fail, Blocked, Abort, Restart, latches, pass
  <2>2. CASE Event
    BY <2>0, <2>2 DEF Event
  <2>3. CASE Top
    BY <1>1, <2>0, <2>3 DEF Top, IInv, OfToken
  <2>4. CASE Idle \/ RootLost
    BY <2>0, <2>4 DEF Idle, RootLost, PassOver
  <2>5. CASE Diverge \/ Finish
    BY <2>5 DEF Diverge, Finish
  <2> QED
    BY <2>0, <2>1, <2>2, <2>3, <2>4, <2>5 DEF Resync, ResetIndex
<1> QED
  BY <1>1, AlwaysIInv, PTL DEF Spec, ResyncIsKept

(* An approval goes with the deletion it allowed, whatever ends the pass,  *)
(* and no other does (keep_accumulated_work, commit_checkpoint).           *)
THEOREM ApprovalsSpent == Spec => ApprovalsAreSpent
<1> DEFINE Spent ==
      /\ spent # {} /\ spent' = {} => approvals' \cap spent = {} \/ left' < left
      /\ approvals \ approvals' \subseteq spent \/ (reset /\ ~reset')
<1>1. ASSUME IInv, [Next]_vars PROVE [Spent]_vars
  <2> SUFFICES ASSUME Next PROVE Spent
    BY <1>1
  <2>0. left \in Nat /\ reset \in BOOLEAN
    BY <1>1 DEF IInv, TypeOK, WorldTyped, MemoryTyped
  <2>1. \/ UNCHANGED <<approvals, spent>> \/ Approve \/ Abort \/ Restart \/ Idle
        \/ Commit \/ Top \/ \E a \in Actions : Execute(a)
    BY DEF Next, World, Commands, PassStep, Faults, EditLocal, EditRemote, Swap, Pause, Resume,
           Resync, ResetIndex, RequestPlan, RequestApply, SetPaused, Tick, StartSync, StartPlan,
           SealPlan, TopLost, Blocked, Scan, Diverge, Skip, Fail, RootLost, Checkpoint, Finish,
           pass, index
  <2>2. CASE Approve
    BY <2>2 DEF Approve, pass
  <2>3. CASE Abort \/ Restart
    BY <2>0, <2>3 DEF Abort, Restart, Event, index
  <2>4. CASE Idle
    BY <1>1, <2>4 DEF Idle, IInv, OfToken, index
  <2>5. CASE Commit
    BY <2>5 DEF Commit
  <2>6. CASE Top
    BY <2>0, <2>6 DEF Top, index
  <2>7. CASE \E a \in Actions : Execute(a)
    BY <2>7 DEF Execute, index
  <2> QED
    BY <2>1, <2>2, <2>3, <2>4, <2>5, <2>6, <2>7
<1> QED
  BY <1>1, AlwaysIInv, PTL DEF Spec, ApprovalsAreSpent

-----------------------------------------------------------------------------
(* Both halves of PlanSlot are mailboxes.                                  *)
LEMMA PlanStep == IInv /\ [Next]_vars => [PlanBox!Next]_(PlanBox!mailbox)
<1> SUFFICES ASSUME IInv, [Next]_vars PROVE [PlanBox!Next]_(PlanBox!mailbox)
  OBVIOUS
<1> USE DEF PlanBox!Next, PlanBox!mailbox
<1>0. PlansCounted
  BY DEF IInv, TypeOK
<1>1. CASE UNCHANGED <<requested, completed, claimed>>
  BY <1>1
<1>2. CASE RequestPlan
  BY <1>2 DEF RequestPlan, pass, PlanBox!Book
<1>3. CASE StartPlan
  <2>1. claimed = 0
    BY <1>0, <1>3 DEF StartPlan, PlansCounted
  <2>2. CASE requested > completed
    BY <1>0, <1>3, <2>1, <2>2 DEF StartPlan, PlansCounted, PlanBox!Begin, PlanBox!Refuse
  <2>3. CASE ~(requested > completed)
    BY <1>0, <1>3, <2>1, <2>3 DEF StartPlan, PlansCounted
  <2> QED
    BY <2>2, <2>3
<1>4. CASE SealPlan
  BY <1>0, <1>4 DEF SealPlan, PlansCounted, PlanBox!Finish
<1>5. CASE Restart
  BY <1>5 DEF Restart, PlanBox!Restart
<1>6. ASSUME Next, ~RequestPlan, ~StartPlan, ~SealPlan, ~Restart
      PROVE  UNCHANGED <<requested, completed, claimed>>
  BY <1>6 DEF Next, World, Commands, PassStep, Faults, EditLocal, EditRemote, Swap, Pause,
     Resume, Resync, ResetIndex, Approve, RequestApply, SetPaused, Tick, StartSync, TopLost,
     Top, Idle, RootLost, Abort, PassOver, Diverge, Scan, Checkpoint, Finish, Execute, Skip,
     Fail, Blocked, plans, pass
<1>7. CASE UNCHANGED vars
  BY <1>7 DEF vars, plans, pass
<1> QED
  BY <1>1, <1>2, <1>3, <1>4, <1>5, <1>6, <1>7

(* A plan is answered in order, and only by work begun after it was asked. *)
THEOREM PlansAreAnswered == Spec => PlansAnsweredInOrder
<1>1. Init => PlanBox!Init
  BY DEF Init, PlanBox!Init
<1> QED
  BY <1>1, AlwaysIInv, PlanStep, PTL DEF Spec, PlansAnsweredInOrder, PlanBox!Spec

(* An apply is taken, then answered; or answered at once, when none is in  *)
(* work.                                                                   *)
LEMMA SealIsFinish ==
  ASSUME PassTyped, AppliesCounted, SealApply({intent}), intent' = Sync,
         UNCHANGED applyRequested
  PROVE  ApplyBox!Finish \/ UNCHANGED ApplyBox!mailbox
<1>1. intent.seq \in Nat
  BY DEF PassTyped, Intents
<1>2. CASE intent.seq > 0
  BY <1>2, SyncIntent DEF SealApply, ApplyBox!Finish
<1>3. CASE ~(intent.seq > 0)
  BY <1>1, <1>3, SyncIntent DEF SealApply, ApplyBox!mailbox
<1> QED
  BY <1>2, <1>3

LEMMA DropIsRefuse ==
  ASSUME AppliesCounted, SealApply(queued), intent = Sync, UNCHANGED <<applyRequested, intent>>
  PROVE  ApplyBox!Refuse \/ UNCHANGED ApplyBox!mailbox
<1>1. CASE \E i \in queued : i.seq > 0
  <2>1. PICK i \in queued : applyCompleted' = i.seq
    BY <1>1 DEF SealApply
  <2> QED
    BY <2>1, SyncIntent DEF AppliesCounted, ApplyBox!Refuse
<1>2. CASE ~\E i \in queued : i.seq > 0
  BY <1>2 DEF SealApply, ApplyBox!mailbox
<1> QED
  BY <1>1, <1>2

LEMMA ApplyStep == IInv /\ [Next]_vars => [ApplyBox!Next]_(ApplyBox!mailbox)
<1> SUFFICES ASSUME IInv, [Next]_vars PROVE [ApplyBox!Next]_(ApplyBox!mailbox)
  OBVIOUS
<1>0. PassTyped /\ AppliesCounted
  BY DEF IInv, TypeOK
<1>1. CASE RequestApply
  BY <1>1 DEF RequestApply, pass, ApplyBox!Next, ApplyBox!Book
<1>2. CASE Top
  <2>1. intent = Sync /\ UNCHANGED <<applyRequested, applyCompleted>>
    BY <1>0, <1>2 DEF Top, PassTyped
  <2>2. CASE queued = {}
    BY <1>2, <2>1, <2>2 DEF Top, ApplyBox!mailbox
  <2>3. CASE queued # {}
    <3>1. intent' \in queued
      BY <1>2, <2>3 DEF Top
    <3> QED
      BY <1>0, <2>1, <3>1, SyncIntent DEF AppliesCounted, ApplyBox!Next, ApplyBox!Begin
  <2> QED
    BY <2>2, <2>3
<1>3. CASE RootLost \/ Abort \/ Idle \/ Diverge \/ Finish
  BY <1>0, <1>3, SealIsFinish
  DEF RootLost, Abort, Idle, PassOver, Diverge, Finish, ApplyBox!Next
<1>4. CASE StartSync \/ TopLost
  <2>1. intent = Sync /\ UNCHANGED <<applyRequested, intent>>
    BY <1>0, <1>4 DEF StartSync, TopLost, PassTyped
  <2>2. UNCHANGED applyCompleted \/ SealApply(queued)
    BY <1>4 DEF StartSync, TopLost, DropApply
  <2> QED
    BY <1>0, <2>1, <2>2, DropIsRefuse DEF ApplyBox!Next, ApplyBox!mailbox
<1>5. CASE Restart
  BY <1>5, SyncIntent DEF Restart, ApplyBox!Next, ApplyBox!Restart
<1>6. ASSUME Next, ~RequestApply, ~Top, ~RootLost, ~Abort, ~Idle, ~Diverge, ~Finish,
             ~StartSync, ~TopLost, ~Restart
      PROVE  UNCHANGED <<applyRequested, applyCompleted, intent>>
  BY <1>6 DEF Next, World, Commands, PassStep, Faults, EditLocal, EditRemote, Swap, Pause,
     Resume, Resync, ResetIndex, Approve, RequestPlan, SetPaused, Tick, StartPlan, SealPlan,
     Scan, Checkpoint, Execute, Skip, Fail, Blocked, applies, pass
<1>7. CASE UNCHANGED vars
  BY <1>7 DEF vars, applies, pass, ApplyBox!mailbox
<1> QED
  BY <1>1, <1>2, <1>3, <1>4, <1>5, <1>6, <1>7 DEF ApplyBox!mailbox

(* An apply is answered in order, by the pass that took it or by a refusal. *)
THEOREM AppliesAreAnswered == Spec => AppliesAnsweredInOrder
<1>1. Init => ApplyBox!Init
  BY SyncIntent DEF Init, ApplyBox!Init
<1> QED
  BY <1>1, AlwaysIInv, ApplyStep, PTL DEF Spec, AppliesAnsweredInOrder, ApplyBox!Spec

-----------------------------------------------------------------------------
(* What stands between a record and the deletion of its file: the file was *)
(* agreed on in the folder the pair runs on, its deletion was approved,    *)
(* every deletion needs approval, or the record goes before the next pass  *)
(* plans anything.                                                         *)
AllGuarded == Guarded = {"local", "remote"}
Clean(x) == seen[x] = known
Approved(x) == \E d \in approvals : d[2] = x
Trusted(x) == Clean(x) \/ Approved(x)

BaseSafe ==
  \A x \in base : \/ Trusted(x) \/ force \/ AllGuarded
                  \/ reset /\ phase \notin {"scan", "run"}

(* What a running pass holds: at most one action per file, none for a file *)
(* it has dealt with, no deletion that is not trusted; and if it is to end *)
(* the forced approval, no record that is not.                             *)
RunSafe ==
  /\ \A x \in put : Clean(x)
  /\ \A d \in spent : d[2] \in drop
  /\ phase # "run" => put = {} /\ drop = {} /\ spent = {} /\ ~settles
  /\ \A a, b \in todo : a[2] = b[2] => a = b
  /\ \A a \in todo : a[2] \notin put \cup drop
  /\ \A a \in todo \cap Destructive : Trusted(a[2])
  /\ settles => \A x \in base : AllGuarded \/ Trusted(x) \/ x \in drop \/ <<"purge", x>> \in todo

Safe == IInv /\ BaseSafe /\ RunSafe

LEMMA InitSafe == Init => BaseSafe /\ RunSafe
  BY DEF Init, BaseSafe, RunSafe, Trusted, Clean

(* Nothing the pass or the guard rests on moves.                           *)
LEMMA SafeKept ==
  ASSUME BaseSafe, RunSafe, UNCHANGED <<base, known, force, put, drop, spent, todo, settles, seen>>,
         approvals \subseteq approvals', reset => reset',
         phase' = phase \/ {phase, phase'} \subseteq {"idle", "plan", "top"}
  PROVE  BaseSafe' /\ RunSafe'
<1>1. \A x : Trusted(x) => Trusted(x)'
  BY DEF Trusted, Clean, Approved
<1>2. BaseSafe'
  BY <1>1 DEF BaseSafe
<1>3. RunSafe'
  BY <1>1 DEF RunSafe, Clean
<1> QED
  BY <1>2, <1>3

(* A commit takes the records of what it deleted with their approvals.     *)
LEMMA CommitTrusted ==
  ASSUME RunSafe, Commit, UNCHANGED <<seen, known>>, NEW x, Trusted(x), x \notin drop
  PROVE  Trusted(x)'
<1>1. CASE Clean(x)
  BY <1>1 DEF Trusted, Clean
<1>2. CASE Approved(x)
  <2>1. PICK d \in approvals : d[2] = x
    BY <1>2 DEF Approved
  <2>2. d \notin spent
    BY <2>1 DEF RunSafe
  <2> QED
    BY <2>1, <2>2 DEF Commit, Trusted, Approved
<1> QED
  BY <1>1, <1>2 DEF Trusted

(* What is committed is safe, with what the pass leaves of the force.      *)
LEMMA CommitSafe ==
  ASSUME BaseSafe, RunSafe, Commit, UNCHANGED <<seen, known>>,
         phase \in {"scan", "run"}, force => force' \/ (settles /\ todo = {})
  PROVE  \A x \in base' : Trusted(x)' \/ force' \/ AllGuarded
<1> SUFFICES ASSUME NEW x \in base' PROVE Trusted(x)' \/ force' \/ AllGuarded
  OBVIOUS
<1>1. CASE x \in put
  BY <1>1 DEF RunSafe, Trusted, Clean
<1>2. CASE x \notin put
  <2>1. x \in base /\ x \notin drop
    BY <1>2 DEF Commit
  <2>2. Trusted(x) \/ force \/ AllGuarded
    BY <2>1 DEF BaseSafe
  <2>3. Trusted(x) => Trusted(x)'
    BY <2>1, CommitTrusted
  <2>4. CASE settles /\ todo = {}
    BY <2>1, <2>3, <2>4 DEF RunSafe
  <2> QED
    BY <2>2, <2>3, <2>4
<1> QED
  BY <1>1, <1>2

(* The world, the commands and the steps of a plan leave all of it alone,  *)
(* or add an approval or a reset.                                          *)
LEMMA OutsideSafe ==
  Safe /\ (World \/ Commands \/ Tick \/ StartPlan \/ SealPlan \/ Blocked \/ TopLost)
    => BaseSafe' /\ RunSafe'
<1> SUFFICES ASSUME Safe,
               World \/ Commands \/ Tick \/ StartPlan \/ SealPlan \/ Blocked \/ TopLost
             PROVE  BaseSafe' /\ RunSafe'
  OBVIOUS
<1>1. UNCHANGED <<base, known, force, put, drop, spent, todo, settles, seen>>
  BY DEF World, EditLocal, EditRemote, Swap, Commands, Pause, Resume, Resync, ResetIndex,
         Approve, RequestPlan, RequestApply, SetPaused, Tick, StartPlan, SealPlan, Blocked,
         TopLost, index, root, pass
<1>2. approvals \subseteq approvals'
  BY DEF World, EditLocal, EditRemote, Swap, Commands, Pause, Resume, Resync, ResetIndex,
         Approve, RequestPlan, RequestApply, SetPaused, Tick, StartPlan, SealPlan, Blocked,
         TopLost, index
<1>3. reset => reset'
  BY DEF World, EditLocal, EditRemote, Swap, Commands, Pause, Resume, Resync, ResetIndex,
         Approve, RequestPlan, RequestApply, SetPaused, Tick, StartPlan, SealPlan, Blocked,
         TopLost, latches
<1>4. phase' = phase \/ {phase, phase'} \subseteq {"idle", "plan", "top"}
  BY DEF World, EditLocal, EditRemote, Swap, Commands, Pause, Resume, Resync, ResetIndex,
         Approve, RequestPlan, RequestApply, SetPaused, Tick, StartPlan, SealPlan, Blocked,
         TopLost, pass
<1> QED
  BY <1>1, <1>2, <1>3, <1>4, SafeKept DEF Safe

(* A directory the pair did not run on is taken only with every deletion   *)
(* withheld, or with a reset that drops the records.                       *)
LEMMA ExaminedForces ==
  ASSUME Safe
  PROVE  /\ force => Examined.force
         /\ Examined.known # known => Examined.force \/ reset
<1> DEFINE Slots == [slot : {"ready", "held", "closed"}, known : Folders, force : BOOLEAN]
           Forces(s) == (force => s.force) /\ (s.known # known => s.force \/ reset)
<1>0. WorldTyped /\ MemoryTyped
  BY DEF Safe, IInv, TypeOK
<1>1. Standing \in Slots /\ Forces(Standing)
  BY <1>0 DEF Standing, MemoryTyped
<1>2. \A f \in Folders, b \in BOOLEAN :
        Ready(f, b) \in Slots /\ Ready(f, b).force = b /\ Ready(f, b).known = f
  BY DEF Ready
<1>3. ExamineReady \in Slots /\ Forces(ExamineReady)
  BY <1>0, <1>1, <1>2 DEF ExamineReady, WorldTyped
<1>4. ASSUME NEW s \in Slots, Forces(s) PROVE Forces(RetryUnavailable(s))
  <2>1. Forces(Lifted(s)) \/ ~reset
    BY <1>0, <1>2, <1>4 DEF Lifted, WorldTyped
  <2>2. Forces(Judged(s, s.force \/ s.slot = "held" \/ here # s.known))
    <3> DEFINE forced == s.force \/ s.slot = "held" \/ here # s.known
    <3> HIDE DEF forced
    <3>1. /\ Ready(here, forced).force = forced
          /\ Ready(here, forced).known = here
      BY DEF Ready
    <3>2. (force => forced) /\ (here # known => forced \/ reset)
      BY <1>4 DEF forced
    <3>3. Forces(Judged(s, forced))
      BY <1>4, <3>1, <3>2 DEF Judged
    <3> QED
      BY <3>3 DEF forced
  <2> QED
    BY <2>1, <2>2 DEF RetryUnavailable
<1>5. Forces(Examined)
  BY <1>1, <1>3, <1>4 DEF Examined
<1> QED
  BY <1>5

LEMMA StartSafe == Safe /\ StartSync => BaseSafe' /\ RunSafe'
<1> SUFFICES ASSUME Safe, StartSync PROVE BaseSafe' /\ RunSafe'
  OBVIOUS
<1>1. /\ phase = "idle" /\ phase' \in {"idle", "top"}
      /\ UNCHANGED <<base, approvals, reset, put, drop, spent, todo, settles, seen>>
  BY DEF StartSync, DropApply, latches
<1>2. /\ force => force'
      /\ known' # known => force' \/ reset
  <2>1. CASE paused
    BY <2>1 DEF StartSync, Standing
  <2>2. CASE ~paused
    BY <2>2, ExaminedForces DEF StartSync
  <2> QED
    BY <2>1, <2>2
<1>3. BaseSafe'
  BY <1>1, <1>2 DEF Safe, BaseSafe, Trusted, Clean, Approved
<1>4. RunSafe'
  <2>1. todo = {} /\ put = {} /\ spent = {} /\ ~settles
    BY <1>1 DEF Safe, IInv, OfToken, RunSafe
  <2> QED
    BY <1>1, <2>1 DEF Safe, RunSafe
<1> QED
  BY <1>3, <1>4

LEMMA TopSafe == Safe /\ Top => BaseSafe' /\ RunSafe'
<1> SUFFICES ASSUME Safe, Top PROVE BaseSafe' /\ RunSafe'
  OBVIOUS
<1>1. todo = {} /\ put = {} /\ spent = {} /\ drop = {} /\ ~settles
  BY DEF Safe, IInv, OfToken, RunSafe, Top
<1>2. UNCHANGED <<todo, put, drop, spent, settles, seen, known, force>> /\ phase' = "scan"
  BY DEF Top, root
<1>3. RunSafe'
  BY <1>1, <1>2 DEF RunSafe
<1>4. CASE reset
  BY <1>3, <1>4 DEF Top, BaseSafe
<1>5. CASE ~reset
  <2>1. UNCHANGED <<base, approvals>>
    BY <1>5 DEF Top, index
  <2> QED
    BY <1>2, <1>3, <1>5, <2>1 DEF Safe, BaseSafe, Trusted, Clean, Approved
<1> QED
  BY <1>3, <1>4, <1>5

(* The pass ends, at whatever point.                                       *)
LEMMA EndSafe ==
  Safe /\ (RootLost \/ Abort \/ Idle \/ Diverge \/ Finish \/ Restart) => BaseSafe' /\ RunSafe'
<1> SUFFICES ASSUME Safe, RootLost \/ Abort \/ Idle \/ Diverge \/ Finish \/ Restart
             PROVE  BaseSafe' /\ RunSafe'
  OBVIOUS
<1>1. CASE Restart
  <2>1. RunSafe'
    BY <1>1 DEF Restart, RunSafe
  <2>2. CASE saved.force
    BY <1>1, <2>1, <2>2 DEF Restart, BaseSafe
  <2>3. CASE ~saved.force
    <3>1. \A x \in base' : Clean(x)'
      BY <1>1, <2>3 DEF Restart, index, Safe, IInv, TypeOK, IndexTyped, Clean
    <3> QED
      BY <2>1, <3>1 DEF BaseSafe, Trusted
  <2> QED
    BY <2>2, <2>3
<1>2. CASE RootLost \/ Abort \/ Idle \/ Finish
  <2>1. /\ todo' = {} /\ put' = {} /\ drop' = {} /\ spent' = {} /\ ~settles'
        /\ phase \in {"scan", "run"} /\ UNCHANGED <<seen, known>>
    BY <1>2 DEF RootLost, Abort, Idle, Finish, PassOver, root
  <2>2. RunSafe'
    BY <2>1 DEF RunSafe
  <2>3. CASE Abort \/ Idle
    BY <2>1, <2>2, <2>3
    DEF Abort, Idle, PassOver, root, index, Safe, BaseSafe, Trusted, Clean, Approved
  <2>4. CASE RootLost
    BY <2>1, <2>2, <2>4, CommitSafe DEF RootLost, PassOver, root, Safe, BaseSafe
  <2>5. CASE Finish
    BY <2>1, <2>2, <2>5, CommitSafe DEF Finish, Safe, BaseSafe
  <2> QED
    BY <1>2, <2>3, <2>4, <2>5
<1>3. CASE Diverge
  <2>1. \A x \in Items : Clean(x) => Clean(x)'
    BY <1>3 DEF Diverge, Scanned, root, Clean
  <2>2. base \subseteq Items
    BY DEF Safe, IInv, TypeOK, IndexTyped
  <2>3. BaseSafe'
    BY <1>3, <2>1, <2>2 DEF Diverge, index, root, Safe, BaseSafe, Trusted, Approved
  <2>4. RunSafe'
    <3>1. todo = {} /\ put = {} /\ spent = {} /\ drop = {} /\ ~settles
      BY <1>3 DEF Safe, IInv, OfToken, RunSafe, Diverge
    <3> QED
      BY <1>3, <3>1 DEF Diverge, RunSafe
  <2> QED
    BY <2>3, <2>4
<1> QED
  BY <1>1, <1>2, <1>3

(* There is one action per file in a plan, and for each record that both   *)
(* sides do not show.                                                      *)
LEMMA PlanOnce ==
  ASSUME NEW l, NEW c, NEW r
  PROVE  /\ \A a, b \in Plan(l, c, r) : a[2] = b[2] => a = b
         /\ \A a \in Plan(l, c, r) \cap Destructive : a[2] \in r
         /\ \A x \in r : \/ x \in l \cap c \/ <<"purge", x>> \in Plan(l, c, r)
                         \/ <<"local_delete", x>> \in Plan(l, c, r)
                         \/ <<"remote_delete", x>> \in Plan(l, c, r)
<1> DEFINE Kind(x) ==
      IF x \in r THEN IF x \in l THEN "local_delete"
                      ELSE IF x \in c THEN "remote_delete" ELSE "purge"
      ELSE IF x \in l THEN IF x \in c THEN "adopt" ELSE "upload" ELSE "download"
<1>1. \A a \in Plan(l, c, r) : a = <<Kind(a[2]), a[2]>>
  BY DEF Plan
<1>2. \A a \in Plan(l, c, r) \cap Destructive : a[2] \in r
  BY DEF Plan, Destructive
<1>3. \A x \in r : \/ x \in l \cap c \/ <<"purge", x>> \in Plan(l, c, r)
                  \/ <<"local_delete", x>> \in Plan(l, c, r)
                  \/ <<"remote_delete", x>> \in Plan(l, c, r)
  BY DEF Plan
<1> QED
  BY <1>1, <1>2, <1>3

(* The scan plans no deletion that is not trusted, and ends the force only *)
(* when each record is.                                                    *)
LEMMA ScanSafe ==
  (Guarded = {} \/ AllGuarded) /\ Safe /\ Scan => BaseSafe' /\ RunSafe'
<1> SUFFICES ASSUME Guarded = {} \/ AllGuarded, Safe, Scan PROVE BaseSafe' /\ RunSafe'
  OBVIOUS
<1>0. /\ Fresh \subseteq Actions /\ base \subseteq Items /\ known \in Folders
      /\ approvals \subseteq Destructive
  BY PlanTyped DEF Safe, IInv, TypeOK, Fresh, WorldTyped, IndexTyped, MemoryTyped
<1>1. /\ UNCHANGED <<base, approvals, known, force, put, drop, spent>>
      /\ phase = "scan" /\ phase' = "run" /\ todo' = Fresh \ Withheld(Fresh)
      /\ settles' = (force /\ Forced(Fresh) = {})
      /\ put = {} /\ drop = {} /\ spent = {}
  BY DEF Scan, index, root, Safe, RunSafe
<1>2. /\ \A x \in Items : Trusted(x) => Trusted(x)'
      /\ \A x \in base : x \in content[known] /\ x \in remote => Trusted(x)'
  BY <1>0, <1>1 DEF Scan, Scanned, Trusted, Clean, Approved
<1>3. BaseSafe'
  BY <1>0, <1>1, <1>2 DEF Safe, BaseSafe
<1>4. \A a \in Destructive : a[2] \in Items /\ (AllGuarded => IsGuarded(a))
  BY DEF Destructive, IsGuarded, AllGuarded, Direction
<1>5. ASSUME NEW a \in todo' \cap Destructive PROVE Trusted(a[2])'
  <2>1. a \in Fresh /\ a \notin Withheld(Fresh) /\ a[2] \in base
    BY <1>1, PlanOnce DEF Fresh
  <2>2. a \in approvals \/ (~force /\ ~AllGuarded)
    BY <1>4, <2>1 DEF Withheld, Unapproved
  <2>3. Trusted(a[2])
    BY <1>1, <2>1, <2>2 DEF Safe, BaseSafe, Trusted, Approved
  <2> QED
    BY <1>2, <1>4, <2>3
<1>6. ASSUME settles', NEW x \in base, ~AllGuarded
      PROVE  Trusted(x)' \/ <<"purge", x>> \in todo'
  <2>1. Fresh \cap Destructive \subseteq approvals
    BY <1>1, <1>6 DEF Forced, Withheld, Unapproved, IsGuarded
  <2>2. CASE x \in content[known] /\ x \in remote
    BY <1>2, <2>2
  <2>3. CASE <<"purge", x>> \in Fresh
    BY <1>1, <2>3 DEF Withheld, Unapproved, Destructive
  <2>4. CASE \E k \in {"local_delete", "remote_delete"} : <<k, x>> \in Fresh
    <3>1. PICK d \in Fresh : d \in Destructive /\ d[2] = x
      BY <1>0, <2>4 DEF Destructive
    <3> QED
      BY <1>1, <2>1, <3>1 DEF Trusted, Approved
  <2> QED
    BY <2>2, <2>3, <2>4, PlanOnce DEF Fresh
<1>7. \A a, b \in todo' : a[2] = b[2] => a = b
  BY <1>1, PlanOnce DEF Fresh
<1>8. RunSafe'
  BY <1>1, <1>5, <1>6, <1>7 DEF RunSafe
<1> QED
  BY <1>3, <1>8

(* An action moves its file from what is left to what is to be committed.  *)
LEMMA ActionSafe ==
  Safe /\ (\E a \in Actions : Execute(a) \/ Skip(a) \/ Fail(a)) => BaseSafe' /\ RunSafe'
<1> SUFFICES ASSUME Safe, NEW a \in Actions, Execute(a) \/ Skip(a) \/ Fail(a)
             PROVE  BaseSafe' /\ RunSafe'
  OBVIOUS
<1>1. /\ UNCHANGED <<base, approvals, known, force, reset, settles>>
      /\ phase = "run" /\ phase' = "run" /\ a \in todo /\ todo' = todo \ {a}
  BY DEF Execute, Skip, Fail, index, root, latches
<1>2. base \subseteq Items /\ a[2] \in Items /\ seen \in [Items -> Folders]
  BY DEF Safe, IInv, TypeOK, IndexTyped, WorldTyped, Actions
<1>3. CASE Skip(a) \/ Fail(a)
  <2>1. UNCHANGED <<put, drop, spent, seen>>
    BY <1>3 DEF Skip, Fail
  <2>2. BaseSafe'
    BY <1>1, <2>1 DEF Safe, BaseSafe, Trusted, Clean, Approved
  <2>3. a[1] # "purge"
    BY <1>3 DEF Skip, Fail, Destructive
  <2>4. \A x : <<"purge", x>> \in todo => <<"purge", x>> \in todo'
    BY <1>1, <2>3
  <2>5. RunSafe'
    BY <1>1, <2>1, <2>4 DEF Safe, RunSafe, Trusted, Clean, Approved
  <2> QED
    BY <2>2, <2>5
<1>4. CASE Execute(a)
  <2>1. /\ \A x \in Items : Trusted(x) => Trusted(x)'
        /\ \A x \in Items : Clean(x) => Clean(x)'
    BY <1>1, <1>2, <1>4 DEF Execute, Trusted, Clean, Approved
  <2>2. BaseSafe'
    BY <1>1, <1>2, <2>1 DEF Safe, BaseSafe
  <2>3. \A x \in put' : Clean(x)'
    <3>1. put \subseteq Items
      BY DEF Safe, IInv, TypeOK, PassTyped
    <3>2. CASE a[1] \in {"upload", "download", "adopt"}
      <4>1. a \notin Destructive
        BY <3>2 DEF Destructive
      <4>2. Clean(a[2])'
        BY <1>1, <1>2, <1>4, <4>1 DEF Execute, Clean
      <4> QED
        BY <1>4, <2>1, <3>1, <3>2, <4>2 DEF Execute, Safe, RunSafe
    <3>3. CASE a[1] \notin {"upload", "download", "adopt"}
      BY <1>4, <2>1, <3>1, <3>3 DEF Execute, Safe, RunSafe
    <3> QED
      BY <3>2, <3>3
  <2>4. put' \cup drop' = put \cup drop \cup {a[2]} /\ drop \subseteq drop'
    BY <1>4 DEF Execute
  <2>5. \A d \in spent' : d[2] \in drop'
    <3>1. a \in approvals => a[2] \in drop'
      BY <1>4 DEF Execute, Safe, IInv, TypeOK, IndexTyped, Destructive
    <3> QED
      BY <1>4, <2>4, <3>1 DEF Execute, Safe, RunSafe
  <2>6. /\ \A b, c \in todo' : b[2] = c[2] => b = c
        /\ \A b \in todo' : b[2] \notin put' \cup drop'
    BY <1>1, <2>4 DEF Safe, RunSafe
  <2>7. \A b \in todo' \cap Destructive : Trusted(b[2])'
    BY <1>1, <2>1 DEF Safe, RunSafe, Destructive
  <2>8. settles' => \A x \in base' : \/ AllGuarded \/ Trusted(x)' \/ x \in drop'
                                   \/ <<"purge", x>> \in todo'
    <3>1. a[1] = "purge" => a[2] \in drop'
      BY <1>4 DEF Execute
    <3>2. \A x : a = <<"purge", x>> => a[1] = "purge" /\ a[2] = x
      OBVIOUS
    <3> QED
      BY <1>1, <1>2, <2>1, <2>4, <3>1, <3>2 DEF Safe, RunSafe
  <2>9. RunSafe'
    BY <1>1, <2>3, <2>5, <2>6, <2>7, <2>8 DEF RunSafe
  <2> QED
    BY <2>2, <2>9
<1> QED
  BY <1>3, <1>4

LEMMA CheckpointSafe == Safe /\ Checkpoint => BaseSafe' /\ RunSafe'
<1> SUFFICES ASSUME Safe, Checkpoint PROVE BaseSafe' /\ RunSafe'
  OBVIOUS
<1>1. /\ phase = "run" /\ Commit /\ put' = {} /\ drop' = {} /\ spent' = {}
      /\ UNCHANGED <<known, force, reset, phase, todo, settles, seen>>
  BY DEF Checkpoint, root, latches
<1>2. BaseSafe'
  BY <1>1, CommitSafe DEF Safe, BaseSafe
<1>3. ASSUME NEW x, x \notin drop, Trusted(x) PROVE Trusted(x)'
  BY <1>1, <1>3, CommitTrusted DEF Safe
<1>4. \A a \in todo' \cap Destructive : Trusted(a[2])'
  BY <1>1, <1>3 DEF Safe, RunSafe
<1>5. ASSUME settles', NEW x \in base'
      PROVE  AllGuarded \/ Trusted(x)' \/ <<"purge", x>> \in todo'
  <2>1. CASE x \in put
    BY <1>1, <2>1 DEF Safe, RunSafe, Trusted, Clean
  <2>2. CASE x \notin put
    BY <1>1, <1>3, <1>5, <2>2 DEF Safe, RunSafe, Commit
  <2> QED
    BY <2>1, <2>2
<1>6. RunSafe'
  BY <1>1, <1>4, <1>5 DEF Safe, RunSafe
<1> QED
  BY <1>2, <1>6

(* Where every deletion needs approval or none does, a file is deleted on  *)
(* either side only if the folder the pass runs on is the one both sides   *)
(* last had it in, or its deletion was approved (ensure_root_available,    *)
(* examine, retry_unavailable, decide_delete_gate).                        *)
THEOREM DeletedAreSeen ==
  ASSUME Guarded = {} \/ Guarded = {"local", "remote"}
  PROVE  Spec => OnlySeenGo
<1> DEFINE Allowed ==
      \A a \in (todo \ todo') \cap Destructive :
        phase' = "run" /\ world' # world =>
          seen[a[2]] = here \/ \E d \in approvals : d[2] = a[2]
<1>1. Safe /\ [Next]_vars => Safe'
  <2> SUFFICES ASSUME Safe, [Next]_vars PROVE BaseSafe' /\ RunSafe'
    BY StepTyped DEF Safe
  <2>1. CASE UNCHANGED vars
    BY <2>1, SafeKept DEF Safe, vars, index, root, latches, pass
  <2>2. CASE \/ World \/ Commands \/ Tick \/ StartPlan \/ SealPlan \/ Blocked \/ TopLost
             \/ StartSync \/ Top
    BY <2>2, OutsideSafe, StartSafe, TopSafe
  <2>3. CASE RootLost \/ Abort \/ Idle \/ Diverge \/ Finish \/ Restart
    BY <2>3, EndSafe
  <2>4. CASE Scan \/ Checkpoint \/ \E a \in Actions : Execute(a) \/ Skip(a) \/ Fail(a)
    BY <2>4, ScanSafe, CheckpointSafe, ActionSafe DEF AllGuarded
  <2> QED
    BY <2>1, <2>2, <2>3, <2>4 DEF Next, PassStep, Faults
<1>2. Safe /\ [Next]_vars => [Allowed]_vars
  <2> SUFFICES ASSUME Safe, Next, NEW a \in (todo \ todo') \cap Destructive,
                      phase' = "run", world' # world
               PROVE  seen[a[2]] = here \/ \E d \in approvals : d[2] = a[2]
    OBVIOUS
  <2>1. PICK b \in Actions : Execute(b) \/ Skip(b) \/ Fail(b)
    BY TodoShrinks DEF Safe
  <2>2. Execute(b) /\ a = b
    BY <2>1 DEF Execute, Skip, Fail
  <2>3. here = known /\ Trusted(a[2])
    BY <2>2 DEF Execute, Safe, RunSafe
  <2> QED
    BY <2>3 DEF Trusted, Clean, Approved
<1>3. Init => Safe
  BY InitTyped, InitSafe, SparesAssumption DEF Safe
<1> QED
  BY <1>1, <1>2, <1>3, PTL DEF Spec, OnlySeenGo
=============================================================================
