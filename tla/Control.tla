------------------------------ MODULE Control ------------------------------
(***************************************************************************)
(* A folder pair under the control plane of src/src/daemon.rs: what a      *)
(* user asks of it (pause, resync, reset-index, plan, apply, approve), how *)
(* the sync loop answers, and the guard on the pair's folder, which may be *)
(* unmounted or replaced at any moment.                                    *)
(*                                                                         *)
(* Control requests land between any two steps of the loop.  A file is     *)
(* there or not: what its contents do to a plan is PairSync's and          *)
(* TreeSync's concern.  The index is kept outside the folder.  A scan and  *)
(* the look at the folder right after it are one step, as are the looks of *)
(* one examination.                                                        *)
(***************************************************************************)
EXTENDS Naturals

CONSTANTS
  Items,      \* the files of the pair
  Spares,     \* what another directory at the pair's path may hold
  Guarded,    \* the directions whose deletions need approval
  MaxEvents   \* bound: edits, swaps of the folder, commands and faults, in all

ASSUME SparesAssumption == Spares \subseteq SUBSET Items
ASSUME GuardedAssumption == Guarded \subseteq {"local", "remote"}
ASSUME BoundsAssumption == MaxEvents \in Nat

VARIABLES
  here,       \* the directory at the pair's path: one of Folders, or NoFolder
  content,    \* what each directory holds
  remote,     \* what the Proton Drive folder holds
  base, approvals, saved,   \* the index: records, approvals, pause and force
  known,      \* known_root, the directory the pair runs on
  force,      \* force_delete_approval
  slot,       \* "ready", "held" over an empty folder, or "closed"
  paused, walk, reset,      \* the pair's flag and its two latches
  requested, completed, stored,               \* PlanSlot: plans
  applyRequested, applyCompleted, queued,     \* PlanSlot: applies
  jobs,       \* the kinds of job due for the pair
  pending,    \* pending_deletions
  phase,      \* where the loop is
  claimed,    \* the plan request being answered, or 0
  intent,     \* pass_intent
  walking,    \* the pass spent the resync latch
  todo,       \* actions the pass has yet to carry out
  put, drop, spent,         \* what it has not committed yet
  settles,    \* replacement_settled
  seen,       \* ghost: the folder each file was last agreed on in
  left        \* what is left of the bound

world == <<here, content, remote>>
index == <<base, approvals, saved>>
root == <<known, force, slot>>
latches == <<paused, walk, reset>>
plans == <<requested, completed, stored>>
applies == <<applyRequested, applyCompleted, queued>>
pass == <<phase, claimed, intent, walking, todo, put, drop, spent, settles>>
vars == <<world, index, root, latches, plans, applies, jobs, pending, pass, seen, left>>

NoFolder == 0
Folders == {1, 2}

Kinds == {"upload", "download", "adopt", "local_delete", "remote_delete", "purge"}
Actions == Kinds \X Items
Destructive == {"local_delete", "remote_delete"} \X Items
Direction(a) == IF a[1] = "local_delete" THEN "local" ELSE "remote"

(* The plan for a scan, a listing and a baseline; its token is the plan. *)
Plan(local, cloud, records) ==
  {<<"upload", x>> : x \in local \ (cloud \cup records)}
  \cup {<<"download", x>> : x \in cloud \ (local \cup records)}
  \cup {<<"adopt", x>> : x \in (local \cap cloud) \ records}
  \cup {<<"local_delete", x>> : x \in (local \cap records) \ cloud}
  \cup {<<"remote_delete", x>> : x \in (cloud \cap records) \ local}
  \cup {<<"purge", x>> : x \in records \ (local \cup cloud)}

Sync == [seq |-> 0, token |-> {}, skip |-> FALSE]
Intents == [seq : Nat, token : SUBSET Actions, skip : BOOLEAN]
-----------------------------------------------------------------------------
WorldTyped ==
  /\ here \in Folders \cup {NoFolder}
  /\ content \in [Folders -> SUBSET Items] /\ remote \subseteq Items
  /\ seen \in [Items -> Folders] /\ left \in Nat

IndexTyped ==
  /\ base \subseteq Items /\ approvals \subseteq Destructive
  /\ saved \in [paused : BOOLEAN, force : BOOLEAN]

MemoryTyped ==
  /\ known \in Folders /\ force \in BOOLEAN /\ slot \in {"ready", "held", "closed"}
  /\ paused \in BOOLEAN /\ walk \in BOOLEAN /\ reset \in BOOLEAN
  /\ jobs \subseteq {"sync", "plan"} /\ pending \subseteq Destructive
  /\ stored \in SUBSET SUBSET Actions

PassTyped ==
  /\ phase \in {"idle", "plan", "top", "scan", "run"}
  /\ phase \in {"top", "scan", "run"} => slot = "ready"
  /\ intent \in Intents /\ (intent # Sync => phase \in {"scan", "run"})
  /\ walking \in BOOLEAN /\ settles \in BOOLEAN
  /\ todo \subseteq Actions /\ spent \subseteq Destructive
  /\ put \subseteq Items /\ drop \subseteq Items

(* What PlanSlot counts: an answer is behind what is being worked on, and  *)
(* that is not ahead of what was booked.                                   *)
PlansCounted ==
  /\ requested \in Nat /\ completed \in Nat /\ claimed \in Nat
  /\ completed <= requested
  /\ claimed > 0 <=> phase = "plan"
  /\ claimed > 0 => completed < claimed /\ claimed <= requested

AppliesCounted ==
  /\ applyRequested \in Nat /\ applyCompleted \in Nat /\ queued \in SUBSET Intents
  /\ applyCompleted <= applyRequested
  /\ intent # Sync => applyCompleted < intent.seq /\ intent.seq <= applyRequested
  /\ \A i \in queued :
       applyCompleted < i.seq /\ intent.seq < i.seq /\ i.seq = applyRequested

TypeOK ==
  /\ WorldTyped /\ IndexTyped /\ MemoryTyped /\ PassTyped
  /\ PlansCounted /\ AppliesCounted

Init ==
  /\ here = 1 /\ content \in {[f \in Folders |-> IF f = 1 THEN Items ELSE c] : c \in Spares}
  /\ remote = Items /\ base = Items /\ approvals = {}
  /\ saved = [paused |-> FALSE, force |-> FALSE]
  /\ known = 1 /\ force = FALSE /\ slot = "ready"
  /\ paused = FALSE /\ walk = FALSE /\ reset = FALSE
  /\ requested = 0 /\ completed = 0 /\ stored = {}
  /\ applyRequested = 0 /\ applyCompleted = 0 /\ queued = {}
  /\ jobs = {} /\ pending = {}
  /\ phase = "idle" /\ claimed = 0 /\ intent = Sync /\ walking = FALSE
  /\ todo = {} /\ put = {} /\ drop = {} /\ spent = {} /\ settles = FALSE
  /\ seen = [x \in Items |-> 1]
  /\ left = MaxEvents
-----------------------------------------------------------------------------
(* The world around the daemon. *)

Event == left > 0 /\ left' = left - 1

Toggle(set, x) == IF x \in set THEN set \ {x} ELSE set \cup {x}

EditLocal ==
  /\ Event /\ here # NoFolder
  /\ \E x \in Items : content' = [content EXCEPT ![here] = Toggle(@, x)]
  /\ UNCHANGED <<here, remote, index, root, latches, plans, applies, jobs, pending,
                 pass, seen>>

EditRemote ==
  /\ Event
  /\ \E x \in Items : remote' = Toggle(remote, x)
  /\ UNCHANGED <<here, content, index, root, latches, plans, applies, jobs, pending,
                 pass, seen>>

(* The drive is unmounted, mounted again, or another directory takes its place. *)
Swap ==
  /\ Event
  /\ here' \in (Folders \cup {NoFolder}) \ {here}
  /\ UNCHANGED <<content, remote, index, root, latches, plans, applies, jobs, pending,
                 pass, seen>>
-----------------------------------------------------------------------------
(* Control commands. *)

Due(kind) == jobs' = jobs \cup {kind}
DueUnlessPaused == jobs' = IF paused THEN jobs ELSE jobs \cup {"sync"}

(* The pause is saved in the index, which only a ready pair has open. *)
SetPaused(p) ==
  /\ paused' = p
  /\ saved' = IF slot = "ready" THEN [saved EXCEPT !.paused = p] ELSE saved
  /\ UNCHANGED <<world, base, approvals, root, walk, reset, plans, applies, pending,
                 pass, seen>>

Pause == Event /\ SetPaused(TRUE) /\ UNCHANGED jobs

Resume ==
  /\ Event /\ SetPaused(FALSE)
  /\ jobs' = IF paused THEN jobs \cup {"sync"} ELSE jobs

Resync ==
  /\ Event /\ walk' = TRUE /\ DueUnlessPaused
  /\ UNCHANGED <<world, index, root, paused, reset, plans, applies, pending, pass, seen>>

ResetIndex ==
  /\ Event /\ reset' = TRUE /\ walk' = TRUE /\ DueUnlessPaused
  /\ UNCHANGED <<world, index, root, paused, plans, applies, pending, pass, seen>>

Approve ==
  /\ Event /\ slot = "ready"
  /\ \E a \in pending : approvals' = approvals \cup {a}
  /\ UNCHANGED <<world, base, saved, root, latches, plans, applies, jobs, pending, pass, seen>>

RequestPlan ==
  /\ Event /\ ~paused
  /\ requested' = requested + 1 /\ Due("plan")
  /\ UNCHANGED <<world, index, root, latches, completed, stored, applies,
                 pending, pass, seen>>

(* Mutant: the apply is queued behind the one booked before it. *)
RequestApplyQueued ==
  /\ Event /\ ~paused
  /\ applyRequested' = applyRequested + 1
  /\ \E token \in stored, skip \in BOOLEAN :
       queued' = queued \cup {[seq |-> applyRequested + 1, token |-> token, skip |-> skip]}
  /\ Due("sync")
  /\ UNCHANGED <<world, index, root, latches, plans, applyCompleted, pending, pass, seen>>

(* By the token of the plan the user looked at; any token but the stored   *)
(* plan's is refused as stale.                                             *)
RequestApply ==
  /\ Event /\ ~paused
  /\ applyRequested' = applyRequested + 1
  /\ \E token \in stored, skip \in BOOLEAN :
       queued' = {[seq |-> applyRequested + 1, token |-> token, skip |-> skip]}
  /\ Due("sync")
  /\ UNCHANGED <<world, index, root, latches, plans, applyCompleted, pending, pass, seen>>

(* A timer, a watcher event or SyncNow. *)
Tick ==
  /\ phase = "idle" /\ "sync" \notin jobs /\ Due("sync")
  /\ UNCHANGED <<world, index, root, latches, plans, applies, pending, pass,
                 seen, left>>
-----------------------------------------------------------------------------
(* A sync job: the folder is examined, then the pass runs or is skipped.   *)

(* Mutant: every apply booked so far is sealed, not the one that was taken. *)
SealLatest(intents) ==
  IF \E i \in intents : i.seq > 0
  THEN applyCompleted' = applyRequested
  ELSE UNCHANGED applyCompleted

SealApply(intents) ==
  IF \E i \in intents : i.seq > 0
  THEN \E i \in intents : applyCompleted' = i.seq
  ELSE UNCHANGED applyCompleted

Standing == [slot |-> slot, known |-> known, force |-> force]
Ready(dir, forced) == [slot |-> "ready", known |-> dir, force |-> forced]
AtRisk == content[here] = {} /\ base # {}

(* Mutant: the replacement is accepted like the pair's own folder.         *)
AcceptAsItIs ==
  IF here \in {NoFolder, known} THEN Standing
  ELSE IF AtRisk THEN [Standing EXCEPT !.slot = "held"] ELSE Ready(here, force)

(* A directory the pair does not run on is accepted, with every deletion   *)
(* withheld, unless it is empty and there is something to lose.            *)
ExamineReady ==
  IF here \in {NoFolder, known} THEN Standing
  ELSE IF AtRisk THEN [Standing EXCEPT !.slot = "held"] ELSE Ready(here, TRUE)

(* What is at the path decides; nothing there decides nothing.             *)
Judged(s, forced) ==
  IF here = NoFolder THEN s
  ELSE IF AtRisk THEN [s EXCEPT !.slot = "held"] ELSE Ready(here, forced)

Lifted(s) ==
  IF here = NoFolder THEN [s EXCEPT !.slot = "closed"] ELSE Ready(here, s.force)

(* Mutants: a hold is judged before the reset; a hold is for good.         *)
HoldBeforeReset(s) == Judged(s, s.force \/ s.slot = "held" \/ here # s.known)
HoldForGood(s) ==
  IF s.slot # "held" THEN Judged(s, s.force \/ here # s.known)
  ELSE IF reset THEN Lifted(s) ELSE s

(* A reset lifts the hold first, even before the folder is back.           *)
RetryUnavailable(s) ==
  IF s.slot = "held" /\ reset THEN Lifted(s)
  ELSE Judged(s, s.force \/ s.slot = "held" \/ here # s.known)

Examined ==
  LET s == IF slot = "ready" THEN ExamineReady ELSE Standing
  IN  IF s.slot = "ready" THEN s ELSE RetryUnavailable(s)

(* adopt_pause, flush_unsaved_pause, force_delete_approval_until_settled   *)
SaveFlags(now) ==
  [paused |-> IF "ready" \in {slot, now.slot} THEN paused ELSE saved.paused,
   force |-> \/ saved.force
             \/ now.slot = "ready" /\ now.force /\ <<slot, known>> # <<"ready", now.known>>]

(* Mutant: the apply waits out the pause, or the hold. *)
LeaveApply == UNCHANGED <<phase, queued, applyCompleted>>

DropApply == queued' = {} /\ SealApply(queued) /\ UNCHANGED phase

(* The pause is read twice, once for the examination and once for the pass. *)
StartSync ==
  /\ phase = "idle" /\ "sync" \in jobs
  /\ jobs' = jobs \ {"sync"}
  /\ LET now == IF paused THEN Standing ELSE Examined
     IN  /\ slot' = now.slot /\ known' = now.known /\ force' = now.force
         /\ saved' = SaveFlags(now)
         /\ IF now.slot = "ready" /\ ~paused
            THEN phase' = "top" /\ UNCHANGED <<applyCompleted, queued>>
            ELSE DropApply
  /\ UNCHANGED <<world, base, approvals, latches, plans, applyRequested, pending, claimed,
                 intent, walking, todo, put, drop, spent, settles, seen, left>>
-----------------------------------------------------------------------------
(* The pass.  A root that is not the one expected ends it, as a failing    *)
(* call may; what it did by then is committed only in the first case.      *)

PassOver ==
  /\ phase' = "idle" /\ intent' = Sync /\ walking' = FALSE
  /\ todo' = {} /\ put' = {} /\ drop' = {} /\ spent' = {} /\ settles' = FALSE
  /\ SealApply({intent})
  /\ UNCHANGED <<world, root, paused, reset, plans, applyRequested, queued, jobs, claimed, seen>>

(* Mutant: the records are committed without the approvals.                *)
CommitRecords == base' = (base \ drop) \cup put /\ UNCHANGED approvals

Commit == base' = (base \ drop) \cup put /\ approvals' = approvals \ spent

(* Mutant: the resync goes with the pass. *)
RootLostForgets ==
  /\ phase \in {"scan", "run"} /\ here # known
  /\ Commit /\ PassOver
  /\ UNCHANGED <<walk, saved, pending, left>>

(* What ensure_root_available refuses; a resync it cost is asked again.    *)
RootLost ==
  /\ phase \in {"scan", "run"} /\ here # known
  /\ Commit /\ walk' = (walk \/ walking)
  /\ PassOver
  /\ UNCHANGED <<saved, pending, left>>

(* The folder is gone before the pass took anything but the apply.         *)
TopLost ==
  /\ phase = "top" /\ here # known
  /\ phase' = "idle" /\ queued' = {} /\ SealApply(queued)
  /\ UNCHANGED <<world, index, root, latches, plans, applyRequested, jobs, pending, claimed,
                 intent, walking, todo, put, drop, spent, settles, seen, left>>

Abort ==
  /\ Event
  /\ phase \in {"scan", "run"}
  /\ PassOver
  /\ UNCHANGED <<index, walk, pending>>

(* The listing cache cannot be opened: the pass took nothing yet.          *)
Blocked ==
  /\ Event
  /\ phase = "top" /\ phase' = "idle"
  /\ UNCHANGED <<world, index, root, latches, plans, applies, jobs, pending, claimed, intent,
                 walking, todo, put, drop, spent, settles, seen>>

Top ==
  /\ phase = "top" /\ here = known
  /\ intent' \in (IF queued = {} THEN {Sync} ELSE queued)
  /\ queued' = {}
  /\ walking' = walk /\ walk' = FALSE
  /\ reset' = FALSE
  /\ IF reset
     THEN base' = {} /\ approvals' = {} /\ saved' = [saved EXCEPT !.force = FALSE]
     ELSE UNCHANGED index
  /\ phase' = "scan"
  /\ UNCHANGED <<world, root, paused, plans, applyRequested, applyCompleted, jobs,
                 pending, claimed, todo, put, drop, spent, settles, seen, left>>

(* No event and no local change: an incremental pass scans nothing.        *)
Idle ==
  /\ phase = "scan" /\ intent = Sync /\ ~walking /\ pending = {}
  /\ PassOver
  /\ UNCHANGED <<index, walk, pending, left>>

Fresh == Plan(content[known], remote, base)
Scanned == seen' = [x \in Items |-> IF x \in content[known] \cap remote THEN known ELSE seen[x]]

(* The plan has changed since it was reviewed: it replaces the stored one. *)
Diverge ==
  /\ phase = "scan" /\ here = known
  /\ intent # Sync /\ Fresh # intent.token
  /\ stored' = {Fresh}
  /\ phase' = "idle" /\ intent' = Sync /\ walking' = FALSE
  /\ SealApply({intent})
  /\ Scanned
  /\ UNCHANGED <<world, index, root, latches, requested, completed, applyRequested, queued,
                 jobs, pending, claimed, todo, put, drop, spent, settles, left>>

(* decide_delete_gate *)
Unapproved(plan) == (plan \cap Destructive) \ approvals
IsGuarded(a) == Direction(a) \in Guarded
Withheld(plan) == {a \in Unapproved(plan) : IsGuarded(a) \/ force}
Forced(plan) == {a \in Withheld(plan) : ~IsGuarded(a)}

(* Mutant: whatever the plan is now, it is applied. *)
ScanAnyway ==
  /\ phase = "scan" /\ here = known
  /\ todo' = Fresh \ Withheld(Fresh) /\ pending' = Withheld(Fresh)
  /\ settles' = (force /\ Forced(Fresh) = {})
  /\ phase' = "run"
  /\ Scanned
  /\ UNCHANGED <<world, index, root, latches, plans, applies, jobs, claimed, intent, walking,
                 put, drop, spent, left>>

Scan ==
  /\ phase = "scan" /\ here = known
  /\ intent # Sync => Fresh = intent.token
  /\ todo' = Fresh \ Withheld(Fresh) /\ pending' = Withheld(Fresh)
  /\ settles' = (force /\ Forced(Fresh) = {})
  /\ phase' = "run"
  /\ Scanned
  /\ UNCHANGED <<world, index, root, latches, plans, applies, jobs, claimed, intent, walking,
                 put, drop, spent, left>>

(* One action's effect on the two sides, where there is still a file for it. *)
Effect(a) ==
  LET x == a[2]
  IN  CASE a[1] = "upload" -> x \in content[known] /\ remote' = remote \cup {x} /\ UNCHANGED content
        [] a[1] = "download" ->
             x \in remote /\ content' = [content EXCEPT ![known] = @ \cup {x}] /\ UNCHANGED remote
        [] a[1] = "local_delete" ->
             content' = [content EXCEPT ![known] = @ \ {x}] /\ UNCHANGED remote
        [] a[1] = "remote_delete" -> remote' = remote \ {x} /\ UNCHANGED content
        [] OTHER -> UNCHANGED <<content, remote>>

Execute(a) ==
  /\ phase = "run" /\ here = known
  /\ a \in todo /\ ~(intent.skip /\ a \in Destructive)
  /\ Effect(a)
  /\ todo' = todo \ {a}
  /\ IF a[1] \in {"upload", "download", "adopt"}
     THEN put' = put \cup {a[2]} /\ UNCHANGED drop
     ELSE drop' = drop \cup {a[2]} /\ UNCHANGED put
  /\ spent' = spent \cup {d \in {a} \cap approvals : IsGuarded(d) \/ force}
  /\ seen' = IF a \in Destructive THEN seen ELSE [seen EXCEPT ![a[2]] = known]
  /\ UNCHANGED <<here, index, root, latches, plans, applies, jobs, pending, phase, claimed,
                 intent, walking, settles, left>>

(* Deletions an apply was asked to skip, and files gone since the scan.    *)
Skip(a) ==
  /\ phase = "run" /\ here = known /\ a \in todo
  /\ \/ intent.skip /\ a \in Destructive
     \/ a[1] = "upload" /\ a[2] \notin content[known]
     \/ a[1] = "download" /\ a[2] \notin remote
  /\ todo' = todo \ {a}
  /\ UNCHANGED <<world, index, root, latches, plans, applies, jobs, pending, phase, claimed,
                 intent, walking, put, drop, spent, settles, seen, left>>

(* A call fails: the rest of the plan still runs.                          *)
Fail(a) ==
  /\ Event
  /\ phase = "run" /\ here = known /\ a \in todo /\ ~(intent.skip /\ a \in Destructive)
  /\ a[1] \notin {"adopt", "purge"}
  /\ todo' = todo \ {a}
  /\ UNCHANGED <<world, index, root, latches, plans, applies, jobs, pending, phase, claimed,
                 intent, walking, put, drop, spent, settles, seen>>

Checkpoint ==
  /\ phase = "run" /\ put \cup drop # {}
  /\ Commit /\ put' = {} /\ drop' = {} /\ spent' = {}
  /\ UNCHANGED <<world, saved, root, latches, plans, applies, jobs, pending, phase, claimed,
                 intent, walking, todo, settles, seen, left>>

Finish ==
  /\ phase = "run" /\ todo = {} /\ here = known
  /\ Commit
  /\ force' = (force /\ ~settles)
  /\ saved' = [saved EXCEPT !.force = @ /\ ~settles]
  /\ phase' = "idle" /\ intent' = Sync /\ walking' = FALSE
  /\ put' = {} /\ drop' = {} /\ spent' = {} /\ settles' = FALSE
  /\ SealApply({intent})
  /\ UNCHANGED <<world, known, slot, latches, plans, applyRequested, queued, jobs, pending,
                 claimed, todo, seen, left>>
-----------------------------------------------------------------------------
(* A plan job: nothing changes but the answer.                             *)

StartPlan ==
  /\ phase = "idle" /\ "plan" \in jobs
  /\ jobs' = jobs \ {"plan"}
  /\ IF slot = "ready"
     THEN /\ IF requested > completed
             THEN phase' = "plan" /\ claimed' = requested
             ELSE UNCHANGED <<phase, claimed>>
          /\ UNCHANGED completed
     ELSE /\ completed' = requested
          /\ UNCHANGED <<phase, claimed>>
  /\ UNCHANGED <<world, index, root, latches, requested, stored, applies, pending, intent,
                 walking, todo, put, drop, spent, settles, seen, left>>

(* Mutant: the plan answers every request booked by its end. *)
SealAllPlans ==
  /\ phase = "plan"
  /\ \/ here = known /\ stored' = {Fresh} /\ UNCHANGED left
     \/ here # known /\ UNCHANGED <<stored, left>>
     \/ Event /\ UNCHANGED stored
  /\ completed' = requested
  /\ phase' = "idle" /\ claimed' = 0
  /\ UNCHANGED <<world, index, root, latches, requested, applies, jobs, pending, intent,
                 walking, todo, put, drop, spent, settles, seen>>

SealPlan ==
  /\ phase = "plan"
  /\ \/ here = known /\ stored' = {Fresh} /\ UNCHANGED left
     \/ here # known /\ UNCHANGED <<stored, left>>
     \/ Event /\ UNCHANGED stored
  /\ completed' = claimed
  /\ phase' = "idle" /\ claimed' = 0
  /\ UNCHANGED <<world, index, root, latches, requested, applies, jobs, pending, intent,
                 walking, todo, put, drop, spent, settles, seen>>

(* The daemon restarts: the latches and PlanSlot are in memory.  It makes  *)
(* the folder anew where there is none, and runs on what it finds.         *)
Restart ==
  /\ Event
  /\ here' = IF here = NoFolder THEN 2 ELSE here
  /\ content' = IF here = NoFolder THEN [content EXCEPT ![2] = {}] ELSE content
  /\ known' = here' /\ slot' = "ready"
  /\ paused' = saved.paused /\ force' = saved.force
  /\ walk' = FALSE /\ reset' = FALSE
  /\ requested' = 0 /\ completed' = 0 /\ stored' = {}
  /\ applyRequested' = 0 /\ applyCompleted' = 0 /\ queued' = {}
  /\ jobs' = {"sync"} /\ pending' = {}
  /\ phase' = "idle" /\ claimed' = 0 /\ intent' = Sync /\ walking' = FALSE
  /\ todo' = {} /\ put' = {} /\ drop' = {} /\ spent' = {} /\ settles' = FALSE
  /\ seen' = IF saved.force THEN seen ELSE [x \in Items |-> here']
  /\ UNCHANGED <<remote, index>>
-----------------------------------------------------------------------------
World == EditLocal \/ EditRemote \/ Swap
Commands ==
  \/ Pause \/ Resume \/ Resync \/ ResetIndex \/ Approve
  \/ RequestPlan \/ RequestApply
PassStep ==
  \/ TopLost \/ Top \/ Idle \/ RootLost \/ Diverge \/ Scan \/ Checkpoint \/ Finish
  \/ \E a \in Actions : Execute(a) \/ Skip(a)
  \/ SealPlan
Faults == Abort \/ Blocked \/ Restart \/ \E a \in Actions : Fail(a)

Next == World \/ Commands \/ Tick \/ StartSync \/ StartPlan \/ PassStep \/ Faults

Spec == Init /\ [][Next]_vars

(* The timers keep asking for passes, the loop keeps going through a pass, *)
(* and the queue starves no kind of job (DueQueue's NoOvertaking).         *)
LiveSpec ==
  /\ Spec
  /\ WF_vars(Tick) /\ WF_vars(PassStep)
  /\ SF_vars(StartSync) /\ SF_vars(StartPlan)
-----------------------------------------------------------------------------
(* Properties. *)

(* A file is deleted, on either side, only if the directory the pass runs  *)
(* on is the one in which both sides last had the file, or its deletion     *)
(* was approved: a folder that was unmounted, emptied or replaced, even    *)
(* between two actions, never passes for one the user deleted from.        *)
OnlySeenGo ==
  [][\A a \in (todo \ todo') \cap Destructive :
       phase' = "run" /\ world' # world =>
         seen[a[2]] = here \/ \E d \in approvals : d[2] = a[2]]_vars

(* In a pass that applies a reviewed plan, whatever happens is of the plan *)
(* the user looked at, however the two sides, the stored plan and the      *)
(* queue moved since; and no deletion if none was wanted.                  *)
AppliedIsReviewed ==
  [][\A a \in todo \ todo' :
       phase' = "run" /\ intent # Sync =>
         a \in intent.token /\ (intent.skip /\ a \in Destructive => UNCHANGED world)]_vars

(* A reset-index outlives a pause, a hold and a missing folder: unless the *)
(* daemon restarts, it is carried out once a pass can run.                 *)
ResetRuns == ~<>[](reset /\ ~paused /\ here # NoFolder)

(* A resync asked for is spent only by a pass that goes through, that an   *)
(* apply diverged in, or that failed: the folder going missing, at         *)
(* whatever point of the pass, leaves it to the next one.                  *)
ResyncIsKept ==
  [][(walk \/ walking) /\ ~(walk' \/ walking') =>
       \/ phase = "run" /\ todo = {} /\ here = known
       \/ phase = "scan" /\ intent # Sync /\ here = known
       \/ left' < left]_vars

(* "Once a delete has applied, its approval is spent even if a later       *)
(* action fails that pass; a withheld delete's approval is never touched"  *)
(* (delete-approval.md): however a pass ends, losing its folder included,  *)
(* the approvals it used go with it and no other does.  Excused are        *)
(* restarts, passes that end with an error, and a reset.                   *)
ApprovalsAreSpent ==
  [][/\ spent # {} /\ spent' = {} => approvals' \cap spent = {} \/ left' < left
     /\ approvals \ approvals' \subseteq spent \/ (reset /\ ~reset')]_vars

(* A held pair comes back by itself once its folder has something in it.   *)
HoldLifts == ~<>[](slot # "ready" /\ ~paused /\ here # NoFolder /\ content[here] # {})

(* Each plan and each apply asked for is answered, through pauses, holds,  *)
(* a missing folder and failing passes; a restart forgets it.              *)
RequestsAnswered ==
  \A n \in 1..MaxEvents :
    /\ requested >= n ~> completed >= n \/ requested < n
    /\ applyRequested >= n ~> applyCompleted >= n \/ applyRequested < n

(* PlanSlot is two mailboxes: an answer is never older than its question.  *)
PlanBox == INSTANCE Mailbox WITH
  booked <- requested, working <- claimed, answered <- completed
ApplyBox == INSTANCE Mailbox WITH
  booked <- applyRequested, working <- intent.seq, answered <- applyCompleted
PlansAnsweredInOrder == PlanBox!Spec
AppliesAnsweredInOrder == ApplyBox!Spec
=============================================================================
