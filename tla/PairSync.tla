------------------------------ MODULE PairSync ------------------------------
(***************************************************************************)
(* One folder pair of the daemon, src/src/daemon.rs: the passes that bring *)
(* a local folder and a Proton Drive folder together, the index they leave *)
(* behind, and everything that runs beside them: the user editing files,   *)
(* other clients editing the remote, the filesystem watcher, the control   *)
(* plane that answers withheld deletions, a crash.                         *)
(*                                                                         *)
(* The pair is a flat set of file paths.  The remote publishes an ordered  *)
(* log of change events; the index holds one record per path, a cursor     *)
(* into that log and the delete approvals.  A full pass lists the remote;  *)
(* an incremental pass rebuilds it from the records and the events after   *)
(* the cursor.  Both plan with FilePlan and then execute the plan one      *)
(* action at a time, each action's side effect landing before the index    *)
(* transaction that records it.                                            *)
(***************************************************************************)
EXTENDS FilePlan, Integers, Sequences

CONSTANTS
  Paths,      \* the file paths of the pair
  Contents,   \* the contents users and remote clients write
  Digests,    \* the digests the remote exposes for what other clients write
  Guarded,    \* the directions whose deletions need approval
  EventsLive, \* whether there is an event source (else no cursor is read)
  MaxEdits,   \* bound: edits by the user and by remote clients
  MaxFaults,  \* bound: crashes, aborted passes, failed calls, lost fs events
  MaxRulings  \* bound: approve, deny and keep commands

Directions == {"local", "remote"}

ASSUME PathsAssumption == Paths # {}
ASSUME ContentsAssumption == Contents \subseteq Content \ {0}
ASSUME DigestsAssumption == Digests \subseteq Digest
ASSUME GuardedAssumption == Guarded \subseteq Directions
ASSUME EventsAssumption == EventsLive \in BOOLEAN
ASSUME BoundsAssumption ==
  MaxEdits \in Nat /\ MaxFaults \in Nat /\ MaxRulings \in Nat

VARIABLES
  disk,       \* local folder: the content of each file, 0 for no file
  sidecar,    \* local folder: the content of each path's conflict copy
  cloud,      \* remote folder: the entity of each file
  log,        \* the volume's change events, oldest first
  base,       \* index: the record of each path
  cursor,     \* index: how far into the log the baseline is, or NoCursor
  approvals,  \* index: the content whose deletion is approved, per direction
  inbox,      \* filesystem events not yet handled
  dirty,      \* pending_changes is not empty
  authored,   \* authored_writes: the files this pass downloaded
  rescan,     \* force_local_rescan
  first,      \* is_first_reconcile
  resync,     \* force_full_walk, the latch of Keep and of a forced sync
  pending,    \* pending_deletions: the deletions withheld, as approvals
  behind,     \* listing_behind: nodes the feed reported and no listing shows
  phase, full, baseline, fetched, target, seen, view, observed, plan, granted,
  todo, staged, draft, failed, vanished,   \* the pass: see PassIdle
  blind,      \* ghost: the last pass that looked left a record that is wrong
  edits, faults, rulings                   \* spent budgets

localSide == <<disk, sidecar>>
remoteSide == <<cloud, log>>
index == <<base, cursor, approvals>>
watcher == <<inbox, dirty, authored, rescan>>
latches == <<first, resync>>
pass == <<phase, full, baseline, fetched, target, seen, view, observed, plan,
          granted, todo, staged, draft, failed, vanished>>
budgets == <<edits, faults, rulings>>
memory == <<watcher, latches, pending, behind>>
vars == <<localSide, remoteSide, index, memory, pass, blind, budgets>>

NoCursor == -1
Event == [path : Paths, id : Nat, kind : {"created", "updated", "deleted"}]
FsEvent == [path : Paths, kind : {"write", "remove", "sidecar"}]
Ballot == [Paths -> [Directions -> Content]]   \* 0 is "no approval"
NoBallot == [p \in Paths |-> [d \in Directions |-> 0]]
Phases == {"idle", "rebuild", "scan", "list", "decide", "run", "batch", "commit"}

(* The actions after which the index is checkpointed.                      *)
SideEffects == Actions \ {"none", "skip", "auto_link", "purge"}

FoldersTyped ==
  /\ disk \in [Paths -> Content] /\ sidecar \in [Paths -> Content]
  /\ cloud \in [Paths -> Entity] /\ log \in Seq(Event)

IndexTyped ==
  /\ base \in [Paths -> Row] /\ cursor \in Nat \cup {NoCursor}
  /\ approvals \in Ballot

MemoryTyped ==
  /\ inbox \subseteq FsEvent /\ dirty \in BOOLEAN
  /\ authored \subseteq Paths /\ rescan \in BOOLEAN
  /\ first \in BOOLEAN /\ resync \in BOOLEAN
  /\ pending \in Ballot /\ behind \subseteq Paths \X Nat

PassTyped ==
  /\ phase \in Phases /\ full \in BOOLEAN /\ baseline \in [Paths -> Row]
  /\ fetched \in Nat /\ target \in Nat \cup {NoCursor}
  /\ seen \in [Paths -> Content] /\ view \in [Paths -> Entity]
  /\ observed \subseteq Paths /\ plan \in [Paths -> Actions]
  /\ granted \in Ballot /\ todo \subseteq Paths /\ staged \subseteq Paths
  /\ draft \in [Paths -> Row] /\ failed \subseteq Paths /\ vanished \subseteq Paths

CountersTyped ==
  blind \in [Paths -> BOOLEAN] /\ edits \in Nat /\ faults \in Nat /\ rulings \in Nat

TypeOK == FoldersTyped /\ IndexTyped /\ MemoryTyped /\ PassTyped /\ CountersTyped

(* No pass is running: what a pass works with holds nothing.               *)
PassIdle ==
  /\ phase = "idle" /\ full = FALSE
  /\ baseline = [p \in Paths |-> NoRecord]   \* the index as the pass loaded it
  /\ fetched = 0                             \* the log position it knows
  /\ target = NoCursor                       \* the cursor it would store
  /\ seen = [p \in Paths |-> 0]              \* its local scan
  /\ view = [p \in Paths |-> NoEntity]       \* its map of the remote
  /\ observed = {}                           \* the paths the remote told it of
  /\ plan = [p \in Paths |-> "none"]
  /\ granted = NoBallot                      \* the approvals it would consume
  /\ todo = {}                               \* the actions not yet run
  /\ staged = {}                             \* paths with a record to commit
  /\ draft = [p \in Paths |-> NoRecord]      \* ... and that record
  /\ failed = {} /\ vanished = {}

ForgetPass ==
  /\ phase' = "idle" /\ full' = FALSE
  /\ baseline' = [p \in Paths |-> NoRecord]
  /\ fetched' = 0 /\ target' = NoCursor
  /\ seen' = [p \in Paths |-> 0] /\ view' = [p \in Paths |-> NoEntity]
  /\ observed' = {} /\ plan' = [p \in Paths |-> "none"]
  /\ granted' = NoBallot /\ todo' = {} /\ staged' = {}
  /\ draft' = [p \in Paths |-> NoRecord]
  /\ failed' = {} /\ vanished' = {}

FreshStart ==
  /\ disk \in [Paths -> {0} \cup Contents]
  /\ cloud \in [Paths -> {NoEntity} \cup
                  [hash : Contents, id : {1}, digest : Digests]]
  /\ base = [p \in Paths |-> NoRecord]
  /\ cursor = NoCursor

SyncedStart ==
  /\ disk \in [Paths -> Contents]
  /\ cloud = [p \in Paths |-> [hash |-> disk[p], id |-> 1, digest |-> "sha1"]]
  /\ base = [p \in Paths |-> [hash |-> disk[p], id |-> 1, status |-> "synced"]]
  /\ cursor = 0

Init ==
  /\ FreshStart \/ SyncedStart
  /\ sidecar = [p \in Paths |-> 0]
  /\ log = <<>>
  /\ approvals = NoBallot /\ pending = NoBallot
  /\ inbox = {} /\ dirty = FALSE /\ authored = {} /\ rescan = FALSE
  /\ first = TRUE /\ resync = FALSE /\ behind = {}
  /\ PassIdle
  /\ blind = [p \in Paths |-> FALSE]
  /\ edits = 0 /\ faults = 0 /\ rulings = 0

-----------------------------------------------------------------------------
(* The world outside the daemon.                                           *)

Notify(p, kind) == inbox' = inbox \cup {[path |-> p, kind |-> kind]}
Publish(p, id, kind) ==
  log' = Append(log, [path |-> p, id |-> id, kind |-> kind])
NewId == Len(log) + 2

Edit ==
  /\ edits < MaxEdits
  /\ edits' = edits + 1
  /\ UNCHANGED <<index, latches, pending, behind, pass, blind, faults, rulings>>

UserWrites(p) ==
  /\ \E content \in Contents \ {disk[p]} : disk' = [disk EXCEPT ![p] = content]
  /\ Notify(p, "write")
  /\ Edit
  /\ UNCHANGED <<sidecar, remoteSide, dirty, authored, rescan>>

UserRemoves(p) ==
  /\ disk[p] # 0
  /\ disk' = [disk EXCEPT ![p] = 0]
  /\ Notify(p, "remove")
  /\ Edit
  /\ UNCHANGED <<sidecar, remoteSide, dirty, authored, rescan>>

(* Removing the conflict copy is how a user says "keep mine".              *)
UserDropsSidecar(p) ==
  /\ sidecar[p] # 0
  /\ sidecar' = [sidecar EXCEPT ![p] = 0]
  /\ Notify(p, "sidecar")
  /\ Edit
  /\ UNCHANGED <<disk, remoteSide, dirty, authored, rescan>>

(* A revision keeps the node, a new file is a new one, and a document      *)
(* stays a document.                                                       *)
RemoteWrites(p) ==
  /\ \E content \in Contents, digest \in Digests :
       LET id == IF Exists(cloud[p]) THEN cloud[p].id ELSE NewId
           entity == [hash |-> content, id |-> id, digest |-> digest]
       IN /\ entity # cloud[p]
          /\ Exists(cloud[p]) => (digest = "doc" <=> cloud[p].digest = "doc")
          /\ cloud' = [cloud EXCEPT ![p] = entity]
          /\ Publish(p, id, IF Exists(cloud[p]) THEN "updated" ELSE "created")
  /\ Edit
  /\ UNCHANGED <<localSide, watcher>>

RemoteRemoves(p) ==
  /\ Exists(cloud[p])
  /\ cloud' = [cloud EXCEPT ![p] = NoEntity]
  /\ Publish(p, cloud[p].id, "deleted")
  /\ Edit
  /\ UNCHANGED <<localSide, watcher>>

-----------------------------------------------------------------------------
(* Between passes: filesystem events and their loss.                       *)

Fault == faults < MaxFaults /\ faults' = faults + 1 /\ UNCHANGED <<edits, rulings>>

(* An event may come long after the change it reports, and a pass may run  *)
(* in between.  Only the echo of a download of the last pass is known to   *)
(* be the daemon's own write.                                              *)
HandleFsEvent(event) ==
  /\ phase = "idle"
  /\ event \in inbox
  /\ inbox' = inbox \ {event}
  /\ base' = IF event.kind = "sidecar" \/
                (event.kind = "write" /\ event.path \notin authored)
             THEN [base EXCEPT ![event.path] = MarkModified(@)]
             ELSE base
  /\ dirty' = TRUE
  /\ UNCHANGED <<localSide, remoteSide, cursor, approvals, authored, rescan,
                 latches, pending, behind, pass, blind, budgets>>

(* The kernel queue overflowed: the loss is latched as a rescan.           *)
LoseFsEvents ==
  /\ phase = "idle"
  /\ inbox # {}
  /\ inbox' = {}
  /\ rescan' = TRUE
  /\ Fault
  /\ UNCHANGED <<localSide, remoteSide, index, dirty, authored, latches,
                 pending, behind, pass, blind>>

-----------------------------------------------------------------------------
(* The control plane.  It answers on its own thread and its own database   *)
(* connection, so a ruling may land in the middle of a pass.               *)

Rule == rulings < MaxRulings /\ rulings' = rulings + 1 /\ UNCHANGED <<edits, faults>>

(* An approval pins the content shown in the queue, or, for a deletion     *)
(* that is planned but not withheld yet, the content of the record.        *)
Approve(p, d) ==
  LET fingerprint == IF pending[p] = NoBallot[p] THEN base[p].hash
                     ELSE pending[p][d]
  IN /\ fingerprint # 0
     /\ approvals[p][d] # fingerprint
     /\ approvals' = [approvals EXCEPT ![p][d] = fingerprint]
     /\ Rule
     /\ UNCHANGED <<localSide, remoteSide, base, cursor, memory, pass, blind>>

Deny(p, d) ==
  /\ pending[p][d] # 0
  /\ approvals[p][d] # 0
  /\ approvals' = [approvals EXCEPT ![p][d] = 0]
  /\ Rule
  /\ UNCHANGED <<localSide, remoteSide, base, cursor, memory, pass, blind>>

(* Keep drops the record, so that the surviving side is new to the planner *)
(* and is sent back, and latches the full walk that lets it be seen.       *)
Keep(p, d) ==
  /\ pending[p][d] # 0
  /\ base[p].hash = pending[p][d]
  /\ base' = [base EXCEPT ![p] = NoRecord]
  /\ approvals' = [approvals EXCEPT ![p] = NoBallot[p]]
  /\ resync' = TRUE
  /\ blind' = [blind EXCEPT ![p] = TRUE]
  /\ Rule
  /\ UNCHANGED <<localSide, remoteSide, cursor, watcher, first, pending, behind,
                 pass>>

-----------------------------------------------------------------------------
(* A pass, up to its plan.                                                 *)

(* A full walk reads the cursor it will store before it lists anything; a  *)
(* lookup that fails leaves it none to store.                              *)
CaptureCursor ==
  target' \in {NoCursor} \cup (IF EventsLive THEN {Len(log)} ELSE {})

StartPass(records) ==
  /\ phase = "idle"
  /\ baseline' = records
  /\ authored' = {}
  /\ resync' = FALSE

BeginFull ==
  /\ StartPass(base)
  /\ phase' = "scan" /\ full' = TRUE
  /\ CaptureCursor
  /\ UNCHANGED <<localSide, remoteSide, index, inbox, dirty, rescan, first,
                 pending, behind, fetched, seen, view, observed, plan, granted,
                 todo, staged, draft, failed, vanished, blind, budgets>>

IgnoreRescan == ~first /\ ~dirty /\ pending = NoBallot   \* mutant
IgnorePending == ~first /\ ~rescan /\ ~dirty             \* mutant
NothingAsks == ~first /\ ~rescan /\ ~dirty /\ pending = NoBallot

(* Idle passes store the cursor and touch nothing else.                    *)
FinishIdle(latest) ==
  /\ cursor' = latest
  /\ first' = FALSE /\ rescan' = FALSE
  /\ ForgetPass

IgnoreResync == EventsLive /\ cursor # NoCursor   \* mutant
FeedAnswers == EventsLive /\ cursor # NoCursor /\ ~resync

BeginIdle ==
  /\ FeedAnswers /\ NothingAsks
  /\ cursor = Len(log)
  /\ phase = "idle"
  /\ authored' = {}
  /\ FinishIdle(cursor)
  /\ UNCHANGED <<localSide, remoteSide, base, approvals, inbox, dirty, resync,
                 pending, behind, blind, budgets>>

BeginIncremental ==
  /\ FeedAnswers
  /\ ~(NothingAsks /\ cursor = Len(log))
  /\ StartPass(base)
  /\ phase' = "rebuild"
  /\ fetched' = Len(log)
  /\ UNCHANGED <<localSide, remoteSide, index, inbox, dirty, rescan, first,
                 pending, behind, full, target, seen, view, observed, plan,
                 granted, todo, staged, draft, failed, vanished, blind, budgets>>

(* reconstruct_remote over a flat folder.  The events between the cursor   *)
(* and the fetch are applied to the entities the records stand for; a      *)
(* changed node is looked up in a listing taken after the fetch.           *)
Window == (cursor + 1)..fetched
Tracked(node) == node[2] # 0 /\ baseline[node[1]].id = node[2]
NodeOf(i) == <<log[i].path, log[i].id>>
Shown(node) == cloud[node[1]].id = node[2]
Removes(i) == log[i].kind = "deleted"

Listed(p) == \E i \in Window : NodeOf(i) = <<p, cloud[p].id>> /\ ~Removes(i)

(* A tracked node leaves by its removal, or by an update whose listing no  *)
(* longer shows it; from then on it is not tracked.                        *)
Drops(i) ==
  /\ Tracked(NodeOf(i))
  /\ Removes(i) \/ (log[i].kind = "updated" /\ ~Shown(NodeOf(i)))
Dropped(p) == \E i \in Window : log[i].path = p /\ Drops(i)
TrackedAt(i) ==
  Tracked(NodeOf(i)) /\ \A j \in Window : j < i /\ Drops(j) => NodeOf(j) # NodeOf(i)

(* Reported by its last event, and not in the listing yet.                 *)
Lags(i) ==
  /\ ~Removes(i) /\ ~Shown(NodeOf(i))
  /\ log[i].kind = "created" \/ ~TrackedAt(i)
  /\ \A j \in Window : NodeOf(j) = NodeOf(i) => j <= i
Lagging == {NodeOf(i) : i \in {j \in Window : Lags(j)}}

(* The removal of a node nothing tracks: outside this folder, unless it    *)
(* may be the node of a file whose id the index does not know yet.         *)
Outside == {i \in Window : Removes(i) /\ ~TrackedAt(i)}

Rebuilt(p) ==
  IF Listed(p) THEN cloud[p]
  ELSE IF Dropped(p) THEN NoEntity ELSE EntityOfRecord(baseline[p])

NeedsWalk ==
  Outside # {} /\ \E p \in Paths : Exists(Rebuilt(p)) /\ Rebuilt(p).id = 0

FallBack ==
  /\ phase = "rebuild"
  /\ NeedsWalk
  /\ phase' = "scan" /\ full' = TRUE
  /\ CaptureCursor
  /\ UNCHANGED <<localSide, remoteSide, index, memory, baseline, fetched, seen,
                 view, observed, plan, granted, todo, staged, draft, failed,
                 vanished, blind, budgets>>

CursorAfter == IF Lagging = {} THEN fetched ELSE cursor

Rebuild ==
  /\ phase = "rebuild"
  /\ ~NeedsWalk
  /\ behind' = Lagging
  /\ IF NothingAsks /\ Window = Outside \cup {i \in Window : Lags(i)}
     THEN FinishIdle(CursorAfter)
     ELSE /\ view' = [p \in Paths |-> Rebuilt(p)]
          /\ observed' = {p \in Paths : Listed(p) \/ Dropped(p)}
          /\ target' = CursorAfter
          /\ phase' = "scan"
          /\ UNCHANGED <<cursor, first, rescan, full, baseline, fetched, seen,
                         plan, granted, todo, staged, draft, failed, vanished>>
  /\ UNCHANGED <<localSide, remoteSide, base, approvals, inbox, dirty, authored,
                 resync, pending, blind, budgets>>

ScanLocal ==
  /\ phase = "scan"
  /\ seen' = disk
  /\ phase' = IF full THEN "list" ELSE "decide"
  /\ UNCHANGED <<localSide, remoteSide, index, memory, full, baseline, fetched,
                 target, view, observed, plan, granted, todo, staged, draft,
                 failed, vanished, blind, budgets>>

(* The walk must list what the feed reported, or it stores no cursor.      *)
ListRemote ==
  /\ phase = "list"
  /\ view' = cloud /\ observed' = Paths /\ fetched' = Len(log)
  /\ IF target = NoCursor \/ \A node \in behind : Shown(node)
     THEN /\ behind' = IF target = NoCursor THEN behind ELSE {}
          /\ UNCHANGED target
     ELSE target' = NoCursor /\ UNCHANGED behind
  /\ phase' = "decide"
  /\ UNCHANGED <<localSide, remoteSide, index, watcher, latches, pending, full,
                 baseline, seen, plan, granted, todo, staged, draft, failed,
                 vanished, blind, budgets>>

(* The plan and its gate.  A guarded deletion runs only under an approval  *)
(* of the content the baseline records; otherwise it is withheld.          *)
Planned(p) == PlanFile(seen[p], view[p], baseline[p])
Gated(p, d) ==
  Planned(p) \in Deletes /\ Direction(Planned(p)) = d /\ d \in Guarded
ApprovedOnce(p, d) == approvals[p][d] # 0   \* mutant of Approved
Approved(p, d) == approvals[p][d] = baseline[p].hash

Decide ==
  /\ phase = "decide"
  /\ plan' = [p \in Paths |-> Planned(p)]
  /\ granted' = [p \in Paths |-> [d \in Directions |->
       IF Gated(p, d) /\ Approved(p, d) THEN approvals[p][d] ELSE 0]]
  /\ pending' = [p \in Paths |-> [d \in Directions |->
       IF Gated(p, d) /\ ~Approved(p, d) THEN baseline[p].hash ELSE 0]]
  /\ todo' = {p \in Paths : Planned(p) \notin {"none", "skip"} /\
                            pending'[p] = NoBallot[p]}
  /\ phase' = "run"
  /\ UNCHANGED <<localSide, remoteSide, index, watcher, latches, behind, full,
                 baseline, fetched, target, seen, view, observed, staged, draft,
                 failed, vanished, blind, budgets>>

-----------------------------------------------------------------------------
(* A pass, running its plan.  Actions work on the two folders as they are  *)
(* NOW, the records they stage on what the pass scanned.                   *)

(* Downloads may go on before the checkpoint of their batch.               *)
Acting(p, action) ==
  /\ phase = "run" \/ (phase = "batch" /\ action = "download")
  /\ p \in todo
  /\ plan[p] = action
  /\ todo' = todo \ {p}

(* What an action does to the two folders when its call succeeds.          *)
Lands(p) ==
  CASE plan[p] = "upload" ->
         LET id == IF Exists(cloud[p]) THEN cloud[p].id ELSE NewId
         IN /\ disk[p] # 0 /\ cloud[p].digest # "doc"
            /\ cloud' = [cloud EXCEPT ![p] =
                           [hash |-> disk[p], id |-> id, digest |-> "sha1"]]
            /\ Publish(p, id, IF Exists(cloud[p]) THEN "updated" ELSE "created")
            /\ UNCHANGED <<localSide, inbox>>
    [] plan[p] = "download" ->
         /\ Exists(cloud[p]) /\ cloud[p].digest # "doc"
         /\ disk' = [disk EXCEPT ![p] = cloud[p].hash]
         /\ Notify(p, "write")
         /\ UNCHANGED <<sidecar, remoteSide>>
    [] plan[p] = "conflict" ->
         /\ Exists(cloud[p]) /\ cloud[p].digest # "doc"
         /\ sidecar' = [sidecar EXCEPT ![p] = cloud[p].hash]
         /\ UNCHANGED <<disk, remoteSide, inbox>>
    [] plan[p] = "conflict_local" ->
         /\ sidecar[p] = 0 => disk[p] # 0
         /\ sidecar' = [sidecar EXCEPT ![p] = IF @ = 0 THEN disk[p] ELSE @]
         /\ UNCHANGED <<disk, remoteSide, inbox>>
    [] plan[p] = "remote_delete" ->
         /\ Exists(cloud[p])
         /\ cloud' = [cloud EXCEPT ![p] = NoEntity]
         /\ Publish(p, cloud[p].id, "deleted")
         /\ UNCHANGED <<localSide, inbox>>
    [] plan[p] = "local_delete" ->
         /\ disk' = [disk EXCEPT ![p] = 0]
         /\ inbox' = IF disk[p] = 0 THEN inbox
                     ELSE inbox \cup {[path |-> p, kind |-> "remove"]}
         /\ UNCHANGED <<sidecar, remoteSide>>
    [] OTHER -> UNCHANGED <<localSide, remoteSide, inbox>>

(* The calls that find their file gone, or a document, and so must fail.   *)
CannotLand(p) ==
  \/ plan[p] = "upload" /\ (disk[p] = 0 \/ cloud[p].digest = "doc")
  \/ plan[p] \in {"download", "conflict"} /\ cloud[p].digest = "doc"
  \/ plan[p] = "conflict_local" /\ sidecar[p] = 0 /\ disk[p] = 0
  \/ plan[p] = "remote_delete" /\ ~Exists(cloud[p])

Stage(p) ==
  /\ staged' = staged \cup {p}
  /\ draft' = [draft EXCEPT ![p] =
       RecordAfter(plan[p], seen[p], cloud[p].hash, view[p], baseline[p])]

passFixed == <<full, baseline, fetched, target, seen, view, observed, plan, granted>>

(* Whatever has a side effect is followed by a checkpoint.                 *)
PhaseAfter(action) ==
  IF action \notin SideEffects THEN "run"
  ELSE IF action = "download" THEN "batch" ELSE "commit"

Act(p, action) ==
  /\ Acting(p, action)
  /\ Lands(p)
  /\ Stage(p)
  /\ phase' = PhaseAfter(action)
  /\ authored' = IF action = "download" THEN authored \cup {p} ELSE authored
  /\ UNCHANGED <<index, dirty, rescan, latches, pending, behind, passFixed,
                 failed, vanished, blind, budgets>>

Upload(p) == Act(p, "upload")
Download(p) == Act(p, "download")
WriteConflict(p) == Act(p, "conflict")
KeepLocalCopy(p) == Act(p, "conflict_local")
RemoteDelete(p) == Act(p, "remote_delete")
LocalDelete(p) == Act(p, "local_delete")
AutoLink(p) == Act(p, "auto_link")
Purge(p) == Act(p, "purge")

(* The remote node is gone since the listing: not a failure, and no record *)
(* is written, but the cursor is held.                                     *)
Vanish(p) ==
  /\ plan[p] \in {"download", "conflict"}
  /\ Acting(p, plan[p])
  /\ ~Exists(cloud[p])
  /\ vanished' = vanished \cup {p}
  /\ phase' = PhaseAfter(plan[p])
  /\ UNCHANGED <<localSide, remoteSide, index, memory, passFixed, staged, draft,
                 failed, blind, budgets>>

(* A call fails, because it had to or by a fault; a fault may strike after *)
(* the call took effect.                                                   *)
Fail(p) ==
  /\ plan[p] \in SideEffects
  /\ Acting(p, plan[p])
  /\ \/ CannotLand(p) /\ UNCHANGED <<localSide, remoteSide, inbox, budgets>>
     \/ Fault /\ UNCHANGED <<localSide, remoteSide, inbox>>
     \/ Fault /\ Lands(p)
  /\ failed' = failed \cup {p}
  /\ phase' = PhaseAfter(plan[p])
  /\ UNCHANGED <<index, dirty, authored, rescan, latches, pending, behind,
                 passFixed, staged, draft, vanished, blind>>

(* Ghost: a path the remote told this pass of is described by the record   *)
(* the pass leaves, unless a transfer or a deletion moved both sides on.   *)
BlindAfter(p, record) ==
  IF plan[p] \in SideEffects \ {"conflict", "conflict_local"} THEN FALSE
  ELSE IF p \in observed THEN ~Describes(record, view[p]) ELSE blind[p]

(* One transaction: the staged records and the approvals they used up.     *)
CommitStaged ==
  /\ base' = [p \in Paths |-> IF p \in staged THEN draft[p] ELSE base[p]]
  /\ approvals' = [p \in Paths |-> [d \in Directions |->
       IF p \in staged /\ granted[p][d] # 0 THEN 0 ELSE approvals[p][d]]]

Checkpoint ==
  /\ phase \in {"batch", "commit"}
  /\ CommitStaged
  /\ staged' = {}
  /\ phase' = "run"
  /\ blind' = [p \in Paths |->
       IF p \in staged THEN BlindAfter(p, draft[p]) ELSE blind[p]]
  /\ UNCHANGED <<localSide, remoteSide, cursor, memory, passFixed, todo, draft,
                 failed, vanished, budgets>>

HeldForWithheld == target = NoCursor \/ vanished # {} \/ pending # NoBallot   \* mutant
HeldForFailures == target = NoCursor \/ failed # {} \/ vanished # {}        \* mutant
CursorHeld == target = NoCursor \/ failed # {} \/ vanished # {} \/ pending # NoBallot

(* The final transaction, and the latches the outcome clears.              *)
Finish ==
  /\ phase = "run"
  /\ todo = {}
  /\ CommitStaged
  /\ cursor' = IF CursorHeld THEN cursor ELSE target
  /\ dirty' = (failed # {})
  /\ rescan' = (rescan /\ failed # {})
  /\ first' = (first /\ failed # {})
  /\ blind' = [p \in Paths |->
       IF p \in staged \/ plan[p] \in {"none", "skip"}
       THEN BlindAfter(p, base'[p]) ELSE blind[p]]
  /\ ForgetPass
  /\ UNCHANGED <<localSide, remoteSide, inbox, authored, resync, pending,
                 behind, budgets>>

(* Any error outside the actions ends the pass: what no checkpoint has     *)
(* committed is dropped, and the forced walk it had taken stays taken.     *)
Abort ==
  /\ phase # "idle"
  /\ Fault
  /\ ForgetPass
  /\ UNCHANGED <<localSide, remoteSide, index, memory, blind>>

Crash ==
  /\ Fault
  /\ ForgetPass
  /\ inbox' = {} /\ dirty' = FALSE /\ authored' = {} /\ rescan' = FALSE
  /\ first' = TRUE /\ resync' = FALSE
  /\ pending' = NoBallot /\ behind' = {}
  /\ UNCHANGED <<localSide, remoteSide, index, blind>>

-----------------------------------------------------------------------------
Environment ==
  \E p \in Paths :
    \/ UserWrites(p) \/ UserRemoves(p) \/ UserDropsSidecar(p)
    \/ RemoteWrites(p) \/ RemoteRemoves(p)

Control ==
  \E p \in Paths, d \in Directions : Approve(p, d) \/ Deny(p, d) \/ Keep(p, d)

HandleFsEvents == \E event \in inbox : HandleFsEvent(event)

BeginPass == BeginFull \/ BeginIdle \/ BeginIncremental

Execute ==
  \E p \in Paths :
    \/ Upload(p) \/ Download(p) \/ WriteConflict(p) \/ KeepLocalCopy(p)
    \/ RemoteDelete(p) \/ LocalDelete(p) \/ AutoLink(p) \/ Purge(p)
    \/ Vanish(p) \/ Fail(p)

PassStep ==
  FallBack \/ Rebuild \/ ScanLocal \/ ListRemote \/ Decide \/ Execute
    \/ Checkpoint \/ Finish

Next ==
  \/ Environment \/ Control \/ HandleFsEvents \/ LoseFsEvents
  \/ BeginPass \/ PassStep \/ Abort \/ Crash

Spec == Init /\ [][Next]_vars

(* The daemon runs the pass its timer owes and never leaves one, and what  *)
(* the kernel queued is delivered.  A full walk that nothing asks for (a   *)
(* sweep, a forced sync) may happen and is never relied on.                *)
OwedPass == BeginIncremental \/ (~FeedAnswers /\ BeginFull)
LiveSpec ==
  Spec /\ WF_vars(HandleFsEvents) /\ WF_vars(OwedPass) /\ WF_vars(PassStep)

-----------------------------------------------------------------------------
(* Properties.                                                             *)

Untouched(p, position) ==
  \A i \in DOMAIN log : log[i].path = p => i <= position

(* The record names a node whose removal the baseline already accounts for *)
(* (see RemovalsAreSeen).                                                  *)
Orphaned(p) ==
  \E i \in DOMAIN log : i <= cursor /\ Removes(i) /\ NodeOf(i) = <<p, base[p].id>>

(* What the stored cursor promises, and what every incremental pass builds *)
(* on: where no event lies after it, the record describes the remote file  *)
(* as it is.  A cursor stored over a failed, withheld, vanished or         *)
(* not-yet-listed change would hide that change from every later pass.     *)
(* Excepted are records that were not meant to agree (conflicts, unusable  *)
(* digests) and the orphaned ones.  Guards CursorHeld, CursorAfter, the    *)
(* capture before a walk and the latest-event fetch before a rebuild.      *)
CursorSafe ==
  cursor # NoCursor =>
    \A p \in Paths :
      Untouched(p, cursor) /\ ~blind[p] /\ ~Orphaned(p) =>
        Describes(base[p], cloud[p])

(* The same without the exception for orphaned records: a removal of a     *)
(* node that a record names is always seen.  reconstruct.rs says so where  *)
(* it drops removals as outside: "Every record carries an id and none is   *)
(* this node: it was never synced here".                                   *)
RemovalsAreSeen ==
  cursor # NoCursor =>
    \A p \in Paths :
      Untouched(p, cursor) /\ ~blind[p] => Describes(base[p], cloud[p])

DaemonStep == edits' = edits

KeepsRemoteVersion(p) ==
  cloud'[p].hash # cloud[p].hash =>
    \/ cloud[p].hash \in {0, baseline[p].hash, disk[p], sidecar[p]}
    \/ baseline[p].status = "modified"
    \/ ~Untouched(p, fetched)
    \/ blind[p]

KeepsLocalVersion(p) ==
  disk'[p] # disk[p] =>
    disk[p] \in {0, baseline[p].hash, cloud[p].hash, sidecar[p]} \/ disk[p] # seen[p]

(* No step of the daemon destroys the only copy of a version nobody gave   *)
(* up: what it overwrites or deletes is the version both sides agreed on,  *)
(* one the other side still has, or one that replaced it after this pass   *)
(* had read that side.  Crosses the scan, the listing, the plan and the    *)
(* execution, with both sides moving in between.  For the remote versions: *)
NoRemoteLoss == [][DaemonStep => \A p \in Paths : KeepsRemoteVersion(p)]_vars

(* ... and for the local ones.                                             *)
NoLocalLoss == [][DaemonStep => \A p \in Paths : KeepsLocalVersion(p)]_vars

(* In a guarded direction nothing is deleted but the very content that a   *)
(* person approved, whatever arrived between the approval and the deletion *)
(* and whatever was approved for an older version (the delete gate).  On   *)
(* the remote this rests on the baseline describing what is there:         *)
RemoteDeletesApproved ==
  [][DaemonStep /\ "remote" \in Guarded => \A p \in Paths :
       Exists(cloud[p]) /\ ~Exists(cloud'[p]) =>
         \/ cloud[p].hash = granted[p]["remote"]
         \/ ~Untouched(p, fetched)
         \/ blind[p]]_vars

(* ... and locally on the scan.                                            *)
LocalDeletesApproved ==
  [][DaemonStep /\ "local" \in Guarded => \A p \in Paths :
       disk[p] # 0 /\ disk'[p] = 0 =>
         disk[p] = granted[p]["local"] \/ disk[p] # seen[p]]_vars

(* What keeps the two sides apart for good: a deletion that waits for a    *)
(* person or whose approved pass was abandoned (ApprovalSurvives), a       *)
(* conflict, a digest that tells nothing, and records that lie.            *)
Stuck(p) ==
  \/ pending[p] # NoBallot[p]
  \/ approvals[p] # NoBallot[p]
  \/ base[p].status = "conflict"
  \/ cloud[p].digest # "sha1"
  \/ blind[p]
  \/ Orphaned(p)

(* Once edits and faults stop, the two folders become and stay the same,   *)
(* through incremental passes alone: no full walk is relied on, so nothing *)
(* a failure, an abort, a crash or a lost event hid may stay hidden.       *)
Converges == <>[](\A p \in Paths : disk[p] = cloud[p].hash \/ Stuck(p))

ApprovedAndPending(p, d) == pending[p][d] # 0 /\ approvals[p][d] = pending[p][d]

(* The approval is spent or withdrawn, or there is nothing left to delete. *)
ApprovalDone(p, d) ==
  approvals[p][d] = 0 \/ PlanFile(disk[p], cloud[p], base[p]) \notin Deletes

(* An approved deletion is carried out although neither side changes any   *)
(* more: passes do not go idle over it (NothingAsks).  While the daemon    *)
(* neither dies nor aborts a pass.                                         *)
ApprovalApplies ==
  \A p \in Paths, d \in Directions :
    ApprovedAndPending(p, d) ~> (ApprovalDone(p, d) \/ faults > 0)

(* The same whatever happens to a pass on the way.  daemon.rs, on the list *)
(* of pending deletions: it "re-derives it from ground truth every pass    *)
(* (and recomputes the pending list), so an approval applies on the very   *)
(* next reconcile".                                                        *)
ApprovalSurvives ==
  \A p \in Paths, d \in Directions : ApprovedAndPending(p, d) ~> ApprovalDone(p, d)

OneSided(p) == ~Exists(base[p]) /\ ((disk[p] = 0) # (cloud[p].hash = 0))

(* A file that only one side has and the index does not know, as Keep      *)
(* leaves it, does not stay so: the file is sent back.  Only while the     *)
(* daemon neither dies nor aborts a pass, which may lose the full walk     *)
(* that Keep latched.                                                      *)
KeptIsRestored == \A p \in Paths : OneSided(p) ~> (~OneSided(p) \/ faults > 0)

Quiescent ==
  /\ phase = "idle" /\ ~dirty /\ ~rescan /\ ~first
  /\ inbox = {} /\ pending = NoBallot
  /\ cursor = Len(log)

(* Once the conflict copy is removed the conflict is resolved: when        *)
(* nothing is left to do and the record says "synced", both sides hold the *)
(* same.  The documentation: "Removing it marks your original as modified, *)
(* and the next reconcile uploads your local version over the remote."     *)
KeepMineUploads ==
  Quiescent => \A p \in Paths :
    base[p].status = "synced" /\ sidecar[p] = 0 /\ cloud[p].digest = "sha1" =>
      disk[p] = cloud[p].hash

(* A remote version whose digest Proton does not expose is not destroyed   *)
(* unless it is held locally or is the version both sides agreed on.  The  *)
(* documentation: on an unavailable digest the planner "won't delete or    *)
(* overwrite based on a guess".                                            *)
UnknownIsNotDestroyed ==
  [][DaemonStep => \A p \in Paths :
       cloud[p].digest = "none" /\ cloud'[p].hash # cloud[p].hash =>
         \/ cloud[p].hash \in {baseline[p].hash, disk[p], sidecar[p]}
         \/ ~Untouched(p, fetched)]_vars
=============================================================================
