--------------------------- MODULE PairSyncProofs ---------------------------
(***************************************************************************)
(* What a folder pair keeps for every set of paths and contents, whatever  *)
(* the budgets.  TypeOK is not inductive: an executed action stages the    *)
(* record of its plan, which is a row only because the plan is the one     *)
(* that was made from the scan, the view and the baseline this pass still  *)
(* holds.  IInv adds that, and that no unapproved deletion is left to run. *)
(***************************************************************************)
EXTENDS PairSync, FilePlanProofs, Induction

USE DEF Content

Running == {"run", "batch", "commit"}

(* The plan is the plan of what the pass works with, or there is none yet. *)
PlanFollows ==
  \A p \in Paths :
    IF phase \in Running THEN plan[p] = Planned(p)
    ELSE plan[p] = "none" /\ p \notin todo

(* The guarded deletions still to run are approved, at the content of the  *)
(* baseline.                                                               *)
Cleared ==
  \A p \in todo : \A d \in Directions :
    plan[p] \in Deletes /\ Direction(plan[p]) = d /\ d \in Guarded =>
      granted[p][d] = baseline[p].hash

PassInv == PassTyped /\ PlanFollows /\ Cleared
Typed == FoldersTyped /\ IndexTyped /\ MemoryTyped /\ CountersTyped /\ PassInv

(* Nothing points beyond the end of the log, and a pass that rebuilds has  *)
(* a cursor to rebuild from.                                               *)
Positions ==
  /\ fetched <= Len(log) /\ cursor <= Len(log) /\ target <= Len(log)
  /\ phase = "rebuild" => cursor # NoCursor

IInv == Typed /\ Positions

(* The constants are contents and digests.                                 *)
LEMMA Members ==
  /\ \A c \in Contents : c \in Content /\ c # 0
  /\ \A d \in Digests : d \in Digest
  BY ContentsAssumption, DigestsAssumption DEF Content

(* What stands for nothing is well typed.                                  *)
LEMMA Defaults ==
  /\ NoEntity \in Entity /\ ~Exists(NoEntity)
  /\ NoRecord \in Row /\ ~Exists(NoRecord)
  /\ NoBallot \in Ballot
  BY DEF NoEntity, NoRecord, Entity, Row, Record, Status, Digest, Exists, NoBallot,
     Ballot, Directions

(* Granting or withdrawing an approval leaves a ballot.                    *)
LEMMA BallotChange ==
  ASSUME NEW ballot \in Ballot, NEW p \in Paths, NEW d \in Directions, NEW c \in Content
  PROVE  /\ [ballot EXCEPT ![p][d] = c] \in Ballot
         /\ [ballot EXCEPT ![p] = NoBallot[p]] \in Ballot
         /\ ballot[p][d] \in Content
  BY DEF Ballot, NoBallot

(* The fields of a row, and what the watcher makes of one.                 *)
LEMMA RowFields ==
  ASSUME NEW record \in Row
  PROVE  /\ record.hash \in Content /\ record.id \in Nat
         /\ MarkModified(record) \in Row
  BY DEF Row, Record, MarkModified, Exists, Status

(* The fields of an entity, and what a write makes.                        *)
LEMMA EntityFields ==
  /\ \A entity \in Entity : entity.hash \in Content /\ entity.id \in Nat
                            /\ entity.digest \in Digest
  /\ \A c \in Content, i \in Nat, d \in Digest :
       [hash |-> c, id |-> i, digest |-> d] \in Entity
  BY DEF Entity

(* Both starts are well typed.                                             *)
LEMMA InitTyped == Init => Typed
<1> SUFFICES ASSUME Init PROVE Typed
  OBVIOUS
<1>1. /\ disk \in [Paths -> Content] /\ cloud \in [Paths -> Entity]
      /\ base \in [Paths -> Row] /\ cursor \in Nat \cup {NoCursor}
  <2>1. CASE FreshStart
    <3>1. ASSUME NEW entity \in [hash : Contents, id : {1}, digest : Digests]
          PROVE  entity \in Entity
      BY Members DEF Entity, Content
    <3>2. cloud \in [Paths -> Entity]
      BY <2>1, <3>1, Defaults DEF FreshStart
    <3>3. disk \in [Paths -> Content]
      BY <2>1, Members DEF FreshStart, Content
    <3> QED
      BY <2>1, <3>2, <3>3, Defaults DEF FreshStart
  <2>2. CASE SyncedStart
    <3>1. \A p \in Paths : disk[p] \in Content \ {0}
      BY <2>2, Members DEF SyncedStart
    <3>2. \A c \in Content \ {0} :
            /\ [hash |-> c, id |-> 1, digest |-> "sha1"] \in Entity
            /\ [hash |-> c, id |-> 1, status |-> "synced"] \in Row
      BY DEF Entity, Row, Record, Status, Digest, Exists
    <3> QED
      BY <2>2, <3>1, <3>2 DEF SyncedStart
  <2> QED
    BY <2>1, <2>2 DEF Init
<1>2. PassInv
  BY Defaults
  DEF Init, PassIdle, PassInv, PassTyped, PlanFollows, Cleared, Running, Actions, Phases
<1>3. FoldersTyped
  BY <1>1 DEF Init, FoldersTyped
<1>4. IndexTyped
  BY <1>1, Defaults DEF Init, IndexTyped
<1>5. MemoryTyped
  BY Defaults DEF Init, MemoryTyped
<1>6. CountersTyped
  BY DEF Init, CountersTyped
<1> QED
  BY <1>2, <1>3, <1>4, <1>5, <1>6 DEF Typed

(* What a pass works with is untouched, or forgotten.                      *)
LEMMA PassKept == PassInv /\ UNCHANGED pass => PassInv'
  BY DEF pass, PassInv, PassTyped, PlanFollows, Cleared, Planned

(* A pass that has ended holds nothing.                                    *)
LEMMA Forgotten == ForgetPass => PassInv'
<1> SUFFICES ASSUME ForgetPass PROVE PassInv'
  OBVIOUS
<1>1. PassTyped'
  BY Defaults DEF ForgetPass, PassTyped, Actions, Phases, Content
<1>2. PlanFollows' /\ Cleared'
  BY DEF ForgetPass, PlanFollows, Cleared, Running
<1> QED
  BY <1>1, <1>2 DEF PassInv

-----------------------------------------------------------------------------
(* The steps of the world and of the control plane.                        *)
LEMMA EnvironmentTyped == Typed /\ Environment => Typed'
<1> SUFFICES ASSUME Typed, NEW p \in Paths,
                    \/ UserWrites(p) \/ UserRemoves(p) \/ UserDropsSidecar(p)
                    \/ RemoteWrites(p) \/ RemoteRemoves(p)
             PROVE  Typed'
  BY DEF Environment
<1>0. PassInv' /\ IndexTyped' /\ CountersTyped'
  BY PassKept, BoundsAssumption
  DEF UserWrites, UserRemoves, UserDropsSidecar, RemoteWrites, RemoteRemoves, Edit,
      index, Typed, IndexTyped, CountersTyped
<1>1. ASSUME UserWrites(p) \/ UserRemoves(p) \/ UserDropsSidecar(p)
      PROVE  FoldersTyped' /\ MemoryTyped'
  <2>1. inbox' \subseteq FsEvent
    BY <1>1 DEF UserWrites, UserRemoves, UserDropsSidecar, Notify, Typed, MemoryTyped, FsEvent
  <2>2. MemoryTyped'
    BY <1>1, <2>1
    DEF UserWrites, UserRemoves, UserDropsSidecar, Edit, latches, Typed, MemoryTyped
  <2>3. PICK content \in Content : disk' = [disk EXCEPT ![p] = content] \/ disk' = disk
    BY <1>1, Members DEF UserWrites, UserRemoves, UserDropsSidecar, Content
  <2>4. sidecar' \in [Paths -> Content]
    BY <1>1 DEF UserWrites, UserRemoves, UserDropsSidecar, Typed, FoldersTyped, Content
  <2> QED
    BY <1>1, <2>2, <2>3, <2>4
    DEF UserWrites, UserRemoves, UserDropsSidecar, remoteSide, Typed, FoldersTyped
<1>2. ASSUME NEW id \in Nat, NEW kind \in {"created", "updated", "deleted"},
             Publish(p, id, kind), log \in Seq(Event)
      PROVE  log' \in Seq(Event)
  <2>1. [path |-> p, id |-> id, kind |-> kind] \in Event
    BY DEF Event
  <2> QED
    BY <1>2, <2>1 DEF Publish
<1>3. CASE RemoteWrites(p)
  <2>1. PICK content \in Contents, digest \in Digests :
          LET id == IF Exists(cloud[p]) THEN cloud[p].id ELSE NewId
          IN /\ cloud' = [cloud EXCEPT ![p] =
                            [hash |-> content, id |-> id, digest |-> digest]]
             /\ Publish(p, id, IF Exists(cloud[p]) THEN "updated" ELSE "created")
    BY <1>3 DEF RemoteWrites
  <2>2. NewId \in Nat /\ cloud[p].id \in Nat
    BY EntityFields DEF NewId, Typed, FoldersTyped
  <2>3. log' \in Seq(Event)
    BY <1>2, <2>1, <2>2 DEF Typed, FoldersTyped
  <2>4. cloud' \in [Paths -> Entity]
    BY <2>1, <2>2, EntityFields, Members
    DEF Typed, FoldersTyped
  <2> QED
    BY <1>0, <1>3, <2>3, <2>4
    DEF RemoteWrites, Edit, localSide, watcher, latches, Typed, FoldersTyped, MemoryTyped
<1>4. CASE RemoteRemoves(p)
  <2>1. log' \in Seq(Event)
    BY <1>2, <1>4, EntityFields DEF RemoteRemoves, Typed, FoldersTyped
  <2> QED
    BY <1>0, <1>4, <2>1, Defaults
    DEF RemoteRemoves, Edit, localSide, watcher, latches, Typed, FoldersTyped, MemoryTyped
<1> QED
  BY <1>0, <1>1, <1>3, <1>4 DEF Typed

(* Approve, deny and keep.                                                 *)
LEMMA ControlTyped == Typed /\ Control => Typed'
<1> SUFFICES ASSUME Typed, NEW p \in Paths, NEW d \in Directions,
                    Approve(p, d) \/ Deny(p, d) \/ Keep(p, d)
             PROVE  Typed'
  BY DEF Control
<1>0. PassInv' /\ FoldersTyped' /\ MemoryTyped'
  BY PassKept
  DEF Approve, Deny, Keep, localSide, remoteSide, memory, watcher, latches, Typed,
      FoldersTyped, MemoryTyped
<1>1. CountersTyped'
  <2>1. blind' \in [Paths -> BOOLEAN]
    BY DEF Approve, Deny, Keep, Typed, CountersTyped
  <2> QED
    BY <2>1 DEF Approve, Deny, Keep, Rule, Typed, CountersTyped
<1>2. approvals' \in Ballot
  <2>1. base[p].hash \in Content /\ pending[p][d] \in Content
    BY RowFields, BallotChange DEF Typed, IndexTyped, MemoryTyped
  <2>2. CASE Approve(p, d)
    BY <2>1, <2>2, BallotChange DEF Approve, Typed, IndexTyped
  <2>3. CASE Deny(p, d)
    BY <2>3, BallotChange DEF Deny, Typed, IndexTyped, Content
  <2>4. CASE Keep(p, d)
    BY <2>4, BallotChange DEF Keep, Typed, IndexTyped
  <2> QED
    BY <2>2, <2>3, <2>4
<1>3. base' \in [Paths -> Row] /\ cursor' = cursor
  BY Defaults DEF Approve, Deny, Keep, Typed, IndexTyped
<1> QED
  BY <1>0, <1>1, <1>2, <1>3 DEF Typed, IndexTyped

(* The watcher, and its loss of events.                                    *)
LEMMA EventsTyped == Typed /\ (HandleFsEvents \/ LoseFsEvents) => Typed'
<1> SUFFICES ASSUME Typed, HandleFsEvents \/ LoseFsEvents PROVE Typed'
  OBVIOUS
<1>1. ASSUME NEW event \in inbox, HandleFsEvent(event) PROVE Typed'
  <2>1. event.path \in Paths
    BY DEF Typed, MemoryTyped, FsEvent
  <2>2. base' \in [Paths -> Row]
    BY <1>1, <2>1, RowFields DEF HandleFsEvent, Typed, IndexTyped
  <2> QED
    BY <1>1, <2>2, PassKept
    DEF HandleFsEvent, localSide, remoteSide, latches, budgets, Typed, FoldersTyped,
        IndexTyped, MemoryTyped, CountersTyped
<1>2. CASE LoseFsEvents
  BY <1>2, PassKept
  DEF LoseFsEvents, Fault, localSide, remoteSide, index, latches, Typed, FoldersTyped,
      IndexTyped, MemoryTyped, CountersTyped
<1> QED
  BY <1>1, <1>2 DEF HandleFsEvents

-----------------------------------------------------------------------------
(* The steps of a pass up to its plan.                                     *)
LEMMA BeginTyped == Typed /\ BeginPass => Typed'
<1> SUFFICES ASSUME Typed, BeginPass PROVE Typed'
  OBVIOUS
<1>1. CASE BeginFull
  <2>1. target' \in Nat \cup {NoCursor}
    BY <1>1 DEF BeginFull, CaptureCursor, Typed, FoldersTyped
  <2>2. PassInv'
    BY <1>1, <2>1
    DEF BeginFull, StartPass, Typed, IndexTyped, PassInv, PassTyped, PlanFollows, Cleared,
        Running, Phases
  <2> QED
    BY <1>1, <2>2
    DEF BeginFull, StartPass, localSide, remoteSide, index, budgets, Typed, FoldersTyped,
        IndexTyped, MemoryTyped, CountersTyped
<1>2. CASE BeginIdle
  BY <1>2, Forgotten
  DEF BeginIdle, FinishIdle, localSide, remoteSide, budgets, Typed, FoldersTyped,
      IndexTyped, MemoryTyped, CountersTyped
<1>3. CASE BeginIncremental
  <2>1. PassInv'
    BY <1>3
    DEF BeginIncremental, StartPass, Typed, FoldersTyped, IndexTyped, PassInv, PassTyped,
        PlanFollows, Cleared, Running, Phases
  <2> QED
    BY <1>3, <2>1
    DEF BeginIncremental, StartPass, localSide, remoteSide, index, budgets, Typed,
        FoldersTyped, IndexTyped, MemoryTyped, CountersTyped
<1> QED
  BY <1>1, <1>2, <1>3 DEF BeginPass

(* What base (+) delta rebuilds is an entity for each path.                *)
LEMMA RebuildTyped == IInv /\ Rebuild => Typed'
<1> SUFFICES ASSUME Typed, Positions, Rebuild PROVE Typed'
  BY DEF IInv
<1>1. CursorAfter \in Nat \cup {NoCursor}
  BY DEF CursorAfter, Typed, PassInv, PassTyped, IndexTyped
<1>2. Lagging \subseteq Paths \X Nat
  <2>1. ASSUME NEW i \in Window, Lags(i) PROVE NodeOf(i) \in Paths \X Nat
    <3>1. i \in 1..Len(log)
      BY DEF Window, Rebuild, Positions, NoCursor, Typed, FoldersTyped, IndexTyped,
         PassInv, PassTyped
    <3>2. log[i] \in Event
      BY <3>1 DEF Typed, FoldersTyped
    <3> QED
      BY <3>2 DEF NodeOf, Event
  <2> QED
    BY <2>1 DEF Lagging
<1>3. ASSUME NEW p \in Paths PROVE Rebuilt(p) \in Entity
  BY RowFields, EntityFields, Defaults
  DEF Rebuilt, EntityOfRecord, Digest, Typed, FoldersTyped, PassInv, PassTyped
<1>4. CASE NothingAsks /\ Window = Outside \cup {i \in Window : Lags(i)}
  BY <1>1, <1>2, <1>4, Forgotten
  DEF Rebuild, FinishIdle, localSide, remoteSide, budgets, Typed, FoldersTyped,
      IndexTyped, MemoryTyped, CountersTyped
<1>5. CASE ~(NothingAsks /\ Window = Outside \cup {i \in Window : Lags(i)})
  <2>1. PassInv'
    BY <1>1, <1>3, <1>5
    DEF Rebuild, Typed, PassInv, PassTyped, PlanFollows, Cleared, Running, Phases
  <2> QED
    BY <1>2, <1>5, <2>1
    DEF Rebuild, localSide, remoteSide, budgets, Typed, FoldersTyped, IndexTyped,
        MemoryTyped, CountersTyped
<1> QED
  BY <1>4, <1>5

(* The scan and the listing, before there is a plan.                       *)
LEMMA ScanTyped == Typed /\ (FallBack \/ ScanLocal \/ ListRemote) => Typed'
<1> SUFFICES ASSUME Typed, FallBack \/ ScanLocal \/ ListRemote PROVE Typed'
  OBVIOUS
<1>1. CASE FallBack
  <2>1. target' \in Nat \cup {NoCursor}
    BY <1>1 DEF FallBack, CaptureCursor, Typed, FoldersTyped
  <2> QED
    BY <1>1, <2>1
    DEF FallBack, localSide, remoteSide, index, memory, watcher, latches, budgets, Typed,
        FoldersTyped, IndexTyped, MemoryTyped, CountersTyped, PassInv, PassTyped,
        PlanFollows, Cleared, Running, Phases
<1>2. CASE ScanLocal
  BY <1>2
  DEF ScanLocal, localSide, remoteSide, index, memory, watcher, latches, budgets, Typed,
      FoldersTyped, IndexTyped, MemoryTyped, CountersTyped, PassInv, PassTyped,
      PlanFollows, Cleared, Running, Phases
<1>3. CASE ListRemote
  <2>1. behind' \subseteq Paths \X Nat /\ target' \in Nat \cup {NoCursor}
    BY <1>3 DEF ListRemote, Typed, MemoryTyped, PassInv, PassTyped
  <2>2. PassInv'
    BY <1>3, <2>1
    DEF ListRemote, Typed, FoldersTyped, PassInv, PassTyped, PlanFollows, Cleared,
        Running, Phases
  <2> QED
    BY <1>3, <2>1, <2>2
    DEF ListRemote, localSide, remoteSide, index, watcher, latches, budgets, Typed,
        FoldersTyped, IndexTyped, MemoryTyped, CountersTyped
<1> QED
  BY <1>1, <1>2, <1>3

(* The gate: what it leaves to run is approved, or needs no approval.      *)
LEMMA DecideTyped == Typed /\ Decide => Typed'
<1> SUFFICES ASSUME Typed, Decide PROVE Typed'
  OBVIOUS
<1>1. ASSUME NEW p \in Paths
      PROVE  Planned(p) \in Actions /\ baseline[p].hash \in Content
  BY PlanLegal, RowFields DEF Planned, Typed, PassInv, PassTyped
<1>2. granted' \in Ballot /\ pending' \in Ballot
  BY <1>1 DEF Decide, Ballot, Content, Typed, IndexTyped
<1>3. PassTyped'
  BY <1>1, <1>2 DEF Decide, Typed, PassInv, PassTyped, Phases
<1>4. PlanFollows'
  BY DEF Decide, PlanFollows, Planned, Running
<1>5. ASSUME NEW p \in Paths, NEW d \in Directions, p \in todo', plan'[p] \in Deletes,
             Direction(plan'[p]) = d, d \in Guarded
      PROVE  granted'[p][d] = baseline'[p].hash
  <2>1. Gated(p, d)
    BY <1>5 DEF Decide, Gated
  <2>2. pending'[p][d] = 0
    BY <1>5 DEF Decide, NoBallot
  <2>3. baseline[p].hash # 0
    BY <2>1, PlanLegal DEF Gated, Planned, Deletes, Exists, Typed, PassInv, PassTyped
  <2>4. Approved(p, d)
    BY <2>1, <2>2, <2>3 DEF Decide
  <2> QED
    BY <2>1, <2>4 DEF Decide, Approved
<1>6. Cleared'
  BY <1>5, <1>3 DEF Cleared, PassTyped
<1> QED
  BY <1>2, <1>3, <1>4, <1>6
  DEF Decide, localSide, remoteSide, index, watcher, latches, budgets, Typed,
      FoldersTyped, IndexTyped, MemoryTyped, CountersTyped, PassInv

-----------------------------------------------------------------------------
(* The steps of a pass that runs its plan.                                 *)
LEMMA Arms ==
  ASSUME NEW p \in Paths, Lands(p)
  PROVE  \/ /\ plan[p] = "upload"
            /\ \E id \in {cloud[p].id, NewId}, kind \in {"created", "updated"} :
                 /\ disk[p] # 0
                 /\ cloud' = [cloud EXCEPT ![p] =
                                [hash |-> disk[p], id |-> id, digest |-> "sha1"]]
                 /\ Publish(p, id, kind)
            /\ UNCHANGED <<localSide, inbox>>
         \/ /\ plan[p] = "download"
            /\ Exists(cloud[p]) /\ disk' = [disk EXCEPT ![p] = cloud[p].hash]
            /\ Notify(p, "write") /\ UNCHANGED <<sidecar, remoteSide>>
         \/ /\ plan[p] \in {"conflict", "conflict_local"}
            /\ \E content \in {cloud[p].hash, disk[p], sidecar[p]} :
                 sidecar' = [sidecar EXCEPT ![p] = content]
            /\ UNCHANGED <<disk, remoteSide, inbox>>
         \/ /\ plan[p] = "remote_delete"
            /\ cloud' = [cloud EXCEPT ![p] = NoEntity]
            /\ Publish(p, cloud[p].id, "deleted") /\ UNCHANGED <<localSide, inbox>>
         \/ /\ plan[p] = "local_delete"
            /\ disk' = [disk EXCEPT ![p] = 0]
            /\ inbox' \in {inbox, inbox \cup {[path |-> p, kind |-> "remove"]}}
            /\ UNCHANGED <<sidecar, remoteSide>>
         \/ /\ plan[p] \notin SideEffects
            /\ UNCHANGED <<localSide, remoteSide, inbox>>
<1>1. CASE plan[p] = "upload"
  BY <1>1 DEF Lands
<1>2. CASE plan[p] = "download"
  BY <1>2 DEF Lands
<1>3. CASE plan[p] = "conflict"
  BY <1>3 DEF Lands
<1>4. CASE plan[p] = "conflict_local"
  BY <1>4 DEF Lands
<1>5. CASE plan[p] = "remote_delete"
  BY <1>5 DEF Lands
<1>6. CASE plan[p] = "local_delete"
  BY <1>6 DEF Lands
<1>7. CASE plan[p] \notin SideEffects
  BY <1>7 DEF Lands, SideEffects, Actions
<1> QED
  BY <1>1, <1>2, <1>3, <1>4, <1>5, <1>6, <1>7 DEF SideEffects, Actions

(* Every effect leaves files, entities and events.                         *)
LEMMA LandsTyped ==
  ASSUME Typed, NEW p \in Paths, Lands(p)
  PROVE  FoldersTyped' /\ inbox' \subseteq FsEvent
<1>1. /\ NewId \in Nat /\ cloud[p].id \in Nat /\ cloud[p].hash \in Content
      /\ disk[p] \in Content /\ sidecar[p] \in Content /\ 0 \in Content
  BY EntityFields DEF NewId, Typed, FoldersTyped, Content
<1>2. ASSUME NEW id \in Nat, NEW kind \in {"created", "updated", "deleted"},
             Publish(p, id, kind)
      PROVE  log' \in Seq(Event)
  <2>1. [path |-> p, id |-> id, kind |-> kind] \in Event
    BY DEF Event
  <2> QED
    BY <1>2, <2>1 DEF Publish, Typed, FoldersTyped
<1>3. ASSUME NEW kind \in {"write", "remove"}
      PROVE  [path |-> p, kind |-> kind] \in FsEvent
  BY DEF FsEvent
<1>4. CASE plan[p] = "upload"
  <2>1. PICK id \in Nat, kind \in {"created", "updated"} :
          /\ cloud' = [cloud EXCEPT ![p] =
                         [hash |-> disk[p], id |-> id, digest |-> "sha1"]]
          /\ Publish(p, id, kind)
    BY <1>1, <1>4, Arms DEF SideEffects, Actions
  <2>2. [hash |-> disk[p], id |-> id, digest |-> "sha1"] \in Entity
    BY <1>1, EntityFields DEF Digest
  <2>3. UNCHANGED <<localSide, inbox>>
    BY <1>4, Arms DEF SideEffects, Actions
  <2> QED
    BY <1>2, <2>1, <2>2, <2>3 DEF localSide, Typed, FoldersTyped, MemoryTyped
<1>5. CASE plan[p] = "remote_delete"
  <2>1. /\ cloud' = [cloud EXCEPT ![p] = NoEntity]
        /\ Publish(p, cloud[p].id, "deleted") /\ UNCHANGED <<localSide, inbox>>
    BY <1>5, Arms DEF SideEffects, Actions
  <2> QED
    BY <1>1, <1>2, <2>1, Defaults DEF localSide, Typed, FoldersTyped, MemoryTyped
<1>6. CASE plan[p] \notin {"upload", "remote_delete"}
  <2>1. UNCHANGED remoteSide /\ disk' \in [Paths -> Content]
    BY <1>1, <1>6, Arms DEF localSide, Typed, FoldersTyped
  <2>2. sidecar' \in [Paths -> Content]
    BY <1>1, <1>6, Arms DEF localSide, Typed, FoldersTyped
  <2>3. inbox' \subseteq FsEvent
    BY <1>3, <1>6, Arms DEF Notify, Typed, MemoryTyped
  <2> QED
    BY <2>1, <2>2, <2>3 DEF remoteSide, Typed, FoldersTyped
<1> QED
  BY <1>4, <1>5, <1>6

(* The record of the plan is a row: a download has content to record.      *)
LEMMA StagedTyped ==
  ASSUME Typed, NEW p \in Paths, phase \in Running, Lands(p)
  PROVE  RecordAfter(plan[p], seen[p], cloud[p].hash, view[p], baseline[p]) \in Row
<1>1. /\ seen[p] \in Content /\ view[p] \in Entity /\ baseline[p] \in Row
      /\ cloud[p].hash \in Content
      /\ plan[p] = PlanFile(seen[p], view[p], baseline[p])
  BY EntityFields
  DEF Typed, FoldersTyped, PassInv, PassTyped, PlanFollows, Planned
<1>2. CASE Exists(cloud[p])
  BY <1>1, <1>2, RecordIsRow DEF Exists
<1>3. CASE ~Exists(cloud[p])
  <2>1. plan[p] # "download"
    BY <1>3, Arms DEF SideEffects, Actions
  <2>2. plan[p] \in Actions
    BY <1>1, PlanLegal
  <2>3. RecordAfter(plan[p], seen[p], cloud[p].hash, view[p], baseline[p])
          = RecordAfter(plan[p], seen[p], 1, view[p], baseline[p])
    BY <2>1, <2>2, Recorded DEF Actions, Deletes
  <2> QED
    BY <1>1, <2>3, RecordIsRow DEF Content
<1> QED
  BY <1>2, <1>3

(* An action that succeeds stages its record and keeps the plan.           *)
LEMMA ActTyped ==
  ASSUME Typed, NEW p \in Paths, NEW act \in Actions, Act(p, act)
  PROVE  Typed'
<1>1. phase \in Running /\ phase' \in Running
  BY DEF Act, Acting, PhaseAfter, Running
<1>2. draft' \in [Paths -> Row]
  BY <1>1, StagedTyped DEF Act, Stage, Typed, PassInv, PassTyped
<1>3. PassTyped'
  BY <1>1, <1>2
  DEF Act, Acting, Stage, passFixed, Running, Phases, Typed, PassInv, PassTyped
<1>4. PlanFollows' /\ Cleared'
  BY <1>1
  DEF Act, Acting, passFixed, Typed, PassInv, PassTyped, PlanFollows, Cleared, Planned
<1> QED
  BY <1>3, <1>4, LandsTyped
  DEF Act, index, latches, budgets, Typed, IndexTyped, MemoryTyped, CountersTyped, PassInv

(* An action that fails or finds its node gone.                            *)
LEMMA TroubleTyped ==
  ASSUME Typed, NEW p \in Paths, Vanish(p) \/ Fail(p)
  PROVE  Typed'
<1>1. phase' \in Running /\ phase \in Running
  BY DEF Vanish, Fail, Acting, PhaseAfter, Running
<1>2. PassInv'
  BY <1>1
  DEF Vanish, Fail, Acting, passFixed, Running, Phases, Typed, PassInv, PassTyped,
      PlanFollows, Cleared, Planned
<1>3. CASE Vanish(p)
  BY <1>2, <1>3
  DEF Vanish, localSide, remoteSide, index, memory, watcher, latches, budgets, Typed,
      FoldersTyped, IndexTyped, MemoryTyped, CountersTyped
<1>4. CASE Fail(p)
  <2>1. FoldersTyped' /\ inbox' \subseteq FsEvent
    BY <1>4, LandsTyped DEF Fail, localSide, remoteSide, Typed, FoldersTyped, MemoryTyped
  <2>2. CountersTyped'
    BY <1>4 DEF Fail, Fault, budgets, Typed, CountersTyped
  <2> QED
    BY <1>2, <1>4, <2>1, <2>2
    DEF Fail, index, latches, Typed, IndexTyped, MemoryTyped
<1> QED
  BY <1>3, <1>4

(* The index transaction stores rows and spends approvals.                 *)
LEMMA CommitTyped ==
  ASSUME Typed, CommitStaged
  PROVE  base' \in [Paths -> Row] /\ approvals' \in Ballot
<1>1. base' \in [Paths -> Row]
  BY DEF CommitStaged, Typed, IndexTyped, PassInv, PassTyped
<1>2. approvals' \in Ballot
  BY DEF CommitStaged, Ballot, Content, Typed, IndexTyped
<1> QED
  BY <1>1, <1>2

(* The ghost stays a flag.                                                 *)
LEMMA BlindTyped ==
  ASSUME Typed, NEW p \in Paths, NEW record
  PROVE  BlindAfter(p, record) \in BOOLEAN /\ blind[p] \in BOOLEAN
  BY DEF BlindAfter, Describes, Exists, Typed, CountersTyped

(* Checkpoints, and the ways a pass ends.                                  *)
LEMMA CloseTyped == Typed /\ (Checkpoint \/ Finish \/ Abort \/ Crash) => Typed'
<1> SUFFICES ASSUME Typed, Checkpoint \/ Finish \/ Abort \/ Crash PROVE Typed'
  OBVIOUS
<1>1. CASE Checkpoint
  <2>1. PassInv'
    BY <1>1
    DEF Checkpoint, passFixed, Running, Phases, Typed, PassInv, PassTyped, PlanFollows,
        Cleared, Planned
  <2>2. blind' \in [Paths -> BOOLEAN]
    BY <1>1, BlindTyped DEF Checkpoint
  <2> QED
    BY <1>1, <2>1, <2>2, CommitTyped
    DEF Checkpoint, localSide, remoteSide, memory, watcher, latches, budgets, Typed,
        FoldersTyped, IndexTyped, MemoryTyped, CountersTyped
<1>2. CASE Finish
  <2>1. blind' \in [Paths -> BOOLEAN]
    BY <1>2, BlindTyped DEF Finish
  <2>2. cursor' \in Nat \cup {NoCursor}
    BY <1>2 DEF Finish, Typed, IndexTyped, PassInv, PassTyped
  <2>3. MemoryTyped'
    BY <1>2 DEF Finish, Typed, MemoryTyped
  <2> QED
    BY <1>2, <2>1, <2>2, <2>3, CommitTyped, Forgotten
    DEF Finish, localSide, remoteSide, budgets, Typed, FoldersTyped, IndexTyped,
        CountersTyped
<1>3. CASE Abort
  BY <1>3, Forgotten
  DEF Abort, Fault, localSide, remoteSide, index, memory, watcher, latches, Typed,
      FoldersTyped, IndexTyped, MemoryTyped, CountersTyped
<1>4. CASE Crash
  <2>1. MemoryTyped'
    BY <1>4, Defaults DEF Crash, MemoryTyped
  <2> QED
    BY <1>4, <2>1, Forgotten
    DEF Crash, Fault, localSide, remoteSide, index, Typed, FoldersTyped, IndexTyped,
        CountersTyped
<1> QED
  BY <1>1, <1>2, <1>3, <1>4

-----------------------------------------------------------------------------
(* Every step keeps the typed part of the invariant.                       *)
LEMMA StepTyped == IInv /\ [Next]_vars => Typed'
<1> SUFFICES ASSUME IInv, Typed, [Next]_vars PROVE Typed'
  BY DEF IInv
<1>1. CASE Environment \/ Control \/ HandleFsEvents \/ LoseFsEvents
  BY <1>1, EnvironmentTyped, ControlTyped, EventsTyped
<1>2. CASE BeginPass
  BY <1>2, BeginTyped
<1>3. CASE FallBack \/ Rebuild \/ ScanLocal \/ ListRemote \/ Decide
  BY <1>3, RebuildTyped, ScanTyped, DecideTyped
<1>4. CASE Execute
  BY <1>4, ActTyped, TroubleTyped
  DEF Execute, Upload, Download, WriteConflict, KeepLocalCopy, RemoteDelete,
      LocalDelete, AutoLink, Purge, Actions
<1>5. CASE Checkpoint \/ Finish \/ Abort \/ Crash
  BY <1>5, CloseTyped
<1>6. CASE UNCHANGED vars
  BY <1>6, PassKept
  DEF vars, localSide, remoteSide, index, memory, watcher, latches, budgets, Typed,
      FoldersTyped, IndexTyped, MemoryTyped, CountersTyped
<1> QED
  BY <1>1, <1>2, <1>3, <1>4, <1>5, <1>6 DEF Next, PassStep

-----------------------------------------------------------------------------
(* Initially the log is empty and the cursor at its end, or absent.        *)
LEMMA InitPositions == Init => Positions
  BY DEF Init, PassIdle, FreshStart, SyncedStart, Positions, NoCursor

(* The log only grows.                                                     *)
LEMMA LogGrows ==
  ASSUME Typed, [Next]_vars
  PROVE  Len(log') \in Nat /\ Len(log') >= Len(log) /\ Len(log) \in Nat
<1>1. ASSUME NEW p, NEW id, NEW kind, Publish(p, id, kind)
      PROVE  Len(log') = Len(log) + 1
  BY <1>1 DEF Publish, Typed, FoldersTyped
<1>2. Len(log) \in Nat
  BY DEF Typed, FoldersTyped
<1>3. ASSUME NEW p \in Paths, Lands(p) PROVE Len(log') >= Len(log)
  BY <1>1, <1>2, <1>3, Arms DEF remoteSide
<1>4. log' = log \/ (\E p, id, kind : Publish(p, id, kind))
        \/ (\E p \in Paths : Lands(p))
  <2>1. CASE Environment \/ Control \/ HandleFsEvents \/ LoseFsEvents
    BY <2>1
    DEF Environment, Control, HandleFsEvents, LoseFsEvents, UserWrites, UserRemoves,
        UserDropsSidecar, RemoteWrites, RemoteRemoves, Approve, Deny, Keep,
        HandleFsEvent, remoteSide
  <2>2. CASE BeginPass \/ FallBack \/ Rebuild \/ ScanLocal \/ ListRemote \/ Decide
    BY <2>2
    DEF BeginPass, BeginFull, BeginIdle, BeginIncremental, FallBack, Rebuild, ScanLocal,
        ListRemote, Decide, remoteSide
  <2>3. CASE Execute
    BY <2>3
    DEF Execute, Upload, Download, WriteConflict, KeepLocalCopy, RemoteDelete,
        LocalDelete, AutoLink, Purge, Act, Vanish, Fail, remoteSide
  <2>4. CASE Checkpoint \/ Finish \/ Abort \/ Crash \/ UNCHANGED vars
    BY <2>4 DEF Checkpoint, Finish, Abort, Crash, vars, remoteSide
  <2> QED
    BY <2>1, <2>2, <2>3, <2>4 DEF Next, PassStep
<1> QED
  BY <1>1, <1>2, <1>3, <1>4

(* No position runs ahead of the log.                                      *)
LEMMA StepPositions == IInv /\ [Next]_vars => Positions'
<1> SUFFICES ASSUME Typed, Positions, [Next]_vars PROVE Positions'
  BY DEF IInv
<1> USE LogGrows DEF Positions, NoCursor
<1>1. /\ fetched \in Nat /\ cursor \in Int /\ target \in Int
      /\ Len(log) \in Nat /\ Len(log') \in Nat
  BY DEF Typed, IndexTyped, PassInv, PassTyped
<1>2. ASSUME cursor' \in {cursor, target, fetched}, ForgetPass PROVE Positions'
  BY <1>1, <1>2 DEF ForgetPass
<1>3. CASE UNCHANGED <<fetched, cursor, target, phase>>
  BY <1>1, <1>3
<1>4. CASE Environment \/ Control \/ HandleFsEvents \/ LoseFsEvents
  BY <1>3, <1>4
  DEF Environment, Control, HandleFsEvents, LoseFsEvents, UserWrites, UserRemoves,
      UserDropsSidecar, RemoteWrites, RemoteRemoves, Edit, Approve, Deny, Keep,
      HandleFsEvent, index, pass
<1>5. CASE BeginFull \/ FallBack
  BY <1>1, <1>5 DEF BeginFull, FallBack, CaptureCursor, index, remoteSide
<1>6. CASE BeginIncremental
  BY <1>1, <1>6 DEF BeginIncremental, FeedAnswers, index, remoteSide
<1>7. CASE BeginIdle
  BY <1>2, <1>7 DEF BeginIdle, FinishIdle
<1>8. CASE Rebuild
  BY <1>1, <1>2, <1>8 DEF Rebuild, FinishIdle, CursorAfter
<1>9. CASE ScanLocal \/ ListRemote \/ Decide
  BY <1>1, <1>9 DEF ScanLocal, ListRemote, Decide, index, remoteSide
<1>10. CASE Execute
  BY <1>1, <1>10
  DEF Execute, Upload, Download, WriteConflict, KeepLocalCopy, RemoteDelete,
      LocalDelete, AutoLink, Purge, Act, Vanish, Fail, PhaseAfter, index, passFixed
<1>11. CASE Checkpoint
  BY <1>1, <1>11 DEF Checkpoint, passFixed
<1>12. CASE Finish \/ Abort \/ Crash
  BY <1>2, <1>12 DEF Finish, Abort, Crash, index
<1>13. CASE UNCHANGED vars
  BY <1>3, <1>13 DEF vars, index, pass
<1> QED
  BY <1>4, <1>5, <1>6, <1>7, <1>8, <1>9, <1>10, <1>11, <1>12, <1>13
  DEF Next, PassStep, BeginPass

(* A running pass follows the plan of what it holds, with every guarded    *)
(* deletion approved, and no position runs ahead of the log.               *)
THEOREM Invariance == Spec => []IInv
<1>1. Init => IInv
  BY InitTyped, InitPositions DEF IInv
<1>2. IInv /\ [Next]_vars => IInv'
  BY StepTyped, StepPositions DEF IInv
<1> QED
  BY <1>1, <1>2, PTL DEF Spec

(* Type correctness: the index holds rows, cursors and approvals of the    *)
(* right kind whatever a pass stages.                                      *)
THEOREM TypeCorrect == Spec => []TypeOK
<1>1. IInv => TypeOK
  BY DEF IInv, Typed, PassInv, TypeOK
<1> QED
  BY <1>1, Invariance, PTL

-----------------------------------------------------------------------------
(* The daemon changes a local file only as a download or a local deletion  *)
(* that its pass planned for this very file.                               *)
LEMMA LocalChange ==
  ASSUME IInv, [Next]_vars, DaemonStep, NEW p \in Paths, disk'[p] # disk[p]
  PROVE  /\ p \in todo /\ phase \in Running
         /\ \/ plan[p] = "download" /\ disk'[p] # 0
            \/ plan[p] = "local_delete"
<1>1. Typed /\ disk \in [Paths -> Content] /\ edits \in Nat
  BY DEF IInv, Typed, FoldersTyped, CountersTyped
<1>2. PICK q \in Paths : Lands(q) /\ Acting(q, plan[q])
  <2>1. ~Environment
    BY <1>1
    DEF Environment, UserWrites, UserRemoves, UserDropsSidecar, RemoteWrites,
        RemoteRemoves, Edit, DaemonStep
  <2>2. ~(Control \/ HandleFsEvents \/ LoseFsEvents \/ BeginPass)
    BY DEF Control, HandleFsEvents, LoseFsEvents, Approve, Deny, Keep, HandleFsEvent,
       BeginPass, BeginFull, BeginIdle, BeginIncremental, localSide
  <2>3. ~(FallBack \/ Rebuild \/ ScanLocal \/ ListRemote \/ Decide \/ Checkpoint
            \/ Finish \/ Abort \/ Crash \/ UNCHANGED vars)
    BY DEF FallBack, Rebuild, ScanLocal, ListRemote, Decide, Checkpoint, Finish, Abort,
       Crash, vars, localSide
  <2>4. Execute
    BY <2>1, <2>2, <2>3 DEF Next, PassStep
  <2> QED
    BY <2>4
    DEF Execute, Upload, Download, WriteConflict, KeepLocalCopy, RemoteDelete,
        LocalDelete, AutoLink, Purge, Act, Acting, Vanish, Fail, localSide
<1>3. q = p /\ plan[p] \in {"download", "local_delete"}
  BY <1>1, <1>2, Arms DEF localSide
<1>4. plan[p] = "download" => disk'[p] # 0
  BY <1>1, <1>2, <1>3, Arms DEF Exists, SideEffects, Actions
<1> QED
  BY <1>2, <1>3, <1>4 DEF Acting, Running

(* What the plan of a pass rests on when it runs.                          *)
LEMMA PlanMade ==
  ASSUME IInv, NEW p \in Paths, phase \in Running
  PROVE  /\ plan[p] = PlanFile(seen[p], view[p], baseline[p])
         /\ seen[p] \in Content /\ view[p] \in Entity /\ baseline[p] \in Row
  BY DEF IInv, Typed, PassInv, PassTyped, PlanFollows, Planned

(* The daemon destroys no local version but the one both sides agreed on,  *)
(* one that is elsewhere, or one written after this pass's scan.           *)
THEOREM LocalVersionsAreKept == Spec => NoLocalLoss
<1>1. ASSUME IInv, [Next]_vars, DaemonStep, NEW p \in Paths PROVE KeepsLocalVersion(p)
  BY <1>1, LocalChange, PlanMade, PlanLegal DEF KeepsLocalVersion
<1>2. IInv /\ [Next]_vars => [DaemonStep => \A p \in Paths : KeepsLocalVersion(p)]_vars
  BY <1>1
<1> QED
  BY <1>2, Invariance, PTL DEF Spec, NoLocalLoss

(* Where local deletions are guarded, a file goes only when the content    *)
(* it had at the scan was approved for deletion.                           *)
THEOREM LocalDeletesAreApproved == Spec => LocalDeletesApproved
<1> DEFINE Allowed(p) ==
      disk[p] # 0 /\ disk'[p] = 0 => disk[p] = granted[p]["local"] \/ disk[p] # seen[p]
<1>1. ASSUME IInv, [Next]_vars, DaemonStep, "local" \in Guarded, NEW p \in Paths
      PROVE  Allowed(p)
  <2>1. SUFFICES ASSUME disk[p] # 0, disk'[p] = 0, disk[p] = seen[p]
                 PROVE  disk[p] = granted[p]["local"]
    OBVIOUS
  <2>2. p \in todo /\ phase \in Running /\ plan[p] = "local_delete"
    BY <1>1, <2>1, LocalChange
  <2>3. granted[p]["local"] = baseline[p].hash
    BY <1>1, <2>2 DEF IInv, Typed, PassInv, Cleared, Directions, Deletes, Direction
  <2> QED
    BY <1>1, <2>1, <2>2, <2>3, PlanMade, PlanLegal
<1>2. IInv /\ [Next]_vars =>
        [DaemonStep /\ "local" \in Guarded => \A p \in Paths : Allowed(p)]_vars
  BY <1>1
<1> QED
  BY <1>2, Invariance, PTL DEF Spec, LocalDeletesApproved

-----------------------------------------------------------------------------
(* What the stored cursor of a folder pair promises, for every set of      *)
(* paths and contents and whatever the budgets, and what a pass that       *)
(* builds on it may do to the remote.                                      *)
(*                                                                         *)
(* CursorSafe says nothing of a pass that runs, so it is not inductive.    *)
(* CInv follows the promise through the pass: what the events after the    *)
(* cursor leave of the records (ViewInv), what a record staged or          *)
(* committed on the way says (RunInv), and where the cursor that will be   *)
(* stored lies between the old one and the events that were read.          *)

HIDE DEF Content

(* The node of that id was removed from p by then.                         *)
RemovedBy(p, id, position) ==
  \E i \in DOMAIN log : i <= position /\ Removes(i) /\ NodeOf(i) = <<p, id>>

LastOf(i) == \A j \in DOMAIN log : log[j].path = log[i].path => j <= i

(* The last event of a path says what is there.                            *)
RemoteInv ==
  /\ \A p \in Paths : ~Exists(cloud[p]) => cloud[p] = NoEntity
  /\ \A i \in DOMAIN log : LastOf(i) =>
       IF Removes(i) THEN ~Exists(cloud[log[i].path])
       ELSE cloud[log[i].path].id = log[i].id

(* Whatever id the daemon has of a path, it is the node's that is there    *)
(* now or of one whose removal was published.                              *)
Known(p, id) == id = 0 \/ id = cloud[p].id \/ RemovedBy(p, id, Len(log))
KnownInv ==
  \A p \in Paths : /\ Known(p, base[p].id) /\ Known(p, baseline[p].id)
                   /\ Known(p, view[p].id) /\ Known(p, draft[p].id)

(* If nothing happened to p after the position, the record is right, or it *)
(* names a node that is gone and whose removal lies before the mark.       *)
Settled(p, record, isBlind, position, mark) ==
  Untouched(p, position) /\ ~isBlind =>
    \/ Describes(record, cloud[p])
    \/ ~Exists(cloud[p]) /\ RemovedBy(p, record.id, mark)

CursorInv ==
  cursor # NoCursor => \A p \in Paths : Settled(p, base[p], blind[p], cursor, cursor)

(* The pass has its view of the remote; p is not acted upon yet, or never. *)
HasView == phase \in {"decide"} \cup Running \/ (phase = "scan" /\ ~full)
Open(p) == phase \in Running => p \in todo \/ plan[p] \in {"none", "skip"}

OrderInv ==
  /\ phase \notin {"idle", "rebuild"} /\ target # NoCursor => cursor <= target
  /\ phase = "rebuild" => cursor <= fetched
  /\ HasView => cursor <= fetched /\ target <= fetched

(* The view shows the remote as it was at the last event read; where it    *)
(* was carried over from the record, the record is settled there.          *)
ViewInv ==
  HasView => \A p \in Paths : Open(p) =>
    IF p \in observed THEN Untouched(p, fetched) => view[p] = cloud[p]
    ELSE /\ view[p] = EntityOfRecord(baseline[p])
         /\ cursor # NoCursor
         /\ Settled(p, baseline[p], blind[p], fetched, cursor)

(* Only Keep changes a record under a pass.                                *)
KeptInv ==
  phase # "idle" => \A p \in Paths : Open(p) => base[p] = baseline[p] \/ blind[p]

(* What the actions stage, and what the checkpoints stored, is settled.    *)
StagedInv ==
  /\ phase \notin Running => staged = {}
  /\ \A p \in todo : plan[p] \notin {"none", "skip"}
  /\ \A p \in staged :
       /\ plan[p] \notin {"none", "skip"} /\ p \notin todo
       /\ Settled(p, draft[p], BlindAfter(p, draft[p]), fetched, cursor)

Withheld(p) == pending[p] # NoBallot[p]
StoredInv ==
  phase \in Running => \A p \in Paths :
    \/ Open(p) \/ Withheld(p) \/ p \in failed \cup vanished \cup staged
    \/ Settled(p, base[p], blind[p], fetched, cursor)

CInv ==
  /\ RemoteInv /\ KnownInv /\ CursorInv /\ OrderInv
  /\ ViewInv /\ KeptInv /\ StagedInv /\ StoredInv

-----------------------------------------------------------------------------
(* The remote and its log.                                                 *)

(* One event is published for the path that changes: a removal, or a       *)
(* revision that keeps the node, or a new node.                            *)
Publishes(p) ==
  \E id \in Nat, kind \in {"created", "updated", "deleted"}, entity \in Entity :
    /\ Publish(p, id, kind)
    /\ cloud' = [cloud EXCEPT ![p] = entity]
    /\ IF kind = "deleted" THEN entity = NoEntity /\ id = cloud[p].id
       ELSE /\ Exists(entity) /\ entity.id = id
            /\ Exists(cloud[p]) => id = cloud[p].id

RemoteMoves == UNCHANGED remoteSide \/ \E p \in Paths : Publishes(p)

(* An effect that reaches the remote is published.                         *)
LEMMA LandsPublishes ==
  ASSUME Typed, NEW p \in Paths, Lands(p)
  PROVE  UNCHANGED remoteSide \/ Publishes(p)
<1>1. /\ NewId \in Nat /\ cloud[p].id \in Nat /\ disk[p] \in Content
  BY EntityFields DEF NewId, Typed, FoldersTyped
<1>2. CASE plan[p] = "upload"
  <2> DEFINE id == IF Exists(cloud[p]) THEN cloud[p].id ELSE NewId
             kind == IF Exists(cloud[p]) THEN "updated" ELSE "created"
             entity == [hash |-> disk[p], id |-> id, digest |-> "sha1"]
  <2>1. disk[p] # 0 /\ cloud' = [cloud EXCEPT ![p] = entity] /\ Publish(p, id, kind)
    BY <1>2 DEF Lands
  <2>2. id \in Nat /\ kind \in {"created", "updated", "deleted"} /\ kind # "deleted"
    BY <1>1
  <2>3. entity \in Entity /\ Exists(entity) /\ entity.id = id
    BY <1>1, <2>1, <2>2, EntityFields DEF Digest, Exists
  <2> QED
    BY <2>1, <2>2, <2>3 DEF Publishes
<1>3. CASE plan[p] = "remote_delete"
  <2>1. cloud' = [cloud EXCEPT ![p] = NoEntity] /\ Publish(p, cloud[p].id, "deleted")
    BY <1>3, Arms DEF SideEffects, Actions
  <2> QED
    BY <1>1, <2>1, Defaults DEF Publishes
<1>4. CASE plan[p] \notin {"upload", "remote_delete"}
  BY <1>4, Arms
<1> QED
  BY <1>2, <1>3, <1>4

(* So does every step that changes it.                                     *)
LEMMA StepPublishes == Typed /\ [Next]_vars => RemoteMoves
<1> SUFFICES ASSUME Typed, [Next]_vars PROVE RemoteMoves
  OBVIOUS
<1>1. CASE Environment
  <2>1. PICK p \in Paths : \/ UserWrites(p) \/ UserRemoves(p) \/ UserDropsSidecar(p)
                           \/ RemoteWrites(p) \/ RemoteRemoves(p)
    BY <1>1 DEF Environment
  <2>2. NewId \in Nat /\ cloud[p].id \in Nat
    BY EntityFields DEF NewId, Typed, FoldersTyped
  <2>3. CASE RemoteWrites(p)
    <3> DEFINE id == IF Exists(cloud[p]) THEN cloud[p].id ELSE NewId
               kind == IF Exists(cloud[p]) THEN "updated" ELSE "created"
    <3>1. PICK content \in Contents, digest \in Digests :
            /\ cloud' = [cloud EXCEPT ![p] =
                           [hash |-> content, id |-> id, digest |-> digest]]
            /\ Publish(p, id, kind)
      BY <2>3 DEF RemoteWrites
    <3>2. id \in Nat /\ kind \in {"created", "updated", "deleted"} /\ kind # "deleted"
      BY <2>2
    <3>3. /\ [hash |-> content, id |-> id, digest |-> digest] \in Entity
          /\ Exists([hash |-> content, id |-> id, digest |-> digest])
      BY <3>2, Members, EntityFields DEF Exists
    <3> QED
      BY <3>1, <3>2, <3>3 DEF Publishes, RemoteMoves
  <2>4. CASE RemoteRemoves(p)
    BY <2>2, <2>4, Defaults DEF RemoteRemoves, Publishes, RemoteMoves
  <2> QED
    BY <2>1, <2>3, <2>4 DEF UserWrites, UserRemoves, UserDropsSidecar, RemoteMoves
<1>2. CASE Control \/ HandleFsEvents \/ LoseFsEvents
  BY <1>2 DEF Control, HandleFsEvents, LoseFsEvents, Approve, Deny, Keep, HandleFsEvent,
     RemoteMoves
<1>3. CASE BeginPass \/ FallBack \/ Rebuild \/ ScanLocal \/ ListRemote \/ Decide
  BY <1>3
  DEF BeginPass, BeginFull, BeginIdle, BeginIncremental, FallBack, Rebuild, ScanLocal,
      ListRemote, Decide, RemoteMoves
<1>4. CASE Execute
  BY <1>4, LandsPublishes
  DEF Execute, Upload, Download, WriteConflict, KeepLocalCopy, RemoteDelete,
      LocalDelete, AutoLink, Purge, Act, Vanish, Fail, RemoteMoves, remoteSide
<1>5. CASE Checkpoint \/ Finish \/ Abort \/ Crash \/ UNCHANGED vars
  BY <1>5 DEF Checkpoint, Finish, Abort, Crash, vars, RemoteMoves
<1> QED
  BY <1>1, <1>2, <1>3, <1>4, <1>5 DEF Next, PassStep

(* What a publication leaves of the log and of the other paths.            *)
LEMMA Published ==
  ASSUME FoldersTyped, NEW p \in Paths, Publishes(p)
  PROVE  /\ Len(log) \in Nat
         /\ DOMAIN log = 1 .. Len(log) /\ DOMAIN log' = 1 .. (Len(log) + 1)
         /\ \A i \in DOMAIN log : log'[i] = log[i]
         /\ log'[Len(log) + 1].path = p
         /\ \A q \in Paths \ {p} : cloud'[q] = cloud[q]
         /\ IF log'[Len(log) + 1].kind = "deleted"
            THEN cloud'[p] = NoEntity /\ log'[Len(log) + 1].id = cloud[p].id
            ELSE /\ Exists(cloud'[p]) /\ cloud'[p].id = log'[Len(log) + 1].id
                 /\ Exists(cloud[p]) => cloud'[p].id = cloud[p].id
<1>1. PICK id \in Nat, kind \in {"created", "updated", "deleted"}, entity \in Entity :
        /\ log' = Append(log, [path |-> p, id |-> id, kind |-> kind])
        /\ cloud' = [cloud EXCEPT ![p] = entity]
        /\ IF kind = "deleted" THEN entity = NoEntity /\ id = cloud[p].id
           ELSE /\ Exists(entity) /\ entity.id = id
                /\ Exists(cloud[p]) => id = cloud[p].id
  BY DEF Publishes, Publish
<1>2. /\ Len(log) \in Nat
      /\ DOMAIN log = 1 .. Len(log) /\ DOMAIN log' = 1 .. (Len(log) + 1)
      /\ \A i \in DOMAIN log : log'[i] = log[i]
      /\ log'[Len(log) + 1] = [path |-> p, id |-> id, kind |-> kind]
  BY <1>1 DEF FoldersTyped
<1>3. cloud'[p] = entity /\ \A q \in Paths \ {p} : cloud'[q] = cloud[q]
  BY <1>1 DEF FoldersTyped
<1> QED
  BY <1>1, <1>2, <1>3

(* What was published stays published, and a path nothing happens to stays *)
(* as it is.                                                               *)
LEMMA Carried ==
  ASSUME FoldersTyped, RemoteMoves, RemoteInv, NEW q \in Paths
  PROVE  /\ \A position \in Int :
              position <= Len(log) /\ Untouched(q, position)' =>
                Untouched(q, position) /\ cloud'[q] = cloud[q]
         /\ \A id, position : RemovedBy(q, id, position) => RemovedBy(q, id, position)'
         /\ \A id : Known(q, id) => Known(q, id)'
<1>1. CASE UNCHANGED remoteSide
  BY <1>1 DEF remoteSide, Untouched, RemovedBy, Known, Removes, NodeOf
<1>2. ASSUME NEW p \in Paths, Publishes(p)
      PROVE  /\ \A position \in Int :
                  position <= Len(log) /\ Untouched(q, position)' =>
                    Untouched(q, position) /\ cloud'[q] = cloud[q]
             /\ \A id, position : RemovedBy(q, id, position) => RemovedBy(q, id, position)'
             /\ \A id : Known(q, id) => Known(q, id)'
  <2> USE <1>2, Published
  <2>1. ASSUME NEW position \in Int, position <= Len(log), Untouched(q, position)'
        PROVE  Untouched(q, position) /\ cloud'[q] = cloud[q]
    BY <2>1 DEF Untouched
  <2>2. ASSUME NEW id, NEW position, RemovedBy(q, id, position)
        PROVE  RemovedBy(q, id, position)'
    BY <2>2 DEF RemovedBy, Removes, NodeOf
  <2>3. ASSUME NEW id, Known(q, id) PROVE Known(q, id)'
    <3>1. CASE RemovedBy(q, id, Len(log))
      <4>1. PICK i \in DOMAIN log : Removes(i) /\ NodeOf(i) = <<q, id>>
        BY <3>1 DEF RemovedBy
      <4>2. i \in DOMAIN log' /\ i <= Len(log') /\ Removes(i)' /\ NodeOf(i)' = <<q, id>>
        BY <4>1 DEF Removes, NodeOf, FoldersTyped
      <4> QED
        BY <4>2 DEF Known, RemovedBy
    <3>2. CASE id = 0 \/ cloud'[q].id = cloud[q].id
      BY <2>3, <3>1, <3>2 DEF Known
    <3>3. CASE id = cloud[q].id /\ id # 0 /\ cloud'[q].id # cloud[q].id
      <4>1. q = p /\ Exists(cloud[p])
        BY <3>3 DEF RemoteInv, NoEntity
      <4>2. log'[Len(log) + 1].kind = "deleted" /\ log'[Len(log) + 1].id = id
        BY <3>3, <4>1
      <4>3. Len(log') = Len(log) + 1
        BY DEF Publishes, Publish, FoldersTyped
      <4> QED
        BY <4>1, <4>2, <4>3 DEF Known, RemovedBy, Removes, NodeOf
    <3> QED
      BY <2>3, <3>1, <3>2, <3>3 DEF Known
  <2> QED
    BY <2>1, <2>2, <2>3
<1> QED
  BY <1>1, <1>2 DEF RemoteMoves

(* The log keeps telling the truth.                                        *)
LEMMA RemoteKept == Typed /\ RemoteInv /\ RemoteMoves => RemoteInv'
<1> SUFFICES ASSUME FoldersTyped, RemoteInv, RemoteMoves PROVE RemoteInv'
  BY DEF Typed
<1>1. CASE UNCHANGED remoteSide
  BY <1>1 DEF remoteSide, RemoteInv, LastOf, Removes
<1>2. ASSUME NEW p \in Paths, Publishes(p) PROVE RemoteInv'
  <2> USE <1>2, Published
  <2>1. ASSUME NEW q \in Paths, ~Exists(cloud'[q]) PROVE cloud'[q] = NoEntity
    BY <2>1 DEF RemoteInv
  <2>2. ASSUME NEW i \in DOMAIN log', LastOf(i)'
        PROVE  IF Removes(i)' THEN ~Exists(cloud'[log'[i].path])
               ELSE cloud'[log'[i].path].id = log'[i].id
    <3>1. CASE i = Len(log) + 1
      BY <3>1, Defaults DEF Removes
    <3>2. CASE i \in DOMAIN log
      <4>0. log[i] \in Event
        BY <3>2 DEF FoldersTyped
      <4>1. log'[i] = log[i] /\ log[i].path \in Paths
        BY <3>2, <4>0 DEF Event
      <4>2. log[i].path # p /\ LastOf(i)
        BY <2>2, <3>2, <4>1 DEF LastOf
      <4> QED
        BY <3>2, <4>1, <4>2 DEF RemoteInv, Removes
    <3> QED
      BY <3>1, <3>2
  <2> QED
    BY <2>1, <2>2 DEF RemoteInv
<1> QED
  BY <1>1, <1>2 DEF RemoteMoves

(* A settled record stays settled, whatever happens to the remote ...      *)
LEMMA SettledCarries ==
  ASSUME Typed, RemoteInv, RemoteMoves, NEW p \in Paths, NEW record, NEW isBlind,
         NEW position \in Int, position <= Len(log), NEW mark,
         Settled(p, record, isBlind, position, mark)
  PROVE  Settled(p, record, isBlind, position, mark)'
<1>1. Untouched(p, position)' => Untouched(p, position) /\ cloud'[p] = cloud[p]
  BY Carried DEF Typed
<1>2. RemovedBy(p, record.id, mark) => RemovedBy(p, record.id, mark)'
  BY Carried DEF Typed
<1> QED
  BY <1>1, <1>2 DEF Settled

(* ... and is settled at every earlier position and later mark.            *)
LEMMA SettledEarlier ==
  ASSUME FoldersTyped, NEW p \in Paths, NEW record, NEW isBlind,
         NEW position \in Int, NEW earlier \in Int, earlier <= position,
         NEW mark \in Int, NEW later \in Int, mark <= later,
         Settled(p, record, isBlind, position, mark)
  PROVE  Settled(p, record, isBlind, earlier, later)
<1>1. DOMAIN log \subseteq Int
  BY DEF FoldersTyped
<1>2. Untouched(p, earlier) => Untouched(p, position)
  BY <1>1 DEF Untouched
<1>3. RemovedBy(p, record.id, mark) => RemovedBy(p, record.id, later)
  BY <1>1 DEF RemovedBy
<1> QED
  BY <1>2, <1>3 DEF Settled

(* Positions in the log are integers.                                      *)
LEMMA PlacesTyped ==
  ASSUME IInv
  PROVE  /\ Typed /\ FoldersTyped /\ Len(log) \in Nat
         /\ cursor \in Int /\ cursor <= Len(log)
         /\ fetched \in Int /\ fetched <= Len(log)
         /\ target \in Int /\ target <= Len(log)
  BY DEF IInv, Typed, Positions, FoldersTyped, IndexTyped, PassInv, PassTyped, NoCursor

-----------------------------------------------------------------------------
(* What the steps outside a pass leave of the invariant.                   *)

(* Whatever the users and the other clients do meanwhile.                  *)
LEMMA Steady ==
  ASSUME IInv, CInv, RemoteMoves, UNCHANGED <<base, cursor, blind, pending, pass>>
  PROVE  CInv'
<1> USE PlacesTyped DEF pass
<1>1. RemoteInv' /\ RemoteInv
  BY RemoteKept DEF CInv
<1>2. KnownInv'
  BY <1>1, Carried DEF CInv, KnownInv
<1>3. CursorInv'
  BY <1>1, SettledCarries DEF CInv, CursorInv
<1>4. OrderInv'
  BY DEF CInv, OrderInv, HasView
<1>5. ViewInv'
  <2> SUFFICES ASSUME HasView, NEW p \in Paths, Open(p)
               PROVE  (IF p \in observed THEN Untouched(p, fetched) => view[p] = cloud[p]
                       ELSE /\ view[p] = EntityOfRecord(baseline[p])
                            /\ cursor # NoCursor
                            /\ Settled(p, baseline[p], blind[p], fetched, cursor))'
    BY DEF ViewInv, HasView, Open
  <2>1. CASE p \in observed
    BY <1>1, <2>1, Carried DEF CInv, ViewInv
  <2>2. CASE p \notin observed
    <3>1. /\ view[p] = EntityOfRecord(baseline[p]) /\ cursor # NoCursor
          /\ Settled(p, baseline[p], blind[p], fetched, cursor)
      BY <2>2 DEF CInv, ViewInv
    <3> QED
      BY <1>1, <2>2, <3>1, SettledCarries
  <2> QED
    BY <2>1, <2>2
<1>6. KeptInv'
  BY DEF CInv, KeptInv, Open
<1>7. StagedInv'
  <2>1. ASSUME NEW p \in staged
        PROVE  Settled(p, draft[p], BlindAfter(p, draft[p]), fetched, cursor)'
    <3>1. p \in Paths /\ BlindAfter(p, draft[p])' = BlindAfter(p, draft[p])
      BY DEF BlindAfter, Typed, PassInv, PassTyped
    <3>2. Settled(p, draft[p], BlindAfter(p, draft[p]), fetched, cursor)
      BY DEF CInv, StagedInv
    <3> QED
      BY <1>1, <3>1, <3>2, SettledCarries
  <2> QED
    BY <2>1 DEF CInv, StagedInv
<1>8. StoredInv'
  BY <1>1, SettledCarries DEF CInv, StoredInv, Open, Withheld
<1> QED
  BY <1>1, <1>2, <1>3, <1>4, <1>5, <1>6, <1>7, <1>8 DEF CInv

(* A pass that has ended leaves its promise to the cursor.                 *)
LEMMA Ended ==
  ASSUME RemoteInv', CursorInv', ForgetPass, \A p \in Paths : Known(p, base[p].id)'
  PROVE  CInv'
<1>1. KnownInv'
  BY DEF KnownInv, ForgetPass, Known, NoRecord, NoEntity
<1>2. OrderInv' /\ ViewInv' /\ KeptInv' /\ StagedInv' /\ StoredInv'
  BY DEF ForgetPass, OrderInv, ViewInv, KeptInv, StagedInv, StoredInv, HasView, Running
<1> QED
  BY <1>1, <1>2 DEF CInv

(* Approve and deny leave the records alone; Keep blinds the one it drops. *)
LEMMA ControlKeeps == IInv /\ CInv /\ Control => CInv'
<1> SUFFICES ASSUME IInv, CInv, NEW p \in Paths, NEW d \in Directions,
                    Approve(p, d) \/ Deny(p, d) \/ Keep(p, d)
             PROVE  CInv'
  BY DEF Control
<1>1. CASE Approve(p, d) \/ Deny(p, d)
  BY <1>1, Steady DEF Approve, Deny, memory, RemoteMoves
<1>2. CASE Keep(p, d)
  <2>1. /\ base' = [base EXCEPT ![p] = NoRecord]
        /\ blind' = [blind EXCEPT ![p] = TRUE]
        /\ UNCHANGED <<cloud, log, cursor, pending, phase, full, baseline, fetched, target>>
        /\ UNCHANGED <<view, observed, plan, todo, staged, draft, failed, vanished>>
    BY <1>2 DEF Keep, remoteSide, pass
  <2>2. /\ base'[p] = NoRecord /\ blind'[p] = TRUE
        /\ \A q \in Paths \ {p} : base'[q] = base[q] /\ blind'[q] = blind[q]
    BY <2>1, PlacesTyped DEF Typed, IndexTyped, CountersTyped
  <2> USE <2>1, <2>2
  <2>3. \A q, id : Known(q, id)' <=> Known(q, id)
    BY DEF Known, RemovedBy, Removes, NodeOf
  <2>4. \A record, position, mark :
          /\ Settled(p, record, blind[p], position, mark)'
          /\ \A q \in Paths \ {p} :
               Settled(q, record, blind[q], position, mark) =>
                 Settled(q, record, blind[q], position, mark)'
    BY DEF Settled, Untouched, RemovedBy, Removes, NodeOf
  <2>5. RemoteInv'
    BY DEF CInv, RemoteInv, LastOf, Removes
  <2>6. KnownInv'
    <3>1. Known(p, NoRecord.id)
      BY DEF Known, NoRecord
    <3> QED
      BY <2>3, <3>1 DEF CInv, KnownInv
  <2>7. CursorInv'
    BY <2>4 DEF CInv, CursorInv
  <2>8. OrderInv'
    BY DEF CInv, OrderInv, HasView
  <2>9. ViewInv'
    <3>1. ASSUME HasView, NEW q \in Paths, Open(q), q \in observed, Untouched(q, fetched)'
          PROVE  view[q] = cloud[q]
      BY <3>1 DEF CInv, ViewInv, Untouched
    <3>2. ASSUME HasView, NEW q \in Paths, Open(q), q \notin observed
          PROVE  /\ view[q] = EntityOfRecord(baseline[q]) /\ cursor # NoCursor
                 /\ Settled(q, baseline[q], blind[q], fetched, cursor)'
      BY <2>4, <3>2 DEF CInv, ViewInv
    <3> QED
      BY <3>1, <3>2 DEF ViewInv, HasView, Open
  <2>10. KeptInv'
    BY DEF CInv, KeptInv, Open
  <2>11. StagedInv'
    <3>1. ASSUME NEW q \in staged
          PROVE  Settled(q, draft[q], BlindAfter(q, draft[q]), fetched, cursor)'
      <4>1. q \in Paths
        BY PlacesTyped DEF Typed, PassInv, PassTyped
      <4>2. Settled(q, draft[q], BlindAfter(q, draft[q]), fetched, cursor)
        BY DEF CInv, StagedInv
      <4>3. BlindAfter(q, draft[q]) => BlindAfter(q, draft[q])'
        BY <4>1 DEF BlindAfter
      <4> QED
        BY <4>2, <4>3 DEF Settled, Untouched, RemovedBy, Removes, NodeOf
    <3> QED
      BY <3>1 DEF CInv, StagedInv
  <2>12. StoredInv'
    <3>1. ASSUME phase \in Running, NEW q \in Paths, ~Open(q), ~Withheld(q),
                 q \notin failed \cup vanished \cup staged
          PROVE  Settled(q, base[q], blind[q], fetched, cursor)'
      <4>1. Settled(q, base[q], blind[q], fetched, cursor)
        BY <3>1 DEF CInv, StoredInv
      <4> QED
        BY <2>4, <4>1
    <3> QED
      BY <3>1 DEF StoredInv, Open, Withheld
  <2> QED
    BY <2>5, <2>6, <2>7, <2>8, <2>9, <2>10, <2>11, <2>12 DEF CInv
<1> QED
  BY <1>1, <1>2

(* A record marked modified names the same content and node.               *)
LEMMA EventsKeep == IInv /\ CInv /\ (HandleFsEvents \/ LoseFsEvents) => CInv'
<1> SUFFICES ASSUME IInv, CInv, HandleFsEvents \/ LoseFsEvents PROVE CInv'
  OBVIOUS
<1>1. CASE LoseFsEvents
  BY <1>1, Steady DEF LoseFsEvents, index, RemoteMoves
<1>2. ASSUME NEW event \in inbox, HandleFsEvent(event) PROVE CInv'
  <2>1. /\ phase = "idle" /\ UNCHANGED <<cloud, log, cursor, blind, pending, pass>>
        /\ base' \in {base, [base EXCEPT ![event.path] = MarkModified(@)]}
    BY <1>2 DEF HandleFsEvent, remoteSide
  <2>2. ASSUME NEW p \in Paths
        PROVE  base'[p].hash = base[p].hash /\ base'[p].id = base[p].id
    BY <2>1, PlacesTyped, RowFields
    DEF MarkModified, Typed, IndexTyped, Row, Record
  <2> USE <2>1, <2>2 DEF pass
  <2>3. RemoteInv'
    BY DEF CInv, RemoteInv, LastOf, Removes
  <2>4. KnownInv'
    BY DEF CInv, KnownInv, Known, RemovedBy, Removes, NodeOf
  <2>5. CursorInv'
    BY DEF CInv, CursorInv, Settled, Untouched, Describes, RemovedBy, Removes, NodeOf
  <2>6. OrderInv' /\ ViewInv' /\ KeptInv' /\ StoredInv'
    BY DEF OrderInv, ViewInv, KeptInv, StoredInv, HasView, Running
  <2>7. StagedInv'
    BY PlacesTyped DEF CInv, StagedInv, Running, Typed, PassInv, PlanFollows
  <2> QED
    BY <2>3, <2>4, <2>5, <2>6, <2>7 DEF CInv
<1> QED
  BY <1>1, <1>2 DEF HandleFsEvents

-----------------------------------------------------------------------------
(* What a pass makes of the events after the cursor.                       *)

(* A path with an event has a last one.                                    *)
LEMMA LastEvent ==
  ASSUME FoldersTyped, NEW i \in DOMAIN log
  PROVE  \E l \in DOMAIN log : log[l].path = log[i].path /\ LastOf(l) /\ i <= l
<1> DEFINE events == {j \in DOMAIN log : log[j].path = log[i].path}
<1>1. Len(log) \in Nat /\ DOMAIN log = 1 .. Len(log)
  BY DEF FoldersTyped
<1>2. events \in SUBSET (0 .. Len(log)) /\ events # {}
  BY <1>1
<1>3. PICK l \in events : \A j \in events : j <= l
  <2> HIDE DEF events
  <2> QED
    BY <1>1, <1>2, GreatestBelow
<1> QED
  BY <1>3 DEF LastOf

(* The window of a rebuild lies in the log.                                *)
LEMMA WindowPlaced ==
  ASSUME IInv, phase = "rebuild"
  PROVE  /\ Window \subseteq DOMAIN log /\ DOMAIN log \subseteq Int
         /\ \A i \in DOMAIN log : i \in Window <=> cursor < i /\ i <= fetched
         /\ \A i \in DOMAIN log : NodeOf(i)[1] = log[i].path /\ NodeOf(i)[2] = log[i].id
<1>1. cursor \in Nat /\ fetched \in Nat /\ fetched <= Len(log)
  BY PlacesTyped DEF IInv, Positions, NoCursor, Typed, IndexTyped, PassInv, PassTyped
<1>2. DOMAIN log = 1 .. Len(log) /\ Len(log) \in Nat
  BY PlacesTyped DEF FoldersTyped
<1> QED
  BY <1>1, <1>2 DEF Window, NodeOf

(* A path that the window touches and no listing shows is gone, and its    *)
(* last event is a removal, unless more happened since.                    *)
LEMMA TouchedIsGone ==
  ASSUME IInv, CInv, phase = "rebuild", NEW p \in Paths, Untouched(p, fetched),
         ~Listed(p), NEW i \in Window, log[i].path = p
  PROVE  /\ cloud[p] = NoEntity
         /\ \E l \in Window : log[l].path = p /\ Removes(l)
<1>1. PICK l \in DOMAIN log : log[l].path = p /\ LastOf(l) /\ i <= l
  BY WindowPlaced, LastEvent, PlacesTyped
<1>2. l \in Window
  BY <1>1, WindowPlaced, PlacesTyped DEF Untouched
<1>3. Removes(l)
  <2>1. ~Removes(l) => cloud[p].id = log[l].id
    BY <1>1 DEF CInv, RemoteInv
  <2> QED
    BY <1>1, <1>2, <2>1 DEF Listed, NodeOf
<1> QED
  BY <1>1, <1>2, <1>3 DEF CInv, RemoteInv

(* Where neither the listing nor a removal speaks of a path, its record is *)
(* settled at the last event read.                                         *)
LEMMA SilenceIsSettled ==
  ASSUME IInv, CInv, phase = "rebuild", ~NeedsWalk, NEW p \in Paths,
         ~Listed(p), ~Dropped(p)
  PROVE  Settled(p, baseline[p], blind[p], fetched, cursor)
<1> SUFFICES ASSUME Untouched(p, fetched), ~blind[p],
                    ~Describes(baseline[p], cloud[p])
             PROVE  ~Exists(cloud[p]) /\ RemovedBy(p, baseline[p].id, cursor)
  BY DEF Settled
<1> USE WindowPlaced, PlacesTyped
<1>1. base[p] = baseline[p]
  BY DEF CInv, KeptInv, Open, Running
<1>2. CASE \A i \in Window : log[i].path # p
  <2>1. Untouched(p, cursor)
    BY <1>2 DEF Untouched
  <2>2. Settled(p, base[p], blind[p], cursor, cursor)
    BY DEF CInv, CursorInv, IInv, Positions
  <2> QED
    BY <1>1, <2>1, <2>2 DEF Settled
<1>3. ASSUME NEW i \in Window, log[i].path = p
      PROVE  ~Exists(cloud[p]) /\ RemovedBy(p, baseline[p].id, cursor)
  <2>1. cloud[p] = NoEntity
    BY <1>3, TouchedIsGone
  <2>2. PICK l \in Window : log[l].path = p /\ Removes(l)
    BY <1>3, TouchedIsGone
  <2>3. Exists(baseline[p])
    BY <2>1 DEF Describes, Exists, NoEntity
  <2>4. \A j \in Window : log[j].path = p => ~Drops(j)
    BY DEF Dropped
  <2>5. ~Tracked(NodeOf(l))
    BY <2>2, <2>4 DEF Drops
  <2>6. Outside # {}
    BY <2>2, <2>5 DEF Outside, TrackedAt
  <2>7. baseline[p].id # 0
    <3>1. Rebuilt(p) = EntityOfRecord(baseline[p])
      BY DEF Rebuilt
    <3>2. Exists(Rebuilt(p)) /\ Rebuilt(p).id = baseline[p].id
      BY <2>3, <3>1 DEF EntityOfRecord, Exists
    <3> QED
      BY <2>6, <3>2 DEF NeedsWalk
  <2>8. RemovedBy(p, baseline[p].id, Len(log))
    BY <2>1, <2>7 DEF CInv, KnownInv, Known, NoEntity
  <2>9. PICK j \in DOMAIN log : Removes(j) /\ NodeOf(j) = <<p, baseline[p].id>>
    BY <2>8 DEF RemovedBy
  <2>10. log[j].path = p /\ log[j].id = baseline[p].id /\ j <= fetched
    BY <2>9 DEF NodeOf, Untouched
  <2>11. j \notin Window
    BY <2>4, <2>7, <2>9, <2>10 DEF Drops, Tracked
  <2>12. j <= cursor
    BY <2>10, <2>11
  <2> QED
    BY <2>1, <2>9, <2>12, Defaults DEF RemovedBy
<1> QED
  BY <1>2, <1>3

(* What a dropped path is rebuilt to is true as well.                      *)
LEMMA DroppedIsGone ==
  ASSUME IInv, CInv, phase = "rebuild", NEW p \in Paths, Untouched(p, fetched),
         ~Listed(p), Dropped(p)
  PROVE  cloud[p] = NoEntity
  BY TouchedIsGone DEF Dropped

(* A window of outside and lagging events says nothing of any path.        *)
LEMMA IdleWindow ==
  ASSUME IInv, phase = "rebuild", Window = Outside \cup {i \in Window : Lags(i)},
         NEW p \in Paths
  PROVE  ~Listed(p) /\ ~Dropped(p)
<1> USE WindowPlaced
<1>1. ASSUME NEW i \in Window, NodeOf(i) = <<p, cloud[p].id>>, ~Removes(i) PROVE FALSE
  <2>1. Lags(i)
    BY <1>1 DEF Outside
  <2> QED
    BY <1>1, <2>1 DEF Lags, Shown
<1>2. ASSUME NEW i \in Window, Drops(i) PROVE FALSE
  <2> DEFINE drops == {j \in Window : Drops(j) /\ NodeOf(j) = NodeOf(i)}
  <2>1. drops \in SUBSET Nat /\ drops # {}
    <3>1. Window \subseteq Nat
      BY PlacesTyped DEF FoldersTyped
    <3> QED
      BY <1>2, <3>1
  <2>2. PICK j \in drops : \A k \in drops : j <= k
    <3> HIDE DEF drops
    <3> QED
      BY <2>1, LeastNatural
  <2>3. \A k \in Window : k < j /\ Drops(k) => NodeOf(k) # NodeOf(j)
    BY <2>2
  <2>4. TrackedAt(j)
    BY <2>2, <2>3 DEF TrackedAt, Drops
  <2>5. j \notin Outside /\ ~Lags(j)
    BY <2>2, <2>4 DEF Outside, Lags, Drops
  <2> QED
    BY <2>2, <2>5
<1> QED
  BY <1>1, <1>2 DEF Listed, Dropped

-----------------------------------------------------------------------------
(* The steps of a pass up to its plan.                                     *)

(* Where neither the remote nor the index moves.                           *)
LEMMA Unmoved ==
  ASSUME CInv, UNCHANGED <<cloud, log, base, cursor, blind>>
  PROVE  /\ RemoteInv' /\ CursorInv'
         /\ \A p, id : Known(p, id) => Known(p, id)'
         /\ \A p, position : Untouched(p, position)' <=> Untouched(p, position)
         /\ \A p, record, position, mark :
              Settled(p, record, blind[p], position, mark) =>
                Settled(p, record, blind[p], position, mark)'
<1>1. RemoteInv'
  BY DEF CInv, RemoteInv, LastOf, Removes
<1>2. CursorInv'
  BY DEF CInv, CursorInv, Settled, Untouched, RemovedBy, Removes, NodeOf
<1>3. ASSUME NEW p, NEW id, Known(p, id) PROVE Known(p, id)'
  BY <1>3 DEF Known, RemovedBy, Removes, NodeOf
<1>4. \A p, position : Untouched(p, position)' <=> Untouched(p, position)
  BY DEF Untouched
<1>5. ASSUME NEW p, NEW record, NEW position, NEW mark,
             Settled(p, record, blind[p], position, mark)
      PROVE  Settled(p, record, blind[p], position, mark)'
  BY <1>5 DEF Settled, Untouched, RemovedBy, Removes, NodeOf
<1> QED
  BY <1>1, <1>2, <1>3, <1>4, <1>5

(* Before there is a plan nothing is staged.                               *)
LEMMA Unplanned ==
  ASSUME IInv, CInv, UNCHANGED <<todo, staged>>, phase \notin Running,
         phase' \notin Running
  PROVE  StagedInv' /\ StoredInv'
<1>1. todo \subseteq Paths /\ todo \cap Paths = {}
  BY PlacesTyped DEF Typed, PassInv, PassTyped, PlanFollows
<1>2. staged' = {} /\ todo' = {}
  BY <1>1 DEF CInv, StagedInv
<1> QED
  BY <1>2 DEF StagedInv, StoredInv

(* A pass begins with the records of the index.                            *)
LEMMA BeginKeeps == IInv /\ CInv /\ BeginPass => CInv'
<1> SUFFICES ASSUME IInv, CInv, BeginPass PROVE CInv'
  OBVIOUS
<1> USE PlacesTyped
<1>1. CASE BeginFull \/ BeginIncremental
  <2>1. /\ UNCHANGED <<cloud, log, base, cursor, blind, todo, staged, view, draft>>
        /\ phase = "idle" /\ baseline' = base
        /\ \/ phase' = "scan" /\ full' /\ target' \in {NoCursor, Len(log)}
           \/ phase' = "rebuild" /\ fetched' = Len(log)
    BY <1>1 DEF BeginFull, BeginIncremental, StartPass, CaptureCursor, remoteSide, index
  <2>2. RemoteInv' /\ CursorInv' /\ StagedInv' /\ StoredInv'
    BY <2>1, Unmoved, Unplanned DEF Running
  <2>3. KnownInv'
    BY <2>1, Unmoved DEF CInv, KnownInv
  <2>4. OrderInv' /\ ViewInv' /\ KeptInv'
    BY <2>1 DEF OrderInv, ViewInv, KeptInv, HasView, Running
  <2> QED
    BY <2>2, <2>3, <2>4 DEF CInv
<1>2. CASE BeginIdle
  <2>1. UNCHANGED <<cloud, log, base, cursor, blind>> /\ ForgetPass
    BY <1>2 DEF BeginIdle, FinishIdle, remoteSide
  <2> QED
    BY <2>1, Unmoved, Ended DEF CInv, KnownInv
<1> QED
  BY <1>1, <1>2 DEF BeginPass

(* base (+) delta gives a true view, and its idle outcome a true cursor.   *)
LEMMA RebuildKeeps == IInv /\ CInv /\ Rebuild => CInv'
<1> SUFFICES ASSUME IInv, CInv, Rebuild PROVE CInv'
  OBVIOUS
<1> USE PlacesTyped
<1>1. /\ phase = "rebuild" /\ ~NeedsWalk /\ cursor # NoCursor
      /\ UNCHANGED <<cloud, log, base, blind>>
      /\ cursor <= fetched /\ CursorAfter \in {cursor, fetched}
  BY DEF Rebuild, remoteSide, CursorAfter, IInv, Positions, CInv, OrderInv
<1>2. CASE NothingAsks /\ Window = Outside \cup {i \in Window : Lags(i)}
  <2>1. ForgetPass /\ cursor' \in {cursor, fetched}
    BY <1>1, <1>2 DEF Rebuild, FinishIdle
  <2>2. RemoteInv' /\ \A p \in Paths : Known(p, base[p].id)'
    BY <1>1 DEF CInv, RemoteInv, LastOf, Removes, KnownInv, Known, RemovedBy, NodeOf
  <2>3. ASSUME NEW p \in Paths
        PROVE  Settled(p, base[p], blind[p], cursor, cursor)'
    <3>1. CASE cursor' = cursor
      <4>1. Settled(p, base[p], blind[p], cursor, cursor)
        BY <1>1 DEF CInv, CursorInv
      <4> QED
        BY <1>1, <3>1, <4>1 DEF Settled, Untouched, RemovedBy, Removes, NodeOf
    <3>2. CASE cursor' = fetched
      <4>1. ~Listed(p) /\ ~Dropped(p)
        BY <1>1, <1>2, IdleWindow
      <4>2. Settled(p, baseline[p], blind[p], fetched, cursor)
        BY <1>1, <4>1, SilenceIsSettled
      <4>3. Settled(p, baseline[p], blind[p], fetched, fetched)
        BY <1>1, <4>2, SettledEarlier
      <4>4. base[p] = baseline[p] \/ blind[p]
        BY <1>1 DEF CInv, KeptInv, Open, Running
      <4> QED
        BY <1>1, <3>2, <4>3, <4>4 DEF Settled, Untouched, RemovedBy, Removes, NodeOf
    <3> QED
      BY <2>1, <3>1, <3>2
  <2> QED
    BY <2>1, <2>2, <2>3, Ended DEF CursorInv
<1>3. CASE ~(NothingAsks /\ Window = Outside \cup {i \in Window : Lags(i)})
  <2>1. /\ view' = [p \in Paths |-> Rebuilt(p)]
        /\ observed' = {p \in Paths : Listed(p) \/ Dropped(p)}
        /\ target' = CursorAfter /\ phase' = "scan"
        /\ UNCHANGED <<cursor, full, baseline, fetched, plan, todo, staged, draft>>
    BY <1>3 DEF Rebuild
  <2>2. RemoteInv' /\ CursorInv' /\ StagedInv' /\ StoredInv'
    BY <1>1, <2>1, Unmoved, Unplanned DEF Running
  <2>3. KnownInv'
    <3>1. ASSUME NEW p \in Paths PROVE Known(p, view'[p].id)
      BY <2>1 DEF Rebuilt, CInv, KnownInv, Known, NoEntity, EntityOfRecord
    <3> QED
      BY <1>1, <2>1, <3>1, Unmoved DEF CInv, KnownInv
  <2>4. OrderInv'
    BY <1>1, <2>1 DEF OrderInv, HasView, Running
  <2>5. ASSUME NEW p \in Paths, p \in observed', Untouched(p, fetched)'
        PROVE  view'[p] = cloud'[p]
    <3>1. Untouched(p, fetched)
      BY <1>1, <2>1, <2>5 DEF Untouched
    <3> QED
      BY <1>1, <2>1, <2>5, <3>1, DroppedIsGone DEF Rebuilt
  <2>6. ASSUME NEW p \in Paths, p \notin observed'
        PROVE  /\ view'[p] = EntityOfRecord(baseline'[p])
               /\ Settled(p, baseline[p], blind[p], fetched, cursor)'
    <3>1. Settled(p, baseline[p], blind[p], fetched, cursor)
      BY <1>1, <2>1, <2>6, SilenceIsSettled
    <3> QED
      BY <1>1, <2>1, <2>6, <3>1 DEF Rebuilt, Settled, Untouched, RemovedBy, Removes, NodeOf
  <2>7. ViewInv'
    BY <1>1, <2>1, <2>5, <2>6 DEF ViewInv
  <2>8. KeptInv'
    BY <1>1, <2>1 DEF CInv, KeptInv, Open, Running
  <2> QED
    BY <2>2, <2>3, <2>4, <2>7, <2>8 DEF CInv
<1> QED
  BY <1>2, <1>3

(* The walk shows everything, and the scan nothing of the remote.          *)
LEMMA ScanKeeps == IInv /\ CInv /\ (FallBack \/ ScanLocal \/ ListRemote) => CInv'
<1> SUFFICES ASSUME IInv, CInv, FallBack \/ ScanLocal \/ ListRemote PROVE CInv'
  OBVIOUS
<1> USE PlacesTyped
<1>1. /\ UNCHANGED <<cloud, log, base, cursor, blind, todo, staged, baseline, draft, plan>>
      /\ phase \in {"rebuild", "scan", "list"} /\ phase' \notin Running
  BY DEF FallBack, ScanLocal, ListRemote, remoteSide, index, Running
<1>2. RemoteInv' /\ CursorInv' /\ StagedInv' /\ StoredInv'
  BY <1>1, Unmoved, Unplanned DEF Running
<1>3. KeptInv'
  BY <1>1 DEF CInv, KeptInv, Open, Running
<1>4. CASE FallBack
  <2>1. /\ phase' = "scan" /\ full' /\ target' \in {NoCursor, Len(log)}
        /\ UNCHANGED view
    BY <1>4 DEF FallBack, CaptureCursor
  <2>2. KnownInv'
    BY <1>1, <2>1, Unmoved DEF CInv, KnownInv
  <2>3. OrderInv' /\ ViewInv'
    BY <1>1, <2>1 DEF OrderInv, ViewInv, HasView, Running
  <2> QED
    BY <1>2, <1>3, <2>2, <2>3 DEF CInv
<1>5. CASE ScanLocal
  <2>1. /\ phase = "scan" /\ phase' = IF full THEN "list" ELSE "decide"
        /\ UNCHANGED <<full, fetched, target, view, observed>>
    BY <1>5 DEF ScanLocal
  <2>2. KnownInv'
    BY <1>1, <2>1, Unmoved DEF CInv, KnownInv
  <2>3. OrderInv'
    BY <1>1, <2>1 DEF CInv, OrderInv, HasView, Running
  <2>4. ViewInv'
    BY <1>1, <2>1, Unmoved DEF CInv, ViewInv, HasView, Open, Running
  <2> QED
    BY <1>2, <1>3, <2>2, <2>3, <2>4 DEF CInv
<1>6. CASE ListRemote
  <2>1. /\ view' = cloud /\ observed' = Paths /\ fetched' = Len(log)
        /\ phase = "list" /\ phase' = "decide" /\ target' \in {target, NoCursor}
    BY <1>6 DEF ListRemote
  <2>2. KnownInv'
    BY <1>1, <2>1, Unmoved DEF CInv, KnownInv, Known
  <2>3. OrderInv'
    BY <1>1, <2>1 DEF CInv, OrderInv, HasView, NoCursor
  <2>4. ViewInv'
    BY <1>1, <2>1 DEF ViewInv
  <2> QED
    BY <1>2, <1>3, <2>2, <2>3, <2>4 DEF CInv
<1> QED
  BY <1>4, <1>5, <1>6

(* The plan leaves a path open, withholds it, or has nothing to do for it. *)
LEMMA DecideKeeps == IInv /\ CInv /\ Decide => CInv'
<1> SUFFICES ASSUME IInv, CInv, Decide PROVE CInv'
  OBVIOUS
<1> USE PlacesTyped
<1>1. /\ UNCHANGED <<cloud, log, base, cursor, blind, full, baseline, fetched, target>>
      /\ UNCHANGED <<view, observed, staged, draft, failed, vanished>>
      /\ phase = "decide" /\ phase' = "run"
      /\ plan' = [p \in Paths |-> Planned(p)]
      /\ todo' = {p \in Paths : Planned(p) \notin {"none", "skip"} /\
                                pending'[p] = NoBallot[p]}
  BY DEF Decide, remoteSide, index
<1>2. staged = {}
  BY <1>1 DEF CInv, StagedInv, Running
<1>3. RemoteInv' /\ CursorInv'
  BY <1>1, Unmoved
<1>4. KnownInv'
  BY <1>1, Unmoved DEF CInv, KnownInv
<1>5. OrderInv'
  BY <1>1 DEF CInv, OrderInv, HasView, Running
<1>6. ViewInv'
  BY <1>1, Unmoved DEF CInv, ViewInv, HasView, Open, Running
<1>7. KeptInv'
  BY <1>1 DEF CInv, KeptInv, Open, Running
<1>8. StagedInv'
  BY <1>1, <1>2 DEF StagedInv, Running
<1>9. StoredInv'
  BY <1>1 DEF StoredInv, Open, Withheld, NoBallot
<1> QED
  BY <1>3, <1>4, <1>5, <1>6, <1>7, <1>8, <1>9 DEF CInv

-----------------------------------------------------------------------------
(* The steps of a pass that runs its plan.                                 *)

(* What the pass rests on for a path it acts on.                           *)
LEMMA Grounds ==
  ASSUME IInv, CInv, NEW p \in todo, phase \in Running
  PROVE  /\ p \in Paths /\ plan[p] \in Actions \ {"none", "skip"}
         /\ plan[p] = PlanFile(seen[p], view[p], baseline[p])
         /\ seen[p] \in Content /\ view[p] \in Entity /\ baseline[p] \in Row
         /\ IF p \in observed THEN Untouched(p, fetched) => view[p] = cloud[p]
            ELSE /\ view[p] = EntityOfRecord(baseline[p])
                 /\ plan[p] \in {"upload", "remote_delete", "auto_link"}
                 /\ plan[p] = "auto_link" =>
                      seen[p] = baseline[p].hash /\ Exists(baseline[p])
                 /\ Settled(p, baseline[p], blind[p], fetched, cursor)
<1>1. p \in Paths
  BY DEF IInv, Typed, PassInv, PassTyped
<1>2. /\ plan[p] = PlanFile(seen[p], view[p], baseline[p])
      /\ seen[p] \in Content /\ view[p] \in Entity /\ baseline[p] \in Row
  BY <1>1, PlanMade
<1>3. plan[p] \in Actions \ {"none", "skip"}
  BY <1>2, PlanLegal DEF CInv, StagedInv
<1>4. IF p \in observed THEN Untouched(p, fetched) => view[p] = cloud[p]
      ELSE /\ view[p] = EntityOfRecord(baseline[p])
           /\ Settled(p, baseline[p], blind[p], fetched, cursor)
  BY <1>1 DEF CInv, ViewInv, HasView, Open
<1> QED
  BY <1>1, <1>2, <1>3, <1>4, CarriedPlan

(* Who changes the remote now changes it after the last event read.        *)
LEMMA LandsTouches ==
  ASSUME IInv, NEW p \in Paths, Lands(p), plan[p] \in {"upload", "remote_delete"},
         fetched' = fetched
  PROVE  ~Untouched(p, fetched)'
<1>1. PICK id, kind : log' = Append(log, [path |-> p, id |-> id, kind |-> kind])
  BY Arms DEF SideEffects, Actions, Publish
<1>2. Len(log) + 1 \in DOMAIN log' /\ log'[Len(log) + 1].path = p
  BY <1>1, PlacesTyped DEF FoldersTyped
<1>3. ~(Len(log) + 1 <= fetched')
  BY PlacesTyped
<1> QED
  BY <1>2, <1>3 DEF Untouched

(* The record of a successful action is settled at the last event read:    *)
(* the action took it from a view that was true there, or moved the remote *)
(* on itself.                                                              *)
LEMMA ActSettles ==
  ASSUME IInv, CInv, NEW p \in todo, phase \in Running, Lands(p),
         UNCHANGED <<fetched, cursor, plan, observed, view, blind>>, NEW record,
         record = RecordAfter(plan[p], seen[p], cloud[p].hash, view[p], baseline[p])
  PROVE  Settled(p, record, BlindAfter(p, record), fetched, cursor)'
<1> USE Grounds, Recorded
<1>1. CASE plan[p] \in {"upload", "remote_delete"}
  BY <1>1, LandsTouches DEF Settled
<1>2. ASSUME plan[p] \notin {"upload", "remote_delete"}
      PROVE  Settled(p, record, BlindAfter(p, record), fetched, cursor)'
  <2>1. UNCHANGED remoteSide
    BY <1>2, Arms DEF SideEffects, Actions
  <2>2. \A position, mark :
          /\ Untouched(p, position)' <=> Untouched(p, position)
          /\ RemovedBy(p, record.id, mark)' <=> RemovedBy(p, record.id, mark)
    BY <2>1 DEF remoteSide, Untouched, RemovedBy, Removes, NodeOf
  <2>3. BlindAfter(p, record)' <=> BlindAfter(p, record)
    BY DEF BlindAfter
  <2>4. SUFFICES ASSUME Untouched(p, fetched), ~BlindAfter(p, record)
                 PROVE  \/ Describes(record, cloud[p])
                        \/ ~Exists(cloud[p]) /\ RemovedBy(p, record.id, cursor)
    BY <2>1, <2>2, <2>3 DEF Settled, remoteSide
  <2>5. CASE plan[p] \in {"conflict", "conflict_local", "purge", "auto_link"} /\ p \in observed
    BY <2>4, <2>5 DEF BlindAfter, SideEffects, Actions
  <2>6. CASE plan[p] = "auto_link" /\ p \notin observed
    <3>1. record.hash = baseline[p].hash /\ record.id = baseline[p].id
      <4>1. record = [hash |-> seen[p], id |-> RemoteId(view[p], baseline[p]),
                      status |-> "synced"]
        BY <2>6
      <4>2. seen[p] = baseline[p].hash /\ view[p] = EntityOfRecord(baseline[p])
        BY <2>6
      <4> QED
        BY <4>1, <4>2 DEF RemoteId, EntityOfRecord
    <3>2. ~blind[p]
      BY <2>4, <2>6 DEF BlindAfter, SideEffects
    <3> QED
      BY <2>4, <2>6, <3>1, <3>2 DEF Settled, Describes
  <2>7. CASE plan[p] = "download"
    <3>1. view[p] = cloud[p]
      BY <2>4, <2>7
    <3> QED
      BY <2>7, <3>1 DEF Describes
  <2>8. CASE plan[p] = "local_delete"
    <3>1. view[p] = cloud[p] /\ ~Exists(view[p])
      BY <2>4, <2>8, PlanLegal
    <3> QED
      BY <2>8, <3>1 DEF Describes, Deletes, NoRecord, Exists
  <2> QED
    BY <1>2, <2>5, <2>6, <2>7, <2>8 DEF Actions
<1> QED
  BY <1>1, <1>2

(* An action leaves its path staged, failed or vanished.                   *)
LEMMA Executed ==
  ASSUME IInv, CInv, RemoteMoves, NEW p \in todo, NEW record,
         phase \in Running, phase' \in Running, todo' = todo \ {p},
         UNCHANGED <<base, cursor, blind, pending, passFixed>>,
         failed \subseteq failed', vanished \subseteq vanished',
         \/ UNCHANGED <<staged, draft>> /\ p \in failed' \cup vanished'
         \/ /\ staged' = staged \cup {p}
            /\ draft' = [draft EXCEPT ![p] = record]
            /\ Known(p, record.id)
            /\ Settled(p, record, BlindAfter(p, record), fetched, cursor)'
  PROVE  CInv'
<1> USE PlacesTyped, Grounds
<1>1. /\ UNCHANGED <<base, cursor, blind, pending>>
      /\ UNCHANGED <<full, baseline, fetched, target, view, observed, plan>>
  BY DEF passFixed
<1>2. RemoteInv' /\ RemoteInv
  BY RemoteKept DEF CInv
<1>3. KnownInv'
  <2>1. ASSUME NEW q \in Paths PROVE Known(q, draft'[q].id)
    BY DEF CInv, KnownInv, Typed, PassInv, PassTyped
  <2> QED
    BY <1>1, <1>2, <2>1, Carried DEF CInv, KnownInv
<1>4. CursorInv'
  BY <1>1, <1>2, SettledCarries DEF CInv, CursorInv
<1>5. OrderInv'
  BY <1>1 DEF CInv, OrderInv, HasView, Running
<1>6. ASSUME NEW q \in Paths, Open(q)' PROVE Open(q)
  BY <1>1, <1>6 DEF Open
<1>7. ViewInv'
  <2> SUFFICES ASSUME NEW q \in Paths, Open(q)
               PROVE  (IF q \in observed THEN Untouched(q, fetched) => view[q] = cloud[q]
                       ELSE /\ view[q] = EntityOfRecord(baseline[q])
                            /\ cursor # NoCursor
                            /\ Settled(q, baseline[q], blind[q], fetched, cursor))'
    BY <1>6 DEF ViewInv
  <2>1. CASE q \in observed
    BY <1>1, <1>2, <2>1, Carried DEF CInv, ViewInv, HasView
  <2>2. CASE q \notin observed
    <3>1. /\ view[q] = EntityOfRecord(baseline[q]) /\ cursor # NoCursor
          /\ Settled(q, baseline[q], blind[q], fetched, cursor)
      BY <2>2 DEF CInv, ViewInv, HasView
    <3> QED
      BY <1>1, <1>2, <2>2, <3>1, SettledCarries
  <2> QED
    BY <2>1, <2>2
<1>8. KeptInv'
  BY <1>1, <1>6 DEF CInv, KeptInv, Running
<1>9. StagedInv'
  <2>1. ASSUME NEW q \in staged'
        PROVE  /\ plan[q] \notin {"none", "skip"} /\ q \notin todo'
               /\ Settled(q, draft[q], BlindAfter(q, draft[q]), fetched, cursor)'
    <3>1. CASE q = p /\ staged' # staged
      <4>1. draft'[p] = record
        BY <3>1 DEF Typed, PassInv, PassTyped
      <4>2. Settled(p, record, BlindAfter(p, record), fetched, cursor)'
        BY <3>1
      <4> QED
        BY <3>1, <4>1, <4>2
    <3>2. CASE q \in staged /\ q # p
      <4>1. /\ q \in Paths /\ draft'[q] = draft[q]
            /\ BlindAfter(q, draft[q])' = BlindAfter(q, draft[q])
        BY <1>1, <3>2 DEF BlindAfter, Typed, PassInv, PassTyped
      <4>2. /\ plan[q] \notin {"none", "skip"} /\ q \notin todo
            /\ Settled(q, draft[q], BlindAfter(q, draft[q]), fetched, cursor)
        BY <3>2 DEF CInv, StagedInv
      <4>3. Settled(q, draft[q], BlindAfter(q, draft[q]), fetched, cursor)'
        BY <1>1, <1>2, <4>1, <4>2, SettledCarries
      <4> QED
        BY <4>2, <4>3
    <3> QED
      BY <2>1, <3>1, <3>2 DEF CInv, StagedInv
  <2> QED
    BY <1>1, <2>1 DEF CInv, StagedInv
<1>10. StoredInv'
  <2>1. ASSUME NEW q \in Paths, ~Open(q)', ~Withheld(q)',
               q \notin failed' \cup vanished' \cup staged'
        PROVE  Settled(q, base[q], blind[q], fetched, cursor)'
    <3>1. q # p /\ ~Open(q) /\ ~Withheld(q) /\ q \notin failed \cup vanished \cup staged
      BY <1>1, <2>1 DEF Open, Withheld
    <3>2. Settled(q, base[q], blind[q], fetched, cursor)
      BY <3>1 DEF CInv, StoredInv
    <3> QED
      BY <1>1, <1>2, <3>2, SettledCarries
  <2> QED
    BY <2>1 DEF StoredInv
<1> QED
  BY <1>2, <1>3, <1>4, <1>5, <1>7, <1>8, <1>9, <1>10 DEF CInv

(* The actions, whether they succeed or not.                               *)
LEMMA ExecuteKeeps == IInv /\ CInv /\ Execute => CInv'
<1> SUFFICES ASSUME IInv, CInv, Execute PROVE CInv'
  OBVIOUS
<1>1. Typed
  BY PlacesTyped
<1>2. ASSUME NEW p \in Paths, NEW act \in Actions, Act(p, act) PROVE CInv'
  <2> DEFINE record == RecordAfter(plan[p], seen[p], cloud[p].hash, view[p], baseline[p])
  <2>1. /\ p \in todo /\ todo' = todo \ {p} /\ phase \in Running /\ phase' \in Running
        /\ Lands(p) /\ staged' = staged \cup {p} /\ draft' = [draft EXCEPT ![p] = record]
        /\ UNCHANGED <<base, cursor, blind, pending, passFixed, failed, vanished>>
    BY <1>2 DEF Act, Acting, PhaseAfter, Stage, Running, index
  <2>2. RemoteMoves
    BY <1>1, <2>1, LandsPublishes DEF RemoteMoves
  <2>3. Known(p, record.id)
    <3>1. record.id \in {0, view[p].id, baseline[p].id}
      BY <2>1, Grounds, RecordedId
    <3> HIDE DEF record
    <3> QED
      BY <3>1 DEF CInv, KnownInv, Known
  <2>4. ASSUME NEW stored, stored = record
        PROVE  Settled(p, stored, BlindAfter(p, stored), fetched, cursor)'
    BY <2>1, <2>4, ActSettles DEF passFixed
  <2>5. PICK stored : stored = record
    OBVIOUS
  <2> HIDE DEF record
  <2> QED
    BY <2>1, <2>2, <2>3, <2>4, <2>5, Executed
<1>3. ASSUME NEW p \in Paths, Vanish(p) \/ Fail(p) PROVE CInv'
  <2>1. /\ p \in todo /\ todo' = todo \ {p} /\ phase \in Running /\ phase' \in Running
        /\ UNCHANGED <<base, cursor, blind, pending, passFixed, staged, draft>>
        /\ failed \subseteq failed' /\ vanished \subseteq vanished'
        /\ p \in failed' \cup vanished'
        /\ UNCHANGED remoteSide \/ Lands(p)
    BY <1>3 DEF Vanish, Fail, Acting, PhaseAfter, Running, index, memory
  <2>2. RemoteMoves
    BY <1>1, <2>1, LandsPublishes DEF RemoteMoves
  <2> QED
    BY <2>1, <2>2, Executed
<1> QED
  BY <1>2, <1>3
  DEF Execute, Upload, Download, WriteConflict, KeepLocalCopy, RemoteDelete, LocalDelete,
      AutoLink, Purge, Actions

-----------------------------------------------------------------------------
(* Checkpoints, and the ways a pass ends.                                  *)

(* A checkpoint stores records that are settled.                           *)
LEMMA CheckpointKeeps == IInv /\ CInv /\ Checkpoint => CInv'
<1> SUFFICES ASSUME IInv, CInv, Checkpoint PROVE CInv'
  OBVIOUS
<1> USE PlacesTyped
<1>1. /\ UNCHANGED <<cloud, log, cursor, pending, full, baseline, fetched, target, view>>
      /\ UNCHANGED <<observed, plan, todo, draft, failed, vanished>>
      /\ phase \in Running /\ phase' = "run" /\ staged' = {}
  BY DEF Checkpoint, remoteSide, memory, passFixed, Running
<1>2. ASSUME NEW p \in Paths
      PROVE  IF p \in staged
             THEN base'[p] = draft[p] /\ (blind'[p] <=> BlindAfter(p, draft[p]))
             ELSE base'[p] = base[p] /\ (blind'[p] <=> blind[p])
  BY DEF Checkpoint, CommitStaged
<1>3. \A p, record, position, mark :
        Settled(p, record, blind'[p], position, mark) =>
          Settled(p, record, blind[p], position, mark)'
  BY <1>1 DEF Settled, Untouched, RemovedBy, Removes, NodeOf
<1>4. ASSUME NEW p \in staged
      PROVE  Settled(p, base'[p], blind'[p], fetched, cursor)
  <2>1. Settled(p, draft[p], BlindAfter(p, draft[p]), fetched, cursor)
    BY DEF CInv, StagedInv
  <2> QED
    BY <1>2, <2>1 DEF Settled, Typed, PassInv, PassTyped
<1>5. ASSUME NEW p \in Paths \ staged, NEW position,
             Settled(p, base[p], blind[p], position, cursor)
      PROVE  Settled(p, base'[p], blind'[p], position, cursor)
  BY <1>2, <1>5 DEF Settled
<1>6. cursor <= fetched
  BY <1>1 DEF CInv, OrderInv, HasView
<1>7. RemoteInv'
  BY <1>1 DEF CInv, RemoteInv, LastOf, Removes
<1>8. KnownInv'
  BY <1>1, <1>2 DEF CInv, KnownInv, Known, RemovedBy, Removes, NodeOf
<1>9. CursorInv'
  <2>1. ASSUME cursor # NoCursor, NEW p \in Paths
        PROVE  Settled(p, base'[p], blind'[p], cursor, cursor)
    <3>1. CASE p \in staged
      BY <1>4, <1>6, <3>1, SettledEarlier
    <3>2. CASE p \notin staged
      BY <1>5, <2>1, <3>2 DEF CInv, CursorInv
    <3> QED
      BY <3>1, <3>2
  <2> QED
    BY <1>1, <1>3, <2>1 DEF CursorInv
<1>10. OrderInv'
  BY <1>1 DEF CInv, OrderInv, HasView, Running
<1>11. ASSUME NEW p \in Paths, Open(p)' PROVE Open(p) /\ p \notin staged
  BY <1>1, <1>11 DEF Open, CInv, StagedInv, Running
<1>12. ViewInv'
  <2> SUFFICES ASSUME NEW p \in Paths, Open(p), p \notin staged
               PROVE  (IF p \in observed THEN Untouched(p, fetched) => view[p] = cloud[p]
                       ELSE /\ view[p] = EntityOfRecord(baseline[p])
                            /\ cursor # NoCursor
                            /\ Settled(p, baseline[p], blind[p], fetched, cursor))'
    BY <1>11 DEF ViewInv
  <2>1. CASE p \in observed
    BY <1>1, <2>1 DEF CInv, ViewInv, HasView, Untouched
  <2>2. CASE p \notin observed
    <3>1. /\ view[p] = EntityOfRecord(baseline[p]) /\ cursor # NoCursor
          /\ Settled(p, baseline[p], blind[p], fetched, cursor)
      BY <1>1, <2>2 DEF CInv, ViewInv, HasView
    <3>2. Settled(p, baseline[p], blind'[p], fetched, cursor)
      BY <1>2, <3>1 DEF Settled
    <3> QED
      BY <1>1, <1>3, <2>2, <3>1, <3>2
  <2> QED
    BY <2>1, <2>2
<1>13. KeptInv'
  BY <1>1, <1>2, <1>11 DEF CInv, KeptInv, Running
<1>14. StagedInv'
  BY <1>1 DEF CInv, StagedInv, Running
<1>15. StoredInv'
  <2>1. ASSUME NEW p \in Paths, ~Open(p)', ~Withheld(p)', p \notin failed \cup vanished
        PROVE  Settled(p, base'[p], blind'[p], fetched, cursor)
    <3>1. CASE p \in staged
      BY <1>4, <3>1
    <3>2. CASE p \notin staged
      <4>1. Settled(p, base[p], blind[p], fetched, cursor)
        BY <1>1, <2>1, <3>2 DEF CInv, StoredInv, Open, Withheld, Running
      <4> QED
        BY <1>5, <3>2, <4>1
    <3> QED
      BY <3>1, <3>2
  <2>2. ASSUME NEW p \in Paths, ~Open(p)', ~Withheld(p)', p \notin failed' \cup vanished'
        PROVE  Settled(p, base[p], blind[p], fetched, cursor)'
    BY <1>1, <1>3, <2>1, <2>2
  <2> QED
    BY <2>2 DEF StoredInv
<1> QED
  BY <1>7, <1>8, <1>9, <1>10, <1>12, <1>13, <1>14, <1>15 DEF CInv

(* The final transaction: either nothing was left behind and every record  *)
(* is settled where the new cursor stands, or the old cursor stays.        *)
LEMMA FinishSettles ==
  ASSUME IInv, CInv, Finish, NEW p \in Paths, cursor' # NoCursor
  PROVE  Settled(p, base'[p], blind'[p], cursor', cursor')
<1> USE PlacesTyped
<1>1. /\ phase = "run" /\ todo = {}
      /\ cursor' = IF CursorHeld THEN cursor ELSE target
      /\ base'[p] = (IF p \in staged THEN draft[p] ELSE base[p])
      /\ blind'[p] <=> (IF p \in staged \/ plan[p] \in {"none", "skip"}
                        THEN BlindAfter(p, base'[p]) ELSE blind[p])
  BY DEF Finish, CommitStaged
<1>2. /\ cursor' \in Int /\ cursor <= cursor' /\ cursor' <= fetched
      /\ ~CursorHeld => failed = {} /\ vanished = {} /\ pending = NoBallot
  BY <1>1 DEF CursorHeld, CInv, OrderInv, HasView, Running
<1>3. ASSUME Settled(p, base'[p], blind'[p], fetched, cursor)
      PROVE  Settled(p, base'[p], blind'[p], cursor', cursor')
  BY <1>2, <1>3, SettledEarlier
<1>4. CASE p \in staged
  <2>1. Settled(p, draft[p], BlindAfter(p, draft[p]), fetched, cursor)
    BY <1>4 DEF CInv, StagedInv
  <2>2. Settled(p, base'[p], blind'[p], fetched, cursor)
    BY <1>1, <1>4, <2>1 DEF Settled
  <2> QED
    BY <1>3, <2>2
<1>5. CASE p \notin staged /\ plan[p] \in {"none", "skip"}
  <2>1. base'[p] = base[p] /\ (blind'[p] <=> BlindAfter(p, base[p]))
    BY <1>1, <1>5
  <2>2. BlindAfter(p, base[p]) <=>
          IF p \in observed THEN ~Describes(base[p], view[p]) ELSE blind[p]
    BY <1>5 DEF BlindAfter, SideEffects
  <2>3. IF p \in observed THEN Untouched(p, fetched) => view[p] = cloud[p]
        ELSE Settled(p, baseline[p], blind[p], fetched, cursor)
    BY <1>1, <1>5 DEF CInv, ViewInv, HasView, Open, Running
  <2>4. base[p] = baseline[p] \/ blind[p]
    BY <1>1, <1>5 DEF CInv, KeptInv, Open
  <2>5. Settled(p, base'[p], blind'[p], fetched, cursor)
    BY <2>1, <2>2, <2>3, <2>4 DEF Settled
  <2> QED
    BY <1>3, <2>5
<1>6. CASE p \notin staged /\ plan[p] \notin {"none", "skip"}
  <2>1. base'[p] = base[p] /\ (blind'[p] <=> blind[p])
    BY <1>1, <1>6
  <2>2. CASE CursorHeld
    <3>1. cursor' = cursor
      BY <1>1, <2>2
    <3>2. Settled(p, base[p], blind[p], cursor, cursor)
      BY <3>1 DEF CInv, CursorInv
    <3> QED
      BY <2>1, <3>1, <3>2 DEF Settled
  <2>3. CASE ~CursorHeld
    <3>1. Settled(p, base[p], blind[p], fetched, cursor)
      BY <1>1, <1>2, <1>6, <2>3 DEF CInv, StoredInv, Open, Withheld, Running
    <3>2. Settled(p, base'[p], blind'[p], fetched, cursor)
      BY <2>1, <3>1 DEF Settled
    <3> QED
      BY <1>3, <3>2
  <2> QED
    BY <2>2, <2>3
<1> QED
  BY <1>4, <1>5, <1>6

(* A pass that ends, however it does, leaves a cursor that keeps its word. *)
LEMMA EndKeeps == IInv /\ CInv /\ (Finish \/ Abort \/ Crash) => CInv'
<1> SUFFICES ASSUME IInv, CInv, Finish \/ Abort \/ Crash PROVE CInv'
  OBVIOUS
<1>1. CASE Abort \/ Crash
  <2>1. UNCHANGED <<cloud, log, base, cursor, blind>> /\ ForgetPass
    BY <1>1 DEF Abort, Crash, remoteSide, index
  <2> QED
    BY <2>1, Unmoved, Ended DEF CInv, KnownInv
<1>2. CASE Finish
  <2>1. ForgetPass /\ UNCHANGED <<cloud, log>>
    BY <1>2 DEF Finish, remoteSide
  <2>2. RemoteInv'
    BY <2>1 DEF CInv, RemoteInv, LastOf, Removes
  <2>3. ASSUME NEW p \in Paths PROVE Known(p, base[p].id)'
    <3>1. base'[p] \in {base[p], draft[p]}
      BY <1>2 DEF Finish, CommitStaged
    <3> QED
      BY <2>1, <3>1 DEF CInv, KnownInv, Known, RemovedBy, Removes, NodeOf
  <2>4. CursorInv'
    <3>1. ASSUME NEW p \in Paths, cursor' # NoCursor
          PROVE  Settled(p, base[p], blind[p], cursor, cursor)'
      <4>1. Settled(p, base'[p], blind'[p], cursor', cursor')
        BY <1>2, <3>1, FinishSettles
      <4> QED
        BY <2>1, <4>1 DEF Settled, Untouched, RemovedBy, Removes, NodeOf
    <3> QED
      BY <3>1 DEF CursorInv
  <2> QED
    BY <2>1, <2>2, <2>3, <2>4, Ended
<1> QED
  BY <1>1, <1>2

-----------------------------------------------------------------------------
(* Nothing has happened yet.                                               *)
LEMMA InitKeeps == Init => CInv
<1> SUFFICES ASSUME Init PROVE CInv
  OBVIOUS
<1>1. /\ log = <<>> /\ phase = "idle" /\ todo = {} /\ staged = {}
      /\ baseline = [p \in Paths |-> NoRecord] /\ draft = [p \in Paths |-> NoRecord]
      /\ view = [p \in Paths |-> NoEntity]
  BY DEF Init, PassIdle
<1>2. ASSUME NEW p \in Paths
      PROVE  /\ ~Exists(cloud[p]) => cloud[p] = NoEntity
             /\ base[p].id \in {0, cloud[p].id}
             /\ cursor # NoCursor => Describes(base[p], cloud[p])
  <2>1. CASE FreshStart
    <3>1. cloud[p] \in {NoEntity} \cup [hash : Contents, id : {1}, digest : Digests]
      BY <2>1 DEF FreshStart
    <3>2. ~Exists(cloud[p]) => cloud[p] = NoEntity
      BY <3>1, Members DEF Exists
    <3> QED
      BY <2>1, <3>2 DEF FreshStart, NoRecord
  <2>2. CASE SyncedStart
    <3>1. disk[p] # 0
      BY <2>2, Members DEF SyncedStart
    <3> QED
      BY <2>2, <3>1 DEF SyncedStart, Exists, Describes
  <2> QED
    BY <2>1, <2>2 DEF Init
<1>3. RemoteInv
  BY <1>1, <1>2 DEF RemoteInv
<1>4. KnownInv
  BY <1>1, <1>2 DEF KnownInv, Known, NoRecord, NoEntity
<1>5. CursorInv
  BY <1>2 DEF CursorInv, Settled
<1>6. OrderInv /\ ViewInv /\ KeptInv /\ StagedInv /\ StoredInv
  BY <1>1 DEF OrderInv, ViewInv, KeptInv, StagedInv, StoredInv, HasView, Running
<1> QED
  BY <1>3, <1>4, <1>5, <1>6 DEF CInv

(* Every step keeps the promise.                                           *)
LEMMA StepKeeps == IInv /\ CInv /\ [Next]_vars => CInv'
<1> SUFFICES ASSUME IInv, CInv, [Next]_vars PROVE CInv'
  OBVIOUS
<1>1. RemoteMoves
  BY PlacesTyped, StepPublishes
<1>2. CASE Environment
  <2>1. UNCHANGED <<base, cursor, blind, pending, pass>>
    BY <1>2 DEF Environment, UserWrites, UserRemoves, UserDropsSidecar, RemoteWrites,
       RemoteRemoves, Edit, index
  <2> QED
    BY <1>1, <2>1, Steady
<1>3. CASE Control \/ HandleFsEvents \/ LoseFsEvents
  BY <1>3, ControlKeeps, EventsKeep
<1>4. CASE BeginPass \/ FallBack \/ Rebuild \/ ScanLocal \/ ListRemote \/ Decide
  BY <1>4, BeginKeeps, RebuildKeeps, ScanKeeps, DecideKeeps
<1>5. CASE Execute \/ Checkpoint \/ Finish \/ Abort \/ Crash
  BY <1>5, ExecuteKeeps, CheckpointKeeps, EndKeeps
<1>6. CASE UNCHANGED vars
  BY <1>1, <1>6, Steady DEF vars, index, memory
<1> QED
  BY <1>2, <1>3, <1>4, <1>5, <1>6 DEF Next, PassStep

(* The promise of the cursor and what a pass makes of it, at all times.    *)
THEOREM CursorInvariance == Spec => [](IInv /\ CInv)
<1>1. Init => IInv /\ CInv
  BY InitTyped, InitPositions, InitKeeps DEF IInv
<1>2. (IInv /\ CInv) /\ [Next]_vars => (IInv /\ CInv)'
  BY StepTyped, StepPositions, StepKeeps DEF IInv
<1> QED
  BY <1>1, <1>2, PTL DEF Spec

(* Where no event lies after the stored cursor the record describes the    *)
(* remote file, whatever failed, was withheld or vanished on the way.      *)
THEOREM CursorKeepsItsWord == Spec => []CursorSafe
<1>1. CInv => CursorSafe
  BY DEF CInv, CursorInv, CursorSafe, Settled, RemovedBy, Orphaned
<1> QED
  BY <1>1, CursorInvariance, PTL

-----------------------------------------------------------------------------
(* The daemon changes a remote file only as an upload or a remote deletion *)
(* that its pass planned for this very file.                               *)
LEMMA RemoteChange ==
  ASSUME IInv, [Next]_vars, DaemonStep, NEW p \in Paths, cloud'[p] # cloud[p]
  PROVE  /\ p \in todo /\ phase \in Running
         /\ \/ plan[p] = "upload" /\ Exists(cloud'[p])
            \/ plan[p] = "remote_delete"
<1>1. Typed /\ cloud \in [Paths -> Entity] /\ edits \in Nat
  BY DEF IInv, Typed, FoldersTyped, CountersTyped
<1>2. PICK q \in Paths : Lands(q) /\ Acting(q, plan[q])
  <2>1. ~Environment
    BY <1>1
    DEF Environment, UserWrites, UserRemoves, UserDropsSidecar, RemoteWrites,
        RemoteRemoves, Edit, DaemonStep
  <2>2. ~(Control \/ HandleFsEvents \/ LoseFsEvents \/ BeginPass)
    BY DEF Control, HandleFsEvents, LoseFsEvents, Approve, Deny, Keep, HandleFsEvent,
       BeginPass, BeginFull, BeginIdle, BeginIncremental, remoteSide
  <2>3. ~(FallBack \/ Rebuild \/ ScanLocal \/ ListRemote \/ Decide \/ Checkpoint
            \/ Finish \/ Abort \/ Crash \/ UNCHANGED vars)
    BY DEF FallBack, Rebuild, ScanLocal, ListRemote, Decide, Checkpoint, Finish, Abort,
       Crash, vars, remoteSide
  <2>4. Execute
    BY <2>1, <2>2, <2>3 DEF Next, PassStep
  <2> QED
    BY <2>4
    DEF Execute, Upload, Download, WriteConflict, KeepLocalCopy, RemoteDelete,
        LocalDelete, AutoLink, Purge, Act, Acting, Vanish, Fail, remoteSide
<1>3. q = p /\ plan[p] \in {"upload", "remote_delete"}
  BY <1>1, <1>2, Arms DEF remoteSide
<1>4. plan[p] = "upload" => Exists(cloud'[p])
  BY <1>1, <1>2, <1>3, Arms DEF Exists, SideEffects, Actions
<1> QED
  BY <1>2, <1>3, <1>4 DEF Acting, Running

(* What a pass writes over or deletes is what its baseline says, as long   *)
(* as nothing happened to the path since it read the remote.               *)
LEMMA RemoteUnderstood ==
  ASSUME IInv, CInv, NEW p \in todo, phase \in Running,
         plan[p] \in {"upload", "remote_delete"}, Untouched(p, fetched), ~blind[p]
  PROVE  /\ plan[p] = "upload" =>
              \/ cloud[p].hash \in {0, baseline[p].hash}
              \/ baseline[p].status = "modified"
         /\ plan[p] = "remote_delete" =>
              ~Exists(cloud[p]) \/ cloud[p].hash = baseline[p].hash
<1>1. CASE p \in observed
  BY <1>1, Grounds, PlanLegal DEF Exists
<1>2. CASE p \notin observed
  BY <1>2, Grounds DEF Settled, Describes, Exists
<1> QED
  BY <1>1, <1>2

(* The daemon destroys no remote version but the one both sides agreed on, *)
(* one that is elsewhere, one given up, or one written after the pass read *)
(* the remote.                                                             *)
THEOREM RemoteVersionsAreKept == Spec => NoRemoteLoss
<1>1. ASSUME IInv, CInv, [Next]_vars, DaemonStep, NEW p \in Paths
      PROVE  KeepsRemoteVersion(p)
  <2> SUFFICES ASSUME cloud'[p].hash # cloud[p].hash, Untouched(p, fetched), ~blind[p]
               PROVE  \/ cloud[p].hash \in {0, baseline[p].hash}
                      \/ baseline[p].status = "modified"
    BY DEF KeepsRemoteVersion
  <2>1. p \in todo /\ phase \in Running /\ plan[p] \in {"upload", "remote_delete"}
    BY <1>1, RemoteChange
  <2> QED
    BY <1>1, <2>1, RemoteUnderstood DEF Exists
<1>2. (IInv /\ CInv) /\ [Next]_vars =>
        [DaemonStep => \A p \in Paths : KeepsRemoteVersion(p)]_vars
  BY <1>1
<1> QED
  BY <1>2, CursorInvariance, PTL DEF Spec, NoRemoteLoss

(* Where remote deletions are guarded, a file goes only when the content   *)
(* it has was approved for deletion, or the remote moved on since.         *)
THEOREM RemoteDeletesAreApproved == Spec => RemoteDeletesApproved
<1> DEFINE Allowed(p) ==
      Exists(cloud[p]) /\ ~Exists(cloud'[p]) =>
        \/ cloud[p].hash = granted[p]["remote"]
        \/ ~Untouched(p, fetched)
        \/ blind[p]
<1>1. ASSUME IInv, CInv, [Next]_vars, DaemonStep, "remote" \in Guarded, NEW p \in Paths
      PROVE  Allowed(p)
  <2> SUFFICES ASSUME Exists(cloud[p]), ~Exists(cloud'[p]), Untouched(p, fetched), ~blind[p]
               PROVE  cloud[p].hash = granted[p]["remote"]
    OBVIOUS
  <2>1. p \in todo /\ phase \in Running /\ plan[p] = "remote_delete"
    BY <1>1, RemoteChange
  <2>2. granted[p]["remote"] = baseline[p].hash
    BY <1>1, <2>1 DEF IInv, Typed, PassInv, Cleared, Directions, Deletes, Direction
  <2> QED
    BY <1>1, <2>1, <2>2, RemoteUnderstood
<1>2. (IInv /\ CInv) /\ [Next]_vars =>
        [DaemonStep /\ "remote" \in Guarded => \A p \in Paths : Allowed(p)]_vars
  BY <1>1
<1> QED
  BY <1>2, CursorInvariance, PTL DEF Spec, RemoteDeletesApproved
=============================================================================
