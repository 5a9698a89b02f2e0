------------------------------ MODULE TreeSync ------------------------------
(***************************************************************************)
(* A pair over a tree of files and folders: the plan of TreePlan and the   *)
(* map of Reconstruct, carried out by the action arms of                   *)
(* execute_plan_and_commit, src/src/daemon.rs.  PairSync takes the pass of *)
(* a flat folder apart; here a pass is one step, in which the user may     *)
(* edit between the scan and the first action, and which a crash or a      *)
(* failing call may cut at any action.                                     *)
(*                                                                         *)
(* Both sides give a name one kind at a time (no type conflict), conflicts *)
(* are never resolved, and paths are at most two names long.               *)
(***************************************************************************)
EXTENDS Reconstruct

CONSTANTS
  MaxEdits,   \* edits of either side, in all
  MaxFaults,  \* crashes and failing calls, in all
  Lag,        \* listings may be behind the feed
  Races       \* the user may edit inside a pass

ASSUME BoundsAssumption ==
  /\ MaxEdits \in Nat /\ MaxFaults \in Nat
  /\ Lag \in BOOLEAN /\ Races \in BOOLEAN

(* The bound on depth: a folder and what is in it.                         *)
ASSUME DepthAssumption == \A p \in Paths : Len(p) <= 2

VARIABLES
  disk,      \* the local folder
  cloud,     \* the remote folder
  copies,    \* the contents of conflict copies
  base,      \* the index
  cursor,    \* a cursor is stored
  delta,     \* the volume's events since the cursor
  behind,    \* ids the feed reported and no listing has shown
  awake,     \* the watcher, a failure or a directory move asks for a scan
  unlisted,  \* ids listings do not show yet
  stamp,     \* the last content written
  lastId,    \* the last id given to a node
  edits, faults,   \* what is left of the bounds
  step,      \* ghost: what the last step was
  untold,    \* ghost: ids recorded otherwise than the pass saw them
  owed,      \* ghost: a full walk was cut short since the last whole one
  calm       \* ghost: full, unhindered passes in a row

world == <<disk, cloud, copies, unlisted, stamp, lastId>>
index == <<base, cursor>>
vars == <<disk, cloud, copies, base, cursor, delta, behind, awake, unlisted,
          stamp, lastId, edits, faults, step, untold, owed, calm>>

Tree == [Paths -> Node]
Empty == [p \in Paths |-> NoNode]
InFolder(tree, p) == Len(p) > 1 => tree[Parent(p)].kind = "dir"
Subtree(p) == {q \in Paths : q = p \/ Below(p, q)}
Without(tree, p) == [q \in Paths |-> IF q \in Subtree(p) THEN NoNode ELSE tree[q]]

(* Every folder has room for every name (a bound): a folder moved to the   *)
(* top finds each path of it there.                                        *)
ASSUME RoomAssumption ==
  \A p, q \in Paths :
    Len(p) = 1 /\ Len(q) = 1 => \A r \in Subtree(p) : Rekey(r, p, q) \in Paths

Contents(tree) == {tree[p].hash : p \in Paths} \ {0}

(* Moving a subtree: not into itself, and (a bound) a folder only to the   *)
(* top, where every path of it exists too.                                 *)
Fits(tree, p, q) ==
  /\ ~Below(p, q) /\ (tree[p].kind = "dir" => Len(q) = 1)
  /\ \A r \in Subtree(p) \cap Held(tree) : Rekey(r, p, q) \in Paths
Moved(tree, p, q) ==
  [r \in Paths |->
     IF r \in Subtree(q) THEN (IF Rekey(r, q, p) \in Paths THEN tree[Rekey(r, q, p)] ELSE NoNode)
     ELSE IF r \in Subtree(p) THEN NoNode ELSE tree[r]]

ParentId(tree, p) == IF Len(p) = 1 THEN RootId ELSE tree[Parent(p)].id
Told(type, tree, p) == [type |-> type, id |-> tree[p].id, parent |-> ParentId(tree, p)]

(* What listings show: a node they are behind on hides what is below it.   *)
Listed == [p \in Paths |->
  IF \E q \in Paths : cloud[q].id \in unlisted /\ p \in Subtree(q) THEN NoNode ELSE cloud[p]]

-----------------------------------------------------------------------------
(* A new pair, or one in step: a folder with a file, and a file beside it. *)
SyncedTrees ==
  {[p \in Paths |-> CASE p = <<1>> -> Dir(1) [] p = <<1, 1>> -> File(1, 2)
                      [] p = <<2>> -> beside [] OTHER -> NoNode]
     : beside \in {NoNode, File(2, 3), Dir(3)}}

RowOf(node) ==
  CASE node.kind = "file" -> FileRow(node.hash, node.id, "synced")
    [] node.kind = "dir" -> DirRow(node.id)
    [] OTHER -> NoRow
LocalOf(node) == [node EXCEPT !.id = 0]

Init ==
  /\ cloud \in SyncedTrees
  /\ \/ /\ disk = [p \in Paths |-> LocalOf(cloud[p])]
        /\ base = [p \in Paths |-> RowOf(cloud[p])]
        /\ cursor = TRUE
     \/ /\ disk \in {Empty, [p \in Paths |-> LocalOf(cloud[p])]}
        /\ base = [p \in Paths |-> NoRow]
        /\ cursor = FALSE
  /\ delta = <<>> /\ behind = {} /\ unlisted = {} /\ copies = {}
  /\ awake = TRUE
  /\ stamp = 2 /\ lastId = 3
  /\ edits = MaxEdits /\ faults = MaxFaults
  /\ step = "edit" /\ untold = {} /\ owed = FALSE /\ calm = 0

-----------------------------------------------------------------------------
(* One edit of a local tree, as the set of trees it may lead to: a file    *)
(* is written, a folder made, a subtree removed or renamed.                *)
KindFree(tree, p, kind) == tree[p].kind \in {"none", kind}

Writes(tree) ==
  {[tree EXCEPT ![p] = File(stamp + 1, 0)] :
     p \in {q \in Paths : /\ InFolder(tree, q) /\ KindFree(tree, q, "file")
                          /\ KindFree(cloud, q, "file")}}
NewFolders(tree) ==
  {[tree EXCEPT ![p] = Dir(0)] :
     p \in {q \in Paths \ Held(tree) : Len(q) = 1 /\ KindFree(cloud, q, "dir")}}
Removals(tree) == {Without(tree, p) : p \in Held(tree)}
CanMove(tree, p, q) ==
  /\ q \in Paths \ Held(tree)
  /\ InFolder(tree, q) /\ Fits(tree, p, q)
Renames(tree) ==
  {Moved(tree, pq[1], pq[2]) :
     pq \in {pq \in Held(tree) \X Paths :
               /\ CanMove(tree, pq[1], pq[2])
               /\ \A r \in Subtree(pq[1]) \cap Held(tree) :
                    KindFree(cloud, Rekey(r, pq[1], pq[2]), tree[r].kind)}}

LocalEdits(tree) == Writes(tree) \cup NewFolders(tree) \cup Removals(tree) \cup Renames(tree)

EditLocal ==
  /\ edits > 0
  /\ disk' \in LocalEdits(disk)
  /\ stamp' = stamp + 1
  /\ edits' = edits - 1
  /\ awake' = TRUE
  /\ step' = "edit" /\ calm' = 0
  /\ UNCHANGED <<cloud, copies, base, cursor, delta, behind, unlisted, lastId,
                 faults, untold, owed>>

(* Other clients.  Volume events are per node: only the one that was       *)
(* touched is told of, with the folder it is in now.                       *)
RemoteStep(tree, told) ==
  /\ edits > 0
  /\ edits' = edits - 1
  /\ cloud' = tree
  /\ delta' = Append(delta, told)
  /\ step' = "edit" /\ calm' = 0
  /\ UNCHANGED <<disk, copies, base, cursor, behind, awake, faults, owed>>

RemoteCreate ==
  \E p \in Paths \ Held(cloud), node \in {File(stamp + 1, lastId + 1), Dir(lastId + 1)} :
    /\ InFolder(cloud, p) /\ KindFree(disk, p, node.kind)
    /\ node.kind = "dir" => Len(p) = 1
    /\ LET tree == [cloud EXCEPT ![p] = node]
       IN RemoteStep(tree, Told("created", tree, p))
    /\ stamp' = stamp + 1 /\ lastId' = lastId + 1
    /\ unlisted' \in {unlisted} \cup (IF Lag THEN {unlisted \cup {node.id}} ELSE {})
    /\ UNCHANGED untold

RemoteRevise ==
  \E p \in {q \in Paths : cloud[q].kind = "file"} :
    /\ RemoteStep([cloud EXCEPT ![p].hash = stamp + 1], Told("updated", cloud, p))
    /\ stamp' = stamp + 1
    /\ UNCHANGED <<unlisted, lastId, untold>>

RemoteTrash ==
  \E p \in Held(cloud) :
    /\ RemoteStep(Without(cloud, p), Told("removed", cloud, p))
    /\ UNCHANGED <<unlisted, stamp, lastId, untold>>

RemoteMove ==
  \E p \in Held(cloud), q \in Paths :
    /\ CanMove(cloud, p, q)
    /\ \A r \in Subtree(p) \cap Held(cloud) : KindFree(disk, Rekey(r, p, q), cloud[r].kind)
    /\ LET tree == Moved(cloud, p, q) IN RemoteStep(tree, Told("updated", tree, q))
    /\ untold' = untold \cup {cloud[r].id : r \in {t \in Held(cloud) : Below(p, t)}}
    /\ UNCHANGED <<unlisted, stamp, lastId>>

(* A subtree leaves for another folder of the volume, or a folder with a   *)
(* file in it comes from one.                                              *)
RemoteMoveOut ==
  \E p \in Held(cloud) :
    /\ RemoteStep(Without(cloud, p),
                  [type |-> "updated", id |-> cloud[p].id, parent |-> Elsewhere])
    /\ UNCHANGED <<unlisted, stamp, lastId, untold>>

RemoteMoveIn ==
  \E p \in {q \in Paths \ Held(cloud) : Len(q) = 1} :
    /\ p \o <<1>> \in Paths
    /\ KindFree(disk, p, "dir") /\ KindFree(disk, p \o <<1>>, "file")
    /\ LET tree == [cloud EXCEPT ![p] = Dir(lastId + 1),
                                 ![p \o <<1>>] = File(stamp + 1, lastId + 2)]
       IN RemoteStep(tree, Told("updated", tree, p))
    /\ stamp' = stamp + 1 /\ lastId' = lastId + 2
    /\ UNCHANGED <<unlisted, untold>>

ListingCatchesUp ==
  /\ unlisted # {}
  /\ unlisted' = {}
  /\ UNCHANGED <<disk, cloud, copies, base, cursor, delta, behind, awake, stamp,
                 lastId, edits, faults, step, untold, owed, calm>>
-----------------------------------------------------------------------------
(* The action arms.  An arm takes the pass's state x (the two folders, the *)
(* records, the events its calls cause) to the next.  L is the scan, R the *)
(* remote the plan was made from, B the records then.                      *)
Bad(x) == [x EXCEPT !.bad = TRUE]
Write(x, p, row) == [x EXCEPT !.base[p] = row]
Forget(x, p) == [x EXCEPT !.base = [q \in Paths |-> IF q \in Subtree(p) THEN NoRow ELSE @[q]]]

PutRemote(x, p, node, type) ==
  LET tree == [x.cloud EXCEPT ![p] = node]
  IN [x EXCEPT !.cloud = tree, !.told = Append(@, Told(type, tree, p)),
               !.lastId = IF node.id > @ THEN node.id ELSE @]

(* ensure_directory: every missing folder on the way, none in a file's     *)
(* place.                                                                  *)
EnsureRemote(x, d) ==
  LET made[n \in 0 .. Len(d)] ==
        IF n = 0 THEN x
        ELSE LET y == made[n - 1]
                 p == SubSeq(d, 1, n)
             IN IF y.bad \/ y.cloud[p].kind = "dir" THEN y
                ELSE IF y.cloud[p].kind = "file" THEN Bad(y)
                ELSE PutRemote(y, p, Dir(y.lastId + 1), "created")
  IN made[Len(d)]

EnsureLocal(x, d) ==
  LET way == {SubSeq(d, 1, n) : n \in 1 .. Len(d)}
  IN IF \E p \in way : x.disk[p].kind = "file" THEN Bad(x)
     ELSE [x EXCEPT !.disk = [p \in Paths |-> IF p \in way THEN Dir(0) ELSE @[p]]]

(* A restored node is new, but is recorded under the id of the lost one.   *)
Misnames(x, p, id) ==
  IF id \in {0, x.cloud[p].id} THEN x ELSE [x EXCEPT !.untold = @ \cup {id, x.cloud[p].id}]

(* The bytes sent are those on disk now, the digest recorded is that of    *)
(* the scan.  A planned parent was created by its own action, or not.      *)
Upload(x, p, L, R, B, plannedDirs) ==
  LET y == IF Parent(p) \in plannedDirs THEN x ELSE EnsureRemote(x, Parent(p))
      old == y.cloud[p]
      sent == y.disk[p].hash
  IN IF y.bad \/ y.disk[p].kind # "file" \/ old.kind = "dir" \/ ~InFolder(y.cloud, p)
     THEN Bad(y)
     ELSE LET z == IF old.kind = "file"
                   THEN PutRemote(y, p, File(sent, old.id), "updated")
                   ELSE PutRemote(y, p, File(sent, y.lastId + 1), "created")
              row == RecordAfter("upload", L[p].hash, 0, R[p], B[p])
          IN Write(Misnames(z, p, row.id), p, FileRow(row.hash, row.id, "synced"))

Vanish(x) == [x EXCEPT !.vanished = TRUE]

Download(x, p, R) ==
  LET y == EnsureLocal(x, Parent(p))
  IN IF y.bad \/ y.disk[p].kind = "dir" THEN Bad(y)
     ELSE IF y.cloud[p].kind # "file" THEN Vanish(y)
     ELSE Write([y EXCEPT !.disk[p] = File(y.cloud[p].hash, 0)], p,
                FileRow(y.cloud[p].hash, R[p].id, "synced"))

(* A conflict keeps both versions: the remote one in a copy beside the     *)
(* file, or, when the remote is gone, a copy of the local one.             *)
KeepBoth(x, p, do, L, R, B) ==
  LET row == RecordAfter(do, L[p].hash, 0, R[p], B[p])
      frozen == FileRow(L[p].hash, row.id, "conflict")
  IN IF do = "conflict"
     THEN IF x.cloud[p].kind # "file" THEN Vanish(x)
          ELSE Write([x EXCEPT !.copies = @ \cup {x.cloud[p].hash}], p, frozen)
     ELSE IF x.disk[p].kind # "file" THEN Bad(x)
     ELSE Write([x EXCEPT !.copies = @ \cup {x.disk[p].hash}], p, frozen)

CreateRemoteDirectory(x, p, id, B) ==
  LET y == EnsureRemote(x, p)
      kept == IF id # 0 THEN id ELSE B[p].id
  IN IF y.bad THEN y ELSE Write(Misnames(y, p, kept), p, DirRow(kept))

CreateLocalDirectory(x, p, id) ==
  LET y == EnsureLocal(x, p) IN IF y.bad THEN y ELSE Write(y, p, DirRow(id))

(* A file is hashed again where it landed; its record says what was found. *)
MoveLocalFile(x, a, R) ==
  LET y == EnsureLocal(x, Parent(a.to))
      found == x.disk[a.path].hash
  IN IF y.bad \/ x.disk[a.path].kind # "file" \/ y.disk[a.to].kind = "dir" THEN Bad(y)
     ELSE LET z == [y EXCEPT !.disk[a.path] = NoNode, !.disk[a.to] = File(found, 0),
                             !.untold = IF found = R[a.to].hash THEN @ ELSE @ \cup {a.id}]
          IN Write(Forget(z, a.path), a.to, FileRow(found, a.id, "synced"))

(* A directory takes everything below along; the records below are carried *)
(* over as they are, and only the destination is looked at again.  A       *)
(* rename replaces an empty folder, but nothing else.                      *)
Occupied(tree, p) == tree[p].kind = "file" \/ \E q \in Held(tree) : Below(p, q)

ForgetRescan(x, a) == x   \* mutant of Rescan
Rescan(x, a) == [x EXCEPT !.rescan = TRUE]

Shows(R, row) == \E q \in Paths : R[q].id = row.id /\ R[q].hash = row.hash
Unshown(R, B, p) == {B[q].id : q \in {r \in Held(B) : Below(p, r) /\ ~Shows(R, B[r])}}

MoveLocalDir(x, a, R, B) ==
  LET y == EnsureLocal(x, Parent(a.to))
      below == {q \in Held(B) : Below(a.path, q)}
  IN IF \/ y.bad \/ y.disk[a.path].kind # "dir"
        \/ Occupied(y.disk, a.to) \/ ~Fits(y.disk, a.path, a.to)
     THEN Bad(y)
     ELSE LET z == [y EXCEPT
                      !.disk = Moved(@, a.path, a.to),
                      !.untold = @ \cup Unshown(R, B, a.path),
                      !.base = [q \in Paths |->
                         IF q = a.to THEN DirRow(a.id)
                         ELSE IF Below(a.to, q) /\ Rekey(q, a.to, a.path) \in below
                         THEN B[Rekey(q, a.to, a.path)]
                         ELSE IF q = a.path \/ q \in below THEN NoRow ELSE @[q]]]
          IN Rescan(z, a)

(* By path: whatever is there now moves, with all that is below it.        *)
MoveRemote(x, a, L) ==
  LET y == EnsureRemote(x, Parent(a.to))
  IN IF \/ y.bad \/ y.cloud[a.path].kind = "none"
        \/ y.cloud[a.to].kind # "none" \/ ~Fits(y.cloud, a.path, a.to)
     THEN Bad(y)
     ELSE LET tree == Moved(y.cloud, a.path, a.to)
              z == [y EXCEPT !.cloud = tree, !.told = Append(@, Told("updated", tree, a.to))]
          IN Write(Forget(z, a.path), a.to, FileRow(L[a.to].hash, a.id, "synced"))

(* A folder linked anew keeps the records below the one it replaces.       *)
AutoLink(x, a, L, R, B) ==
  IF a.kind = "dir"
  THEN Write([x EXCEPT !.untold = IF B[a.path].id \in {0, a.id} THEN @ ELSE @ \cup Unshown(R, B, a.path)],
             a.path, DirRow(a.id))
  ELSE Write(x, a.path, FileRow(L[a.path].hash, RemoteId(R[a.path], B[a.path]), "synced"))

(* By path; a directory's needs an id, though nothing checks it.           *)
RemoteDelete(x, a) ==
  LET p == a.path
  IN IF x.cloud[p].kind = "none" \/ (a.kind = "dir" /\ a.id = 0) THEN Bad(x)
     ELSE Forget([x EXCEPT !.cloud = Without(@, p),
                           !.told = Append(@, Told("removed", x.cloud, p))], p)

DeleteAlone(x, p) ==   \* mutant of LocalDelete
  Forget([x EXCEPT !.disk[p] = NoNode], p)
LocalDelete(x, p) == Forget([x EXCEPT !.disk = Without(@, p)], p)

Perform(x, a, L, R, B, plannedDirs) ==
  CASE a.do = "upload" -> Upload(x, a.path, L, R, B, plannedDirs)
    [] a.do = "download" -> Download(x, a.path, R)
    [] a.do \in {"conflict", "conflict_local"} -> KeepBoth(x, a.path, a.do, L, R, B)
    [] a.do = "create_remote_dir" -> CreateRemoteDirectory(x, a.path, a.id, B)
    [] a.do = "create_local_dir" -> CreateLocalDirectory(x, a.path, a.id)
    [] a.do = "move_local" /\ a.kind = "file" -> MoveLocalFile(x, a, R)
    [] a.do = "move_local" /\ a.kind # "file" -> MoveLocalDir(x, a, R, B)
    [] a.do = "move_remote" -> MoveRemote(x, a, L)
    [] a.do = "auto_link" -> AutoLink(x, a, L, R, B)
    [] a.do = "remote_delete" -> RemoteDelete(x, a)
    [] a.do = "local_delete" -> LocalDelete(x, a.path)
    [] a.do = "purge" -> Write(x, a.path, NoRow)
    [] OTHER -> x

-----------------------------------------------------------------------------
(* A fault strikes at one action: before its effect or after it, and as a  *)
(* failure of that action or the end of the process.  What an action did   *)
(* not get to record stays unrecorded.                                     *)
Fault == [at : Nat, effect : BOOLEAN, crash : BOOLEAN]
NoFault == [at |-> 0, effect |-> FALSE, crash |-> FALSE]
FaultsOf(plan) ==
  {NoFault} \cup
  (IF faults = 0 THEN {} ELSE [at : DOMAIN plan, effect : BOOLEAN, crash : BOOLEAN])

Failed(x, y) == [y EXCEPT !.base = x.base, !.bad = FALSE, !.failed = TRUE, !.rescan = TRUE]

RunAction(x, a, L, R, B, plannedDirs) ==
  LET y == Perform(x, a, L, R, B, plannedDirs) IN IF y.bad THEN Failed(x, y) ELSE y

PlannedDirs(plan) ==
  {plan[i].path : i \in {j \in DOMAIN plan : plan[j].do = "create_remote_dir"}}

RunPlan(plan, start, approve, fault, L, R, B) ==
  LET last == IF fault.crash THEN fault.at ELSE Len(plan)
      ran[i \in 0 .. last] ==
        IF i = 0 THEN start
        ELSE LET x == ran[i - 1]
                 y == RunAction(x, plan[i], L, R, B, PlannedDirs(plan))
             IN IF plan[i].do \in Deletes /\ ~approve THEN [x EXCEPT !.withheld = TRUE]
                ELSE IF i = fault.at THEN Failed(x, IF fault.effect THEN y ELSE x) ELSE y
  IN ran[last]

(* Ids the index tells otherwise than the remote is.  The ghost lets go of *)
(* an id that a record tells right again, or that is gone for everybody.   *)
Misstates(row, node) == row.kind # node.kind \/ row.hash # node.hash \/ row.id # node.id
StillUntold(ids, records, tree) ==
  {id \in ids :
     /\ \E p \in Paths : id \in {records[p].id, tree[p].id}
     /\ \A p \in Paths : records[p].id = id => Misstates(records[p], tree[p])}

Start0(d) ==
  [disk |-> d, cloud |-> cloud, copies |-> copies, base |-> base, told |-> <<>>,
   lastId |-> lastId, untold |-> untold, bad |-> FALSE, failed |-> FALSE,
   vanished |-> FALSE, withheld |-> FALSE, rescan |-> FALSE]

Enough == 3   \* bound: calm passes counted

(* Two moves of a plan are carried out in the order of their sources.  One *)
(* is in the way of the other where both have one destination, or where it *)
(* fills the folder whose name the other's folder takes.                   *)
Tangled(plan) ==
  \E i, j \in DOMAIN plan :
    /\ i < j /\ {plan[i].do, plan[j].do} \subseteq {"move_local", "move_remote"}
    /\ (plan[i].to = plan[j].to \/ Below(plan[j].to, plan[i].to))

(* The rest of a pass that holds R of the remote: `waiting` are the nodes  *)
(* it knows no listing shows.                                              *)
PassOver(R, full, waiting) ==
  \E approve \in BOOLEAN, raced \in {disk} \cup (IF Races /\ edits > 0 THEN LocalEdits(disk) ELSE {}) :
    \E plan \in {Planned(disk, R, base)} :
    \E fault \in FaultsOf(plan) :
    \E x \in {RunPlan(plan, Start0(raced), approve, fault, disk, R, base)} :
      LET held == x.failed \/ x.vanished \/ x.withheld \/ waiting # {}
          race == raced # disk
          hindered == race \/ fault # NoFault \/ unlisted # {}
      IN /\ ~approve => \E i \in DOMAIN plan : plan[i].do \in Deletes
         /\ disk' = x.disk /\ cloud' = x.cloud /\ copies' = x.copies
         /\ base' = x.base /\ lastId' = x.lastId
         /\ untold' = StillUntold(x.untold, x.base, x.cloud)
         /\ stamp' = IF race THEN stamp + 1 ELSE stamp
         /\ edits' = IF race THEN edits - 1 ELSE edits
         /\ faults' = IF fault = NoFault THEN faults ELSE faults - 1
         /\ IF fault.crash
            THEN /\ delta' = delta \o x.told /\ behind' = {} /\ awake' = TRUE
                 /\ step' = "crash" /\ calm' = 0 /\ owed' = (owed \/ full)
                 /\ UNCHANGED cursor
            ELSE /\ delta' = IF held THEN delta \o x.told ELSE x.told
                 /\ cursor' = (cursor \/ ~held)
                 /\ behind' = waiting
                 /\ owed' = IF full THEN held \/ unlisted # {} ELSE owed
                 /\ awake' = (x.rescan \/ x.withheld \/ race)
                 /\ step' = IF ~full THEN "follow"
                            ELSE IF x.failed /\ ~hindered /\ ~Tangled(plan) THEN "stuck" ELSE "walk"
                 /\ calm' = IF full /\ approve /\ ~hindered
                            THEN (IF calm < Enough THEN calm + 1 ELSE calm) ELSE 0
         /\ UNCHANGED unlisted

ShownIds(tree) == {tree[p].id : p \in Held(tree)}

(* A full walk: at the first pass, at a sweep, when asked for.  It stores  *)
(* no cursor while it misses a node the feed has reported.                 *)
FullWalk == PassOver(Listed, TRUE, behind \ ShownIds(Listed))

Rebuilt == Rebuild(base, delta, Listed)

(* An incremental pass, unless nothing asks for one; it walks where the    *)
(* map cannot be rebuilt.                                                  *)
Follow ==
  /\ cursor
  /\ awake \/ delta # <<>>
  /\ LET s == Rebuilt
     IN IF s.walk THEN FullWalk
        ELSE PassOver(s.tree, FALSE, {b.id : b \in s.behind})

Next ==
  \/ EditLocal
  \/ RemoteCreate \/ RemoteRevise \/ RemoteTrash
  \/ RemoteMove \/ RemoteMoveOut \/ RemoteMoveIn
  \/ ListingCatchesUp
  \/ FullWalk \/ Follow

Spec == Init /\ [][Next]_vars

-----------------------------------------------------------------------------
(* Both folders are trees of one kind per path, and records are well       *)
(* formed: a move or a deletion never leaves a child without its folder    *)
(* (the executor's recursive renames and removals).                        *)
WellFormed(tree) == \A p \in Held(tree) : InFolder(tree, p)
TypeOK ==
  /\ disk \in Tree /\ cloud \in Tree
  /\ base \in [Paths -> TreeRecord]
  /\ WellFormed(disk) /\ WellFormed(cloud)

(* Where users give a name one kind, passes do: no plan makes a folder     *)
(* where the other side has a file, whatever moves and is cut in between.  *)
OneKind == \A p \in Paths : ~Clash(disk, cloud, p)

Quiet == cursor /\ delta = <<>> /\ behind = {}

(* "A synced record is the last-known remote node" (reconstruct.rs): where *)
(* nothing is left to read, every synced record tells the kind, content    *)
(* and id of the remote node at its path.  Every later map of the remote   *)
(* is built from the records, so one wrong record makes the planner delete *)
(* or overwrite on a false view.  Excused are the ids of `untold`, the     *)
(* time a full walk is owed, and records of which two name one id: a file  *)
(* moved out of a folder that is renamed leaves them, and with them the    *)
(* next pass builds no map but walks.                                      *)
RecordsAreRemote ==
  Quiet /\ ~owed /\ ~DuplicateId(base) =>
    \A p \in Paths :
      base[p].status = "synced" /\ base[p].id \notin untold \cup {0} => ~Misstates(base[p], cloud[p])

(* A pair that nothing wakes is in step: once the cursor is stored, the    *)
(* feed is read and no scan is asked for, both sides agree on every path.  *)
(* It is what the idle pass of try_incremental_reconcile relies on when it *)
(* skips the scan.  Records without an id are excused: they can also take  *)
(* another's folder for the daemon's own, which a third edit brings about. *)
Agree(p) == disk[p].kind = cloud[p].kind /\ disk[p].hash = cloud[p].hash
Excused(p) ==
  \/ base[p].status = "conflict" \/ base[p].id \in untold \/ cloud[p].id \in untold
  \/ base[p].kind # "none" /\ base[p].id = 0
IdleMeansAgreed ==
  Quiet /\ ~awake /\ unlisted = {} /\ ~owed => \A p \in Paths : Agree(p) \/ Excused(p)

(* Full walks heal what incremental passes miss: after a few unhindered    *)
(* ones every path agrees or is a conflict left to the user, whatever      *)
(* moves, crashes and failures came before.                                *)
Settles == calm = Enough => \A p \in Paths : Agree(p) \/ base[p].status = "conflict"

(* No full walk plans what it cannot carry out: without faults or races no *)
(* action of its plan trips over what an earlier one did (the order of     *)
(* moves, directories and covered deletions), but for tangled moves.       *)
NeverStuck == step # "stuck"

Somewhere == Contents(disk) \cup Contents(cloud) \cup copies
Agreed == {base[p].hash : p \in Paths}

(* The remote content no record and no event tells of.                     *)
Untellable(p) ==
  \/ base[p].id \in untold \/ cloud[p].id \in untold
  \/ Listed[p] # cloud[p]
  \/ owed /\ Misstates(base[p], cloud[p])
Unseen == {cloud[p].hash : p \in {q \in Paths : Untellable(q)}}

(* A remote version the pair never agreed on was written by another client *)
(* since: no pass, cut or whole, destroys its last copy, whichever side    *)
(* holds it and whatever directories are moved or deleted around it.       *)
NoAuthoredLoss ==
  [][step' # "edit" => Contents(cloud) \ (Agreed \cup Unseen) \subseteq Somewhere']_vars

(* The remote file that takes the place of the local one at p, which a     *)
(* folder moved by another client carries there: one the pair has no       *)
(* record of p for, or one that has its record elsewhere.                  *)
Elder(p, node) ==
  \E q \in Paths \ {p} :
    base[q].kind = "file" /\ base[q].hash = node.hash /\ base[q].id \in {0, node.id}
TakenOver(p) ==
  \E d, q \in Paths :
    /\ Below(d, p) /\ base[d].kind = "dir" /\ base[d].id # 0
    /\ cloud[q].id = base[d].id /\ q # d
    /\ LET t == Rekey(p, d, q)
       IN t \in Held(cloud) /\ (base[p].kind = "none" \/ Elder(p, cloud[t]))
Overrun == {disk[p].hash : p \in {q \in Paths : TakenOver(q)}}

(* A local version the pair never agreed on was written by the user since: *)
(* it stays in the folder, wherever the pass moves it, whatever the pass   *)
(* holds of the remote, and wherever the pass is cut.  Not so for an edit  *)
(* inside the pass, and below a folder moved over it (ConflictsKeepBoth).  *)
LocalEditsStay ==
  [][step' # "edit" /\ edits' = edits =>
       Contents(disk) \ (Agreed \cup Overrun) \subseteq Contents(disk')]_vars

(* "Conflicts keep both sides ... nothing is lost" (README.md): no pass    *)
(* destroys the last copy of a local file it has no record of.  Violated:  *)
(* below a directory that another client moved, the local file lands where *)
(* the same plan then downloads the remote one of that name.               *)
ConflictsKeepBoth ==
  [][step' # "edit" /\ edits' = edits =>
       {disk[p].hash : p \in {q \in Paths : disk[q].kind = "file" /\ base[q].kind = "none"}}
         \subseteq Somewhere']_vars
=============================================================================
