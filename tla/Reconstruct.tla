---------------------------- MODULE Reconstruct -----------------------------
(***************************************************************************)
(* reconstruct_remote, src/src/reconstruct.rs: the remote tree an          *)
(* incremental pass hands the planner, built from the records of the index *)
(* and the volume events since the cursor.  An event says which node       *)
(* changed and in which folder it now is; its name and content come from a *)
(* listing of that folder, taken after the events were.  What cannot be    *)
(* placed for certain forces a full walk.                                  *)
(*                                                                         *)
(* Ids are of one volume (0 is a record without one), and no path is       *)
(* excluded by a rule.                                                     *)
(***************************************************************************)
EXTENDS TreePlan, FiniteSets

CONSTANTS
  RootKnown,   \* the pair knows its root's id, and has no include rules
  RootId,      \* the id of the pair's remote root
  Elsewhere    \* the id of every folder outside it

ASSUME ReconstructAssumption ==
  /\ RootKnown \in BOOLEAN
  /\ RootId \in Nat \ {0} /\ Elsewhere \in Nat \ {0, RootId}

(* A trash is an update that says so, and counts as a removal.  Parent 0   *)
(* is an event that names none.                                            *)
EventTypes == {"created", "updated", "removed"}
VolumeEvent == [type : EventTypes, id : Nat \ {0}, parent : Nat]

EntityOfRow(row) ==
  CASE row.kind = "file" -> File(row.hash, row.id)
    [] row.kind = "dir" -> Dir(row.id)
    [] OTHER -> NoNode

IdOf(B, id) == {p \in Held(B) : B[p].id = id}
DuplicateId(B) ==
  \E p, q \in Held(B) : p # q /\ B[p].id = B[q].id /\ B[p].id # 0

-----------------------------------------------------------------------------
(* The fold's state.  `tree` is the map under construction, `at` where the *)
(* nodes it tracks are (`remote` and `uid_to_path`: events move the one    *)
(* without the other), `taken` the ids taken out of it, `behind` the nodes *)
(* their folder's listing does not show yet, `deferred` what only the end  *)
(* can decide, `walk` that a full walk is needed.                          *)
Start(B) ==
  [tree |-> [p \in Paths |-> EntityOfRow(B[p])],
   at |-> {<<B[p].id, p>> : p \in {q \in Held(B) : B[q].id # 0}},
   taken |-> {}, behind |-> {}, deferred |-> {}, walk |-> DuplicateId(B)]

Walk(s) == [s EXCEPT !.walk = TRUE]
PlacesOf(s, id) == {p \in Paths : <<id, p>> \in s.at}
Tracks(s, id) == PlacesOf(s, id) # {}
WasHeld(s, id) == Tracks(s, id) \/ id \in s.taken

(* Nodes created below one that left went with it.                         *)
DropBehindBeneath(behind, ids) ==
  LET gone[n \in 0 .. Cardinality(behind)] ==
        IF n = 0 THEN ids
        ELSE gone[n - 1] \cup {b.id : b \in {c \in behind : c.parent \in gone[n - 1]}}
  IN {b \in behind : b.parent \notin gone[Cardinality(behind)]}

(* Volume events are per link: what was below goes without its own.        *)
RemoveNodeOnly(s, p, id) ==   \* mutant of RemoveSubtree
  [s EXCEPT !.tree[p] = NoNode, !.at = s.at \ {<<id, p>>}, !.taken = s.taken \cup {id}]

RemoveSubtree(s, p, id) ==
  LET below == {entry \in s.at : Below(p, entry[2])}
      taken == s.taken \cup {id} \cup {entry[1] : entry \in below}
  IN [s EXCEPT
        !.tree = [q \in Paths |-> IF q = p \/ Below(p, q) THEN NoNode ELSE s.tree[q]],
        !.at = s.at \ (below \cup {<<id, p>>}),
        !.taken = taken,
        !.behind = DropBehindBeneath(s.behind, taken)]

Remove(s, id, wasBehind) ==
  LET left == IF wasBehind
              THEN [s EXCEPT !.behind = DropBehindBeneath(s.behind, {id})] ELSE s
  IN IF Tracks(left, id)
     THEN RemoveSubtree(left, CHOOSE p \in PlacesOf(left, id) : TRUE, id)
     ELSE [left EXCEPT !.deferred = @ \cup {"removal"}]

Defer(s, event, wasBehind) ==
  [s EXCEPT !.deferred = @ \cup {"placement"},
            !.behind = IF wasBehind THEN DropBehindBeneath(@, {event.id}) ELSE @]

Wait(s, event, listed) ==
  [s EXCEPT !.behind = @ \cup {[id |-> event.id, parent |-> event.parent, listed |-> listed]}]

(* A folder that comes by an update brings contents nothing describes,     *)
(* unless it is the daemon's own, recorded at that path without an id.     *)
IsOwnFolder(s, q) ==
  /\ s.tree[q].kind = "dir" /\ s.tree[q].id = 0
  /\ s.deferred = {} /\ s.behind = {}

Place(s, event, q, node) ==
  LET old == PlacesOf(s, event.id)
  IN IF /\ old = {} /\ event.type = "updated"
        /\ node.kind = "dir" /\ ~IsOwnFolder(s, q)
     THEN Walk(s)
     ELSE [s EXCEPT
            !.tree = [p \in Paths |-> IF p = q THEN node
                                      ELSE IF p \in old THEN NoNode ELSE s.tree[p]],
            !.at = {e \in s.at : e[1] # event.id} \cup {<<event.id, q>>}]

Missing(s, event, listed) ==
  IF event.type = "created" \/ ~Tracks(s, event.id) THEN Wait(s, event, listed)
  ELSE RemoveSubtree(s, CHOOSE p \in PlacesOf(s, event.id) : TRUE, event.id)

(* What one non-recursive listing of folder d shows of the node.           *)
InListing(V, d, id) == {q \in Paths : Parent(q) = d /\ V[q].id = id}
CanList(V, d) == d = <<>> \/ V[d].kind = "dir"

LookUp(s, event, V, d) ==
  IF ~CanList(V, d) THEN Walk(s)
  ELSE LET found == InListing(V, d, event.id)
       IN IF found = {} THEN Missing(s, event, d)
          ELSE LET q == CHOOSE q \in found : TRUE IN Place(s, event, q, V[q])

(* A parent nothing tracks: without the root's id the root listing is the  *)
(* only place left to look; with it the node is elsewhere, if at the end   *)
(* the tree turns out to be named throughout.                              *)
PlaceUnderUnknown(s, event, V, wasBehind) ==
  IF ~RootKnown
  THEN IF InListing(V, <<>>, event.id) = {} THEN Walk(s) ELSE LookUp(s, event, V, <<>>)
  ELSE IF event.parent = 0 \/ WasHeld(s, event.id) THEN Walk(s)
  ELSE Defer(s, event, wasBehind)

(* A parent this delta moved is placed only by a pair that knows its root: *)
(* the index has its old path.                                             *)
ParentMoved(s, B, parent) == PlacesOf(s, parent) # IdOf(B, parent)

Appear(s, event, B, V, wasBehind) ==
  LET parents == PlacesOf(s, event.parent)
  IN IF \E b \in s.behind : b.id = event.parent
     THEN IF WasHeld(s, event.id) THEN Walk(s)
          ELSE LET b == CHOOSE b \in s.behind : b.id = event.parent
               IN Wait(s, event, b.listed)
     ELSE IF parents # {}
     THEN IF ~RootKnown /\ ParentMoved(s, B, event.parent) THEN Walk(s)
          ELSE LookUp(s, event, V, CHOOSE d \in parents : TRUE)
     ELSE IF RootKnown /\ event.parent = RootId THEN LookUp(s, event, V, <<>>)
     ELSE IF event.parent \in s.taken THEN Walk(s)
     ELSE PlaceUnderUnknown(s, event, V, wasBehind)

Apply(s, event, B, V) ==
  LET wasBehind == \E b \in s.behind : b.id = event.id
      t == [s EXCEPT !.behind = {b \in @ : b.id # event.id}]
  IN IF s.walk THEN s
     ELSE IF RootKnown /\ event.id = RootId THEN Walk(t)
     ELSE IF event.type = "removed" THEN Remove(t, event.id, wasBehind)
     ELSE Appear(t, event, B, V, wasBehind)

-----------------------------------------------------------------------------
(* The end of the delta.  A node nothing tracks is somebody else's only if *)
(* no folder or record of this pair is without an id, or in a folder       *)
(* without a record.                                                       *)
Named(s) == {entry[2] : entry \in s.at}
OutsideAnyFolder(tree) ==
  \E p \in Held(tree) : Len(p) > 1 /\ tree[Parent(p)].kind # "dir"
UnfoldedRecord(s, B) == RootKnown /\ (OutsideAnyFolder(B) \/ OutsideAnyFolder(s.tree))

PlacementBlocked(s, B) ==
  \/ \E p \in Held(s.tree) \ Named(s) : s.tree[p].kind = "dir"
  \/ UnfoldedRecord(s, B)

RemovalBlocked(s, B) ==
  \/ IF RootKnown THEN ~(Held(s.tree) \subseteq Named(s))
     ELSE \E p \in Held(B) : B[p].id = 0
  \/ UnfoldedRecord(s, B)

Settle(s, B) ==
  IF \/ "placement" \in s.deferred /\ PlacementBlocked(s, B)
     \/ "removal" \in s.deferred /\ RemovalBlocked(s, B)
  THEN Walk(s) ELSE s

(* B the records, delta the events, V what listings show now.              *)
Rebuild(B, delta, V) ==
  LET read[i \in 0 .. Len(delta)] ==
        IF i = 0 THEN Start(B) ELSE Apply(read[i - 1], delta[i], B, V)
  IN Settle(read[Len(delta)], B)
=============================================================================
