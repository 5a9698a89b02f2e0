------------------------------ MODULE TreePlan ------------------------------
(***************************************************************************)
(* The tree half of the pure planner, src/src/sync.rs: the plan of a pass  *)
(* for a whole folder, from three trees that give every path an entity:    *)
(*   L  what the pass scanned locally,                                     *)
(*   R  what it holds of the remote,                                       *)
(*   B  the baseline records of the index.                                 *)
(* FilePlan decides a single file; here are directories, moves on either   *)
(* side, the proof a directory deletion needs, and the order of the plan.  *)
(*                                                                         *)
(* A path is a sequence of names, a name a number.  Every node has a       *)
(* usable digest, and every path can be named on the remote.               *)
(***************************************************************************)
EXTENDS FilePlan, Sequences

CONSTANT Order   \* the paths of the instance, in the order of a BTreeSet<PathBuf>

Paths == {Order[i] : i \in DOMAIN Order}
Parent(p) == SubSeq(p, 1, Len(p) - 1)
Below(p, q) == Len(p) < Len(q) /\ SubSeq(q, 1, Len(p)) = p
Rekey(q, old, new) == new \o SubSeq(q, Len(old) + 1, Len(q))

(* Every path once, its parent before it.                                  *)
ASSUME OrderAssumption ==
  /\ Order \in Seq(Seq(Nat) \ {<<>>})
  /\ \A i \in DOMAIN Order :
       /\ \A j \in DOMAIN Order : Order[i] = Order[j] => i = j
       /\ Len(Order[i]) > 1 => \E j \in 1 .. i - 1 : Order[j] = Parent(Order[i])

Kinds == {"none", "file", "dir"}
Node == [kind : Kinds, hash : Content, id : Nat, digest : {"sha1"}]
NoNode == [kind |-> "none", hash |-> 0, id |-> 0, digest |-> "sha1"]
File(c, n) == [kind |-> "file", hash |-> c, id |-> n, digest |-> "sha1"]
Dir(n) == [kind |-> "dir", hash |-> 0, id |-> n, digest |-> "sha1"]

TreeRecord == [kind : Kinds, hash : Content, id : Nat, status : Status]
NoRow == [kind |-> "none", hash |-> 0, id |-> 0, status |-> "none"]
FileRow(c, n, s) == [kind |-> "file", hash |-> c, id |-> n, status |-> s]
DirRow(n) == [kind |-> "dir", hash |-> 0, id |-> n, status |-> "synced"]

Held(tree) == {p \in Paths : tree[p].kind # "none"}

(* A planned action; `to` is the destination of a move.                    *)
Action(do, p, kind, id) == [do |-> do, path |-> p, to |-> <<>>, kind |-> kind, id |-> id]
Move(do, p, q, kind, id) == [do |-> do, path |-> p, to |-> q, kind |-> kind, id |-> id]
Nothing == Action("none", <<>>, "none", 0)

-----------------------------------------------------------------------------
(* Moves.  A node that left its recorded path on one side and is untouched *)
(* on the other is moved when exactly one new path can be it: a file by    *)
(* its content (and its id, once recorded), a directory by its id alone.   *)

RemoteFileTargets(R, L, B, p) ==
  {q \in Paths : /\ L[q].kind = "none" /\ B[q].kind = "none"
                 /\ R[q].kind = "file" /\ R[q].hash = B[p].hash
                 /\ B[p].id \in {0, R[q].id}}

LocalFileTargets(R, L, B, p) ==
  {q \in Paths : /\ R[q].kind = "none" /\ B[q].kind = "none"
                 /\ L[q].kind = "file" /\ L[q].hash = B[p].hash}

RemoteDirTargets(R, L, B, p) ==
  {q \in Paths : /\ L[q].kind = "none" /\ B[q].kind = "none"
                 /\ R[q].kind = "dir" /\ R[q].id = B[p].id}

Only(S) == CHOOSE q \in S : TRUE
Unique(S) == \E q \in S : S = {q}

Untouched(node, row) == node.kind = "file" /\ node.hash = row.hash

Transition(L, R, B, p) ==
  LET there == RemoteFileTargets(R, L, B, p)
      here == LocalFileTargets(R, L, B, p)
      folder == RemoteDirTargets(R, L, B, p)
  IN CASE /\ B[p].kind = "file" /\ Untouched(L[p], B[p])
          /\ R[p].kind = "none" /\ Unique(there)
            -> Move("move_local", p, Only(there), "file", R[Only(there)].id)
       [] /\ B[p].kind = "file" /\ L[p].kind = "none"
          /\ Untouched(R[p], B[p]) /\ Unique(here)
            -> Move("move_remote", p, Only(here), "file", R[p].id)
       [] /\ B[p].kind = "dir" /\ B[p].id # 0 /\ L[p].kind = "dir"
          /\ R[p].kind = "none" /\ Unique(folder)
            -> Move("move_local", p, Only(folder), "dir", B[p].id)
       [] OTHER -> Nothing

(* What a move settles for this pass: both its ends and, for a directory,  *)
(* the recorded paths below it, old and new.                               *)
Suppressed(B, move) ==
  {move.path, move.to} \cup
  (IF move.kind = "file" THEN {}
   ELSE LET below == {q \in Held(B) : Below(move.path, q)}
        IN below \cup {Rekey(q, move.path, move.to) : q \in below})

(* Moves are found in path order; one hides the paths it settles from      *)
(* those after it.                                                         *)
Moves(L, R, B) ==
  LET found[i \in 0 .. Len(Order)] ==
        IF i = 0 THEN [moves |-> <<>>, hidden |-> {}]
        ELSE LET before == found[i - 1]
                 move == Transition(L, R, B, Order[i])
             IN IF Order[i] \in before.hidden \/ move = Nothing THEN before
                ELSE [moves |-> Append(before.moves, move),
                      hidden |-> before.hidden \cup Suppressed(B, move)]
  IN found[Len(Order)]

(* A local path nobody recorded moves along with its directory, and waits  *)
(* for the next pass, which finds it where it then is.                     *)
CarriedAlong(L, B, moves) ==
  {p \in Held(L) \ Held(B) :
     \E i \in DOMAIN moves : moves[i].kind = "dir" /\ Below(moves[i].path, p)}

-----------------------------------------------------------------------------
(* One path, once moves are out of the way.                                *)
Clash(L, R, p) == {L[p].kind, R[p].kind} = {"file", "dir"}
Reconciled(L, R, B, p) == L[p].kind = "dir" /\ R[p].kind = "file" /\ B[p].kind = "dir"
StaleKind(L, R, B, p) ==
  \E kind \in {L[p].kind, R[p].kind} \ {"none"} : kind # B[p].kind

PlanFileAt(L, R, row, p) ==
  Action(PlanFile(L[p].hash, R[p], row), p, "file", RemoteId(R[p], row))

(* Mutant of PlanFresh: a folder is made by the files in it, never itself. *)
PlanFilesOnly(L, R, p) ==
  IF "file" \in {L[p].kind, R[p].kind} THEN PlanFileAt(L, R, NoRow, p) ELSE Nothing

PlanFresh(L, R, p) ==
  IF "file" \in {L[p].kind, R[p].kind} THEN PlanFileAt(L, R, NoRow, p)
  ELSE IF L[p].kind = "dir"
  THEN Action(IF R[p].kind = "dir" THEN "auto_link" ELSE "create_remote_dir", p, "dir", R[p].id)
  ELSE IF R[p].kind = "dir" THEN Action("create_local_dir", p, "dir", R[p].id)
  ELSE Nothing

(* A recorded directory gone on one side is deleted on the other only with *)
(* a proof for all that is below it; else it is made again.                *)
PlanDir(L, R, B, p, proved) ==
  CASE L[p].kind = "dir" /\ R[p].kind = "dir" ->
         IF R[p].id \in {0, B[p].id} THEN Nothing
         ELSE Action("auto_link", p, "dir", R[p].id)
    [] L[p].kind = "dir" /\ R[p].kind # "dir" ->
         Action(IF proved THEN "local_delete" ELSE "create_remote_dir", p, "dir", B[p].id)
    [] L[p].kind # "dir" /\ R[p].kind = "dir" ->
         Action(IF proved THEN "remote_delete" ELSE "create_local_dir", p, "dir",
                IF R[p].id # 0 THEN R[p].id ELSE B[p].id)
    [] OTHER -> Action("purge", p, "dir", B[p].id)

PlanEntity(L, R, B, p, proved) ==
  IF Reconciled(L, R, B, p) THEN Nothing
  ELSE IF Clash(L, R, p) THEN Action("type_conflict", p, L[p].kind, R[p].id)
  ELSE IF B[p].kind = "none" \/ StaleKind(L, R, B, p) THEN PlanFresh(L, R, p)
  ELSE IF B[p].kind = "dir" THEN PlanDir(L, R, B, p, proved)
  ELSE PlanFileAt(L, R, B[p], p)

-----------------------------------------------------------------------------
(* The proof of a directory deletion: all that exists below it anywhere is *)
(* recorded, takes part in no move, and is itself deleted or forgotten.    *)
(* The code spreads "not so" from the deepest path up, each to its nearest *)
(* recorded ancestor; a directory whose own descendants all pass passes,   *)
(* so asking every descendant, with its own proof given, is the same.      *)
Vanishes(action) == action.do \in Deletes \cup {"purge"}

(* Mutant of Proved: files nobody recorded are not looked at.              *)
ProvedByRecords(L, R, B, hidden, p) ==
  \A q \in Held(B) :
    Below(p, q) => q \notin hidden /\ Vanishes(PlanEntity(L, R, B, q, TRUE))

Proved(L, R, B, hidden, p) ==
  \A q \in Held(L) \cup Held(R) \cup Held(B) :
    Below(p, q) => /\ q \in Held(B) \ hidden
                   /\ Vanishes(PlanEntity(L, R, B, q, TRUE))

(* Mutant of Covered: what is below a deleted directory is planned too.    *)
CoverNothing(actions, action) == FALSE

(* A deleted directory takes what is planned below it along.               *)
Covered(actions, action) ==
  \E i \in DOMAIN actions :
    /\ actions[i].kind = "dir" /\ actions[i].do \in Deletes
    /\ Below(actions[i].path, action.path)

(* What is left of a sequence at the chosen positions.                     *)
Chosen(s, chosen) ==
  LET taken[i \in 0 .. Len(s)] ==
        IF i = 0 THEN <<>>
        ELSE IF i \in chosen THEN Append(taken[i - 1], s[i]) ELSE taken[i - 1]
  IN taken[Len(s)]

Planned(L, R, B) ==
  LET found == Moves(L, R, B)
      hidden == found.hidden \cup CarriedAlong(L, B, found.moves)
      entity(p) == IF p \in hidden THEN Nothing
                   ELSE PlanEntity(L, R, B, p, Proved(L, R, B, hidden, p))
      all == found.moves \o [i \in DOMAIN Order |-> entity(Order[i])]
  IN Chosen(all, {i \in DOMAIN all : all[i].do # "none" /\ ~Covered(all, all[i])})
=============================================================================
