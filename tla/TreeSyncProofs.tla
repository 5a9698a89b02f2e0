--------------------------- MODULE TreeSyncProofs ---------------------------
(***************************************************************************)
(* A pair over a tree of any files and folders.  First what the tree       *)
(* planner promises for any three trees: an entity is deleted only where   *)
(* both sides agreed on it and one gave it up, a directory only with       *)
(* everything below it, and a move goes to a free place and takes what     *)
(* nobody touched.  Then what the passes that run such plans keep: both    *)
(* folders are trees, what a user wrote stays in the local one, and what   *)
(* other clients wrote and the pass sees stays in the cloud.               *)
(***************************************************************************)
EXTENDS TreeSync, FilePlanProofs, Induction, SequenceTheorems


(* Trees as scans, listings and indexes hold them: a file has a content,   *)
(* and nothing else has one.                                               *)
TidyNode == {node \in Node : node.kind = "file" <=> node.hash # 0}
TidyRow ==
  {row \in TreeRecord : /\ row.kind = "file" <=> row.hash # 0
                        /\ row.kind = "none" => row = NoRow}

(* A node of a tree, and a record of one, as FilePlan knows them.          *)
AsEntity(node) == [hash |-> node.hash, id |-> node.id, digest |-> node.digest]
AsRecord(row) == [hash |-> row.hash, id |-> row.id, status |-> row.status]

(* The file planner looks at nothing else of them.                         *)
LEMMA SameDecision ==
  ASSUME NEW scanned, NEW node, NEW row
  PROVE  PlanFile(scanned, node, row) = PlanFile(scanned, AsEntity(node), AsRecord(row))
<1> DEFINE entity == AsEntity(node)
           record == AsRecord(row)
<1>1. /\ entity.hash = node.hash /\ entity.id = node.id /\ entity.digest = node.digest
      /\ record.hash = row.hash /\ record.id = row.id /\ record.status = row.status
  BY DEF AsEntity, AsRecord
<1> HIDE DEF entity, record
<1>2. /\ Exists(node) = Exists(entity) /\ Exists(row) = Exists(record)
      /\ LocalDelta(scanned, row) = LocalDelta(scanned, record)
      /\ RemoteDelta(node, row) = RemoteDelta(entity, record)
      /\ SameContent(scanned, node) = SameContent(scanned, entity)
      /\ PlanRelink(node, row) = PlanRelink(entity, record)
  BY <1>1 DEF Exists, LocalDelta, RemoteDelta, SameContent, PlanRelink
<1>3. /\ NeverUploaded(scanned, node, row) = NeverUploaded(scanned, entity, record)
      /\ Frozen(scanned, node, row) = Frozen(scanned, entity, record)
  BY <1>1, <1>2 DEF NeverUploaded, Frozen
<1>4. ModifiedDecides(scanned, node, row) = ModifiedDecides(scanned, entity, record)
  BY <1>1, <1>2, <1>3 DEF ModifiedDecides
<1>5. PlanModified(scanned, node, row) = PlanModified(scanned, entity, record)
  BY <1>2, <1>3 DEF PlanModified
<1>6. PlanBootstrap(scanned, node) = PlanBootstrap(scanned, entity)
  BY <1>1, <1>2 DEF PlanBootstrap
<1>7. OngoingMatrix(scanned, node, row) = OngoingMatrix(scanned, entity, record)
  BY <1>2 DEF OngoingMatrix, PlanBothChanged
<1>8. PlanFile(scanned, node, row) = PlanFile(scanned, entity, record)
  BY <1>2, <1>3, <1>4, <1>5, <1>6, <1>7 DEF PlanFile
<1> QED
  BY <1>8 DEF entity, record

(* Three trees over the same paths.                                        *)
Trees(L, R, B) == L \in [Paths -> TidyNode] /\ R \in [Paths -> TidyNode] /\ B \in [Paths -> TidyRow]

(* What an action gives up, on the side it deletes from: what is recorded, *)
(* where the other side has nothing at all.                                *)
GivenUp(here, there, row) ==
  here.kind = row.kind /\ here.hash = row.hash /\ row.kind # "none" /\ there.kind = "none"

(* The planner's decision for a file is that of FilePlan.                  *)
LEMMA AsFilePlan ==
  ASSUME NEW L, NEW R, NEW B, Trees(L, R, B), NEW p \in Paths, NEW row \in {NoRow, B[p]},
         row.kind # "dir"
  PROVE  /\ L[p] \in TidyNode /\ R[p] \in TidyNode /\ row \in TidyRow
         /\ L[p].hash \in Content /\ AsEntity(R[p]) \in Entity /\ AsRecord(row) \in Row
         /\ PlanFileAt(L, R, row, p).do = PlanFile(L[p].hash, AsEntity(R[p]), AsRecord(row))
         /\ Exists(AsEntity(R[p])) <=> R[p].hash # 0
         /\ AsEntity(R[p]).hash = R[p].hash /\ AsRecord(row).hash = row.hash
<1>1. /\ L[p] \in TidyNode /\ R[p] \in TidyNode /\ row \in TidyRow
  <2>1. NoRow \in TidyRow
    <3>1. NoRow \in TreeRecord
      BY DEF NoRow, TreeRecord, Kinds, Status, Content
    <3> QED
      BY <3>1 DEF NoRow, TidyRow
  <2> QED
    BY <2>1 DEF Trees
<1>2. /\ L[p].hash \in Content /\ AsEntity(R[p]) \in Entity /\ AsRecord(row) \in Row
  <2>1. L[p].hash \in Content /\ AsEntity(R[p]) \in Entity
    BY <1>1 DEF TidyNode, Node, Entity, Digest, AsEntity
  <2>2. AsRecord(row) \in Record
    BY <1>1 DEF TidyRow, TreeRecord, Record, AsRecord
  <2>3. row.hash = 0 => row = NoRow
    BY <1>1 DEF TidyRow, TreeRecord, Kinds
  <2>4. ~Exists(AsRecord(row)) => AsRecord(row) = NoRecord
    BY <2>3 DEF Exists, AsRecord, NoRow, NoRecord
  <2> QED
    BY <2>1, <2>2, <2>4 DEF Row
<1>3. PlanFileAt(L, R, row, p).do = PlanFile(L[p].hash, AsEntity(R[p]), AsRecord(row))
  BY SameDecision DEF PlanFileAt, Action
<1>4. /\ Exists(AsEntity(R[p])) <=> R[p].hash # 0
      /\ AsEntity(R[p]).hash = R[p].hash /\ AsRecord(row).hash = row.hash
  BY DEF Exists, AsEntity, AsRecord
<1> QED
  BY <1>1, <1>2, <1>3, <1>4

(* The file half of that, from what the file planner promises.             *)
LEMMA FileDeletion ==
  ASSUME NEW L, NEW R, NEW B, Trees(L, R, B), NEW p \in Paths, NEW row \in {NoRow, B[p]},
         row.kind # "dir", L[p].kind # "dir", R[p].kind # "dir"
  PROVE  LET do == PlanFileAt(L, R, row, p).do
         IN /\ do = "local_delete" => GivenUp(L[p], R[p], row)
            /\ do = "remote_delete" => GivenUp(R[p], L[p], row)
            /\ do = "purge" => L[p].kind = "none" /\ R[p].kind = "none"
<1>1. /\ L[p].kind = "none" <=> L[p].hash = 0
      /\ R[p].kind = "none" <=> R[p].hash = 0
      /\ row.kind = "none" <=> row.hash = 0
      /\ L[p].kind \in {"none", "file"} /\ R[p].kind \in {"none", "file"}
      /\ row.kind \in {"none", "file"}
  BY AsFilePlan DEF TidyNode, TidyRow, Node, TreeRecord, Kinds
<1> QED
  BY <1>1, AsFilePlan, PlanLegal DEF GivenUp

(* No deletion without agreement (plan_entity_action): whatever the three  *)
(* trees are, an entity is deleted on one side only if it is of the kind   *)
(* and content recorded, and the other side holds nothing there; a record  *)
(* is forgotten only where neither side holds anything.                    *)
THEOREM OnlyAgreedIsDeleted ==
  ASSUME NEW L, NEW R, NEW B, Trees(L, R, B), NEW p \in Paths, NEW proved \in BOOLEAN
  PROVE  LET do == PlanEntity(L, R, B, p, proved).do
         IN /\ do = "local_delete" => GivenUp(L[p], R[p], B[p])
            /\ do = "remote_delete" => GivenUp(R[p], L[p], B[p])
            /\ do = "purge" => L[p].kind = "none" /\ R[p].kind = "none"
<1> DEFINE do == PlanEntity(L, R, B, p, proved).do
<1>1. /\ L[p] \in TidyNode /\ R[p] \in TidyNode /\ B[p] \in TidyRow
  BY DEF Trees
<1>2. /\ L[p].kind \in Kinds /\ R[p].kind \in Kinds /\ B[p].kind \in Kinds
      /\ L[p].kind # "file" => L[p].hash = 0
      /\ R[p].kind # "file" => R[p].hash = 0
      /\ B[p].kind # "file" => B[p].hash = 0
  BY <1>1 DEF TidyNode, TidyRow, Node, TreeRecord
<1>3. CASE Reconciled(L, R, B, p) \/ Clash(L, R, p)
  BY <1>3 DEF PlanEntity, Nothing, Action
<1>4. CASE /\ ~Reconciled(L, R, B, p) /\ ~Clash(L, R, p)
           /\ B[p].kind = "none" \/ StaleKind(L, R, B, p)
  <2>1. PlanEntity(L, R, B, p, proved) = PlanFresh(L, R, p)
    BY <1>4 DEF PlanEntity
  <2>2. CASE "file" \in {L[p].kind, R[p].kind}
    <3>1. L[p].kind # "dir" /\ R[p].kind # "dir"
      BY <1>2, <1>4, <2>2 DEF Clash, Kinds
    <3>2. PlanEntity(L, R, B, p, proved) = PlanFileAt(L, R, NoRow, p)
      BY <2>1, <2>2 DEF PlanFresh
    <3>3. ~GivenUp(L[p], R[p], NoRow) /\ ~GivenUp(R[p], L[p], NoRow)
      BY DEF GivenUp, NoRow
    <3> QED
      BY <1>4, <3>1, <3>2, <3>3, FileDeletion DEF NoRow
  <2>3. CASE "file" \notin {L[p].kind, R[p].kind}
    BY <2>1, <2>3 DEF PlanFresh, Action, Nothing
  <2> QED
    BY <2>2, <2>3
<1>5. CASE /\ ~Reconciled(L, R, B, p) /\ ~Clash(L, R, p)
           /\ B[p].kind # "none" /\ ~StaleKind(L, R, B, p)
  <2>1. L[p].kind \in {"none", B[p].kind} /\ R[p].kind \in {"none", B[p].kind}
    BY <1>5 DEF StaleKind
  <2>2. CASE B[p].kind = "dir"
    <3>1. PlanEntity(L, R, B, p, proved) = PlanDir(L, R, B, p, proved)
      BY <1>5, <2>2 DEF PlanEntity
    <3> QED
      BY <1>2, <2>1, <2>2, <3>1 DEF PlanDir, Action, Nothing, GivenUp
  <2>3. CASE B[p].kind # "dir"
    <3>1. PlanEntity(L, R, B, p, proved) = PlanFileAt(L, R, B[p], p)
      BY <1>5, <2>3 DEF PlanEntity
    <3> QED
      BY <1>2, <1>5, <2>1, <2>3, <3>1, FileDeletion DEF Kinds
  <2> QED
    BY <2>2, <2>3
<1> QED
  BY <1>3, <1>4, <1>5

(* A recursive deletion (subtree_is_deletion_consistent): a directory goes *)
(* only if all that either side holds below it is of the kind and content  *)
(* recorded, and given up by the other side: nothing that is new, edited   *)
(* or moved there goes with it, and nothing it leaves stays unplanned.     *)
THEOREM DirectoriesGoWhole ==
  ASSUME NEW L, NEW R, NEW B, Trees(L, R, B), NEW hidden,
         NEW p \in Paths, B[p].kind = "dir",
         PlanEntity(L, R, B, p, Proved(L, R, B, hidden, p)).do \in Deletes,
         NEW q \in Paths, Below(p, q)
  PROVE  /\ L[q].kind # "none" => GivenUp(L[q], R[q], B[q])
         /\ R[q].kind # "none" => GivenUp(R[q], L[q], B[q])
<1> DEFINE proved == Proved(L, R, B, hidden, p)
           below == PlanEntity(L, R, B, q, TRUE).do
<1>1. proved \in BOOLEAN
  BY DEF Proved
<1>2. \/ L[p].kind = "dir" /\ R[p].kind = "none"
      \/ R[p].kind = "dir" /\ L[p].kind = "none"
  <2>1. GivenUp(L[p], R[p], B[p]) \/ GivenUp(R[p], L[p], B[p])
    BY <1>1, OnlyAgreedIsDeleted DEF Deletes
  <2> QED
    BY <2>1 DEF GivenUp
<1>3. PlanEntity(L, R, B, p, proved) = PlanDir(L, R, B, p, proved)
  BY <1>2 DEF PlanEntity, Reconciled, Clash, StaleKind
<1>4. proved
  BY <1>1, <1>2, <1>3 DEF PlanDir, Action, Deletes
<1>5. SUFFICES ASSUME L[q].kind # "none" \/ R[q].kind # "none"
               PROVE  /\ L[q].kind # "none" => GivenUp(L[q], R[q], B[q])
                      /\ R[q].kind # "none" => GivenUp(R[q], L[q], B[q])
  OBVIOUS
<1>6. below \in Deletes \cup {"purge"}
  BY <1>4, <1>5 DEF Proved, Held, Vanishes
<1>7. /\ below = "local_delete" => GivenUp(L[q], R[q], B[q])
      /\ below = "remote_delete" => GivenUp(R[q], L[q], B[q])
      /\ below = "purge" => L[q].kind = "none" /\ R[q].kind = "none"
  BY OnlyAgreedIsDeleted
<1> QED
  BY <1>5, <1>6, <1>7 DEF Deletes, GivenUp

-----------------------------------------------------------------------------
(* Moves (plan_file_path_transitions): a move takes what its other side    *)
(* has not touched from a recorded place, where one side no longer holds   *)
(* it, to the place where that side now does, which is free on the other   *)
(* side and in the index; nothing is overwritten by one.                   *)
THEOREM MovesGoToFreePlaces ==
  ASSUME NEW L, NEW R, NEW B, NEW p \in Paths,
         NEW move, move = Transition(L, R, B, p), move # Nothing
  PROVE  /\ move.path = p /\ move.to \in Paths /\ B[move.to].kind = "none"
         /\ B[p].kind = move.kind
         /\ move.do = "move_local" =>
              /\ L[p].kind = move.kind /\ R[p].kind = "none"
              /\ L[move.to].kind = "none" /\ R[move.to].kind = move.kind
              /\ move.kind = "file" => L[p].hash = B[p].hash /\ R[move.to].hash = B[p].hash
              /\ move.kind = "dir" => R[move.to].id = B[p].id
         /\ move.do = "move_remote" =>
              /\ R[p].kind = "file" /\ L[p].kind = "none"
              /\ R[move.to].kind = "none" /\ L[move.to].kind = "file"
              /\ R[p].hash = B[p].hash /\ L[move.to].hash = B[p].hash
<1> DEFINE there == RemoteFileTargets(R, L, B, p)
           here == LocalFileTargets(R, L, B, p)
           folder == RemoteDirTargets(R, L, B, p)
<1>1. \A S : Unique(S) => Only(S) \in S
  BY DEF Unique, Only
<1>2. CASE /\ B[p].kind = "file" /\ Untouched(L[p], B[p])
           /\ R[p].kind = "none" /\ Unique(there)
  <2>1. move = Move("move_local", p, Only(there), "file", R[Only(there)].id)
    BY <1>2 DEF Transition, Untouched
  <2>2. Only(there) \in there
    BY <1>1, <1>2
  <2>3. /\ move.do = "move_local" /\ move.path = p /\ move.to = Only(there)
        /\ move.kind = "file"
    BY <2>1 DEF Move
  <2>4. /\ move.to \in Paths /\ L[move.to].kind = "none" /\ B[move.to].kind = "none"
        /\ R[move.to].kind = "file" /\ R[move.to].hash = B[p].hash
    BY <2>2, <2>3 DEF RemoteFileTargets
  <2> QED
    BY <1>2, <2>3, <2>4 DEF Untouched
<1>3. CASE /\ B[p].kind = "file" /\ L[p].kind = "none"
           /\ Untouched(R[p], B[p]) /\ Unique(here)
  <2>1. move = Move("move_remote", p, Only(here), "file", R[p].id)
    BY <1>3 DEF Transition, Untouched
  <2>2. Only(here) \in here
    BY <1>1, <1>3
  <2>3. /\ move.do = "move_remote" /\ move.path = p /\ move.to = Only(here)
        /\ move.kind = "file"
    BY <2>1 DEF Move
  <2>4. /\ move.to \in Paths /\ R[move.to].kind = "none" /\ B[move.to].kind = "none"
        /\ L[move.to].kind = "file" /\ L[move.to].hash = B[p].hash
    BY <2>2, <2>3 DEF LocalFileTargets
  <2> QED
    BY <1>3, <2>3, <2>4 DEF Untouched
<1>4. CASE /\ B[p].kind = "dir" /\ B[p].id # 0 /\ L[p].kind = "dir"
           /\ R[p].kind = "none" /\ Unique(folder)
  <2>1. move = Move("move_local", p, Only(folder), "dir", B[p].id)
    BY <1>4 DEF Transition, Untouched
  <2>2. Only(folder) \in folder
    BY <1>1, <1>4
  <2> QED
    BY <1>4, <2>1, <2>2 DEF Move, RemoteDirTargets
<1> QED
  BY <1>2, <1>3, <1>4 DEF Transition

-----------------------------------------------------------------------------
(* Sequences of one and two names.                                         *)
LEMMA OneName ==
  ASSUME NEW s \in Seq(Nat), Len(s) = 1
  PROVE  s = <<s[1]>> /\ s[1] \in Nat
<1>1. s[1] \in Nat
  <2>1. 1 \in 1 .. Len(s)
    OBVIOUS
  <2> QED
    BY <2>1, ElementOfSeq
<1>2. <<s[1]>> \in Seq(Nat)
  BY <1>1
<1>3. Len(<<s[1]>>) = 1 /\ \A i \in 1 .. 1 : <<s[1]>>[i] = s[i]
  OBVIOUS
<1>4. s = <<s[1]>>
  BY <1>2, <1>3, SeqEqual
<1> QED
  BY <1>1, <1>4

LEMMA TwoNames ==
  ASSUME NEW s \in Seq(Nat), Len(s) = 2
  PROVE  s = <<s[1], s[2]>> /\ s[1] \in Nat /\ s[2] \in Nat
<1>1. s[1] \in Nat /\ s[2] \in Nat
  BY ElementOfSeq
<1>2. <<s[1], s[2]>> \in Seq(Nat) /\ \A i \in 1 .. 2 : <<s[1], s[2]>>[i] = s[i]
  BY <1>1
<1> QED
  BY <1>1, <1>2, SeqEqual

LEMMA Names ==
  ASSUME NEW a \in Nat, NEW b \in Nat
  PROVE  /\ <<a>> \o <<b>> = <<a, b>>
         /\ SubSeq(<<a, b>>, 1, 1) = <<a>> /\ SubSeq(<<a, b>>, 2, 2) = <<b>>
<1>1. <<a>> \in Seq(Nat) /\ <<b>> \in Seq(Nat) /\ <<a, b>> \in Seq(Nat)
  OBVIOUS
<1>2. <<a>> \o <<b>> = <<a, b>>
  <2>1. /\ <<a>> \o <<b>> \in Seq(Nat) /\ Len(<<a>> \o <<b>>) = 2
        /\ \A i \in 1 .. 2 : (<<a>> \o <<b>>)[i] = IF i <= 1 THEN <<a>>[i] ELSE <<b>>[i - 1]
    BY <1>1, ConcatProperties
  <2>2. \A i \in 1 .. 2 : (<<a>> \o <<b>>)[i] = <<a, b>>[i]
    BY <2>1
  <2> QED
    BY <1>1, <2>1, <2>2, SeqEqual
<1>3. \A i \in 1 .. 2 : SubSeq(<<a, b>>, i, i) = <<IF i = 1 THEN a ELSE b>>
  <2> SUFFICES ASSUME NEW i \in 1 .. 2 PROVE SubSeq(<<a, b>>, i, i) = <<IF i = 1 THEN a ELSE b>>
    OBVIOUS
  <2>1. \A j \in i .. i : <<a, b>>[j] \in Nat
    OBVIOUS
  <2> DEFINE t == SubSeq(<<a, b>>, i, i)
  <2>2. /\ t \in Seq(Nat) /\ Len(t) = IF i <= i THEN i - i + 1 ELSE 0
        /\ \A j \in 1 .. i - i + 1 : t[j] = <<a, b>>[i + j - 1]
    BY <2>1, SubSeqProperties
  <2>3. Len(t) = 1 /\ t[1] = <<a, b>>[i]
    BY <2>2
  <2>4. <<a, b>>[i] = IF i = 1 THEN a ELSE b
    BY i = 1 \/ i = 2
  <2> QED
    BY <2>2, <2>3, <2>4, OneName
<1> QED
  BY <1>2, <1>3

(* Paths: a folder's name, or that and the name of what is in it.          *)
LEMMA PathsTyped ==
  /\ Len(Order) \in Nat /\ DOMAIN Order = 1 .. Len(Order)
  /\ \A p \in Paths :
       /\ p \in Seq(Nat) /\ Len(p) \in {1, 2}
       /\ Len(p) = 1 => p = <<p[1]>> /\ p[1] \in Nat
       /\ Len(p) = 2 => /\ p = <<p[1], p[2]>> /\ p[1] \in Nat /\ p[2] \in Nat
                        /\ Parent(p) \in Paths /\ Parent(p) = <<p[1]>>
<1>1. Len(Order) \in Nat /\ DOMAIN Order = 1 .. Len(Order)
  BY OrderAssumption, LenProperties
<1> SUFFICES ASSUME NEW p \in Paths
             PROVE  /\ p \in Seq(Nat) /\ Len(p) \in {1, 2}
                    /\ Len(p) = 1 => p = <<p[1]>> /\ p[1] \in Nat
                    /\ Len(p) = 2 => /\ p = <<p[1], p[2]>> /\ p[1] \in Nat /\ p[2] \in Nat
                                     /\ Parent(p) \in Paths /\ Parent(p) = <<p[1]>>
  BY <1>1
<1>2. PICK i \in DOMAIN Order : p = Order[i]
  BY DEF Paths
<1>3. p \in Seq(Nat) \ {<<>>}
  BY <1>1, <1>2, OrderAssumption, ElementOfSeq
<1>4. Len(p) \in {1, 2}
  <2>1. Len(p) \in Nat \ {0}
    BY <1>3, EmptySeq
  <2>2. Len(p) <= 2
    BY DepthAssumption
  <2>3. \A n \in Nat \ {0} : n <= 2 => n \in {1, 2}
    OBVIOUS
  <2> QED
    BY <2>1, <2>2, <2>3
<1>5. Len(p) = 1 => p = <<p[1]>> /\ p[1] \in Nat
  BY <1>3, OneName
<1>6. ASSUME Len(p) = 2
      PROVE  /\ p = <<p[1], p[2]>> /\ p[1] \in Nat /\ p[2] \in Nat
             /\ Parent(p) \in Paths /\ Parent(p) = <<p[1]>>
  <2>1. p = <<p[1], p[2]>> /\ p[1] \in Nat /\ p[2] \in Nat
    BY <1>3, <1>6, TwoNames
  <2>2. Parent(p) = <<p[1]>>
    <3>1. SubSeq(<<p[1], p[2]>>, 1, 1) = <<p[1]>>
      BY <2>1, Names
    <3>2. Len(p) - 1 = 1
      BY <1>6
    <3> QED
      BY <2>1, <3>1, <3>2 DEF Parent
  <2>3. PICK j \in 1 .. i - 1 : Order[j] = Parent(Order[i])
    <3>1. Len(Order[i]) > 1
      BY <1>2, <1>6
    <3>2. Len(Order[i]) > 1 => \E j \in 1 .. i - 1 : Order[j] = Parent(Order[i])
      BY OrderAssumption
    <3> QED
      BY <3>1, <3>2
  <2>4. j \in DOMAIN Order
    BY <1>1, <1>2
  <2> QED
    BY <1>2, <2>1, <2>2, <2>3, <2>4 DEF Paths
<1> QED
  BY <1>3, <1>4, <1>5, <1>6

(* What is below what, and where a move of a folder takes it.              *)
LEMMA Nesting ==
  ASSUME NEW p \in Paths, NEW q \in Paths
  PROVE  Below(p, q) <=> Len(q) = 2 /\ Parent(q) = p
<1>1. CASE Len(q) = 2 /\ Len(p) = 1
  <2>1. q = <<q[1], q[2]>> /\ q[1] \in Nat /\ q[2] \in Nat /\ Parent(q) = <<q[1]>>
    BY <1>1, PathsTyped
  <2>2. SubSeq(<<q[1], q[2]>>, 1, 1) = <<q[1]>>
    BY <2>1, Names
  <2>3. SubSeq(q, 1, Len(p)) = <<q[1]>>
    BY <1>1, <2>1, <2>2
  <2> QED
    BY <1>1, <2>1, <2>3 DEF Below
<1>2. CASE Len(q) = 2 /\ Len(p) = 2
  <2>1. Parent(q) = <<q[1]>>
    BY <1>2, PathsTyped
  <2>2. Parent(q) # p
    BY <1>2, <2>1
  <2> QED
    BY <1>2, <2>2 DEF Below
<1>3. CASE Len(q) = 1
  <2>1. Len(p) \in {1, 2}
    BY PathsTyped
  <2> QED
    BY <1>3, <2>1 DEF Below
<1> QED
  BY <1>1, <1>2, <1>3, PathsTyped

LEMMA Rekeyed ==
  ASSUME NEW p \in Paths, NEW q \in Paths
  PROVE  /\ Rekey(p, p, q) = q
         /\ \A r \in Paths : Below(p, r) /\ Rekey(r, p, q) \in Paths =>
              /\ Len(q) = 1 /\ Below(q, Rekey(r, p, q))
              /\ Rekey(Rekey(r, p, q), q, p) = r
<1>1. p \in Seq(Nat) /\ q \in Seq(Nat) /\ Len(p) \in {1, 2} /\ Len(q) \in {1, 2}
  BY PathsTyped
<1>2. Rekey(p, p, q) = q
  <2>1. SubSeq(p, Len(p) + 1, Len(p)) = <<>>
    BY <1>1, SubSeqEmpty
  <2> QED
    BY <1>1, <2>1, ConcatEmptySeq DEF Rekey
<1>3. ASSUME NEW r \in Paths, Below(p, r), Rekey(r, p, q) \in Paths
      PROVE  /\ Len(q) = 1 /\ Below(q, Rekey(r, p, q))
             /\ Rekey(Rekey(r, p, q), q, p) = r
  <2> DEFINE t == Rekey(r, p, q)
  <2>1. /\ Len(r) = 2 /\ r = <<r[1], r[2]>> /\ r[1] \in Nat /\ r[2] \in Nat
        /\ p = <<r[1]>>
    BY <1>3, Nesting, PathsTyped
  <2>2. Len(p) = 1 /\ SubSeq(r, 2, 2) = <<r[2]>> /\ <<r[2]>> \in Seq(Nat)
    <3>1. SubSeq(<<r[1], r[2]>>, 2, 2) = <<r[2]>>
      BY <2>1, Names
    <3> QED
      BY <2>1, <3>1
  <2>3. t = q \o <<r[2]>>
    BY <2>1, <2>2 DEF Rekey
  <2>4. Len(t) = Len(q) + 1 /\ Len(t) \in {1, 2}
    <3>1. Len(<<r[2]>>) = 1
      OBVIOUS
    <3>2. Len(q \o <<r[2]>>) = Len(q) + Len(<<r[2]>>)
      BY <1>1, <2>2, ConcatProperties
    <3>3. Len(t) \in {1, 2}
      BY <1>3, PathsTyped
    <3> QED
      BY <2>3, <3>1, <3>2, <3>3
  <2>5. Len(q) = 1 /\ q = <<q[1]>> /\ q[1] \in Nat /\ Len(t) = 2
    BY <1>1, <2>4, PathsTyped
  <2>6. t = <<q[1], r[2]>>
    BY <2>1, <2>3, <2>5, Names
  <2>7. Parent(t) = q
    BY <1>3, <2>5, <2>6, PathsTyped
  <2>8. SubSeq(t, 2, 2) = <<r[2]>>
    BY <2>1, <2>5, <2>6, Names
  <2>9. Rekey(t, q, p) = p \o <<r[2]>>
    <3>1. Len(q) + 1 = 2 /\ Len(t) = 2
      BY <2>5
    <3> HIDE DEF t
    <3>2. Rekey(t, q, p) = p \o SubSeq(t, Len(q) + 1, Len(t))
      BY DEF Rekey
    <3> QED
      BY <2>8, <3>1, <3>2
  <2>10. p \o <<r[2]>> = r
    BY <2>1, Names
  <2> QED
    BY <1>3, <2>5, <2>7, <2>9, <2>10, Nesting
<1> QED
  BY <1>2, <1>3

-----------------------------------------------------------------------------
(* What a pass has in hand: both folders are trees, the records are tidy,  *)
(* and no pass leaves the mark by which a user's version wins unseen.      *)
Folder == {tree \in [Paths -> TidyNode] : WellFormed(tree)}
StoredRow == {row \in TidyRow : row.status # "modified"}
Records == [Paths -> StoredRow]
Events == Seq([type : EventTypes, id : Nat, parent : Nat])
Running ==
  [disk : Folder, cloud : Folder, copies : SUBSET Nat, base : Records, told : Events,
   lastId : Nat, untold : SUBSET Nat, bad : BOOLEAN, failed : BOOLEAN,
   vanished : BOOLEAN, withheld : BOOLEAN, rescan : BOOLEAN]

LEMMA TidyThings ==
  /\ NoNode \in TidyNode /\ NoRow \in StoredRow
  /\ \A n \in Nat : Dir(n) \in TidyNode /\ DirRow(n) \in StoredRow
  /\ \A n \in Nat, c \in Nat \ {0} :
       /\ File(c, n) \in TidyNode
       /\ \A s \in Status \ {"modified"} : FileRow(c, n, s) \in StoredRow
<1>1. NoNode \in TidyNode /\ NoRow \in StoredRow
  BY DEF NoNode, NoRow, TidyNode, TidyRow, StoredRow, Node, TreeRecord, Kinds, Content, Status
<1>2. ASSUME NEW n \in Nat PROVE Dir(n) \in TidyNode /\ DirRow(n) \in StoredRow
  BY DEF Dir, DirRow, TidyNode, TidyRow, StoredRow, Node, TreeRecord, Kinds, Content, Status
<1>3. ASSUME NEW n \in Nat, NEW c \in Nat \ {0}
      PROVE  File(c, n) \in TidyNode
  BY DEF File, TidyNode, Node, Kinds, Content
<1>4. ASSUME NEW n \in Nat, NEW c \in Nat \ {0}, NEW s \in Status \ {"modified"}
      PROVE  FileRow(c, n, s) \in StoredRow
  BY DEF FileRow, TidyRow, StoredRow, TreeRecord, Kinds, Content, Status
<1> QED
  BY <1>1, <1>2, <1>3, <1>4

LEMMA TidyParts ==
  /\ \A node \in TidyNode :
       /\ node.kind \in Kinds /\ node.hash \in Nat /\ node.id \in Nat
       /\ node.kind = "file" <=> node.hash # 0
  /\ \A row \in TidyRow :
       /\ row.kind \in Kinds /\ row.hash \in Nat /\ row.id \in Nat /\ row.status \in Status
       /\ row.kind = "file" <=> row.hash # 0
  /\ \A row \in StoredRow : row \in TidyRow /\ row.status # "modified"
BY DEF StoredRow, TidyNode, TidyRow, Node, TreeRecord, Content

LEMMA SmallSteps ==
  ASSUME NEW x \in Running
  PROVE  /\ Bad(x) \in Running /\ Bad(x).disk = x.disk /\ Bad(x).cloud = x.cloud
         /\ Bad(x).base = x.base /\ Bad(x).bad
         /\ Vanish(x) \in Running /\ Vanish(x).disk = x.disk /\ Vanish(x).cloud = x.cloud
         /\ Vanish(x).base = x.base
         /\ \A a : /\ Rescan(x, a) \in Running /\ Rescan(x, a).disk = x.disk
                   /\ Rescan(x, a).cloud = x.cloud
<1>1. Bad(x) \in Running /\ Bad(x).disk = x.disk /\ Bad(x).cloud = x.cloud
      /\ Bad(x).base = x.base /\ Bad(x).bad
  BY DEF Bad, Running
<1>2. Vanish(x) \in Running /\ Vanish(x).disk = x.disk /\ Vanish(x).cloud = x.cloud
      /\ Vanish(x).base = x.base
  BY DEF Vanish, Running
<1>3. ASSUME NEW a PROVE /\ Rescan(x, a) \in Running /\ Rescan(x, a).disk = x.disk
                   /\ Rescan(x, a).cloud = x.cloud
  BY DEF Rescan, Running
<1> QED
  BY <1>1, <1>2, <1>3

LEMMA Writing ==
  ASSUME NEW x \in Running, NEW p \in Paths, NEW row \in StoredRow
  PROVE  LET y == Write(x, p, row)
             z == Forget(x, p)
         IN /\ y \in Running /\ y.disk = x.disk /\ y.cloud = x.cloud
            /\ z \in Running /\ z.disk = x.disk /\ z.cloud = x.cloud
<1>1. [x.base EXCEPT ![p] = row] \in Records
  BY DEF Running, Records
<1>2. [q \in Paths |-> IF q \in Subtree(p) THEN NoRow ELSE x.base[q]] \in Records
  BY TidyThings DEF Running, Records
<1>3. /\ Write(x, p, row) \in Running /\ Write(x, p, row).disk = x.disk
      /\ Write(x, p, row).cloud = x.cloud
  BY <1>1 DEF Write, Running
<1>4. /\ Forget(x, p) \in Running /\ Forget(x, p).disk = x.disk
      /\ Forget(x, p).cloud = x.cloud
  BY <1>2 DEF Forget, Running
<1> QED
  BY <1>3, <1>4

(* Trees stay trees.                                                       *)
LEMMA Parents ==
  \A p \in Paths :
    /\ Len(p) \in {1, 2}
    /\ Len(p) > 1 => /\ Len(p) = 2 /\ Parent(p) \in Paths /\ Len(Parent(p)) = 1
                     /\ Below(Parent(p), p)
    /\ \A q \in Paths : Below(q, p) => Len(p) = 2 /\ q = Parent(p) /\ Len(q) = 1
<1> SUFFICES ASSUME NEW p \in Paths
             PROVE  /\ Len(p) \in {1, 2}
                    /\ Len(p) > 1 => /\ Len(p) = 2 /\ Parent(p) \in Paths
                                     /\ Len(Parent(p)) = 1 /\ Below(Parent(p), p)
                    /\ \A q \in Paths : Below(q, p) => Len(p) = 2 /\ q = Parent(p) /\ Len(q) = 1
  OBVIOUS
<1>1. Len(p) \in {1, 2}
  BY PathsTyped
<1>2. ASSUME Len(p) = 2
      PROVE  Parent(p) \in Paths /\ Len(Parent(p)) = 1 /\ Below(Parent(p), p)
  <2>1. Parent(p) \in Paths /\ Parent(p) = <<p[1]>>
    BY <1>2, PathsTyped
  <2>2. Len(<<p[1]>>) = 1
    OBVIOUS
  <2> QED
    BY <1>2, <2>1, <2>2, Nesting
<1>3. ASSUME NEW q \in Paths, Below(q, p) PROVE Len(p) = 2 /\ q = Parent(p)
  BY <1>3, Nesting
<1> QED
  BY <1>1, <1>2, <1>3

LEMMA FolderIs ==
  ASSUME NEW tree \in [Paths -> TidyNode]
  PROVE  tree \in Folder <=>
           \A p \in Paths : Len(p) = 2 /\ tree[p].kind # "none" => tree[Parent(p)].kind = "dir"
BY Parents DEF Folder, WellFormed, Held, InFolder

LEMMA PutKeepsFolder ==
  ASSUME NEW tree \in Folder, NEW p \in Paths, NEW node \in TidyNode,
         InFolder(tree, p), tree[p].kind = "dir" => node.kind = "dir"
  PROVE  [tree EXCEPT ![p] = node] \in Folder
<1> DEFINE new == [tree EXCEPT ![p] = node]
<1>1. tree \in [Paths -> TidyNode] /\ new \in [Paths -> TidyNode]
  BY DEF Folder
<1>2. ASSUME NEW q \in Paths, Len(q) = 2, new[q].kind # "none"
      PROVE  new[Parent(q)].kind = "dir"
  <2>1. Parent(q) \in Paths /\ Len(Parent(q)) = 1 /\ q # Parent(q)
    BY <1>2, Parents
  <2>2. CASE q = p
    <3>1. tree[Parent(q)].kind = "dir"
      BY <1>2, <2>2 DEF InFolder
    <3>2. new[Parent(q)] = tree[Parent(q)]
      BY <1>1, <2>1, <2>2
    <3> QED
      BY <3>1, <3>2
  <2>3. CASE q # p
    <3>1. tree[Parent(q)].kind = "dir"
      BY <1>1, <1>2, <2>3, FolderIs
    <3> QED
      BY <1>1, <2>1, <3>1
  <2> QED
    BY <2>2, <2>3
<1>3. new \in Folder
  <2> HIDE DEF new
  <2> QED
    BY <1>1, <1>2, FolderIs
<1> QED
  BY <1>3

LEMMA WithoutKeepsFolder ==
  ASSUME NEW tree \in Folder, NEW p \in Paths
  PROVE  /\ Without(tree, p) \in Folder
         /\ \A q \in Paths :
              Without(tree, p)[q] = IF q = p \/ Below(p, q) THEN NoNode ELSE tree[q]
<1> DEFINE new == Without(tree, p)
<1>1. \A q \in Paths : new[q] = IF q = p \/ Below(p, q) THEN NoNode ELSE tree[q]
  BY DEF Without, Subtree
<1>2. tree \in [Paths -> TidyNode] /\ new \in [Paths -> TidyNode]
  BY TidyThings DEF Folder, Without
<1> HIDE DEF new
<1>3. ASSUME NEW q \in Paths, Len(q) = 2, new[q].kind # "none"
      PROVE  new[Parent(q)].kind = "dir"
  <2>1. q # p /\ ~Below(p, q) /\ new[q] = tree[q]
    BY <1>1, <1>3 DEF NoNode
  <2>2. Parent(q) \in Paths /\ Len(Parent(q)) = 1 /\ Below(Parent(q), q)
    BY <1>3, Parents
  <2>3. Parent(q) # p /\ ~Below(p, Parent(q))
    BY <2>1, <2>2, Parents
  <2>4. tree[Parent(q)].kind = "dir"
    BY <1>2, <1>3, <2>1, FolderIs
  <2> QED
    BY <1>1, <2>2, <2>3, <2>4
<1>4. new \in Folder
  BY <1>2, <1>3, FolderIs
<1> QED
  BY <1>1, <1>4 DEF new

LEMMA Putting ==
  ASSUME NEW x \in Running, NEW p \in Paths, NEW node \in TidyNode, NEW type \in EventTypes,
         InFolder(x.cloud, p), x.cloud[p].kind = "dir" => node.kind = "dir"
  PROVE  LET y == PutRemote(x, p, node, type)
         IN /\ y \in Running /\ y.disk = x.disk /\ y.base = x.base /\ y.bad = x.bad
            /\ y.cloud = [x.cloud EXCEPT ![p] = node]
<1> DEFINE tree == [x.cloud EXCEPT ![p] = node]
           told == Append(x.told, Told(type, tree, p))
           last == IF node.id > x.lastId THEN node.id ELSE x.lastId
<1>1. tree \in Folder /\ x.cloud \in Folder
  BY PutKeepsFolder DEF Running
<1>2. told \in Events
  <2>1. Told(type, tree, p) \in [type : EventTypes, id : Nat, parent : Nat]
    <3>1. tree \in [Paths -> TidyNode]
      BY <1>1 DEF Folder
    <3>2. tree[p].id \in Nat
      BY <3>1, TidyParts
    <3>3. ParentId(tree, p) \in Nat
      <4>1. CASE Len(p) = 1
        BY <4>1, ReconstructAssumption DEF ParentId
      <4>2. CASE Len(p) # 1
        <5>1. Parent(p) \in Paths
          BY <4>2, Parents
        <5> QED
          BY <3>1, <4>2, <5>1, TidyParts DEF ParentId
      <4> QED
        BY <4>1, <4>2
    <3> QED
      BY <3>2, <3>3 DEF Told
  <2> QED
    BY <2>1, AppendProperties DEF Running, Events
<1>3. last \in Nat
  BY TidyParts DEF Running
<1>4. PutRemote(x, p, node, type) = [x EXCEPT !.cloud = tree, !.told = told, !.lastId = last]
  BY DEF PutRemote
<1> HIDE DEF tree, told, last
<1>5. LET y == [x EXCEPT !.cloud = tree, !.told = told, !.lastId = last]
      IN /\ y \in Running /\ y.disk = x.disk /\ y.base = x.base /\ y.bad = x.bad
         /\ y.cloud = tree
  BY <1>1, <1>2, <1>3 DEF Running
<1> QED
  BY <1>4, <1>5 DEF tree

-----------------------------------------------------------------------------
(* ensure_directory.  The folders on the way to one, it included.          *)
Way(d) == {p \in Paths : p = d \/ Below(p, d)}
Beginning == <<>>

LEMMA Prefixes ==
  ASSUME NEW d \in Paths, NEW n \in 1 .. Len(d)
  PROVE  SubSeq(d, 1, n) = IF n = Len(d) THEN d ELSE Parent(d)
<1>1. d \in Seq(Nat) /\ Len(d) \in {1, 2}
  BY PathsTyped
<1>2. CASE n = Len(d)
  BY <1>1, <1>2, SubSeqFull
<1>3. CASE n # Len(d)
  <2>1. \A k \in {1, 2} : \A m \in 1 .. k : m # k => m = k - 1
    OBVIOUS
  <2>2. n = Len(d) - 1
    BY <1>1, <1>3, <2>1
  <2> QED
    BY <1>3, <2>2 DEF Parent
<1> QED
  BY <1>2, <1>3

LEMMA WayIs ==
  /\ {SubSeq(Beginning, 1, n) : n \in 1 .. Len(Beginning)} = {} /\ Way(Beginning) = {}
  /\ \A d \in Paths :
       /\ {SubSeq(d, 1, n) : n \in 1 .. Len(d)} = Way(d)
       /\ Way(d) = {d} \cup (IF Len(d) = 2 THEN {Parent(d)} ELSE {})
<1>1. {SubSeq(Beginning, 1, n) : n \in 1 .. Len(Beginning)} = {}
  BY DEF Beginning
<1>2. Way(Beginning) = {}
  <2>1. ASSUME NEW p \in Paths PROVE p # Beginning /\ ~Below(p, Beginning)
    <3>1. Len(p) \in {1, 2} /\ Len(Beginning) = 0
      BY PathsTyped DEF Beginning
    <3>2. \A k \in {1, 2} : k # 0 /\ ~(k < 0)
      OBVIOUS
    <3> QED
      BY <3>1, <3>2 DEF Below
  <2> QED
    BY <2>1 DEF Way
<1>3. ASSUME NEW d \in Paths
      PROVE  /\ {SubSeq(d, 1, n) : n \in 1 .. Len(d)} = Way(d)
             /\ Way(d) = {d} \cup (IF Len(d) = 2 THEN {Parent(d)} ELSE {})
  <2>1. Way(d) = {d} \cup (IF Len(d) = 2 THEN {Parent(d)} ELSE {})
    BY Parents DEF Way
  <2>2. Len(d) \in {1, 2}
    BY PathsTyped
  <2>3. CASE Len(d) = 1
    <3>1. 1 .. Len(d) = {1}
      BY <2>3
    <3> QED
      BY <2>1, <2>3, <3>1, Prefixes
  <2>4. CASE Len(d) = 2
    <3>1. 1 .. Len(d) = {1, 2}
      BY <2>4
    <3>2. SubSeq(d, 1, 1) = Parent(d) /\ SubSeq(d, 1, 2) = d
      <4>1. 1 \in 1 .. Len(d) /\ 2 \in 1 .. Len(d) /\ 1 # Len(d) /\ 2 = Len(d)
        BY <2>4
      <4> QED
        BY <4>1, Prefixes
    <3> QED
      BY <2>1, <2>4, <3>1, <3>2
  <2> QED
    BY <2>2, <2>3, <2>4
<1> QED
  BY <1>1, <1>2, <1>3

LEMMA EnsuringLocal ==
  ASSUME NEW x \in Running, NEW d \in Paths \cup {Beginning}
  PROVE  LET y == EnsureLocal(x, d)
         IN /\ y \in Running /\ y.cloud = x.cloud /\ y.base = x.base
            /\ \A p \in Paths :
                 /\ y.disk[p] = x.disk[p] \/ (p \in Way(d) /\ y.disk[p] = Dir(0))
                 /\ x.disk[p].kind = "file" => y.disk[p] = x.disk[p]
                 /\ ~y.bad => ~x.bad /\ (p \in Way(d) => y.disk[p].kind = "dir")
<1> DEFINE way == {SubSeq(d, 1, n) : n \in 1 .. Len(d)}
           tree == [p \in Paths |-> IF p \in way THEN Dir(0) ELSE x.disk[p]]
           y == EnsureLocal(x, d)
<1>1. way = Way(d)
  BY WayIs
<1>2. CASE \E p \in way : x.disk[p].kind = "file"
  <2>1. y = Bad(x)
    BY <1>2 DEF EnsureLocal
  <2> QED
    BY <2>1, SmallSteps
<1>3. CASE \A p \in way : x.disk[p].kind # "file"
  <2>1. y = [x EXCEPT !.disk = tree]
    BY <1>3 DEF EnsureLocal
  <2>2. x.disk \in Folder /\ x.disk \in [Paths -> TidyNode]
    BY DEF Running, Folder
  <2>3. tree \in [Paths -> TidyNode]
    BY <2>2, TidyThings
  <2>4. ASSUME NEW p \in Paths, Len(p) = 2, tree[p].kind # "none"
        PROVE  tree[Parent(p)].kind = "dir"
    <3>1. Parent(p) \in Paths
      BY <2>4, Parents
    <3>2. Dir(0).kind = "dir"
      BY DEF Dir
    <3>3. CASE p \in way
      <4>1. d \in Paths /\ p = d
        <5>1. d # Beginning
          BY <1>1, <3>3, WayIs
        <5> QED
          BY <1>1, <2>4, <3>3, <5>1, Parents, WayIs
      <4>2. Parent(p) \in way
        BY <1>1, <2>4, <4>1, WayIs
      <4> QED
        BY <3>1, <3>2, <4>2
    <3>4. CASE p \notin way
      <4>1. x.disk[Parent(p)].kind = "dir"
        BY <2>2, <2>4, <3>4, FolderIs
      <4> QED
        BY <3>1, <3>2, <4>1
    <3> QED
      BY <3>3, <3>4
  <2>5. tree \in Folder
    <3> HIDE DEF tree
    <3> QED
      BY <2>3, <2>4, FolderIs
  <2>6. y \in Running /\ y.disk = tree /\ y.cloud = x.cloud /\ y.base = x.base /\ y.bad = x.bad
    <3> HIDE DEF tree, y
    <3> QED
      BY <2>1, <2>5 DEF Running
  <2>7. ASSUME NEW p \in Paths
        PROVE  /\ tree[p] = x.disk[p] \/ (p \in Way(d) /\ tree[p] = Dir(0))
               /\ x.disk[p].kind = "file" => tree[p] = x.disk[p]
               /\ p \in Way(d) => tree[p].kind = "dir"
    BY <1>1, <1>3 DEF Dir
  <2> HIDE DEF tree, y
  <2>8. y.bad => TRUE
    OBVIOUS
  <2> QED
    BY <2>6, <2>7 DEF y
<1> QED
  BY <1>2, <1>3

(* One folder of the way.                                                  *)
Making(x, p) ==
  IF x.bad \/ x.cloud[p].kind = "dir" THEN x
  ELSE IF x.cloud[p].kind = "file" THEN Bad(x)
  ELSE PutRemote(x, p, Dir(x.lastId + 1), "created")

LEMMA MakingOne ==
  ASSUME NEW x \in Running, NEW p \in Paths, x.bad \/ InFolder(x.cloud, p)
  PROVE  LET y == Making(x, p)
         IN /\ y \in Running /\ y.disk = x.disk /\ y.base = x.base
            /\ ~y.bad => ~x.bad /\ y.cloud[p].kind = "dir"
            /\ \A q \in Paths :
                 y.cloud[q] = x.cloud[q]
                   \/ (q = p /\ x.cloud[q].kind = "none" /\ y.cloud[q].kind = "dir")
<1>1. CASE x.bad \/ x.cloud[p].kind = "dir"
  BY <1>1 DEF Making
<1>2. CASE ~x.bad /\ x.cloud[p].kind = "file"
  BY <1>2, SmallSteps DEF Making
<1>3. CASE ~x.bad /\ x.cloud[p].kind \notin {"dir", "file"}
  <2> DEFINE node == Dir(x.lastId + 1)
             y == PutRemote(x, p, node, "created")
  <2>1. node \in TidyNode /\ node.kind = "dir" /\ "created" \in EventTypes
    BY TidyThings DEF Dir, EventTypes, Running
  <2>2. Making(x, p) = y
    BY <1>3 DEF Making
  <2>3. x.cloud \in [Paths -> TidyNode]
    BY DEF Running, Folder
  <2>4. x.cloud[p].kind = "none"
    BY <1>3, <2>3, TidyParts DEF Kinds
  <2> HIDE DEF node, y
  <2>5. /\ y \in Running /\ y.disk = x.disk /\ y.base = x.base /\ y.bad = x.bad
        /\ y.cloud = [x.cloud EXCEPT ![p] = node]
    BY <1>3, <2>1, Putting DEF y
  <2> QED
    BY <1>3, <2>1, <2>2, <2>3, <2>4, <2>5
<1> QED
  BY <1>1, <1>2, <1>3

LEMMA EnsureRemoteIs ==
  ASSUME NEW x, NEW d \in Paths \cup {Beginning}
  PROVE  EnsureRemote(x, d) =
           IF d = Beginning THEN x
           ELSE IF Len(d) = 1 THEN Making(x, d)
           ELSE Making(Making(x, Parent(d)), d)
<1> DEFINE Body(f, n) ==
             IF n = 0 THEN x ELSE Making(f[n - 1], SubSeq(d, 1, n))
           made == CHOOSE f : f = [n \in 0 .. Len(d) |-> Body(f, n)]
           first == Making(x, SubSeq(d, 1, 1))
           given == [n \in 0 .. Len(d) |->
                       IF n = 0 THEN x ELSE IF n = 1 THEN first
                       ELSE Making(first, SubSeq(d, 1, 2))]
<1>1. EnsureRemote(x, d) = made[Len(d)]
  BY DEF EnsureRemote, Making
<1>2. Len(d) \in {0, 1, 2} /\ (Len(d) = 0 <=> d = Beginning)
  <2>1. Len(Beginning) = 0
    BY DEF Beginning
  <2>2. \A k \in {1, 2} : k \in {0, 1, 2} /\ k # 0
    OBVIOUS
  <2> QED
    BY <2>1, <2>2, PathsTyped
<1>3. made = [n \in 0 .. Len(d) |-> Body(made, n)]
  <2>1. given = [n \in 0 .. Len(d) |-> Body(given, n)]
    <3>1. ASSUME NEW n \in 0 .. Len(d) PROVE given[n] = Body(given, n)
      <4>1. \A k \in {0, 1, 2} : \A m \in 0 .. k :
              m \in {0, 1, 2} /\ (m = 2 => 1 \in 0 .. k) /\ (m = 1 => 0 \in 0 .. k)
        OBVIOUS
      <4>2. n \in {0, 1, 2} /\ (n = 2 => 1 \in 0 .. Len(d)) /\ (n = 1 => 0 \in 0 .. Len(d))
        BY <1>2, <4>1
      <4> HIDE DEF first
      <4>3. CASE n = 0
        BY <4>3
      <4>4. CASE n = 1
        <5>1. given[0] = x
          BY <4>2, <4>4
        <5>2. given[1] = first /\ 1 - 1 = 0
          BY <4>2, <4>4
        <5> QED
          BY <4>4, <5>1, <5>2 DEF first
      <4>5. CASE n = 2
        <5>1. given[1] = first
          BY <4>2, <4>5
        <5>2. given[2] = Making(first, SubSeq(d, 1, 2)) /\ 2 - 1 = 1
          BY <4>5
        <5> QED
          BY <4>5, <5>1, <5>2
      <4> QED
        BY <4>2, <4>3, <4>4, <4>5
    <3> HIDE DEF Body
    <3> QED
      BY <3>1
  <2>2. \E f : f = [n \in 0 .. Len(d) |-> Body(f, n)]
    BY <2>1
  <2> HIDE DEF Body
  <2> QED
    BY <2>2
<1> HIDE DEF made
<1>4. CASE d = Beginning
  <2>1. Len(d) = 0 /\ 0 \in 0 .. 0
    BY <1>2, <1>4
  <2> QED
    BY <1>1, <1>3, <1>4, <2>1
<1>5. CASE d # Beginning /\ Len(d) = 1
  <2>1. made[0] = x /\ made[1] = Making(made[1 - 1], SubSeq(d, 1, 1)) /\ 1 - 1 = 0
    BY <1>3, <1>5
  <2>2. SubSeq(d, 1, 1) = d
    <3>1. 1 \in 1 .. Len(d) /\ 1 = Len(d) /\ d \in Paths
      BY <1>5
    <3> QED
      BY <3>1, Prefixes
  <2> QED
    BY <1>1, <1>5, <2>1, <2>2
<1>6. CASE d # Beginning /\ Len(d) = 2
  <2>1. /\ made[0] = x /\ made[1] = Making(made[1 - 1], SubSeq(d, 1, 1)) /\ 1 - 1 = 0
        /\ made[2] = Making(made[2 - 1], SubSeq(d, 1, 2)) /\ 2 - 1 = 1
    BY <1>3, <1>6
  <2>2. SubSeq(d, 1, 1) = Parent(d) /\ SubSeq(d, 1, 2) = d
    <3>1. /\ 1 \in 1 .. Len(d) /\ 2 \in 1 .. Len(d) /\ 1 # Len(d) /\ 2 = Len(d)
          /\ d \in Paths
      BY <1>6
    <3> QED
      BY <3>1, Prefixes
  <2> QED
    BY <1>1, <1>6, <2>1, <2>2
<1> QED
  BY <1>2, <1>4, <1>5, <1>6

LEMMA EnsuringRemote ==
  ASSUME NEW x \in Running, NEW d \in Paths \cup {Beginning}
  PROVE  LET y == EnsureRemote(x, d)
         IN /\ y \in Running /\ y.disk = x.disk /\ y.base = x.base
            /\ ~y.bad => ~x.bad /\ \A p \in Way(d) : y.cloud[p].kind = "dir"
            /\ \A p \in Paths :
                 y.cloud[p] = x.cloud[p]
                   \/ (p \in Way(d) /\ x.cloud[p].kind = "none" /\ y.cloud[p].kind = "dir")
<1>1. CASE d = Beginning
  BY <1>1, EnsureRemoteIs, WayIs
<1>2. CASE d # Beginning /\ Len(d) = 1
  <2>1. d \in Paths /\ Way(d) = {d} /\ InFolder(x.cloud, d)
    BY <1>2, WayIs DEF InFolder
  <2> QED
    BY <1>2, <2>1, EnsureRemoteIs, MakingOne
<1>3. CASE d # Beginning /\ Len(d) = 2
  <2> DEFINE p == Parent(d)
             m == Making(x, p)
             y == Making(m, d)
  <2>1. d \in Paths /\ p \in Paths /\ Len(p) = 1 /\ Way(d) = {d, p} /\ p # d
    BY <1>3, WayIs, Parents
  <2>2. EnsureRemote(x, d) = y
    BY <1>3, EnsureRemoteIs
  <2>3. InFolder(x.cloud, p)
    BY <2>1 DEF InFolder
  <2>4. /\ m \in Running /\ m.disk = x.disk /\ m.base = x.base
        /\ ~m.bad => ~x.bad /\ m.cloud[p].kind = "dir"
        /\ \A q \in Paths :
             m.cloud[q] = x.cloud[q]
               \/ (q = p /\ x.cloud[q].kind = "none" /\ m.cloud[q].kind = "dir")
    BY <2>1, <2>3, MakingOne
  <2>5. m.bad \/ InFolder(m.cloud, d)
    BY <2>4 DEF InFolder
  <2> HIDE DEF m
  <2>6. /\ y \in Running /\ y.disk = m.disk /\ y.base = m.base
        /\ ~y.bad => ~m.bad /\ y.cloud[d].kind = "dir"
        /\ \A q \in Paths :
             y.cloud[q] = m.cloud[q]
               \/ (q = d /\ m.cloud[q].kind = "none" /\ y.cloud[q].kind = "dir")
    BY <2>1, <2>4, <2>5, MakingOne
  <2> HIDE DEF y, p
  <2> QED
    BY <2>1, <2>2, <2>4, <2>6
<1>4. d # Beginning => Len(d) \in {1, 2}
  BY PathsTyped
<1> QED
  BY <1>1, <1>2, <1>3, <1>4

-----------------------------------------------------------------------------
(* A rename takes every path below along, and nothing else goes.           *)
LEMMA SubtreeIs ==
  ASSUME NEW p \in Paths, NEW r \in Paths
  PROVE  /\ r \in Subtree(p) <=> r = p \/ Below(p, r)
         /\ p \in Subtree(p) /\ ~Below(r, r)
<1>1. ~Below(r, r)
  <2>1. Len(r) \in {1, 2}
    BY PathsTyped
  <2>2. \A k \in {1, 2} : ~(k < k)
    OBVIOUS
  <2> QED
    BY <2>1, <2>2 DEF Below
<1> QED
  BY <1>1 DEF Subtree

LEMMA MovingIs ==
  ASSUME NEW tree \in [Paths -> TidyNode], NEW p \in Paths, NEW q \in Paths
  PROVE  LET new == Moved(tree, p, q)
         IN /\ new \in [Paths -> TidyNode]
            /\ \A r \in Paths :
                 /\ r \in Subtree(q) /\ Rekey(r, q, p) \in Paths => new[r] = tree[Rekey(r, q, p)]
                 /\ r \in Subtree(q) /\ Rekey(r, q, p) \notin Paths => new[r] = NoNode
                 /\ r \notin Subtree(q) /\ r \in Subtree(p) => new[r] = NoNode
                 /\ r \notin Subtree(q) /\ r \notin Subtree(p) => new[r] = tree[r]
BY TidyThings DEF Moved

LEMMA MovingKeepsFolder ==
  ASSUME NEW tree \in Folder, NEW p \in Paths, NEW q \in Paths,
         Fits(tree, p, q), InFolder(tree, q)
  PROVE  LET new == Moved(tree, p, q)
         IN /\ new \in Folder
            /\ \A r \in Paths :
                 /\ tree[r].kind = "file" /\ r \in Subtree(p) =>
                      Rekey(r, p, q) \in Paths /\ new[Rekey(r, p, q)] = tree[r]
                 /\ r \notin Subtree(p) /\ r \notin Subtree(q) => new[r] = tree[r]
                 /\ new[r].kind = "file" /\ r \notin Subtree(q) => tree[r].kind = "file"
<1> DEFINE new == Moved(tree, p, q)
<1>1. tree \in [Paths -> TidyNode]
  BY DEF Folder
<1>2. /\ new \in [Paths -> TidyNode]
      /\ \A r \in Paths :
           /\ r \in Subtree(q) /\ Rekey(r, q, p) \in Paths => new[r] = tree[Rekey(r, q, p)]
           /\ r \in Subtree(q) /\ Rekey(r, q, p) \notin Paths => new[r] = NoNode
           /\ r \notin Subtree(q) /\ r \in Subtree(p) => new[r] = NoNode
           /\ r \notin Subtree(q) /\ r \notin Subtree(p) => new[r] = tree[r]
  BY <1>1, MovingIs
<1> HIDE DEF new
<1>3. ~Below(p, q)
  BY DEF Fits
<1>4. ASSUME NEW r \in Paths, Len(r) = 2, new[r].kind # "none"
      PROVE  new[Parent(r)].kind = "dir"
  <2> DEFINE f == Parent(r)
  <2>1. f \in Paths /\ Len(f) = 1 /\ Below(f, r) /\ \A s \in Paths : ~Below(s, f)
    BY <1>4, Parents
  <2>2. CASE r = q
    <3>1. f \notin Subtree(q)
      BY <2>1, <2>2, SubtreeIs
    <3>2. f \notin Subtree(p)
      BY <1>3, <2>1, <2>2, SubtreeIs
    <3>3. tree[f].kind = "dir"
      BY <1>4, <2>2 DEF InFolder
    <3> QED
      BY <1>2, <2>1, <3>1, <3>2, <3>3
  <2>3. CASE Below(q, r)
    <3> DEFINE s == Rekey(r, q, p)
    <3>1. f = q
      BY <2>3, Parents
    <3>2. r \in Subtree(q)
      BY <2>3, SubtreeIs
    <3>3. s \in Paths /\ new[r] = tree[s]
      BY <1>2, <1>4, <3>2 DEF NoNode
    <3>4. Below(p, s)
      BY <2>3, <3>3, Rekeyed
    <3>5. Len(s) = 2 /\ Parent(s) = p
      BY <3>3, <3>4, Parents
    <3>6. tree[p].kind = "dir"
      BY <1>1, <1>4, <3>3, <3>5, FolderIs
    <3>7. Rekey(q, q, p) = p /\ q \in Subtree(q)
      BY Rekeyed, SubtreeIs
    <3> QED
      BY <1>2, <3>1, <3>6, <3>7
  <2>4. CASE r # q /\ ~Below(q, r)
    <3>1. r \notin Subtree(q)
      BY <2>4, SubtreeIs
    <3>2. r \notin Subtree(p) /\ new[r] = tree[r]
      BY <1>2, <1>4, <3>1 DEF NoNode
    <3>3. f \notin Subtree(q) /\ f \notin Subtree(p)
      BY <2>1, <3>1, <3>2, SubtreeIs
    <3>4. tree[f].kind = "dir"
      BY <1>1, <1>4, <3>2, FolderIs
    <3> QED
      BY <1>2, <2>1, <3>3, <3>4
  <2> QED
    BY <2>2, <2>3, <2>4
<1>5. new \in Folder
  BY <1>2, <1>4, FolderIs
<1>6. ASSUME NEW r \in Paths, tree[r].kind = "file", r \in Subtree(p)
      PROVE  Rekey(r, p, q) \in Paths /\ new[Rekey(r, p, q)] = tree[r]
  <2> DEFINE s == Rekey(r, p, q)
  <2>1. s \in Paths
    BY <1>6 DEF Fits, Held
  <2>2. s \in Subtree(q) /\ Rekey(s, q, p) = r
    <3>1. CASE r = p
      BY <2>1, <3>1, Rekeyed, SubtreeIs
    <3>2. CASE Below(p, r)
      BY <2>1, <3>2, Rekeyed, SubtreeIs
    <3> QED
      BY <1>6, <3>1, <3>2, SubtreeIs
  <2> QED
    BY <1>2, <2>1, <2>2
<1>7. ASSUME NEW r \in Paths, new[r].kind = "file", r \notin Subtree(q)
      PROVE  tree[r].kind = "file"
  BY <1>2, <1>7 DEF NoNode
<1>8. \A r \in Paths : r \notin Subtree(p) /\ r \notin Subtree(q) => new[r] = tree[r]
  BY <1>2
<1> QED
  BY <1>5, <1>6, <1>7, <1>8 DEF new

-----------------------------------------------------------------------------
(* The action arms, one by one: each leaves trees and tidy records, and    *)
(* says which files it may make or touch.                                  *)
LEMMA ParentWay ==
  ASSUME NEW p \in Paths
  PROVE  /\ Parent(p) \in Paths \cup {Beginning}
         /\ \A tree : (\A q \in Way(Parent(p)) : tree[q].kind = "dir") => InFolder(tree, p)
<1>1. CASE Len(p) = 1
  <2>1. SubSeq(p, 1, 0) = <<>>
    BY SubSeqEmpty
  <2>2. Len(p) - 1 = 0
    BY <1>1
  <2>3. Parent(p) = Beginning
    BY <2>1, <2>2 DEF Parent, Beginning
  <2> QED
    BY <1>1, <2>3 DEF InFolder
<1>2. CASE Len(p) = 2
  <2>1. Parent(p) \in Paths /\ Parent(p) \in Way(Parent(p))
    BY <1>2, Parents, WayIs
  <2> QED
    BY <2>1 DEF InFolder
<1> QED
  BY <1>1, <1>2, PathsTyped

LEMMA Misnaming ==
  ASSUME NEW x \in Running, NEW p \in Paths, NEW id \in Nat
  PROVE  LET y == Misnames(x, p, id)
         IN y \in Running /\ y.disk = x.disk /\ y.cloud = x.cloud
<1>1. x.cloud[p].id \in Nat
  BY TidyParts DEF Running, Folder
<1>2. CASE id \in {0, x.cloud[p].id}
  BY <1>2 DEF Misnames
<1>3. CASE id \notin {0, x.cloud[p].id}
  <2> DEFINE ids == x.untold \cup {id, x.cloud[p].id}
  <2>1. ids \in SUBSET Nat
    BY <1>1 DEF Running
  <2>2. Misnames(x, p, id) = [x EXCEPT !.untold = ids]
    BY <1>3 DEF Misnames
  <2> HIDE DEF ids
  <2> QED
    BY <2>1, <2>2 DEF Running
<1> QED
  BY <1>2, <1>3

(* The record an arm stages carries a known id.                            *)
LEMMA StagedId ==
  ASSUME NEW do \in {"upload", "conflict", "conflict_local"}, NEW scanned, NEW landed,
         NEW node \in TidyNode, NEW row \in TidyRow
  PROVE  LET after == RecordAfter(do, scanned, landed, node, row)
         IN after.hash = scanned /\ after.id \in Nat
<1>1. node.id \in Nat /\ row.id \in Nat
  BY TidyParts
<1>2. RemoteId(node, row) \in Nat /\ UploadId(scanned, node, row) \in Nat
  BY <1>1 DEF RemoteId, UploadId
<1> QED
  BY <1>2, Recorded

LEMMA UploadArm ==
  ASSUME NEW x \in Running, NEW p \in Paths, NEW plannedDirs,
         NEW L \in [Paths -> TidyNode], NEW R \in [Paths -> TidyNode], NEW B \in Records,
         L[p].kind = "file"
  PROVE  LET y == Upload(x, p, L, R, B, plannedDirs)
         IN /\ y \in Running /\ y.disk = x.disk
            /\ \A q \in Paths : q # p =>
                 /\ y.cloud[q].kind = "file" => x.cloud[q].kind = "file"
                 /\ x.cloud[q].kind = "file" => y.cloud[q] = x.cloud[q]
<1> DEFINE y == IF Parent(p) \in plannedDirs THEN x ELSE EnsureRemote(x, Parent(p))
           old == y.cloud[p]
           sent == y.disk[p].hash
           z == IF old.kind = "file"
                THEN PutRemote(y, p, File(sent, old.id), "updated")
                ELSE PutRemote(y, p, File(sent, y.lastId + 1), "created")
           row == RecordAfter("upload", L[p].hash, 0, R[p], B[p])
           end == Write(Misnames(z, p, row.id), p, FileRow(row.hash, row.id, "synced"))
<1>1. /\ y \in Running /\ y.disk = x.disk
      /\ \A q \in Paths : /\ y.cloud[q].kind = "file" => x.cloud[q].kind = "file"
                          /\ x.cloud[q].kind = "file" => y.cloud[q] = x.cloud[q]
  <2>1. CASE Parent(p) \in plannedDirs
    BY <2>1
  <2>2. CASE Parent(p) \notin plannedDirs
    BY <2>2, ParentWay, EnsuringRemote
  <2> QED
    BY <2>1, <2>2
<1>2. CASE y.bad \/ y.disk[p].kind # "file" \/ old.kind = "dir" \/ ~InFolder(y.cloud, p)
  <2>1. Upload(x, p, L, R, B, plannedDirs) = Bad(y)
    BY <1>2 DEF Upload
  <2> HIDE DEF y
  <2> QED
    BY <1>1, <2>1, SmallSteps
<1>3. CASE ~(y.bad \/ y.disk[p].kind # "file" \/ old.kind = "dir" \/ ~InFolder(y.cloud, p))
  <2>1. Upload(x, p, L, R, B, plannedDirs) = end
    BY <1>3 DEF Upload
  <2> HIDE DEF y
  <2>2. sent \in Nat \ {0} /\ old.id \in Nat /\ y.lastId + 1 \in Nat
    BY <1>1, <1>3, TidyParts DEF Running, Folder
  <2>3. /\ File(sent, old.id) \in TidyNode /\ File(sent, y.lastId + 1) \in TidyNode
        /\ "updated" \in EventTypes /\ "created" \in EventTypes
    BY <2>2, TidyThings DEF EventTypes
  <2>4. PICK node \in TidyNode, type \in EventTypes : z = PutRemote(y, p, node, type)
    BY <2>3
  <2> HIDE DEF z
  <2>5. /\ z \in Running /\ z.disk = y.disk
        /\ z.cloud = [y.cloud EXCEPT ![p] = node]
    <3>1. y \in Running /\ InFolder(y.cloud, p) /\ (y.cloud[p].kind = "dir" => node.kind = "dir")
      BY <1>1, <1>3
    <3>2. ASSUME NEW v \in Running, InFolder(v.cloud, p),
                 v.cloud[p].kind = "dir" => node.kind = "dir"
          PROVE  LET w == PutRemote(v, p, node, type)
                 IN w \in Running /\ w.disk = v.disk /\ w.cloud = [v.cloud EXCEPT ![p] = node]
      BY <3>2, Putting
    <3> QED
      BY <2>4, <3>1, <3>2
  <2>6. /\ row.id \in Nat /\ row.hash \in Nat \ {0} /\ "synced" \in Status \ {"modified"}
    <3>1. L[p] \in TidyNode /\ R[p] \in TidyNode /\ B[p] \in TidyRow
      BY DEF Records, StoredRow
    <3>2. L[p].hash \in Nat \ {0}
      BY <3>1, TidyParts
    <3> QED
      BY <3>1, <3>2, StagedId DEF Status
  <2>7. FileRow(row.hash, row.id, "synced") \in StoredRow
    BY <2>6, TidyThings
  <2> HIDE DEF row
  <2> DEFINE m == Misnames(z, p, row.id)
  <2>8. m \in Running /\ m.disk = z.disk /\ m.cloud = z.cloud
    BY <2>5, <2>6, Misnaming
  <2> HIDE DEF m
  <2>9. end \in Running /\ end.disk = m.disk /\ end.cloud = m.cloud
    BY <2>7, <2>8, Writing DEF m
  <2>10. y.cloud \in [Paths -> TidyNode]
    BY <1>1 DEF Running, Folder
  <2> HIDE DEF end
  <2> QED
    BY <1>1, <2>1, <2>5, <2>8, <2>9, <2>10
<1> QED
  BY <1>2, <1>3

LEMMA DownloadArm ==
  ASSUME NEW x \in Running, NEW p \in Paths, NEW R \in [Paths -> TidyNode]
  PROVE  LET y == Download(x, p, R)
         IN /\ y \in Running /\ y.cloud = x.cloud
            /\ \A q \in Paths :
                 x.disk[q].kind = "file" =>
                   y.disk[q] = x.disk[q] \/ (q = p /\ x.cloud[p].kind = "file")
<1> DEFINE y == EnsureLocal(x, Parent(p))
           row == FileRow(y.cloud[p].hash, R[p].id, "synced")
           z == [y EXCEPT !.disk[p] = File(y.cloud[p].hash, 0)]
<1>1. /\ y \in Running /\ y.cloud = x.cloud
      /\ \A q \in Paths : x.disk[q].kind = "file" => y.disk[q] = x.disk[q]
      /\ ~y.bad => \A q \in Way(Parent(p)) : y.disk[q].kind = "dir"
  <2>1. Parent(p) \in Paths \cup {Beginning} /\ Way(Parent(p)) \subseteq Paths
    BY ParentWay DEF Way
  <2> QED
    BY <2>1, EnsuringLocal
<1>2. CASE y.bad \/ y.disk[p].kind = "dir"
  <2>1. Download(x, p, R) = Bad(y)
    BY <1>2 DEF Download
  <2> HIDE DEF y
  <2> QED
    BY <1>1, <2>1, SmallSteps
<1>3. CASE ~(y.bad \/ y.disk[p].kind = "dir") /\ y.cloud[p].kind # "file"
  <2>1. Download(x, p, R) = Vanish(y)
    BY <1>3 DEF Download
  <2> HIDE DEF y
  <2> QED
    BY <1>1, <2>1, SmallSteps
<1>4. CASE ~(y.bad \/ y.disk[p].kind = "dir") /\ y.cloud[p].kind = "file"
  <2>1. Download(x, p, R) = Write(z, p, row)
    BY <1>4 DEF Download
  <2> HIDE DEF y
  <2>2. y.cloud[p].hash \in Nat \ {0} /\ R[p].id \in Nat /\ "synced" \in Status \ {"modified"}
    BY <1>1, <1>4, TidyParts DEF Running, Folder, Status
  <2>3. row \in StoredRow /\ File(y.cloud[p].hash, 0) \in TidyNode
    BY <2>2, TidyThings
  <2> DEFINE tree == [y.disk EXCEPT ![p] = File(y.cloud[p].hash, 0)]
  <2>4. tree \in Folder /\ y.disk \in [Paths -> TidyNode]
    <3>1. InFolder(y.disk, p) /\ y.disk \in Folder
      BY <1>1, <1>4, ParentWay DEF Running
    <3> QED
      BY <1>4, <2>3, <3>1, PutKeepsFolder DEF Folder
  <2>5. z \in Running /\ z.disk = tree /\ z.cloud = y.cloud
    BY <1>1, <2>4 DEF Running
  <2> HIDE DEF z, row
  <2>6. /\ Write(z, p, row) \in Running /\ Write(z, p, row).disk = z.disk
        /\ Write(z, p, row).cloud = z.cloud
    BY <2>3, <2>5, Writing
  <2>7. x.disk \in [Paths -> TidyNode]
    BY DEF Running, Folder
  <2> QED
    BY <1>1, <1>4, <2>1, <2>4, <2>5, <2>6
<1> QED
  BY <1>2, <1>3, <1>4

LEMMA KeepBothArm ==
  ASSUME NEW x \in Running, NEW p \in Paths, NEW do \in {"conflict", "conflict_local"},
         NEW L \in [Paths -> TidyNode], NEW R \in [Paths -> TidyNode], NEW B \in Records,
         L[p].kind = "file"
  PROVE  LET y == KeepBoth(x, p, do, L, R, B)
         IN y \in Running /\ y.disk = x.disk /\ y.cloud = x.cloud
<1> DEFINE row == RecordAfter(do, L[p].hash, 0, R[p], B[p])
           frozen == FileRow(L[p].hash, row.id, "conflict")
<1>1. frozen \in StoredRow
  <2>1. L[p] \in TidyNode /\ R[p] \in TidyNode /\ B[p] \in TidyRow
    BY DEF Records, StoredRow
  <2>2. row.id \in Nat
    BY <2>1, StagedId
  <2>3. L[p].hash \in Nat \ {0} /\ "conflict" \in Status \ {"modified"}
    BY <2>1, TidyParts DEF Status
  <2> QED
    BY <2>2, <2>3, TidyThings
<1> HIDE DEF frozen
<1>2. \A c \in Nat :
        LET y == [x EXCEPT !.copies = @ \cup {c}]
        IN y \in Running /\ y.disk = x.disk /\ y.cloud = x.cloud
  BY DEF Running
<1>3. x.cloud[p].hash \in Nat /\ x.disk[p].hash \in Nat
  BY TidyParts DEF Running, Folder
<1>4. \/ KeepBoth(x, p, do, L, R, B) \in {Vanish(x), Bad(x)}
      \/ \E c \in Nat :
           KeepBoth(x, p, do, L, R, B) = Write([x EXCEPT !.copies = @ \cup {c}], p, frozen)
  BY <1>3 DEF KeepBoth, frozen
<1>5. CASE KeepBoth(x, p, do, L, R, B) \in {Vanish(x), Bad(x)}
  BY <1>5, SmallSteps
<1>6. ASSUME NEW c \in Nat,
             KeepBoth(x, p, do, L, R, B) = Write([x EXCEPT !.copies = @ \cup {c}], p, frozen)
      PROVE  LET y == KeepBoth(x, p, do, L, R, B)
             IN y \in Running /\ y.disk = x.disk /\ y.cloud = x.cloud
  <2> DEFINE y == [x EXCEPT !.copies = @ \cup {c}]
  <2>1. y \in Running /\ y.disk = x.disk /\ y.cloud = x.cloud
    BY <1>2
  <2> HIDE DEF y
  <2>2. /\ Write(y, p, frozen) \in Running /\ Write(y, p, frozen).disk = y.disk
        /\ Write(y, p, frozen).cloud = y.cloud
    BY <1>1, <2>1, Writing
  <2> QED
    BY <1>6, <2>1, <2>2 DEF y
<1> QED
  BY <1>4, <1>5, <1>6

LEMMA CreateRemoteArm ==
  ASSUME NEW x \in Running, NEW p \in Paths, NEW id \in Nat, NEW B \in Records
  PROVE  LET y == CreateRemoteDirectory(x, p, id, B)
         IN /\ y \in Running /\ y.disk = x.disk
            /\ \A q \in Paths : /\ y.cloud[q].kind = "file" => x.cloud[q].kind = "file"
                                /\ x.cloud[q].kind = "file" => y.cloud[q] = x.cloud[q]
<1> DEFINE y == EnsureRemote(x, p)
           kept == IF id # 0 THEN id ELSE B[p].id
           m == Misnames(y, p, kept)
<1>1. /\ y \in Running /\ y.disk = x.disk
      /\ \A q \in Paths : /\ y.cloud[q].kind = "file" => x.cloud[q].kind = "file"
                          /\ x.cloud[q].kind = "file" => y.cloud[q] = x.cloud[q]
  BY EnsuringRemote
<1>2. kept \in Nat
  BY TidyParts DEF Records
<1>3. CreateRemoteDirectory(x, p, id, B) = IF y.bad THEN y ELSE Write(m, p, DirRow(kept))
  BY DEF CreateRemoteDirectory
<1> HIDE DEF y, kept
<1>4. m \in Running /\ m.disk = y.disk /\ m.cloud = y.cloud
  BY <1>1, <1>2, Misnaming
<1>5. DirRow(kept) \in StoredRow
  BY <1>2, TidyThings
<1> HIDE DEF m
<1>6. /\ Write(m, p, DirRow(kept)) \in Running /\ Write(m, p, DirRow(kept)).disk = m.disk
      /\ Write(m, p, DirRow(kept)).cloud = m.cloud
  BY <1>4, <1>5, Writing
<1> QED
  BY <1>1, <1>3, <1>4, <1>6

LEMMA CreateLocalArm ==
  ASSUME NEW x \in Running, NEW p \in Paths, NEW id \in Nat
  PROVE  LET y == CreateLocalDirectory(x, p, id)
         IN /\ y \in Running /\ y.cloud = x.cloud
            /\ \A q \in Paths : x.disk[q].kind = "file" => y.disk[q] = x.disk[q]
<1> DEFINE y == EnsureLocal(x, p)
           w == Write(y, p, DirRow(id))
<1>1. /\ y \in Running /\ y.cloud = x.cloud
      /\ \A q \in Paths : x.disk[q].kind = "file" => y.disk[q] = x.disk[q]
  BY EnsuringLocal
<1>2. CreateLocalDirectory(x, p, id) = IF y.bad THEN y ELSE w
  BY DEF CreateLocalDirectory
<1> HIDE DEF y
<1>3. w \in Running /\ w.disk = y.disk /\ w.cloud = y.cloud
  BY <1>1, TidyThings, Writing
<1> QED
  BY <1>1, <1>2, <1>3

LEMMA MoveLocalFileArm ==
  ASSUME NEW x \in Running, NEW a, a.path \in Paths, a.to \in Paths, a.id \in Nat,
         NEW R \in [Paths -> TidyNode]
  PROVE  LET y == MoveLocalFile(x, a, R)
         IN /\ y \in Running /\ y.cloud = x.cloud
            /\ \A q \in Paths \ {a.path, a.to} :
                 x.disk[q].kind = "file" => y.disk[q] = x.disk[q]
<1> DEFINE y == EnsureLocal(x, Parent(a.to))
           found == x.disk[a.path].hash
           freed == [y.disk EXCEPT ![a.path] = NoNode]
           tree == [freed EXCEPT ![a.to] = File(found, 0)]
           ids == IF found = R[a.to].hash THEN y.untold ELSE y.untold \cup {a.id}
           z == [y EXCEPT !.disk = tree, !.untold = ids]
           f == Forget(z, a.path)
           row == FileRow(found, a.id, "synced")
           w == Write(f, a.to, row)
<1>1. /\ y \in Running /\ y.cloud = x.cloud
      /\ \A q \in Paths : x.disk[q].kind = "file" => y.disk[q] = x.disk[q]
      /\ ~y.bad => \A q \in Way(Parent(a.to)) : y.disk[q].kind = "dir"
  <2>1. Parent(a.to) \in Paths \cup {Beginning} /\ Way(Parent(a.to)) \subseteq Paths
    BY ParentWay DEF Way
  <2> QED
    BY <2>1, EnsuringLocal
<1>2. CASE y.bad \/ x.disk[a.path].kind # "file" \/ y.disk[a.to].kind = "dir"
  <2>1. MoveLocalFile(x, a, R) = Bad(y)
    BY <1>2 DEF MoveLocalFile
  <2> HIDE DEF y
  <2> QED
    BY <1>1, <2>1, SmallSteps
<1>3. CASE ~(y.bad \/ x.disk[a.path].kind # "file" \/ y.disk[a.to].kind = "dir")
  <2>1. MoveLocalFile(x, a, R) = w
    BY <1>3 DEF MoveLocalFile
  <2> HIDE DEF y
  <2>2. x.disk \in [Paths -> TidyNode] /\ y.disk \in Folder /\ y.disk \in [Paths -> TidyNode]
    BY <1>1 DEF Running, Folder
  <2>3. found \in Nat \ {0}
    BY <1>3, <2>2, TidyParts
  <2>4. freed \in Folder /\ freed \in [Paths -> TidyNode]
    <3>1. y.disk[a.path].kind = "file"
      BY <1>1, <1>3
    <3>2. InFolder(y.disk, a.path)
      BY <2>2, <3>1 DEF Folder, WellFormed, Held
    <3>3. \A tr \in Folder : InFolder(tr, a.path) /\ tr[a.path].kind # "dir" =>
            [tr EXCEPT ![a.path] = NoNode] \in Folder
      BY PutKeepsFolder, TidyThings
    <3> QED
      BY <2>2, <3>1, <3>2, <3>3 DEF Folder
  <2>5. InFolder(freed, a.to) /\ freed[a.to].kind # "dir"
    <3>1. \A q \in Way(Parent(a.to)) : q # a.path /\ q \in Paths
      BY <1>1, <1>3 DEF Way
    <3>2. \A q \in Way(Parent(a.to)) : freed[q].kind = "dir"
      BY <1>1, <1>3, <2>2, <3>1
    <3>3. InFolder(freed, a.to)
      BY <3>2, ParentWay
    <3>4. freed[a.to].kind # "dir"
      BY <1>3, <2>2 DEF NoNode
    <3> QED
      BY <3>3, <3>4
  <2> HIDE DEF freed
  <2>6. tree \in Folder
    <3>1. File(found, 0) \in TidyNode
      BY <2>3, TidyThings
    <3> QED
      BY <2>4, <2>5, <3>1, PutKeepsFolder
  <2>7. ids \in SUBSET Nat
    BY <1>1 DEF Running
  <2>8. \A q \in Paths \ {a.path, a.to} : tree[q] = y.disk[q]
    BY <2>2, <2>4 DEF freed
  <2> HIDE DEF tree, ids
  <2>9. z \in Running /\ z.disk = tree /\ z.cloud = y.cloud
    BY <1>1, <2>6, <2>7 DEF Running
  <2> HIDE DEF z
  <2>10. f \in Running /\ f.disk = z.disk /\ f.cloud = z.cloud
    BY <2>9, TidyThings, Writing
  <2>11. row \in StoredRow
    BY <2>3, TidyThings DEF Status
  <2> HIDE DEF f, row
  <2>12. w \in Running /\ w.disk = f.disk /\ w.cloud = f.cloud
    BY <2>10, <2>11, Writing
  <2> HIDE DEF w
  <2> QED
    BY <1>1, <2>1, <2>8, <2>9, <2>10, <2>12
<1> QED
  BY <1>2, <1>3

LEMMA MoveLocalDirArm ==
  ASSUME NEW x \in Running, NEW a, a.path \in Paths, a.to \in Paths, a.id \in Nat,
         NEW R \in [Paths -> TidyNode], NEW B \in Records
  PROVE  LET y == MoveLocalDir(x, a, R, B)
         IN /\ y \in Running /\ y.cloud = x.cloud
            /\ \A q \in Paths :
                 x.disk[q].kind = "file" =>
                   \/ y.disk[q] = x.disk[q]
                   \/ /\ q \in Subtree(a.path) /\ Rekey(q, a.path, a.to) \in Paths
                      /\ y.disk[Rekey(q, a.path, a.to)] = x.disk[q]
<1> DEFINE y == EnsureLocal(x, Parent(a.to))
           below == {q \in Held(B) : Below(a.path, q)}
           rows == [q \in Paths |->
                      IF q = a.to THEN DirRow(a.id)
                      ELSE IF Below(a.to, q) /\ Rekey(q, a.to, a.path) \in below
                      THEN B[Rekey(q, a.to, a.path)]
                      ELSE IF q = a.path \/ q \in below THEN NoRow ELSE y.base[q]]
           tree == Moved(y.disk, a.path, a.to)
           ids == y.untold \cup Unshown(R, B, a.path)
           z == [y EXCEPT !.disk = tree, !.untold = ids, !.base = rows]
<1>1. /\ y \in Running /\ y.cloud = x.cloud
      /\ \A q \in Paths : x.disk[q].kind = "file" => y.disk[q] = x.disk[q]
      /\ ~y.bad => \A q \in Way(Parent(a.to)) : y.disk[q].kind = "dir"
  <2>1. Parent(a.to) \in Paths \cup {Beginning} /\ Way(Parent(a.to)) \subseteq Paths
    BY ParentWay DEF Way
  <2> QED
    BY <2>1, EnsuringLocal
<1>2. CASE \/ y.bad \/ y.disk[a.path].kind # "dir"
           \/ Occupied(y.disk, a.to) \/ ~Fits(y.disk, a.path, a.to)
  <2>1. MoveLocalDir(x, a, R, B) = Bad(y)
    BY <1>2 DEF MoveLocalDir
  <2> HIDE DEF y
  <2> QED
    BY <1>1, <2>1, SmallSteps
<1>3. CASE ~(\/ y.bad \/ y.disk[a.path].kind # "dir"
             \/ Occupied(y.disk, a.to) \/ ~Fits(y.disk, a.path, a.to))
  <2>1. MoveLocalDir(x, a, R, B) = Rescan(z, a)
    BY <1>3 DEF MoveLocalDir
  <2> HIDE DEF y
  <2>2. InFolder(y.disk, a.to) /\ Fits(y.disk, a.path, a.to) /\ y.disk \in Folder
    BY <1>1, <1>3, ParentWay DEF Running
  <2>3. /\ tree \in Folder
        /\ \A r \in Paths :
             /\ y.disk[r].kind = "file" /\ r \in Subtree(a.path) =>
                  Rekey(r, a.path, a.to) \in Paths /\ tree[Rekey(r, a.path, a.to)] = y.disk[r]
             /\ r \notin Subtree(a.path) /\ r \notin Subtree(a.to) => tree[r] = y.disk[r]
    <3>1. \A d \in Folder : Fits(d, a.path, a.to) /\ InFolder(d, a.to) =>
            LET new == Moved(d, a.path, a.to)
            IN /\ new \in Folder
               /\ \A r \in Paths :
                    /\ d[r].kind = "file" /\ r \in Subtree(a.path) =>
                         Rekey(r, a.path, a.to) \in Paths /\ new[Rekey(r, a.path, a.to)] = d[r]
                    /\ r \notin Subtree(a.path) /\ r \notin Subtree(a.to) => new[r] = d[r]
      BY MovingKeepsFolder
    <3> QED
      BY <2>2, <3>1
  <2>4. \A r \in Paths : y.disk[r].kind = "file" => r \notin Subtree(a.to)
    BY <1>3, SubtreeIs DEF Occupied, Held
  <2>5. rows \in Records
    <3>1. DirRow(a.id) \in StoredRow /\ NoRow \in StoredRow
      BY TidyThings
    <3>2. \A q \in below : B[q] \in StoredRow
      BY DEF Held, Records
    <3>3. \A q \in Paths : y.base[q] \in StoredRow
      BY <1>1 DEF Running, Records
    <3> HIDE DEF below
    <3> QED
      BY <3>1, <3>2, <3>3 DEF Records
  <2>6. ids \in SUBSET Nat
    <3>1. Unshown(R, B, a.path) \in SUBSET Nat
      BY TidyParts DEF Unshown, Held, Records
    <3> QED
      BY <1>1, <3>1 DEF Running
  <2> HIDE DEF tree, rows, ids
  <2>7. z \in Running /\ z.disk = tree /\ z.cloud = y.cloud
    BY <1>1, <2>3, <2>5, <2>6 DEF Running
  <2> HIDE DEF z
  <2>8. /\ Rescan(z, a) \in Running /\ Rescan(z, a).disk = z.disk
        /\ Rescan(z, a).cloud = z.cloud
    BY <2>7, SmallSteps
  <2> QED
    BY <1>1, <2>1, <2>3, <2>4, <2>7, <2>8
<1> QED
  BY <1>2, <1>3

LEMMA ToldIs ==
  ASSUME NEW tree \in [Paths -> TidyNode], NEW p \in Paths, NEW type \in EventTypes,
         NEW told \in Events
  PROVE  Append(told, Told(type, tree, p)) \in Events
<1>1. tree[p].id \in Nat
  BY TidyParts
<1>2. ParentId(tree, p) \in Nat
  <2>1. CASE Len(p) = 1
    BY <2>1, ReconstructAssumption DEF ParentId
  <2>2. CASE Len(p) # 1
    <3>1. Parent(p) \in Paths
      BY <2>2, Parents
    <3> QED
      BY <2>2, <3>1, TidyParts DEF ParentId
  <2> QED
    BY <2>1, <2>2
<1>3. Told(type, tree, p) \in [type : EventTypes, id : Nat, parent : Nat]
  BY <1>1, <1>2 DEF Told
<1> QED
  BY <1>3, AppendProperties DEF Events

LEMMA MoveRemoteArm ==
  ASSUME NEW x \in Running, NEW a, a.path \in Paths, a.to \in Paths, a.id \in Nat,
         NEW L \in [Paths -> TidyNode], L[a.to].kind = "file"
  PROVE  LET y == MoveRemote(x, a, L)
         IN /\ y \in Running /\ y.disk = x.disk
            /\ \A q \in Paths :
                 y.cloud[q].kind = "file" => q \in Subtree(a.to) \/ x.cloud[q].kind = "file"
            /\ \A q \in Paths :
                 x.cloud[q].kind = "file" => y.cloud[q] = x.cloud[q] \/ q \in Subtree(a.path)
<1> DEFINE y == EnsureRemote(x, Parent(a.to))
           tree == Moved(y.cloud, a.path, a.to)
           told == Append(y.told, Told("updated", tree, a.to))
           z == [y EXCEPT !.cloud = tree, !.told = told]
           f == Forget(z, a.path)
           row == FileRow(L[a.to].hash, a.id, "synced")
           w == Write(f, a.to, row)
<1>1. /\ y \in Running /\ y.disk = x.disk
      /\ \A q \in Paths : /\ y.cloud[q].kind = "file" => x.cloud[q].kind = "file"
                          /\ x.cloud[q].kind = "file" => y.cloud[q] = x.cloud[q]
      /\ ~y.bad => \A q \in Way(Parent(a.to)) : y.cloud[q].kind = "dir"
  <2>1. Parent(a.to) \in Paths \cup {Beginning}
    BY ParentWay
  <2>2. /\ y \in Running /\ y.disk = x.disk /\ y.base = x.base
        /\ ~y.bad => ~x.bad /\ \A q \in Way(Parent(a.to)) : y.cloud[q].kind = "dir"
        /\ \A q \in Paths :
             y.cloud[q] = x.cloud[q]
               \/ (q \in Way(Parent(a.to)) /\ x.cloud[q].kind = "none" /\ y.cloud[q].kind = "dir")
    BY <2>1, EnsuringRemote
  <2> HIDE DEF y
  <2> QED
    BY <2>2
<1>2. CASE \/ y.bad \/ y.cloud[a.path].kind = "none"
           \/ y.cloud[a.to].kind # "none" \/ ~Fits(y.cloud, a.path, a.to)
  <2>1. MoveRemote(x, a, L) = Bad(y)
    BY <1>2 DEF MoveRemote
  <2> HIDE DEF y
  <2> QED
    BY <1>1, <2>1, SmallSteps
<1>3. CASE ~(\/ y.bad \/ y.cloud[a.path].kind = "none"
             \/ y.cloud[a.to].kind # "none" \/ ~Fits(y.cloud, a.path, a.to))
  <2>1. MoveRemote(x, a, L) = w
    BY <1>3 DEF MoveRemote
  <2> HIDE DEF y
  <2>2. InFolder(y.cloud, a.to) /\ Fits(y.cloud, a.path, a.to) /\ y.cloud \in Folder
    BY <1>1, <1>3, ParentWay DEF Running
  <2>3. /\ tree \in Folder
        /\ \A r \in Paths :
             /\ tree[r].kind = "file" /\ r \notin Subtree(a.to) => y.cloud[r].kind = "file"
             /\ r \notin Subtree(a.path) /\ r \notin Subtree(a.to) => tree[r] = y.cloud[r]
    <3>1. \A d \in Folder : Fits(d, a.path, a.to) /\ InFolder(d, a.to) =>
            LET new == Moved(d, a.path, a.to)
            IN /\ new \in Folder
               /\ \A r \in Paths :
                    /\ new[r].kind = "file" /\ r \notin Subtree(a.to) => d[r].kind = "file"
                    /\ r \notin Subtree(a.path) /\ r \notin Subtree(a.to) => new[r] = d[r]
      BY MovingKeepsFolder
    <3> QED
      BY <2>2, <3>1
  <2> HIDE DEF tree
  <2>9. \A r \in Paths : y.cloud[r].kind = "file" => r \notin Subtree(a.to)
    <3> SUFFICES ASSUME NEW r \in Paths, y.cloud[r].kind = "file", r \in Subtree(a.to)
                 PROVE  FALSE
      OBVIOUS
    <3>1. r # a.to
      BY <1>3
    <3>2. Below(a.to, r)
      BY <3>1, SubtreeIs
    <3>3. Len(r) = 2 /\ Parent(r) = a.to
      BY <3>2, Parents
    <3>4. \A d \in Folder : d[r].kind # "none" => d[a.to].kind = "dir"
      BY <3>3, FolderIs DEF Folder
    <3> QED
      BY <1>3, <2>2, <3>4
  <2>4. told \in Events
    BY <1>1, <2>3, ToldIs DEF Running, Folder, EventTypes
  <2> HIDE DEF told
  <2>5. z \in Running /\ z.disk = y.disk /\ z.cloud = tree
    BY <1>1, <2>3, <2>4 DEF Running
  <2> HIDE DEF z
  <2>6. f \in Running /\ f.disk = z.disk /\ f.cloud = z.cloud
    BY <2>5, TidyThings, Writing
  <2>7. row \in StoredRow
    <3>1. L[a.to].hash \in Nat \ {0} /\ "synced" \in Status \ {"modified"}
      BY TidyParts DEF Status
    <3> QED
      BY <3>1, TidyThings
  <2> HIDE DEF f, row
  <2>8. w \in Running /\ w.disk = f.disk /\ w.cloud = f.cloud
    BY <2>6, <2>7, Writing
  <2> HIDE DEF w
  <2> QED
    BY <1>1, <2>1, <2>3, <2>5, <2>6, <2>8, <2>9
<1> QED
  BY <1>2, <1>3

LEMMA AutoLinkArm ==
  ASSUME NEW x \in Running, NEW a, a.path \in Paths, a.id \in Nat,
         NEW L \in [Paths -> TidyNode], NEW R \in [Paths -> TidyNode], NEW B \in Records,
         a.kind = "dir" \/ L[a.path].kind = "file"
  PROVE  LET y == AutoLink(x, a, L, R, B)
         IN y \in Running /\ y.disk = x.disk /\ y.cloud = x.cloud
<1>1. CASE a.kind = "dir"
  <2> DEFINE ids == IF B[a.path].id \in {0, a.id} THEN x.untold
                    ELSE x.untold \cup Unshown(R, B, a.path)
             z == [x EXCEPT !.untold = ids]
             w == Write(z, a.path, DirRow(a.id))
  <2>1. AutoLink(x, a, L, R, B) = w
    BY <1>1 DEF AutoLink
  <2>2. ids \in SUBSET Nat
    BY TidyParts DEF Unshown, Held, Records, Running
  <2> HIDE DEF ids
  <2>3. z \in Running /\ z.disk = x.disk /\ z.cloud = x.cloud
    BY <2>2 DEF Running
  <2> HIDE DEF z
  <2>4. w \in Running /\ w.disk = z.disk /\ w.cloud = z.cloud
    BY <2>3, TidyThings, Writing
  <2> QED
    BY <2>1, <2>3, <2>4
<1>2. CASE a.kind # "dir"
  <2> DEFINE row == FileRow(L[a.path].hash, RemoteId(R[a.path], B[a.path]), "synced")
  <2>1. AutoLink(x, a, L, R, B) = Write(x, a.path, row)
    BY <1>2 DEF AutoLink
  <2>2. row \in StoredRow
    <3>1. L[a.path].hash \in Nat \ {0} /\ "synced" \in Status \ {"modified"}
      BY <1>2, TidyParts DEF Status
    <3>2. RemoteId(R[a.path], B[a.path]) \in Nat
      BY TidyParts DEF RemoteId, Records
    <3> QED
      BY <3>1, <3>2, TidyThings
  <2> HIDE DEF row
  <2> QED
    BY <2>1, <2>2, Writing
<1> QED
  BY <1>1, <1>2

LEMMA RemoteDeleteArm ==
  ASSUME NEW x \in Running, NEW a, a.path \in Paths
  PROVE  LET y == RemoteDelete(x, a)
         IN /\ y \in Running /\ y.disk = x.disk
            /\ \A q \in Paths : /\ y.cloud[q].kind = "file" => x.cloud[q].kind = "file"
                                /\ q \notin Subtree(a.path) => y.cloud[q] = x.cloud[q]
<1> DEFINE p == a.path
           tree == Without(x.cloud, p)
           told == Append(x.told, Told("removed", x.cloud, p))
           z == [x EXCEPT !.cloud = tree, !.told = told]
<1>1. CASE x.cloud[p].kind = "none" \/ (a.kind = "dir" /\ a.id = 0)
  BY <1>1, SmallSteps DEF RemoteDelete
<1>2. CASE ~(x.cloud[p].kind = "none" \/ (a.kind = "dir" /\ a.id = 0))
  <2>1. RemoteDelete(x, a) = Forget(z, p)
    BY <1>2 DEF RemoteDelete
  <2>2. /\ tree \in Folder
        /\ \A q \in Paths : /\ tree[q].kind = "file" => x.cloud[q].kind = "file"
                            /\ q \notin Subtree(p) => tree[q] = x.cloud[q]
    BY WithoutKeepsFolder DEF Running, NoNode, Subtree
  <2>3. told \in Events
    BY ToldIs DEF Running, Folder, EventTypes
  <2> HIDE DEF tree, told
  <2>4. z \in Running /\ z.disk = x.disk /\ z.cloud = tree
    BY <2>2, <2>3 DEF Running
  <2> HIDE DEF z
  <2>5. Forget(z, p) \in Running /\ Forget(z, p).disk = z.disk /\ Forget(z, p).cloud = z.cloud
    BY <2>4, TidyThings, Writing
  <2> QED
    BY <2>1, <2>2, <2>4, <2>5
<1> QED
  BY <1>1, <1>2

LEMMA LocalDeleteArm ==
  ASSUME NEW x \in Running, NEW p \in Paths
  PROVE  LET y == LocalDelete(x, p)
         IN /\ y \in Running /\ y.cloud = x.cloud
            /\ \A q \in Paths : q # p /\ ~Below(p, q) => y.disk[q] = x.disk[q]
<1> DEFINE tree == Without(x.disk, p)
           z == [x EXCEPT !.disk = tree]
<1>1. LocalDelete(x, p) = Forget(z, p)
  BY DEF LocalDelete
<1>2. /\ tree \in Folder
      /\ \A q \in Paths : q # p /\ ~Below(p, q) => tree[q] = x.disk[q]
  BY WithoutKeepsFolder DEF Running
<1> HIDE DEF tree
<1>3. z \in Running /\ z.disk = tree /\ z.cloud = x.cloud
  BY <1>2 DEF Running
<1> HIDE DEF z
<1>4. Forget(z, p) \in Running /\ Forget(z, p).disk = z.disk /\ Forget(z, p).cloud = z.cloud
  BY <1>3, TidyThings, Writing
<1> QED
  BY <1>1, <1>2, <1>3, <1>4

-----------------------------------------------------------------------------
(* What the arms rely on of the action they carry out.                     *)
Orderly(a, L) ==
  /\ a.path \in Paths /\ a.id \in Nat
  /\ a.do \in {"move_local", "move_remote"} => a.to \in Paths
  /\ a.do \in {"upload", "conflict", "conflict_local"} => L[a.path].kind = "file"
  /\ a.do = "auto_link" => a.kind = "dir" \/ L[a.path].kind = "file"
  /\ a.do = "move_remote" => L[a.to].kind = "file"

(* Which local files an action may touch, which remote ones it makes and   *)
(* which it replaces, moves or removes.                                    *)
Touches(x, a, y, q) ==
  \/ a.do = "download" /\ q = a.path /\ x.cloud[q].kind = "file"
  \/ a.do = "move_local" /\ a.kind = "file" /\ q \in {a.path, a.to}
  \/ /\ a.do = "move_local" /\ a.kind # "file" /\ q \in Subtree(a.path)
     /\ Rekey(q, a.path, a.to) \in Paths
     /\ y.disk[Rekey(q, a.path, a.to)] = x.disk[q]
  \/ a.do = "local_delete" /\ (q = a.path \/ Below(a.path, q))
Makes(a, q) ==
  \/ a.do = "upload" /\ q = a.path
  \/ a.do = "move_remote" /\ q \in Subtree(a.to)
Takes(a, q) ==
  \/ a.do = "upload" /\ q = a.path
  \/ a.do \in {"move_remote", "remote_delete"} /\ q \in Subtree(a.path)

LEMMA PerformEffect ==
  ASSUME NEW x \in Running, NEW a, NEW plannedDirs,
         NEW L \in [Paths -> TidyNode], NEW R \in [Paths -> TidyNode], NEW B \in Records,
         Orderly(a, L)
  PROVE  LET y == Perform(x, a, L, R, B, plannedDirs)
         IN /\ y \in Running
            /\ \A q \in Paths :
                 x.disk[q].kind = "file" => y.disk[q] = x.disk[q] \/ Touches(x, a, y, q)
            /\ \A q \in Paths :
                 y.cloud[q].kind = "file" => x.cloud[q].kind = "file" \/ Makes(a, q)
            /\ \A q \in Paths :
                 x.cloud[q].kind = "file" => y.cloud[q] = x.cloud[q] \/ Takes(a, q)
<1> DEFINE y == Perform(x, a, L, R, B, plannedDirs)
           Effect(v) ==
             /\ v \in Running
             /\ \A q \in Paths :
                  x.disk[q].kind = "file" => v.disk[q] = x.disk[q] \/ Touches(x, a, v, q)
             /\ \A q \in Paths :
                  v.cloud[q].kind = "file" => x.cloud[q].kind = "file" \/ Makes(a, q)
             /\ \A q \in Paths :
                  x.cloud[q].kind = "file" => v.cloud[q] = x.cloud[q] \/ Takes(a, q)
<1>1. CASE a.do = "upload"
  <2>1. y = Upload(x, a.path, L, R, B, plannedDirs)
    BY <1>1 DEF Perform
  <2>2. a.path \in Paths /\ L[a.path].kind = "file"
    BY <1>1 DEF Orderly
  <2> QED
    <3> HIDE DEF y
    <3>1. /\ y \in Running /\ y.disk = x.disk
          /\ \A q \in Paths : q # a.path =>
               /\ y.cloud[q].kind = "file" => x.cloud[q].kind = "file"
               /\ x.cloud[q].kind = "file" => y.cloud[q] = x.cloud[q]
      BY <2>1, <2>2, UploadArm
    <3>2. Effect(y)
      BY <1>1, <3>1 DEF Makes, Takes
    <3> QED
      BY <3>2 DEF y
<1>2. CASE a.do = "download"
  <2>1. y = Download(x, a.path, R) /\ a.path \in Paths
    BY <1>2 DEF Perform, Orderly
  <2> QED
    BY <1>2, <2>1, DownloadArm DEF Touches
<1>3. CASE a.do \in {"conflict", "conflict_local"}
  <2>1. y = KeepBoth(x, a.path, a.do, L, R, B)
    BY <1>3 DEF Perform
  <2>2. a.path \in Paths /\ L[a.path].kind = "file"
    BY <1>3 DEF Orderly
  <2> QED
    BY <1>3, <2>1, <2>2, KeepBothArm
<1>4. CASE a.do = "create_remote_dir"
  <2>1. y = CreateRemoteDirectory(x, a.path, a.id, B) /\ a.path \in Paths /\ a.id \in Nat
    BY <1>4 DEF Perform, Orderly
  <2> QED
    BY <2>1, CreateRemoteArm
<1>5. CASE a.do = "create_local_dir"
  <2>1. y = CreateLocalDirectory(x, a.path, a.id) /\ a.path \in Paths /\ a.id \in Nat
    BY <1>5 DEF Perform, Orderly
  <2> QED
    BY <2>1, CreateLocalArm
<1>6. CASE a.do = "move_local" /\ a.kind = "file"
  <2>1. /\ y = MoveLocalFile(x, a, R)
        /\ a.path \in Paths /\ a.to \in Paths /\ a.id \in Nat
    BY <1>6 DEF Perform, Orderly
  <2> QED
    BY <1>6, <2>1, MoveLocalFileArm DEF Touches
<1>7. CASE a.do = "move_local" /\ a.kind # "file"
  <2>1. /\ y = MoveLocalDir(x, a, R, B)
        /\ a.path \in Paths /\ a.to \in Paths /\ a.id \in Nat
    BY <1>7 DEF Perform, Orderly
  <2> QED
    BY <1>7, <2>1, MoveLocalDirArm DEF Touches
<1>8. CASE a.do = "move_remote"
  <2>1. /\ y = MoveRemote(x, a, L)
        /\ a.path \in Paths /\ a.to \in Paths /\ a.id \in Nat /\ L[a.to].kind = "file"
    BY <1>8 DEF Perform, Orderly
  <2> QED
    BY <1>8, <2>1, MoveRemoteArm DEF Makes, Takes
<1>9. CASE a.do = "auto_link"
  <2>1. /\ y = AutoLink(x, a, L, R, B)
        /\ a.path \in Paths /\ a.id \in Nat /\ (a.kind = "dir" \/ L[a.path].kind = "file")
    BY <1>9 DEF Perform, Orderly
  <2> QED
    BY <2>1, AutoLinkArm
<1>10. CASE a.do = "remote_delete"
  <2>1. y = RemoteDelete(x, a) /\ a.path \in Paths
    BY <1>10 DEF Perform, Orderly
  <2> QED
    BY <1>10, <2>1, RemoteDeleteArm DEF Takes
<1>11. CASE a.do = "local_delete"
  <2>1. y = LocalDelete(x, a.path) /\ a.path \in Paths
    BY <1>11 DEF Perform, Orderly
  <2> QED
    BY <1>11, <2>1, LocalDeleteArm DEF Touches
<1>12. CASE a.do = "purge"
  <2>1. y = Write(x, a.path, NoRow)
    BY <1>12 DEF Perform
  <2>2. /\ Write(x, a.path, NoRow) \in Running /\ Write(x, a.path, NoRow).disk = x.disk
        /\ Write(x, a.path, NoRow).cloud = x.cloud
    BY Writing, TidyThings DEF Orderly
  <2> QED
    BY <2>1, <2>2
<1>13. CASE a.do \notin {"upload", "download", "conflict", "conflict_local",
                          "create_remote_dir", "create_local_dir", "move_local",
                          "move_remote", "auto_link", "remote_delete", "local_delete",
                          "purge"}
  <2>1. y = x
    BY <1>13 DEF Perform
  <2> QED
    BY <2>1
<1> QED
  BY <1>1, <1>2, <1>3, <1>4, <1>5, <1>6, <1>7, <1>8, <1>9, <1>10, <1>11, <1>12, <1>13

(* A cut or failing pass: what every action keeps, the whole of it keeps.  *)
LEMMA RunKeeps ==
  ASSUME NEW plan, Len(plan) \in Nat, NEW S, NEW start \in S, NEW approve \in BOOLEAN,
         NEW fault, fault.crash => fault.at \in 1 .. Len(plan),
         NEW L, NEW R, NEW B,
         \A x \in S : \A i \in 1 .. Len(plan) :
           Perform(x, plan[i], L, R, B, PlannedDirs(plan)) \in S,
         \A x \in S : [x EXCEPT !.withheld = TRUE] \in S,
         \A x, y \in S : Failed(x, y) \in S
  PROVE  RunPlan(plan, start, approve, fault, L, R, B) \in S
<1> DEFINE last == IF fault.crash THEN fault.at ELSE Len(plan)
           Step(x, i) ==
             LET y == RunAction(x, plan[i], L, R, B, PlannedDirs(plan))
             IN IF plan[i].do \in Deletes /\ ~approve THEN [x EXCEPT !.withheld = TRUE]
                ELSE IF i = fault.at THEN Failed(x, IF fault.effect THEN y ELSE x) ELSE y
           ran == CHOOSE f : f = [i \in 0 .. last |-> IF i = 0 THEN start ELSE Step(f[i - 1], i)]
<1>1. RunPlan(plan, start, approve, fault, L, R, B) = ran[last]
  BY DEF RunPlan
<1>2. last \in Nat /\ last <= Len(plan)
  OBVIOUS
<1>3. ASSUME NEW x \in S, NEW i \in 1 .. last PROVE Step(x, i) \in S
  <2>1. i \in 1 .. Len(plan)
    BY <1>2
  <2>2. RunAction(x, plan[i], L, R, B, PlannedDirs(plan)) \in S
    BY <2>1 DEF RunAction
  <2> QED
    BY <2>2
<1> HIDE DEF last, Step
<1> DEFINE g == [i \in 1 .. last |-> [x \in S |-> Step(x, i)]]
<1>4. g \in [1 .. last -> [S -> S]]
  BY <1>3
<1>5. PICK h : h \in Chains(last, S, start, g)
  <2> HIDE DEF g
  <2> QED
    BY <1>2, <1>4, Recursion
<1>6. h = [i \in 0 .. last |-> IF i = 0 THEN start ELSE Step(h[i - 1], i)]
  <2>1. ASSUME NEW i \in 0 .. last
        PROVE  h[i] = IF i = 0 THEN start ELSE Step(h[i - 1], i)
    <3>1. CASE i = 0
      BY <1>5, <3>1 DEF Chains
    <3>2. CASE i # 0
      <4>1. i \in 1 .. last /\ i - 1 \in 0 .. last
        BY <1>2, <3>2
      <4>2. h[i - 1] \in S /\ h[i] = g[i][h[i - 1]]
        BY <1>5, <4>1 DEF Chains
      <4> QED
        BY <3>2, <4>1, <4>2
    <3> QED
      BY <3>1, <3>2
  <2> QED
    BY <1>5, <2>1 DEF Chains
<1>7. ran = [i \in 0 .. last |-> IF i = 0 THEN start ELSE Step(ran[i - 1], i)]
  BY <1>6
<1> HIDE DEF ran
<1>8. ran[0] \in S
  BY <1>2, <1>7
<1>9. ASSUME NEW i \in 1 .. last, ran[i - 1] \in S PROVE ran[i] \in S
  <2>1. i \in 0 .. last /\ i # 0
    BY <1>2
  <2>2. ran[i] = Step(ran[i - 1], i)
    BY <1>7, <2>1
  <2> QED
    BY <1>3, <1>9, <2>2
<1>10. ran[last] \in S
  BY <1>2, <1>8, <1>9, LastValue
<1> QED
  BY <1>1, <1>10

-----------------------------------------------------------------------------
(* The plan: every action of it is a move found, whose paths it hides, or  *)
(* what the planner decides for a path that is not hidden.                 *)
MovesOf(L, R, B) == {Transition(L, R, B, p) : p \in Paths} \ {Nothing}

LEMMA MovesAre ==
  ASSUME NEW L, NEW R, NEW B
  PROVE  LET found == Moves(L, R, B)
         IN /\ found.moves \in Seq(MovesOf(L, R, B))
            /\ \A i \in DOMAIN found.moves : Suppressed(B, found.moves[i]) \subseteq found.hidden
<1> DEFINE T == MovesOf(L, R, B)
           S == {v \in [moves : Seq(T), hidden : SUBSET UNION {Suppressed(B, m) : m \in T}] :
                   \A i \in DOMAIN v.moves : Suppressed(B, v.moves[i]) \subseteq v.hidden}
           start == [moves |-> <<>>, hidden |-> {}]
           Step(v, i) ==
             LET move == Transition(L, R, B, Order[i])
             IN IF Order[i] \in v.hidden \/ move = Nothing THEN v
                ELSE [moves |-> Append(v.moves, move),
                      hidden |-> v.hidden \cup Suppressed(B, move)]
           n == Len(Order)
           found == CHOOSE f : f = [i \in 0 .. n |-> IF i = 0 THEN start ELSE Step(f[i - 1], i)]
<1>1. Moves(L, R, B) = found[n]
  BY DEF Moves
<1>2. n \in Nat /\ DOMAIN Order = 1 .. n
  BY PathsTyped
<1>3. start \in S
  OBVIOUS
<1>4. ASSUME NEW v \in S, NEW i \in 1 .. n PROVE Step(v, i) \in S
  <2> DEFINE move == Transition(L, R, B, Order[i])
             w == [moves |-> Append(v.moves, move), hidden |-> v.hidden \cup Suppressed(B, move)]
  <2>1. CASE Order[i] \in v.hidden \/ move = Nothing
    BY <2>1
  <2>2. CASE ~(Order[i] \in v.hidden \/ move = Nothing)
    <3>1. Step(v, i) = w
      BY <2>2
    <3>2. move \in T
      BY <1>2, <2>2 DEF MovesOf, Paths
    <3> HIDE DEF move, T
    <3>3. v.moves \in Seq(T) /\ v.hidden \subseteq UNION {Suppressed(B, m) : m \in T}
      OBVIOUS
    <3>4. /\ w.moves \in Seq(T) /\ Len(w.moves) = Len(v.moves) + 1 /\ Len(v.moves) \in Nat
          /\ w.moves[Len(v.moves) + 1] = move
          /\ \A k \in 1 .. Len(v.moves) : w.moves[k] = v.moves[k]
      BY <3>2, <3>3, AppendProperties, LenProperties
    <3>5. w.hidden \subseteq UNION {Suppressed(B, m) : m \in T}
      BY <3>2, <3>3
    <3>6. ASSUME NEW k \in DOMAIN w.moves PROVE Suppressed(B, w.moves[k]) \subseteq w.hidden
      <4>1. k \in 1 .. Len(v.moves) + 1
        BY <3>4, LenProperties
      <4>2. CASE k = Len(v.moves) + 1
        BY <3>4, <4>2
      <4>3. CASE k # Len(v.moves) + 1
        <5>1. k \in 1 .. Len(v.moves)
          BY <3>4, <4>1, <4>3
        <5>2. k \in DOMAIN v.moves
          BY <3>3, <5>1, LenProperties
        <5> QED
          BY <3>4, <5>1, <5>2
      <4> QED
        BY <4>2, <4>3
    <3> QED
      BY <3>1, <3>4, <3>5, <3>6
  <2> QED
    BY <2>1, <2>2
<1> HIDE DEF S, Step, start, n
<1> DEFINE g == [i \in 1 .. n |-> [v \in S |-> Step(v, i)]]
<1>5. PICK h : h \in Chains(n, S, start, g)
  <2>1. g \in [1 .. n -> [S -> S]]
    BY <1>4
  <2>2. n \in Nat
    BY <1>2
  <2> HIDE DEF g
  <2> QED
    BY <1>3, <2>1, <2>2, Recursion
<1>6. h = [i \in 0 .. n |-> IF i = 0 THEN start ELSE Step(h[i - 1], i)]
  <2>1. ASSUME NEW i \in 0 .. n
        PROVE  h[i] = IF i = 0 THEN start ELSE Step(h[i - 1], i)
    <3>1. CASE i = 0
      BY <1>5, <3>1 DEF Chains
    <3>2. CASE i # 0
      <4>1. i \in 1 .. n /\ i - 1 \in 0 .. n
        BY <1>2, <3>2
      <4>2. h[i - 1] \in S /\ h[i] = g[i][h[i - 1]]
        BY <1>5, <4>1 DEF Chains
      <4> QED
        BY <3>2, <4>1, <4>2
    <3> QED
      BY <3>1, <3>2
  <2> QED
    BY <1>5, <2>1 DEF Chains
<1>7. found = [i \in 0 .. n |-> IF i = 0 THEN start ELSE Step(found[i - 1], i)]
  BY <1>6
<1> HIDE DEF found
<1>8. found[0] \in S
  BY <1>2, <1>3, <1>7
<1>9. ASSUME NEW i \in 1 .. n, found[i - 1] \in S PROVE found[i] \in S
  <2>1. i \in 0 .. n /\ i # 0
    BY <1>2
  <2>2. found[i] = Step(found[i - 1], i)
    BY <1>7, <2>1
  <2> QED
    BY <1>4, <1>9, <2>2
<1>10. found[n] \in S
  BY <1>2, <1>8, <1>9, LastValue
<1> QED
  BY <1>1, <1>10 DEF S

LEMMA ChosenIs ==
  ASSUME NEW s, Len(s) \in Nat, NEW chosen, NEW X,
         \A i \in 1 .. Len(s) : i \in chosen => s[i] \in X
  PROVE  Chosen(s, chosen) \in Seq(X)
<1> DEFINE n == Len(s)
           S == Seq(X)
           start == <<>>
           Step(t, i) == IF i \in chosen THEN Append(t, s[i]) ELSE t
           taken == CHOOSE f : f = [i \in 0 .. n |-> IF i = 0 THEN start ELSE Step(f[i - 1], i)]
<1>1. Chosen(s, chosen) = taken[n]
  BY DEF Chosen
<1>2. n \in Nat
  OBVIOUS
<1>3. start \in S
  OBVIOUS
<1>4. ASSUME NEW t \in S, NEW i \in 1 .. n PROVE Step(t, i) \in S
  BY AppendProperties
<1> HIDE DEF S, Step, start, n
<1> DEFINE g == [i \in 1 .. n |-> [t \in S |-> Step(t, i)]]
<1>5. PICK h : h \in Chains(n, S, start, g)
  <2>1. g \in [1 .. n -> [S -> S]]
    BY <1>4
  <2> HIDE DEF g
  <2> QED
    BY <1>2, <1>3, <2>1, Recursion
<1>6. h = [i \in 0 .. n |-> IF i = 0 THEN start ELSE Step(h[i - 1], i)]
  <2>1. ASSUME NEW i \in 0 .. n
        PROVE  h[i] = IF i = 0 THEN start ELSE Step(h[i - 1], i)
    <3>1. CASE i = 0
      BY <1>5, <3>1 DEF Chains
    <3>2. CASE i # 0
      <4>1. i \in 1 .. n /\ i - 1 \in 0 .. n
        BY <1>2, <3>2
      <4>2. h[i - 1] \in S /\ h[i] = g[i][h[i - 1]]
        BY <1>5, <4>1 DEF Chains
      <4> QED
        BY <3>2, <4>1, <4>2
    <3> QED
      BY <3>1, <3>2
  <2> QED
    BY <1>5, <2>1 DEF Chains
<1>7. taken = [i \in 0 .. n |-> IF i = 0 THEN start ELSE Step(taken[i - 1], i)]
  BY <1>6
<1> HIDE DEF taken
<1>8. taken[0] \in S
  BY <1>2, <1>3, <1>7
<1>9. ASSUME NEW i \in 1 .. n, taken[i - 1] \in S PROVE taken[i] \in S
  <2>1. i \in 0 .. n /\ i # 0
    BY <1>2
  <2>2. taken[i] = Step(taken[i - 1], i)
    BY <1>7, <2>1
  <2> QED
    BY <1>4, <1>9, <2>2
<1>10. taken[n] \in S
  BY <1>2, <1>8, <1>9, LastValue
<1> QED
  BY <1>1, <1>10 DEF S

(* What a pass leaves for the next one, and what it decides of the rest.   *)
Settled(L, R, B) ==
  LET found == Moves(L, R, B) IN found.hidden \cup CarriedAlong(L, B, found.moves)
MovesPlanned(L, R, B) ==
  {a \in MovesOf(L, R, B) :
     /\ Suppressed(B, a) \subseteq Settled(L, R, B)
     /\ a.kind = "dir" =>
          \A p \in Held(L) \ Held(B) : Below(a.path, p) => p \in Settled(L, R, B)}
Decided(L, R, B, p) == PlanEntity(L, R, B, p, Proved(L, R, B, Settled(L, R, B), p))
Decisions(L, R, B) == {Decided(L, R, B, p) : p \in Paths \ Settled(L, R, B)}

LEMMA PlannedIs ==
  ASSUME NEW L, NEW R, NEW B
  PROVE  Planned(L, R, B) \in
           Seq({a \in MovesPlanned(L, R, B) \cup Decisions(L, R, B) : a.do # "none"})
<1> DEFINE found == Moves(L, R, B)
           hidden == Settled(L, R, B)
           entity(p) == IF p \in hidden THEN Nothing ELSE Decided(L, R, B, p)
           rest == [i \in DOMAIN Order |-> entity(Order[i])]
           all == found.moves \o rest
           X == {a \in MovesPlanned(L, R, B) \cup Decisions(L, R, B) : a.do # "none"}
           Y == MovesOf(L, R, B) \cup {entity(p) : p \in Paths}
           chosen == {i \in DOMAIN all : all[i].do # "none" /\ ~Covered(all, all[i])}
<1>1. Planned(L, R, B) = Chosen(all, chosen)
  BY DEF Planned, Settled, Decided
<1>2. /\ found.moves \in Seq(MovesOf(L, R, B))
      /\ \A i \in DOMAIN found.moves : Suppressed(B, found.moves[i]) \subseteq found.hidden
  BY MovesAre
<1>3. ASSUME NEW i \in 1 .. Len(found.moves) PROVE found.moves[i] \in MovesPlanned(L, R, B)
  <2>1. found.moves[i] \in MovesOf(L, R, B) /\ i \in DOMAIN found.moves
    BY <1>2, ElementOfSeq, LenProperties
  <2>2. Suppressed(B, found.moves[i]) \subseteq hidden
    BY <1>2, <2>1 DEF Settled
  <2>3. ASSUME found.moves[i].kind = "dir", NEW p \in Held(L) \ Held(B),
               Below(found.moves[i].path, p)
        PROVE  p \in hidden
    BY <2>1, <2>3 DEF Settled, CarriedAlong
  <2> QED
    BY <2>1, <2>2, <2>3 DEF MovesPlanned
<1>4. rest \in Seq({entity(p) : p \in Paths}) /\ Len(rest) = Len(Order)
      /\ \A i \in 1 .. Len(Order) : rest[i] = entity(Order[i]) /\ Order[i] \in Paths
  <2>1. Len(Order) \in Nat /\ DOMAIN Order = 1 .. Len(Order)
    BY PathsTyped
  <2>2. \A i \in 1 .. Len(Order) : Order[i] \in Paths
    BY <2>1 DEF Paths
  <2> HIDE DEF entity
  <2>3. rest \in [1 .. Len(Order) -> {entity(p) : p \in Paths}]
    BY <2>1, <2>2
  <2> QED
    BY <2>1, <2>2, <2>3
<1>5. ASSUME NEW p \in Paths, entity(p).do # "none" PROVE entity(p) \in X
  BY <1>5 DEF Decisions, Nothing, Action
<1> HIDE DEF found, entity, rest
<1>6. /\ all \in Seq(Y) /\ Len(all) = Len(found.moves) + Len(rest)
      /\ Len(all) \in Nat /\ Len(found.moves) \in Nat /\ Len(rest) \in Nat
      /\ \A i \in 1 .. Len(all) :
           all[i] = IF i <= Len(found.moves) THEN found.moves[i] ELSE rest[i - Len(found.moves)]
  <2>1. found.moves \in Seq(Y) /\ rest \in Seq(Y)
    BY <1>2, <1>4, SeqMonotonic
  <2> HIDE DEF Y
  <2> QED
    BY <2>1, ConcatProperties, LenProperties
<1> HIDE DEF all, Y
<1>7. ASSUME NEW i \in 1 .. Len(all), i \in chosen PROVE all[i] \in X
  <2>1. all[i].do # "none"
    BY <1>7
  <2>2. CASE i <= Len(found.moves)
    <3>1. i \in 1 .. Len(found.moves)
      BY <1>6, <2>2
    <3> QED
      BY <1>3, <1>6, <2>1, <2>2, <3>1
  <2>3. CASE ~(i <= Len(found.moves))
    <3>1. i - Len(found.moves) \in 1 .. Len(Order)
      BY <1>4, <1>6, <2>3
    <3> QED
      BY <1>4, <1>5, <1>6, <2>1, <2>3, <3>1
  <2> QED
    BY <2>2, <2>3
<1> HIDE DEF X, chosen
<1> QED
  BY <1>1, <1>6, <1>7, ChosenIs DEF X

(* What the arms need of a plan, it has.                                   *)
LEMMA MoveShape ==
  ASSUME NEW L, NEW R, NEW B, Trees(L, R, B), NEW a \in MovesOf(L, R, B)
  PROVE  /\ Orderly(a, L)
         /\ a.path \in Paths /\ a.to \in Paths
         /\ a = Transition(L, R, B, a.path) /\ a # Nothing
         /\ a.do \in {"move_local", "move_remote"} /\ a.kind \in {"file", "dir"}
         /\ a.do = "move_remote" => a.kind = "file" /\ L[a.to].kind = "file"
         /\ a.do = "move_local" /\ a.kind = "file" =>
              a.id = R[a.to].id /\ B[a.path].id \in {0, R[a.to].id}
         /\ a.kind = "dir" => a.id = B[a.path].id /\ a.id # 0
<1>1. PICK p \in Paths : a = Transition(L, R, B, p) /\ a # Nothing
  BY DEF MovesOf
<1> DEFINE there == RemoteFileTargets(R, L, B, p)
           here == LocalFileTargets(R, L, B, p)
           folder == RemoteDirTargets(R, L, B, p)
<1>2. a.path = p /\ a.to \in Paths /\ (a.do = "move_remote" => L[a.to].kind = "file")
  BY <1>1, MovesGoToFreePlaces
<1>3. \A S : Unique(S) => Only(S) \in S
  BY DEF Unique, Only
<1>4. R[p].id \in Nat /\ B[p].id \in Nat /\ R[a.to].id \in Nat
  BY <1>2, TidyParts DEF Trees
<1>5. CASE /\ B[p].kind = "file" /\ Untouched(L[p], B[p])
           /\ R[p].kind = "none" /\ Unique(there)
  <2>1. a = Move("move_local", p, Only(there), "file", R[Only(there)].id)
    BY <1>1, <1>5 DEF Transition, Untouched
  <2>2. /\ a.do = "move_local" /\ a.kind = "file" /\ a.to = Only(there)
        /\ a.id = R[a.to].id
    BY <2>1 DEF Move
  <2>3. B[p].id \in {0, R[a.to].id}
    BY <1>3, <1>5, <2>2 DEF RemoteFileTargets
  <2> QED
    BY <1>1, <1>2, <1>4, <2>2, <2>3 DEF Orderly
<1>6. CASE /\ B[p].kind = "file" /\ L[p].kind = "none"
           /\ Untouched(R[p], B[p]) /\ Unique(here)
  <2>1. a = Move("move_remote", p, Only(here), "file", R[p].id)
    BY <1>1, <1>6 DEF Transition, Untouched
  <2>2. a.do = "move_remote" /\ a.kind = "file" /\ a.id = R[p].id
    BY <2>1 DEF Move
  <2> QED
    BY <1>1, <1>2, <1>4, <2>2 DEF Orderly
<1>7. CASE /\ B[p].kind = "dir" /\ B[p].id # 0 /\ L[p].kind = "dir"
           /\ R[p].kind = "none" /\ Unique(folder)
  <2>1. a = Move("move_local", p, Only(folder), "dir", B[p].id)
    BY <1>1, <1>7 DEF Transition, Untouched
  <2>2. a.do = "move_local" /\ a.kind = "dir" /\ a.id = B[p].id
    BY <2>1 DEF Move
  <2> QED
    BY <1>1, <1>2, <1>4, <1>7, <2>2 DEF Orderly
<1>8. CASE ~(\/ /\ B[p].kind = "file" /\ Untouched(L[p], B[p])
                /\ R[p].kind = "none" /\ Unique(there)
             \/ /\ B[p].kind = "file" /\ L[p].kind = "none"
                /\ Untouched(R[p], B[p]) /\ Unique(here)
             \/ /\ B[p].kind = "dir" /\ B[p].id # 0 /\ L[p].kind = "dir"
                /\ R[p].kind = "none" /\ Unique(folder))
  BY <1>1, <1>8 DEF Transition
<1> QED
  BY <1>5, <1>6, <1>7, <1>8

LEMMA FileDecision ==
  ASSUME NEW L, NEW R, NEW B, Trees(L, R, B), NEW p \in Paths, NEW row \in {NoRow, B[p]},
         row.kind # "dir"
  PROVE  LET a == PlanFileAt(L, R, row, p)
         IN /\ a.path = p /\ a.id \in Nat /\ a.do \in Actions
            /\ a.do \in {"upload", "conflict", "conflict_local", "auto_link"} =>
                 L[p].kind = "file"
            /\ a.do = "download" => R[p].kind = "file" /\ L[p].hash \in {0, row.hash}
            /\ a.do = "upload" => R[p].hash \in {0, row.hash} \/ row.status = "modified"
<1> DEFINE a == PlanFileAt(L, R, row, p)
<1>1. a.path = p /\ a.id = RemoteId(R[p], row)
  BY DEF PlanFileAt, Action
<1>2. R[p].id \in Nat /\ row.id \in Nat
  BY AsFilePlan, TidyParts
<1>3. a.id \in Nat
  BY <1>1, <1>2 DEF RemoteId
<1>4. /\ L[p].kind = "file" <=> L[p].hash # 0
      /\ R[p].kind = "file" <=> R[p].hash # 0
  BY AsFilePlan, TidyParts
<1>5. /\ a.do \in Actions
      /\ a.do \in {"upload", "conflict", "conflict_local", "auto_link"} => L[p].hash # 0
      /\ a.do = "download" => R[p].hash # 0 /\ L[p].hash \in {0, row.hash}
      /\ a.do = "upload" => R[p].hash \in {0, row.hash} \/ row.status = "modified"
  <2>1. AsRecord(row).status = row.status
    BY DEF AsRecord
  <2> QED
    BY <2>1, AsFilePlan, PlanLegal
<1> QED
  BY <1>1, <1>3, <1>4, <1>5

LEMMA DecisionShape ==
  ASSUME NEW L, NEW R, NEW B, Trees(L, R, B), NEW p \in Paths, NEW proved \in BOOLEAN,
         NEW a, a = PlanEntity(L, R, B, p, proved), a.do # "none"
  PROVE  /\ Orderly(a, L)
         /\ a.path = p /\ a.do \notin {"move_local", "move_remote"}
         /\ a.do \in {"upload", "conflict", "conflict_local"} => L[p].kind = "file"
         /\ a.do = "download" => R[p].kind = "file" /\ L[p].hash \in {0, B[p].hash}
         /\ a.do = "upload" => R[p].hash \in {0, B[p].hash} \/ B[p].status = "modified"
<1> DEFINE Shape == /\ a.path = p /\ a.id \in Nat
                    /\ a.do \notin {"move_local", "move_remote"}
                    /\ a.do \in {"upload", "conflict", "conflict_local"} => L[p].kind = "file"
                    /\ a.do = "auto_link" => a.kind = "dir" \/ L[p].kind = "file"
                    /\ a.do = "download" => R[p].kind = "file" /\ L[p].hash \in {0, B[p].hash}
                    /\ a.do = "upload" =>
                         R[p].hash \in {0, B[p].hash} \/ B[p].status = "modified"
<1>1. L[p].id \in Nat /\ R[p].id \in Nat /\ B[p].id \in Nat
  BY TidyParts DEF Trees
<1>2. \A row \in {NoRow, B[p]} :
        row.kind # "dir" /\ a = PlanFileAt(L, R, row, p) => Shape
  <2> SUFFICES ASSUME NEW row \in {NoRow, B[p]}, row.kind # "dir", a = PlanFileAt(L, R, row, p)
               PROVE  Shape
    OBVIOUS
  <2>1. row.hash \in {0, B[p].hash} /\ row.status \in {"none", B[p].status}
    BY DEF NoRow
  <2>2. \A act \in Actions : act \notin {"move_local", "move_remote"}
    BY DEF Actions
  <2> QED
    BY <2>1, <2>2, FileDecision
<1>3. CASE Reconciled(L, R, B, p)
  BY <1>3 DEF PlanEntity, Nothing, Action
<1>4. CASE ~Reconciled(L, R, B, p) /\ Clash(L, R, p)
  <2>1. a = Action("type_conflict", p, L[p].kind, R[p].id)
    BY <1>4 DEF PlanEntity
  <2> QED
    BY <1>1, <2>1 DEF Action, Orderly
<1>5. CASE /\ ~Reconciled(L, R, B, p) /\ ~Clash(L, R, p)
           /\ B[p].kind = "none" \/ StaleKind(L, R, B, p)
  <2>1. a = PlanFresh(L, R, p)
    BY <1>5 DEF PlanEntity
  <2>2. CASE "file" \in {L[p].kind, R[p].kind}
    <3>1. a = PlanFileAt(L, R, NoRow, p) /\ NoRow.kind # "dir"
      BY <2>1, <2>2 DEF PlanFresh, NoRow
    <3> QED
      BY <1>2, <3>1 DEF Orderly
  <2>3. CASE "file" \notin {L[p].kind, R[p].kind}
    <3>1. \E do \in {"auto_link", "create_remote_dir", "create_local_dir", "none"}, id \in {0, R[p].id} :
            a = Action(do, p, "dir", id) \/ a = Nothing
      BY <2>1, <2>3 DEF PlanFresh
    <3>2. PICK do \in {"auto_link", "create_remote_dir", "create_local_dir", "none"}, id \in {0, R[p].id} :
            a = Action(do, p, "dir", id) \/ a = Nothing
      BY <3>1
    <3> QED
      BY <1>1, <3>2 DEF Action, Nothing, Orderly
  <2> QED
    BY <2>2, <2>3
<1>6. CASE /\ ~Reconciled(L, R, B, p) /\ ~Clash(L, R, p)
           /\ ~(B[p].kind = "none" \/ StaleKind(L, R, B, p))
  <2>1. CASE B[p].kind = "dir"
    <3>1. a = PlanDir(L, R, B, p, proved)
      BY <1>6, <2>1 DEF PlanEntity
    <3>2. PICK do \in {"auto_link", "create_remote_dir", "create_local_dir", "local_delete",
                       "remote_delete", "purge"}, id \in {R[p].id, B[p].id} :
            a = Action(do, p, "dir", id) \/ a = Nothing
      BY <3>1 DEF PlanDir
    <3> QED
      BY <1>1, <3>2 DEF Action, Nothing, Orderly
  <2>2. CASE B[p].kind # "dir"
    <3>1. a = PlanFileAt(L, R, B[p], p)
      BY <1>6, <2>2 DEF PlanEntity
    <3> QED
      BY <1>2, <2>2, <3>1 DEF Orderly
  <2> QED
    BY <2>1, <2>2
<1> QED
  BY <1>3, <1>4, <1>5, <1>6

LEMMA PlanShape ==
  ASSUME NEW L, NEW R, NEW B, Trees(L, R, B)
  PROVE  LET plan == Planned(L, R, B)
         IN /\ Len(plan) \in Nat /\ DOMAIN plan = 1 .. Len(plan)
            /\ \A i \in 1 .. Len(plan) :
                 /\ Orderly(plan[i], L)
                 /\ \/ plan[i] \in MovesPlanned(L, R, B)
                    \/ \E p \in Paths \ Settled(L, R, B) :
                         plan[i] = Decided(L, R, B, p) /\ plan[i].do # "none"
<1> DEFINE plan == Planned(L, R, B)
           X == {a \in MovesPlanned(L, R, B) \cup Decisions(L, R, B) : a.do # "none"}
<1>1. plan \in Seq(X)
  BY PlannedIs
<1>2. ASSUME NEW a \in X
      PROVE  /\ Orderly(a, L)
             /\ \/ a \in MovesPlanned(L, R, B)
                \/ \E p \in Paths \ Settled(L, R, B) : a = Decided(L, R, B, p) /\ a.do # "none"
  <2>1. CASE a \in MovesPlanned(L, R, B)
    BY <2>1, MoveShape DEF MovesPlanned
  <2>2. CASE a \in Decisions(L, R, B)
    <3>1. PICK p \in Paths \ Settled(L, R, B) : a = Decided(L, R, B, p)
      BY <2>2 DEF Decisions
    <3>2. Proved(L, R, B, Settled(L, R, B), p) \in BOOLEAN
      BY DEF Proved
    <3>3. Orderly(a, L)
      BY <1>2, <3>1, <3>2, DecisionShape DEF Decided
    <3> QED
      BY <1>2, <3>1, <3>3
  <2> QED
    BY <2>1, <2>2
<1> HIDE DEF plan, X
<1>3. Len(plan) \in Nat /\ DOMAIN plan = 1 .. Len(plan)
  BY <1>1, LenProperties
<1>4. ASSUME NEW i \in 1 .. Len(plan) PROVE plan[i] \in X
  BY <1>1, ElementOfSeq
<1> QED
  BY <1>2, <1>3, <1>4 DEF plan

-----------------------------------------------------------------------------
(* The rebuilt remote (reconstruct_remote): at every path it holds nothing,*)
(* what the record tells, or what a listing shows, whatever the events.    *)
Given(B, V) ==
  {t \in [Paths -> TidyNode] : \A q \in Paths : t[q] \in {NoNode, EntityOfRow(B[q]), V[q]}}
Waiting == [id : Nat, parent : Nat, listed : Paths \cup {Beginning}]
Folds(B, V) ==
  [tree : Given(B, V), at : SUBSET (Nat \X Paths), taken : SUBSET Nat,
   behind : SUBSET Waiting, deferred : SUBSET {"removal", "placement"}, walk : BOOLEAN]
OneEvent == [type : EventTypes, id : Nat, parent : Nat]

LEMMA Dropping ==
  ASSUME NEW nodes, NEW ids
  PROVE  DropBehindBeneath(nodes, ids) \subseteq nodes
BY DEF DropBehindBeneath

LEMMA FoldSmall ==
  ASSUME NEW B, NEW V, NEW s \in Folds(B, V), NEW event \in OneEvent,
         NEW listed \in Paths \cup {Beginning}, NEW wasBehind \in BOOLEAN
  PROVE  /\ Walk(s) \in Folds(B, V)
         /\ Defer(s, event, wasBehind) \in Folds(B, V)
         /\ Wait(s, event, listed) \in Folds(B, V)
<1>1. Walk(s) \in Folds(B, V)
  BY DEF Walk, Folds
<1>2. Defer(s, event, wasBehind) \in Folds(B, V)
  <2> DEFINE kept == IF wasBehind THEN DropBehindBeneath(s.behind, {event.id}) ELSE s.behind
             left == s.deferred \cup {"placement"}
  <2>1. Defer(s, event, wasBehind) = [s EXCEPT !.deferred = left, !.behind = kept]
    BY DEF Defer
  <2>2. kept \in SUBSET Waiting /\ left \in SUBSET {"removal", "placement"}
    BY Dropping DEF Folds
  <2> HIDE DEF kept, left
  <2> QED
    BY <2>1, <2>2 DEF Folds
<1>3. Wait(s, event, listed) \in Folds(B, V)
  <2> DEFINE more == s.behind \cup {[id |-> event.id, parent |-> event.parent, listed |-> listed]}
  <2>1. Wait(s, event, listed) = [s EXCEPT !.behind = more]
    BY DEF Wait
  <2>2. more \in SUBSET Waiting
    BY DEF Folds, Waiting, OneEvent
  <2> HIDE DEF more
  <2> QED
    BY <2>1, <2>2 DEF Folds
<1> QED
  BY <1>1, <1>2, <1>3

LEMMA FoldRemove ==
  ASSUME NEW B, NEW V, NEW s \in Folds(B, V), NEW id \in Nat, NEW wasBehind \in BOOLEAN
  PROVE  /\ \A p \in Paths : RemoveSubtree(s, p, id) \in Folds(B, V)
         /\ Remove(s, id, wasBehind) \in Folds(B, V)
<1>1. ASSUME NEW t \in Folds(B, V), NEW p \in Paths PROVE RemoveSubtree(t, p, id) \in Folds(B, V)
  <2> DEFINE below == {entry \in t.at : Below(p, entry[2])}
             taken == t.taken \cup {id} \cup {entry[1] : entry \in below}
             tree == [q \in Paths |-> IF q = p \/ Below(p, q) THEN NoNode ELSE t.tree[q]]
             at == t.at \ (below \cup {<<id, p>>})
             kept == DropBehindBeneath(t.behind, taken)
  <2>1. RemoveSubtree(t, p, id)
          = [t EXCEPT !.tree = tree, !.at = at, !.taken = taken, !.behind = kept]
    BY DEF RemoveSubtree
  <2>2. tree \in Given(B, V)
    BY TidyThings DEF Folds, Given
  <2>3. at \in SUBSET (Nat \X Paths) /\ taken \in SUBSET Nat
    BY DEF Folds
  <2>4. kept \in SUBSET Waiting
    BY Dropping DEF Folds
  <2> HIDE DEF tree, at, taken, kept
  <2> QED
    BY <2>1, <2>2, <2>3, <2>4 DEF Folds
<1>2. Remove(s, id, wasBehind) \in Folds(B, V)
  <2> DEFINE kept == DropBehindBeneath(s.behind, {id})
             left == IF wasBehind THEN [s EXCEPT !.behind = kept] ELSE s
  <2>1. left \in Folds(B, V)
    <3>1. kept \in SUBSET Waiting
      BY Dropping DEF Folds
    <3> HIDE DEF kept
    <3> QED
      BY <3>1 DEF Folds
  <2>2. Remove(s, id, wasBehind) =
          IF Tracks(left, id)
          THEN RemoveSubtree(left, CHOOSE p \in PlacesOf(left, id) : TRUE, id)
          ELSE [left EXCEPT !.deferred = @ \cup {"removal"}]
    BY DEF Remove
  <2> HIDE DEF left
  <2>3. CASE Tracks(left, id)
    <3>1. (CHOOSE p \in PlacesOf(left, id) : TRUE) \in Paths
      BY <2>3 DEF Tracks, PlacesOf
    <3> QED
      BY <1>1, <2>1, <2>2, <2>3, <3>1
  <2>4. CASE ~Tracks(left, id)
    <3>1. [left EXCEPT !.deferred = @ \cup {"removal"}] \in Folds(B, V)
      BY <2>1 DEF Folds
    <3> QED
      BY <2>2, <2>4, <3>1
  <2> QED
    BY <2>3, <2>4
<1> QED
  BY <1>1, <1>2

LEMMA FoldLookUp ==
  ASSUME NEW B, NEW V \in [Paths -> TidyNode], NEW s \in Folds(B, V), NEW event \in OneEvent,
         NEW d \in Paths \cup {Beginning}
  PROVE  LookUp(s, event, V, d) \in Folds(B, V)
<1> DEFINE found == InListing(V, d, event.id)
<1>0. event.id \in Nat /\ event.parent \in Nat
  BY DEF OneEvent
<1>1. CASE ~CanList(V, d)
  BY <1>1, FoldSmall DEF LookUp
<1>2. CASE CanList(V, d) /\ found = {}
  <2>1. LookUp(s, event, V, d) = Missing(s, event, d)
    BY <1>2 DEF LookUp
  <2>2. CASE event.type = "created" \/ ~Tracks(s, event.id)
    <3>1. Missing(s, event, d) = Wait(s, event, d)
      BY <2>2 DEF Missing
    <3> QED
      BY <2>1, <3>1, FoldSmall
  <2>3. CASE ~(event.type = "created" \/ ~Tracks(s, event.id))
    <3> DEFINE p == CHOOSE p \in PlacesOf(s, event.id) : TRUE
    <3>1. Missing(s, event, d) = RemoveSubtree(s, p, event.id)
      BY <2>3 DEF Missing
    <3>2. p \in Paths
      BY <2>3 DEF Tracks, PlacesOf
    <3> QED
      BY <1>0, <2>1, <3>1, <3>2, FoldRemove
  <2> QED
    BY <2>2, <2>3
<1>3. CASE CanList(V, d) /\ found # {}
  <2> DEFINE q == CHOOSE q \in found : TRUE
             old == PlacesOf(s, event.id)
             tree == [p \in Paths |-> IF p = q THEN V[q]
                                      ELSE IF p \in old THEN NoNode ELSE s.tree[p]]
             at == {e \in s.at : e[1] # event.id} \cup {<<event.id, q>>}
  <2>1. q \in Paths
    BY <1>3 DEF InListing
  <2>2. LookUp(s, event, V, d) = Place(s, event, q, V[q])
    BY <1>3 DEF LookUp
  <2> HIDE DEF q
  <2>3. Place(s, event, q, V[q]) \in {Walk(s), [s EXCEPT !.tree = tree, !.at = at]}
    BY DEF Place
  <2>4. tree \in Given(B, V)
    BY <2>1, TidyThings DEF Folds, Given
  <2>5. at \in SUBSET (Nat \X Paths)
    BY <1>0, <2>1 DEF Folds
  <2> HIDE DEF tree, at
  <2>6. [s EXCEPT !.tree = tree, !.at = at] \in Folds(B, V)
    BY <2>4, <2>5 DEF Folds
  <2>7. Walk(s) \in Folds(B, V)
    BY DEF Walk, Folds
  <2> QED
    BY <2>2, <2>3, <2>6, <2>7
<1> QED
  BY <1>1, <1>2, <1>3

LEMMA FoldApply ==
  ASSUME NEW B, NEW V \in [Paths -> TidyNode], NEW s \in Folds(B, V), NEW event \in OneEvent
  PROVE  Apply(s, event, B, V) \in Folds(B, V)
<1> DEFINE wasBehind == \E b \in s.behind : b.id = event.id
           kept == {b \in s.behind : b.id # event.id}
           t == [s EXCEPT !.behind = kept]
<1>0. event.id \in Nat /\ Beginning \in Paths \cup {Beginning} /\ wasBehind \in BOOLEAN
  BY DEF OneEvent
<1>1. t \in Folds(B, V)
  <2>1. kept \in SUBSET Waiting
    BY DEF Folds
  <2> HIDE DEF kept
  <2> QED
    BY <2>1 DEF Folds
<1>2. Apply(s, event, B, V) =
        IF s.walk THEN s
        ELSE IF RootKnown /\ event.id = RootId THEN Walk(t)
        ELSE IF event.type = "removed" THEN Remove(t, event.id, wasBehind)
        ELSE Appear(t, event, B, V, wasBehind)
  BY DEF Apply
<1> HIDE DEF t, wasBehind
<1>3. Walk(t) \in Folds(B, V) /\ Remove(t, event.id, wasBehind) \in Folds(B, V)
  BY <1>0, <1>1, FoldSmall, FoldRemove
<1>4. PlaceUnderUnknown(t, event, V, wasBehind) \in Folds(B, V)
  <2>1. /\ Walk(t) \in Folds(B, V) /\ LookUp(t, event, V, Beginning) \in Folds(B, V)
        /\ Defer(t, event, wasBehind) \in Folds(B, V)
    BY <1>0, <1>1, FoldSmall, FoldLookUp
  <2> QED
    BY <2>1 DEF PlaceUnderUnknown, Beginning
<1>5. Appear(t, event, B, V, wasBehind) \in Folds(B, V)
  <2> DEFINE parents == PlacesOf(t, event.parent)
  <2>1. CASE \E b \in t.behind : b.id = event.parent
    <3> DEFINE b == CHOOSE b \in t.behind : b.id = event.parent
    <3>1. b.listed \in Paths \cup {Beginning}
      BY <1>1, <2>1 DEF Folds, Waiting
    <3>2. Appear(t, event, B, V, wasBehind) \in {Walk(t), Wait(t, event, b.listed)}
      BY <2>1 DEF Appear
    <3> HIDE DEF b
    <3> QED
      BY <1>0, <1>1, <1>3, <3>1, <3>2, FoldSmall
  <2>2. CASE ~(\E b \in t.behind : b.id = event.parent) /\ parents # {}
    <3> DEFINE d == CHOOSE d \in parents : TRUE
    <3>1. d \in Paths
      BY <2>2 DEF PlacesOf
    <3>2. Appear(t, event, B, V, wasBehind) \in {Walk(t), LookUp(t, event, V, d)}
      BY <2>2 DEF Appear
    <3> HIDE DEF d
    <3> QED
      BY <1>1, <1>3, <3>1, <3>2, FoldLookUp
  <2>3. CASE ~(\E b \in t.behind : b.id = event.parent) /\ parents = {}
    <3>1. Appear(t, event, B, V, wasBehind) \in
            {Walk(t), LookUp(t, event, V, Beginning), PlaceUnderUnknown(t, event, V, wasBehind)}
      BY <2>3 DEF Appear, Beginning
    <3> QED
      BY <1>0, <1>1, <1>3, <1>4, <3>1, FoldLookUp
  <2> QED
    BY <2>1, <2>2, <2>3
<1> QED
  BY <1>2, <1>3, <1>5

(* The fold is read event by event.                                        *)
LEMMA Reading ==
  ASSUME NEW B \in Records, NEW V \in [Paths -> TidyNode], NEW events \in Events
  PROVE  /\ Len(events) \in Nat /\ \A i \in 1 .. Len(events) : events[i] \in OneEvent
         /\ \E read :
              /\ read[0] = Start(B) /\ \A i \in 0 .. Len(events) : read[i] \in Folds(B, V)
              /\ \A i \in 1 .. Len(events) : read[i] = Apply(read[i - 1], events[i], B, V)
              /\ Rebuild(B, events, V) = Settle(read[Len(events)], B)
<1> DEFINE n == Len(events)
           S == Folds(B, V)
           start == Start(B)
           Step(t, i) == Apply(t, events[i], B, V)
           read == CHOOSE f : f = [i \in 0 .. n |-> IF i = 0 THEN start ELSE Step(f[i - 1], i)]
<1>1. Rebuild(B, events, V) = Settle(read[n], B)
  BY DEF Rebuild
<1>2. n \in Nat /\ \A i \in 1 .. n : events[i] \in OneEvent
  <2>1. events \in Seq(OneEvent)
    BY DEF Events, OneEvent
  <2> QED
    BY <2>1, LenProperties, ElementOfSeq
<1>3. start \in S
  <2> DEFINE tree == [p \in Paths |-> EntityOfRow(B[p])]
             at == {<<B[p].id, p>> : p \in {q \in Held(B) : B[q].id # 0}}
  <2>1. tree \in Given(B, V)
    <3>1. ASSUME NEW p \in Paths PROVE EntityOfRow(B[p]) \in TidyNode
      <4>1. B[p] \in StoredRow
        BY DEF Records
      <4> QED
        BY <4>1, TidyThings, TidyParts DEF EntityOfRow
    <3> QED
      BY <3>1 DEF Given
  <2>2. at \in SUBSET (Nat \X Paths)
    BY TidyParts DEF Records, Held
  <2>3. DuplicateId(B) \in BOOLEAN
    BY DEF DuplicateId
  <2>4. Start(B) = [tree |-> tree, at |-> at, taken |-> {}, behind |-> {}, deferred |-> {},
                    walk |-> DuplicateId(B)]
    BY DEF Start
  <2> HIDE DEF tree, at
  <2> QED
    BY <2>1, <2>2, <2>3, <2>4 DEF Folds
<1>4. ASSUME NEW t \in S, NEW i \in 1 .. n PROVE Step(t, i) \in S
  BY <1>2, FoldApply
<1> HIDE DEF S, Step, start, n
<1> DEFINE g == [i \in 1 .. n |-> [t \in S |-> Step(t, i)]]
<1>5. PICK h : h \in Chains(n, S, start, g)
  <2>1. g \in [1 .. n -> [S -> S]]
    BY <1>4
  <2> HIDE DEF g
  <2> QED
    BY <1>2, <1>3, <2>1, Recursion
<1>6. h = [i \in 0 .. n |-> IF i = 0 THEN start ELSE Step(h[i - 1], i)]
  <2>1. ASSUME NEW i \in 0 .. n
        PROVE  h[i] = IF i = 0 THEN start ELSE Step(h[i - 1], i)
    <3>1. CASE i = 0
      BY <1>5, <3>1 DEF Chains
    <3>2. CASE i # 0
      <4>1. i \in 1 .. n /\ i - 1 \in 0 .. n
        BY <1>2, <3>2
      <4>2. h[i - 1] \in S /\ h[i] = g[i][h[i - 1]]
        BY <1>5, <4>1 DEF Chains
      <4> QED
        BY <3>2, <4>1, <4>2
    <3> QED
      BY <3>1, <3>2
  <2> QED
    BY <1>5, <2>1 DEF Chains
<1>7. read = [i \in 0 .. n |-> IF i = 0 THEN start ELSE Step(read[i - 1], i)]
  BY <1>6
<1> HIDE DEF read
<1>8. read[0] = start /\ \A i \in 1 .. n : read[i] = Step(read[i - 1], i)
  <2>1. ASSUME NEW i \in 1 .. n PROVE i \in 0 .. n /\ i # 0
    BY <1>2
  <2> QED
    BY <1>2, <1>7, <2>1
<1> DEFINE Fine == {i \in 0 .. n : read[i] \in S}
<1>9. ASSUME NEW i \in 0 .. n - 1, i \in Fine PROVE i + 1 \in Fine
  <2>1. i + 1 \in 1 .. n /\ i + 1 \in 0 .. n /\ (i + 1) - 1 = i
    BY <1>2
  <2>2. read[i + 1] = Step(read[i], i + 1)
    BY <1>8, <2>1
  <2> QED
    BY <1>4, <1>9, <2>1, <2>2
<1>10. 0 \in Fine
  BY <1>2, <1>3, <1>8
<1> HIDE DEF Fine
<1>11. \A i \in 0 .. n : i \in Fine
  BY <1>2, <1>9, <1>10, Climb
<1> QED
  BY <1>1, <1>2, <1>8, <1>11 DEF Fine, S, Step, start, n

LEMMA RebuiltIs ==
  ASSUME NEW B \in Records, NEW V \in [Paths -> TidyNode], NEW events \in Events
  PROVE  Rebuild(B, events, V).tree \in Given(B, V)
<1> DEFINE n == Len(events)
<1>1. PICK read : read[n] \in Folds(B, V) /\ Rebuild(B, events, V) = Settle(read[n], B)
  BY Reading
<1> QED
  BY <1>1 DEF Folds, Settle, Walk

(* What one event does to the map.  It changes nothing, for a node nothing *)
(* tracks or one newly made that no listing shows; or it takes out the     *)
(* node and what is below its place; or it puts the node where the listing *)
(* shows it.                                                               *)
Unmoved(s, t, event) ==
  /\ t.tree = s.tree /\ t.at = s.at
  /\ event.type = "created" \/ ~Tracks(s, event.id)
TakenOut(s, t, event, p) ==
  /\ event.type # "created" /\ <<event.id, p>> \in s.at
  /\ t.tree = [q \in Paths |-> IF q = p \/ Below(p, q) THEN NoNode ELSE s.tree[q]]
  /\ t.at = s.at \ ({e \in s.at : Below(p, e[2])} \cup {<<event.id, p>>})
PutAt(s, t, event, V, p) ==
  /\ event.type # "removed" /\ V[p].id = event.id
  /\ t.tree = [q \in Paths |-> IF q = p THEN V[p]
                               ELSE IF q \in PlacesOf(s, event.id) THEN NoNode ELSE s.tree[q]]
  /\ t.at = {e \in s.at : e[1] # event.id} \cup {<<event.id, p>>}
Turns(s, t, event, V) ==
  \/ Unmoved(s, t, event)
  \/ \E p \in Paths : TakenOut(s, t, event, p)
  \/ \E p \in Paths : PutAt(s, t, event, V, p)

LEMMA LookUpTurns ==
  ASSUME NEW B, NEW V, NEW s \in Folds(B, V), NEW event, event.type # "removed",
         NEW d, ~LookUp(s, event, V, d).walk
  PROVE  Turns(s, LookUp(s, event, V, d), event, V)
<1> DEFINE t == LookUp(s, event, V, d)
           found == InListing(V, d, event.id)
<1> SUFFICES Turns(s, t, event, V)
  OBVIOUS
<1>1. CanList(V, d)
  <2>1. Walk(s).walk
    BY DEF Walk, Folds
  <2> QED
    BY <2>1 DEF LookUp
<1>2. CASE found = {} /\ (event.type = "created" \/ ~Tracks(s, event.id))
  <2>1. t = Wait(s, event, d)
    BY <1>1, <1>2 DEF LookUp, Missing
  <2>2. t.tree = s.tree /\ t.at = s.at
    BY <2>1 DEF Wait, Folds
  <2> HIDE DEF t
  <2> QED
    BY <1>2, <2>2 DEF Turns, Unmoved
<1>3. CASE found = {} /\ ~(event.type = "created" \/ ~Tracks(s, event.id))
  <2> DEFINE p == CHOOSE p \in PlacesOf(s, event.id) : TRUE
  <2>1. t = RemoveSubtree(s, p, event.id)
    BY <1>1, <1>3 DEF LookUp, Missing
  <2>2. p \in PlacesOf(s, event.id)
    BY <1>3 DEF Tracks
  <2> HIDE DEF p, t
  <2>3. p \in Paths /\ TakenOut(s, t, event, p)
    BY <1>3, <2>1, <2>2 DEF RemoveSubtree, TakenOut, PlacesOf, Folds
  <2> QED
    BY <2>3 DEF Turns
<1>4. CASE found # {}
  <2> DEFINE p == CHOOSE q \in found : TRUE
  <2>1. p \in found
    BY <1>4
  <2>2. t = Place(s, event, p, V[p])
    BY <1>1, <1>4 DEF LookUp
  <2>3. p \in Paths /\ V[p].id = event.id
    BY <2>1 DEF InListing
  <2>4. ~t.walk
    OBVIOUS
  <2> HIDE DEF p, t
  <2>5. t # Walk(s)
    BY <2>4 DEF Walk, Folds
  <2>6. t = [s EXCEPT
              !.tree = [q \in Paths |-> IF q = p THEN V[p]
                                        ELSE IF q \in PlacesOf(s, event.id) THEN NoNode
                                        ELSE s.tree[q]],
              !.at = {e \in s.at : e[1] # event.id} \cup {<<event.id, p>>}]
    BY <2>2, <2>5 DEF Place
  <2>7. PutAt(s, t, event, V, p)
    BY <2>3, <2>6 DEF PutAt, Folds
  <2> QED
    BY <2>3, <2>7 DEF Turns
<1> QED
  BY <1>2, <1>3, <1>4

LEMMA ApplyTurns ==
  ASSUME NEW B, NEW V, NEW s \in Folds(B, V), NEW event \in OneEvent,
         ~Apply(s, event, B, V).walk
  PROVE  ~s.walk /\ Turns(s, Apply(s, event, B, V), event, V)
<1> DEFINE wasBehind == \E b \in s.behind : b.id = event.id
           kept == {b \in s.behind : b.id # event.id}
           u == [s EXCEPT !.behind = kept]
           t == Apply(s, event, B, V)
<1> SUFFICES ~s.walk /\ Turns(s, t, event, V)
  OBVIOUS
<1>1. u \in Folds(B, V) /\ u.tree = s.tree /\ u.at = s.at /\ u.taken = s.taken
  <2>1. kept \in SUBSET Waiting
    BY DEF Folds
  <2> HIDE DEF kept
  <2> QED
    BY <2>1 DEF Folds
<1>2. /\ ~s.walk
      /\ t = IF RootKnown /\ event.id = RootId THEN Walk(u)
             ELSE IF event.type = "removed" THEN Remove(u, event.id, wasBehind)
             ELSE Appear(u, event, B, V, wasBehind)
  BY DEF Apply
<1>3. Walk(u).walk
  BY <1>1 DEF Walk, Folds
<1>4. ~t.walk
  OBVIOUS
<1> HIDE DEF u, t, wasBehind
<1>5. CASE event.type = "removed"
  <2> DEFINE left == IF wasBehind
                     THEN [u EXCEPT !.behind = DropBehindBeneath(u.behind, {event.id})] ELSE u
             p == CHOOSE p \in PlacesOf(left, event.id) : TRUE
  <2>1. t = IF Tracks(left, event.id) THEN RemoveSubtree(left, p, event.id)
            ELSE [left EXCEPT !.deferred = @ \cup {"removal"}]
    BY <1>2, <1>3, <1>4, <1>5 DEF Remove
  <2>2. left.tree = s.tree /\ left.at = s.at
    BY <1>1 DEF Folds
  <2>3. /\ PlacesOf(left, event.id) = PlacesOf(s, event.id)
        /\ Tracks(left, event.id) = Tracks(s, event.id)
    BY <2>2 DEF PlacesOf, Tracks
  <2>4. \A r : /\ RemoveSubtree(left, r, event.id).tree
                    = [q \in Paths |-> IF q = r \/ Below(r, q) THEN NoNode ELSE left.tree[q]]
               /\ RemoveSubtree(left, r, event.id).at
                    = left.at \ ({e \in left.at : Below(r, e[2])} \cup {<<event.id, r>>})
    <3>1. left = [left EXCEPT !.behind = left.behind] /\ DOMAIN left = DOMAIN s
      BY <1>1 DEF Folds
    <3> HIDE DEF left
    <3> QED
      BY <3>1 DEF RemoveSubtree, Folds
  <2>5. CASE Tracks(s, event.id)
    <3>1. p \in PlacesOf(s, event.id)
      BY <2>3, <2>5 DEF Tracks
    <3>2. t = RemoveSubtree(left, p, event.id)
      BY <2>1, <2>3, <2>5
    <3> HIDE DEF left, p
    <3>3. p \in Paths /\ TakenOut(s, t, event, p)
      BY <1>5, <2>2, <2>4, <3>1, <3>2 DEF TakenOut, PlacesOf
    <3> QED
      BY <1>2, <3>3 DEF Turns
  <2>6. CASE ~Tracks(s, event.id)
    <3>1. t = [left EXCEPT !.deferred = left.deferred \cup {"removal"}]
      BY <2>1, <2>3, <2>6
    <3>2. t.tree = s.tree /\ t.at = s.at
      BY <1>1, <2>2, <3>1 DEF Folds
    <3> QED
      BY <1>2, <2>6, <3>2 DEF Turns, Unmoved
  <2> QED
    BY <2>5, <2>6
<1>6. CASE event.type # "removed"
  <2>1. t = Appear(u, event, B, V, wasBehind)
    BY <1>2, <1>3, <1>4, <1>6
  <2>2. /\ Tracks(u, event.id) = Tracks(s, event.id)
        /\ \A v : Turns(u, v, event, V) = Turns(s, v, event, V)
    BY <1>1 DEF Tracks, PlacesOf, Turns, Unmoved, TakenOut, PutAt
  <2>3. ASSUME NEW d, t = LookUp(u, event, V, d) PROVE Turns(s, t, event, V)
    BY <1>1, <1>4, <1>6, <2>2, <2>3, LookUpTurns
  <2>4. ASSUME NEW listed, t = Wait(u, event, listed), ~WasHeld(u, event.id)
        PROVE  Turns(s, t, event, V)
    <3>1. t.tree = s.tree /\ t.at = s.at
      BY <1>1, <2>4 DEF Wait, Folds
    <3> QED
      BY <2>2, <2>4, <3>1 DEF WasHeld, Turns, Unmoved
  <2>5. ASSUME t = Defer(u, event, wasBehind), ~WasHeld(u, event.id)
        PROVE  Turns(s, t, event, V)
    <3>1. t.tree = s.tree /\ t.at = s.at
      BY <1>1, <2>5 DEF Defer, Folds
    <3> QED
      BY <2>2, <2>5, <3>1 DEF WasHeld, Turns, Unmoved
  <2>6. \/ t = Walk(u)
        \/ \E listed : t = Wait(u, event, listed) /\ ~WasHeld(u, event.id)
        \/ \E d : t = LookUp(u, event, V, d)
        \/ t = Defer(u, event, wasBehind) /\ ~WasHeld(u, event.id)
    BY <2>1 DEF Appear, PlaceUnderUnknown
  <2> QED
    BY <1>2, <1>3, <1>4, <2>3, <2>4, <2>5, <2>6
<1> QED
  BY <1>5, <1>6

(* Map and places tell the same of every node with an id: it is where it   *)
(* is tracked, in one place, and there by a record or by the listing.      *)
InStep(s, B, V) ==
  /\ \A p \in Paths : s.tree[p].id # 0 => <<s.tree[p].id, p>> \in s.at
  /\ \A e, f \in s.at : e[1] = f[1] => e[2] = f[2]
  /\ \A e \in s.at : e[1] \in {B[e[2]].id, V[e[2]].id}

(* The map has what the event says: nothing of a node removed, and a node  *)
(* updated only where and as the listing shows it.                         *)
Heeds(s, V, event) ==
  \A p \in Paths :
    s.tree[p].id = event.id =>
      event.type # "removed" /\ (event.type = "updated" => s.tree[p] = V[p])

LEMMA StartInStep ==
  ASSUME NEW B \in Records, NEW V, ~Start(B).walk
  PROVE  InStep(Start(B), B, V)
<1> DEFINE s == Start(B)
<1>1. /\ s.tree = [p \in Paths |-> EntityOfRow(B[p])]
      /\ s.at = {<<B[p].id, p>> : p \in {q \in Held(B) : B[q].id # 0}}
      /\ ~DuplicateId(B)
  BY DEF Start
<1>2. ASSUME NEW p \in Paths, EntityOfRow(B[p]).id # 0
      PROVE  p \in Held(B) /\ B[p].id # 0 /\ EntityOfRow(B[p]).id = B[p].id
  <2>1. B[p].kind \in Kinds
    BY TidyParts DEF Records
  <2> QED
    BY <1>2, <2>1 DEF EntityOfRow, File, Dir, NoNode, Held, Kinds
<1>3. \A p \in Paths : s.tree[p].id # 0 => <<s.tree[p].id, p>> \in s.at
  BY <1>1, <1>2
<1>4. \A e, f \in s.at : e[1] = f[1] => e[2] = f[2]
  BY <1>1 DEF DuplicateId, Held
<1>5. \A e \in s.at : e[1] \in {B[e[2]].id, V[e[2]].id}
  BY <1>1
<1> HIDE DEF s
<1> QED
  BY <1>3, <1>4, <1>5 DEF InStep, s

(* A step keeps map and places in step, does what its event says, and      *)
(* undoes nothing that was done for another node.                          *)
LEMMA TurnHeeds ==
  ASSUME NEW B, NEW V, NEW s \in Folds(B, V), NEW t \in Folds(B, V), NEW event \in OneEvent,
         InStep(s, B, V), Turns(s, t, event, V)
  PROVE  /\ InStep(t, B, V)
         /\ event.id # 0 => Heeds(t, V, event)
         /\ \A other : other.id \notin {0, event.id} /\ Heeds(s, V, other) => Heeds(t, V, other)
<1>1. CASE Unmoved(s, t, event)
  <2>1. event.type # "created" /\ event.id # 0 => \A p \in Paths : t.tree[p].id # event.id
    BY <1>1 DEF Unmoved, InStep, Tracks, PlacesOf
  <2> QED
    BY <1>1, <2>1 DEF Unmoved, InStep, Heeds
<1>2. ASSUME NEW p \in Paths, TakenOut(s, t, event, p)
      PROVE  /\ InStep(t, B, V)
             /\ event.id # 0 => Heeds(t, V, event)
             /\ \A other : other.id \notin {0, event.id} /\ Heeds(s, V, other) => Heeds(t, V, other)
  <2>1. \A q \in Paths : t.tree[q] = IF q = p \/ Below(p, q) THEN NoNode ELSE s.tree[q]
    BY <1>2 DEF TakenOut
  <2>2. \A e : e \in t.at <=> e \in s.at /\ ~Below(p, e[2]) /\ e # <<event.id, p>>
    BY <1>2 DEF TakenOut
  <2>3. NoNode.id = 0
    BY DEF NoNode
  <2>4. ASSUME NEW q \in Paths, t.tree[q].id # 0
        PROVE  /\ t.tree[q] = s.tree[q] /\ q # p /\ ~Below(p, q)
               /\ <<t.tree[q].id, q>> \in s.at /\ <<t.tree[q].id, q>> \in t.at
    <3>1. t.tree[q] = s.tree[q] /\ q # p /\ ~Below(p, q)
      BY <2>1, <2>3, <2>4
    <3>2. <<t.tree[q].id, q>> \in s.at
      BY <2>4, <3>1 DEF InStep
    <3> QED
      BY <2>2, <3>1, <3>2
  <2>5. InStep(t, B, V)
    BY <2>2, <2>4 DEF InStep
  <2>6. ASSUME NEW q \in Paths, t.tree[q].id = event.id, event.id # 0 PROVE FALSE
    <3>1. <<event.id, q>> \in s.at /\ <<event.id, p>> \in s.at /\ q # p
      BY <1>2, <2>4, <2>6 DEF TakenOut
    <3> DEFINE e == <<event.id, q>>
               f == <<event.id, p>>
    <3>2. e[1] = f[1] /\ e[2] # f[2]
      BY <3>1
    <3> QED
      BY <3>1, <3>2 DEF InStep
  <2>7. \A other : other.id \notin {0, event.id} /\ Heeds(s, V, other) => Heeds(t, V, other)
    BY <2>4 DEF Heeds
  <2> QED
    BY <2>5, <2>6, <2>7 DEF Heeds
<1>3. ASSUME NEW p \in Paths, PutAt(s, t, event, V, p)
      PROVE  /\ InStep(t, B, V)
             /\ event.id # 0 => Heeds(t, V, event)
             /\ \A other : other.id \notin {0, event.id} /\ Heeds(s, V, other) => Heeds(t, V, other)
  <2>1. \A q \in Paths :
          t.tree[q] = IF q = p THEN V[p]
                      ELSE IF <<event.id, q>> \in s.at THEN NoNode ELSE s.tree[q]
    BY <1>3 DEF PutAt, PlacesOf
  <2>2. \A e : e \in t.at <=> (e \in s.at /\ e[1] # event.id) \/ e = <<event.id, p>>
    BY <1>3 DEF PutAt
  <2>3. NoNode.id = 0 /\ V[p].id = event.id /\ event.type # "removed"
    BY <1>3 DEF NoNode, PutAt
  <2>4. ASSUME NEW q \in Paths, t.tree[q].id # 0, q # p
        PROVE  /\ t.tree[q] = s.tree[q] /\ <<s.tree[q].id, q>> \in s.at
               /\ s.tree[q].id # event.id
    <3>1. t.tree[q] = s.tree[q] /\ <<event.id, q>> \notin s.at
      BY <2>1, <2>3, <2>4
    <3>2. <<s.tree[q].id, q>> \in s.at
      BY <2>4, <3>1 DEF InStep
    <3> QED
      BY <3>1, <3>2
  <2>5. InStep(t, B, V)
    <3>1. \A q \in Paths : t.tree[q].id # 0 => <<t.tree[q].id, q>> \in t.at
      BY <2>1, <2>2, <2>3, <2>4
    <3>2. \A e, f \in t.at : e[1] = f[1] => e[2] = f[2]
      BY <2>2 DEF InStep
    <3>3. \A e \in t.at : e[1] \in {B[e[2]].id, V[e[2]].id}
      BY <2>2, <2>3 DEF InStep
    <3> QED
      BY <3>1, <3>2, <3>3 DEF InStep
  <2>6. event.id # 0 => Heeds(t, V, event)
    BY <2>1, <2>3, <2>4 DEF Heeds
  <2>7. ASSUME NEW other, other.id \notin {0, event.id}, Heeds(s, V, other)
        PROVE  Heeds(t, V, other)
    <3>1. ASSUME NEW q \in Paths, t.tree[q].id = other.id
          PROVE  t.tree[q] = s.tree[q]
      BY <2>1, <2>3, <2>4, <2>7, <3>1
    <3> QED
      BY <2>7, <3>1 DEF Heeds
  <2> QED
    BY <2>5, <2>6, <2>7
<1> QED
  BY <1>1, <1>2, <1>3 DEF Turns

(* The rebuilt map heeds the feed, for any records, any events in any      *)
(* order and any listing: where it asks for no walk, the last event of a   *)
(* node has the last word on it.  A node removed is nowhere in the map,    *)
(* and one updated is nowhere but where the listing shows it, as it shows  *)
(* it: never under its old name or with its old content (apply_event,      *)
(* remove_node and place_entity of reconstruct.rs).                        *)
THEOREM EventsAreHeeded ==
  ASSUME NEW B \in Records, NEW V \in [Paths -> TidyNode], NEW events \in Events,
         ~Rebuild(B, events, V).walk,
         NEW i \in 1 .. Len(events), events[i].id # 0,
         \A j \in i + 1 .. Len(events) : events[j].id # events[i].id
  PROVE  Heeds(Rebuild(B, events, V), V, events[i])
<1> DEFINE n == Len(events)
           event == events[i]
<1>1. n \in Nat /\ \A j \in 1 .. n : events[j] \in OneEvent
  BY Reading
<1>2. PICK read :
        /\ read[0] = Start(B) /\ \A j \in 0 .. n : read[j] \in Folds(B, V)
        /\ \A j \in 1 .. n : read[j] = Apply(read[j - 1], events[j], B, V)
        /\ Rebuild(B, events, V) = Settle(read[n], B)
  BY Reading
<1> HIDE DEF n
<1> DEFINE Right(m) == ~read[m].walk =>
             InStep(read[m], B, V) /\ (i <= m => Heeds(read[m], V, event))
           S == {m \in 0 .. n : Right(m)}
<1>3. 0 \in S
  BY <1>1, <1>2, StartInStep DEF n
<1>4. ASSUME NEW m \in 0 .. n - 1, m \in S PROVE m + 1 \in S
  <2> DEFINE k == m + 1
  <2>1. k \in 1 .. n /\ k \in 0 .. n /\ k - 1 = m /\ m \in 0 .. n
    BY <1>1
  <2>2. /\ read[m] \in Folds(B, V) /\ read[k] \in Folds(B, V) /\ events[k] \in OneEvent
        /\ read[k] = Apply(read[m], events[k], B, V)
    BY <1>1, <1>2, <2>1
  <2> HIDE DEF k
  <2> SUFFICES ASSUME ~read[k].walk
               PROVE  InStep(read[k], B, V) /\ (i <= k => Heeds(read[k], V, event))
    BY <2>1 DEF k
  <2>3. ~read[m].walk /\ Turns(read[m], read[k], events[k], V)
    BY <2>2, ApplyTurns
  <2>4. InStep(read[m], B, V) /\ (i <= m => Heeds(read[m], V, event))
    BY <1>4, <2>3
  <2>5. /\ InStep(read[k], B, V)
        /\ events[k].id # 0 => Heeds(read[k], V, events[k])
        /\ \A other : other.id \notin {0, events[k].id} /\ Heeds(read[m], V, other)
                      => Heeds(read[k], V, other)
    BY <2>2, <2>3, <2>4, TurnHeeds
  <2>6. CASE i = k
    BY <2>5, <2>6
  <2>7. CASE i <= m
    <3>1. events[k].id # events[i].id
      BY <1>1, <2>1, <2>7 DEF n
    <3> QED
      BY <2>4, <2>5, <2>7, <3>1
  <2>8. i <= k => i = k \/ i <= m
    BY <1>1, <2>1 DEF n
  <2> QED
    BY <2>5, <2>6, <2>7, <2>8
<1> HIDE DEF S
<1>5. n \in S
  <2>1. \A m \in 0 .. n : m \in S
    BY <1>1, <1>3, <1>4, Climb
  <2> QED
    BY <1>1, <2>1
<1>6. i <= n
  BY <1>1 DEF n
<1>7. Rebuild(B, events, V) = read[n] /\ ~read[n].walk
  <2>1. read[n] \in Folds(B, V)
    BY <1>1, <1>2
  <2> QED
    BY <1>2, <2>1 DEF Settle, Walk, Folds
<1> QED
  BY <1>5, <1>6, <1>7 DEF S

(* And where the feed is silent the map stays as recorded: at a path whose *)
(* node, whose folders and whose listed replacement no event names.        *)
THEOREM SilenceIsKept ==
  ASSUME NEW B \in Records, NEW V \in [Paths -> TidyNode], NEW events \in Events,
         ~Rebuild(B, events, V).walk, NEW p \in Paths,
         \A i \in 1 .. Len(events) : \A d \in Paths :
            d = p \/ Below(d, p) => events[i].id \notin {B[d].id, V[d].id}
  PROVE  Rebuild(B, events, V).tree[p] = EntityOfRow(B[p])
<1> DEFINE n == Len(events)
<1>1. n \in Nat /\ \A j \in 1 .. n : events[j] \in OneEvent
  BY Reading
<1>2. PICK read :
        /\ read[0] = Start(B) /\ \A j \in 0 .. n : read[j] \in Folds(B, V)
        /\ \A j \in 1 .. n : read[j] = Apply(read[j - 1], events[j], B, V)
        /\ Rebuild(B, events, V) = Settle(read[n], B)
  BY Reading
<1>3. \A j \in 1 .. n : \A d \in Paths :
        d = p \/ Below(d, p) => events[j].id \notin {B[d].id, V[d].id}
  OBVIOUS
<1> HIDE DEF n
<1> DEFINE Right(m) == ~read[m].walk =>
             InStep(read[m], B, V) /\ read[m].tree[p] = EntityOfRow(B[p])
           S == {m \in 0 .. n : Right(m)}
<1>4. 0 \in S
  <2>1. Start(B).tree[p] = EntityOfRow(B[p])
    BY DEF Start
  <2> QED
    BY <1>1, <1>2, <2>1, StartInStep
<1>5. ASSUME NEW m \in 0 .. n - 1, m \in S PROVE m + 1 \in S
  <2> DEFINE k == m + 1
  <2>1. k \in 1 .. n /\ k \in 0 .. n /\ k - 1 = m /\ m \in 0 .. n
    BY <1>1
  <2>2. /\ read[m] \in Folds(B, V) /\ read[k] \in Folds(B, V) /\ events[k] \in OneEvent
        /\ read[k] = Apply(read[m], events[k], B, V)
    BY <1>1, <1>2, <2>1
  <2> HIDE DEF k
  <2> SUFFICES ASSUME ~read[k].walk
               PROVE  InStep(read[k], B, V) /\ read[k].tree[p] = EntityOfRow(B[p])
    BY <2>1 DEF k
  <2>3. ~read[m].walk /\ Turns(read[m], read[k], events[k], V)
    BY <2>2, ApplyTurns
  <2>4. InStep(read[m], B, V) /\ read[m].tree[p] = EntityOfRow(B[p])
    BY <1>5, <2>3
  <2>5. InStep(read[k], B, V)
    BY <2>2, <2>3, <2>4, TurnHeeds
  <2> DEFINE event == events[k]
  <2>6. ASSUME NEW d \in Paths, d = p \/ Below(d, p)
        PROVE  <<event.id, d>> \notin read[m].at /\ V[d].id # event.id
    <3> DEFINE e == <<event.id, d>>
    <3>1. event.id \notin {B[d].id, V[d].id}
      BY <1>3, <2>1, <2>6
    <3>2. e[1] = event.id /\ e[2] = d
      OBVIOUS
    <3> HIDE DEF e
    <3>3. e \notin read[m].at
      BY <2>4, <3>1, <3>2 DEF InStep
    <3> QED
      BY <3>1, <3>3 DEF e
  <2> HIDE DEF event
  <2>7. CASE Unmoved(read[m], read[k], event)
    BY <2>4, <2>5, <2>7 DEF Unmoved
  <2>8. ASSUME NEW q \in Paths, TakenOut(read[m], read[k], event, q)
        PROVE  read[k].tree[p] = read[m].tree[p]
    BY <2>6, <2>8 DEF TakenOut
  <2>9. ASSUME NEW q \in Paths, PutAt(read[m], read[k], event, V, q)
        PROVE  read[k].tree[p] = read[m].tree[p]
    BY <2>6, <2>9 DEF PutAt, PlacesOf
  <2> QED
    BY <2>3, <2>4, <2>5, <2>7, <2>8, <2>9 DEF Turns, event
<1> HIDE DEF S
<1>6. n \in S
  <2>1. \A m \in 0 .. n : m \in S
    BY <1>1, <1>4, <1>5, Climb
  <2> QED
    BY <1>1, <2>1
<1>7. Rebuild(B, events, V) = read[n] /\ ~read[n].walk
  <2>1. read[n] \in Folds(B, V)
    BY <1>1, <1>2
  <2> QED
    BY <1>2, <2>1 DEF Settle, Walk, Folds
<1> QED
  BY <1>6, <1>7 DEF S

(* A listing shows what is there, or hides it.                             *)
LEMMA ListedIs ==
  ASSUME cloud \in [Paths -> TidyNode]
  PROVE  /\ Listed \in [Paths -> TidyNode]
         /\ \A p \in Paths : Listed[p] \in {cloud[p], NoNode}
BY TidyThings DEF Listed

LEMMA GivenIsTidy ==
  ASSUME NEW B, NEW V
  PROVE  Given(B, V) \subseteq [Paths -> TidyNode]
BY DEF Given

-----------------------------------------------------------------------------
(* What holds between any two steps.  TypeOK is not inductive: an upload   *)
(* needs the content it sends to be there, a rebuilt remote needs the      *)
(* records and the events to be tidy, and a pass needs the numbers it      *)
(* counts on.                                                              *)
TInv ==
  /\ disk \in Folder /\ cloud \in Folder
  /\ base \in Records /\ delta \in Events
  /\ copies \subseteq Nat /\ untold \subseteq Nat
  /\ stamp \in Nat /\ lastId \in Nat /\ edits \in Nat

LEMMA TInvIsTyped == TInv => TypeOK
<1> SUFFICES ASSUME TInv PROVE TypeOK
  OBVIOUS
<1>1. TidyNode \subseteq Node /\ StoredRow \subseteq TreeRecord
  BY DEF TidyNode, TidyRow, StoredRow
<1>2. disk \in Tree /\ cloud \in Tree
  BY <1>1 DEF TInv, Folder, Tree
<1>3. base \in [Paths -> TreeRecord]
  BY <1>1 DEF TInv, Records
<1> QED
  BY <1>2, <1>3 DEF TInv, TypeOK, Folder

LEMMA InitTyped == Init => TInv
<1> SUFFICES ASSUME Init PROVE TInv
  OBVIOUS
<1>1. cloud \in Folder
  <2>1. PICK beside \in {NoNode, File(2, 3), Dir(3)} :
          cloud = [p \in Paths |-> CASE p = <<1>> -> Dir(1) [] p = <<1, 1>> -> File(1, 2)
                                     [] p = <<2>> -> beside [] OTHER -> NoNode]
    BY DEF Init, SyncedTrees
  <2>2. /\ NoNode \in TidyNode /\ Dir(1) \in TidyNode /\ Dir(3) \in TidyNode
        /\ File(1, 2) \in TidyNode /\ File(2, 3) \in TidyNode
    BY TidyThings
  <2>3. cloud \in [Paths -> TidyNode]
    BY <2>1, <2>2
  <2>4. ASSUME NEW p \in Paths, Len(p) = 2, cloud[p].kind # "none"
        PROVE  cloud[Parent(p)].kind = "dir"
    <3>1. Len(<<1>>) = 1 /\ Len(<<2>>) = 1 /\ <<1, 1>>[1] = 1
      OBVIOUS
    <3>2. p # <<1>> /\ p # <<2>>
      BY <2>4, <3>1
    <3>3. p = <<1, 1>>
      BY <2>1, <2>4, <3>2 DEF NoNode
    <3>4. Parent(p) \in Paths /\ Parent(p) = <<1>>
      BY <2>4, <3>1, <3>3, PathsTyped
    <3>5. cloud[Parent(p)] = Dir(1)
      BY <2>1, <3>4
    <3> QED
      BY <3>5 DEF Dir
  <2> QED
    BY <2>3, <2>4, FolderIs
<1>2. [p \in Paths |-> LocalOf(cloud[p])] \in Folder
  <2> DEFINE local == [p \in Paths |-> LocalOf(cloud[p])]
  <2>1. ASSUME NEW p \in Paths
        PROVE  LocalOf(cloud[p]) \in TidyNode /\ LocalOf(cloud[p]).kind = cloud[p].kind
    <3>1. cloud[p] \in TidyNode
      BY <1>1 DEF Folder
    <3> QED
      BY <3>1 DEF LocalOf, TidyNode, Node
  <2>2. local \in [Paths -> TidyNode] /\ \A p \in Paths : local[p].kind = cloud[p].kind
    BY <2>1
  <2> HIDE DEF local
  <2>3. ASSUME NEW p \in Paths, Len(p) = 2, local[p].kind # "none"
        PROVE  local[Parent(p)].kind = "dir"
    BY <1>1, <2>2, <2>3, FolderIs, Parents DEF Folder
  <2>4. local \in Folder
    BY <2>2, <2>3, FolderIs
  <2> QED
    BY <2>4 DEF local
<1>3. Empty \in Folder
  <2>1. Empty \in [Paths -> TidyNode] /\ \A p \in Paths : Empty[p].kind = "none"
    BY TidyThings DEF Empty, NoNode
  <2> QED
    BY <2>1, FolderIs
<1>4. disk \in Folder
  BY <1>2, <1>3 DEF Init
<1>5. base \in Records
  <2>1. ASSUME NEW p \in Paths PROVE RowOf(cloud[p]) \in StoredRow
    <3>1. cloud[p] \in TidyNode
      BY <1>1 DEF Folder
    <3>2. "synced" \in Status \ {"modified"}
      BY DEF Status
    <3> QED
      BY <3>1, <3>2, TidyThings, TidyParts DEF RowOf
  <2>2. [p \in Paths |-> RowOf(cloud[p])] \in Records
    BY <2>1 DEF Records
  <2>3. [p \in Paths |-> NoRow] \in Records
    BY TidyThings DEF Records
  <2> QED
    BY <2>2, <2>3 DEF Init
<1>6. delta \in Events
  BY DEF Init, Events
<1> QED
  BY <1>1, <1>4, <1>5, <1>6, BoundsAssumption DEF Init, TInv

(* An edit of a folder leaves a folder.                                    *)
LEMMA EditsKeepFolder ==
  ASSUME NEW tree \in Folder, stamp \in Nat, NEW new \in LocalEdits(tree)
  PROVE  new \in Folder
<1>1. tree \in [Paths -> TidyNode]
  BY DEF Folder
<1>2. CASE new \in Writes(tree)
  <2>1. PICK p \in Paths : /\ new = [tree EXCEPT ![p] = File(stamp + 1, 0)]
                           /\ InFolder(tree, p) /\ KindFree(tree, p, "file")
    BY <1>2 DEF Writes
  <2>2. File(stamp + 1, 0) \in TidyNode
    <3>1. stamp + 1 \in Nat \ {0}
      OBVIOUS
    <3> QED
      BY <3>1, TidyThings
  <2>3. tree[p].kind # "dir"
    BY <2>1 DEF KindFree
  <2> QED
    BY <2>1, <2>2, <2>3, PutKeepsFolder
<1>3. CASE new \in NewFolders(tree)
  <2>1. PICK p \in Paths : new = [tree EXCEPT ![p] = Dir(0)] /\ Len(p) = 1
    BY <1>3 DEF NewFolders, Held
  <2>2. Dir(0) \in TidyNode /\ Dir(0).kind = "dir"
    BY TidyThings DEF Dir
  <2>3. InFolder(tree, p)
    BY <2>1 DEF InFolder
  <2> QED
    BY <2>1, <2>2, <2>3, PutKeepsFolder
<1>4. CASE new \in Removals(tree)
  <2>1. PICK p \in Paths : new = Without(tree, p)
    BY <1>4 DEF Removals, Held
  <2> QED
    BY <2>1, WithoutKeepsFolder
<1>5. CASE new \in Renames(tree)
  <2>1. PICK pq \in Held(tree) \X Paths :
          new = Moved(tree, pq[1], pq[2]) /\ CanMove(tree, pq[1], pq[2])
    BY <1>5 DEF Renames
  <2>2. pq[1] \in Paths /\ pq[2] \in Paths
    BY DEF Held
  <2> QED
    BY <2>1, <2>2, MovingKeepsFolder DEF CanMove
<1> QED
  BY <1>2, <1>3, <1>4, <1>5 DEF LocalEdits

LEMMA EditLocalTyped == TInv /\ EditLocal => TInv'
<1> SUFFICES ASSUME TInv, EditLocal PROVE TInv'
  OBVIOUS
<1>1. disk' \in Folder
  BY EditsKeepFolder DEF TInv, EditLocal
<1> QED
  BY <1>1 DEF TInv, EditLocal

LEMMA RemoteStepTyped ==
  ASSUME TInv, NEW tree \in Folder, NEW p \in Paths, NEW type \in EventTypes,
         \/ RemoteStep(tree, Told(type, tree, p)) \/ RemoteStep(tree, Told(type, cloud, p))
         \/ RemoteStep(tree, [type |-> type, id |-> cloud[p].id, parent |-> Elsewhere]),
         stamp' \in Nat, lastId' \in Nat, untold' \subseteq Nat
  PROVE  TInv'
<1>1. tree \in [Paths -> TidyNode] /\ cloud \in [Paths -> TidyNode]
  BY DEF TInv, Folder
<1>2. /\ cloud' = tree /\ edits > 0 /\ edits' = edits - 1
      /\ UNCHANGED <<disk, copies, base>>
  BY DEF RemoteStep
<1>3. delta' \in Events
  <2>1. /\ Append(delta, Told(type, tree, p)) \in Events
        /\ Append(delta, Told(type, cloud, p)) \in Events
    BY <1>1, ToldIs DEF TInv
  <2>2. Append(delta, [type |-> type, id |-> cloud[p].id, parent |-> Elsewhere]) \in Events
    <3>1. cloud[p].id \in Nat
      BY <1>1, TidyParts
    <3>2. [type |-> type, id |-> cloud[p].id, parent |-> Elsewhere]
            \in [type : EventTypes, id : Nat, parent : Nat]
      BY <3>1, ReconstructAssumption
    <3> QED
      BY <3>2, AppendProperties DEF TInv, Events
  <2> QED
    BY <2>1, <2>2 DEF RemoteStep
<1> QED
  BY <1>2, <1>3 DEF TInv

LEMMA RemoteEditTyped ==
  ASSUME TInv,
         \/ RemoteCreate \/ RemoteRevise \/ RemoteTrash
         \/ RemoteMove \/ RemoteMoveOut \/ RemoteMoveIn
  PROVE  TInv'
<1>1. /\ cloud \in Folder /\ cloud \in [Paths -> TidyNode]
      /\ stamp \in Nat /\ lastId \in Nat /\ untold \subseteq Nat
  BY DEF TInv, Folder
<1>2. /\ "created" \in EventTypes /\ "updated" \in EventTypes /\ "removed" \in EventTypes
      /\ Held(cloud) \subseteq Paths
  BY DEF EventTypes, Held
<1>3. stamp + 1 \in Nat \ {0} /\ lastId + 1 \in Nat /\ lastId + 2 \in Nat
  BY <1>1
<1>4. CASE RemoteCreate
  <2>1. PICK p \in Paths \ Held(cloud),
              node \in {File(stamp + 1, lastId + 1), Dir(lastId + 1)} :
          /\ InFolder(cloud, p)
          /\ RemoteStep([cloud EXCEPT ![p] = node], Told("created", [cloud EXCEPT ![p] = node], p))
          /\ stamp' = stamp + 1 /\ lastId' = lastId + 1 /\ UNCHANGED untold
    BY <1>4 DEF RemoteCreate
  <2>2. node \in TidyNode /\ cloud[p].kind # "dir"
    BY <1>3, TidyThings DEF Held
  <2>3. [cloud EXCEPT ![p] = node] \in Folder
    BY <1>1, <2>1, <2>2, PutKeepsFolder
  <2> QED
    BY <1>1, <1>2, <1>3, <2>1, <2>3, RemoteStepTyped
<1>5. CASE RemoteRevise
  <2>1. PICK p \in {q \in Paths : cloud[q].kind = "file"} :
          /\ RemoteStep([cloud EXCEPT ![p].hash = stamp + 1], Told("updated", cloud, p))
          /\ stamp' = stamp + 1 /\ UNCHANGED <<lastId, untold>>
    BY <1>5 DEF RemoteRevise
  <2> DEFINE node == [cloud[p] EXCEPT !.hash = stamp + 1]
  <2>2. [cloud EXCEPT ![p].hash = stamp + 1] = [cloud EXCEPT ![p] = node]
    BY <1>1
  <2>3. cloud[p] \in TidyNode
    BY <1>1
  <2>4. node \in TidyNode
    BY <1>3, <2>1, <2>3 DEF TidyNode, Node, Content
  <2>5. InFolder(cloud, p)
    BY <1>1, <2>1 DEF Folder, WellFormed, Held
  <2> HIDE DEF node
  <2>6. [cloud EXCEPT ![p] = node] \in Folder
    BY <1>1, <2>1, <2>4, <2>5, PutKeepsFolder
  <2> QED
    BY <1>1, <1>2, <1>3, <2>1, <2>2, <2>6, RemoteStepTyped
<1>6. CASE RemoteTrash
  <2>1. PICK p \in Held(cloud) :
          /\ RemoteStep(Without(cloud, p), Told("removed", cloud, p))
          /\ UNCHANGED <<stamp, lastId, untold>>
    BY <1>6 DEF RemoteTrash
  <2>2. p \in Paths /\ Without(cloud, p) \in Folder
    BY <1>1, <1>2, WithoutKeepsFolder
  <2> QED
    BY <1>1, <1>2, <2>1, <2>2, RemoteStepTyped
<1>7. CASE RemoteMove
  <2>1. PICK p \in Held(cloud), q \in Paths :
          /\ CanMove(cloud, p, q)
          /\ RemoteStep(Moved(cloud, p, q), Told("updated", Moved(cloud, p, q), q))
          /\ untold' = untold \cup {cloud[r].id : r \in {t \in Held(cloud) : Below(p, t)}}
          /\ UNCHANGED <<stamp, lastId>>
    BY <1>7 DEF RemoteMove
  <2>2. Moved(cloud, p, q) \in Folder
    BY <1>1, <1>2, <2>1, MovingKeepsFolder DEF CanMove
  <2>3. untold' \subseteq Nat
    <3>1. \A r \in Held(cloud) : cloud[r].id \in Nat
      BY <1>1, <1>2, TidyParts
    <3> QED
      BY <1>1, <2>1, <3>1
  <2> QED
    BY <1>1, <1>2, <2>1, <2>2, <2>3, RemoteStepTyped
<1>8. CASE RemoteMoveOut
  <2>1. PICK p \in Held(cloud) :
          /\ RemoteStep(Without(cloud, p),
                        [type |-> "updated", id |-> cloud[p].id, parent |-> Elsewhere])
          /\ UNCHANGED <<stamp, lastId, untold>>
    BY <1>8 DEF RemoteMoveOut
  <2>2. p \in Paths /\ Without(cloud, p) \in Folder
    BY <1>1, <1>2, WithoutKeepsFolder
  <2> QED
    BY <1>1, <1>2, <2>1, <2>2, RemoteStepTyped
<1>9. CASE RemoteMoveIn
  <2> DEFINE in(p) == p \o <<1>>
             folder(p) == [cloud EXCEPT ![p] = Dir(lastId + 1)]
             tree(p) == [folder(p) EXCEPT ![in(p)] = File(stamp + 1, lastId + 2)]
  <2>1. PICK p \in {q \in Paths \ Held(cloud) : Len(q) = 1} :
          /\ in(p) \in Paths
          /\ RemoteStep(tree(p), Told("updated", tree(p), p))
          /\ stamp' = stamp + 1 /\ lastId' = lastId + 2 /\ UNCHANGED untold
    BY <1>9 DEF RemoteMoveIn
  <2>2. p \in Paths /\ Len(p) = 1 /\ cloud[p].kind = "none"
    BY DEF Held
  <2>3. Dir(lastId + 1) \in TidyNode /\ Dir(lastId + 1).kind = "dir"
    BY <1>3, TidyThings DEF Dir
  <2>4. File(stamp + 1, lastId + 2) \in TidyNode
    BY <1>3, TidyThings
  <2>5. InFolder(cloud, p)
    BY <2>2 DEF InFolder
  <2>6. folder(p) \in Folder
    BY <1>1, <2>2, <2>3, <2>5, PutKeepsFolder
  <2>7. Len(in(p)) = 2 /\ Parent(in(p)) = p
    <3>1. p = <<p[1]>> /\ p[1] \in Nat
      BY <2>2, PathsTyped
    <3>2. in(p) = <<p[1], 1>>
      BY <3>1, Names
    <3> HIDE DEF in
    <3>3. Len(in(p)) = 2 /\ in(p)[1] = p[1]
      BY <3>2
    <3> QED
      BY <2>1, <3>1, <3>3, PathsTyped
  <2>8. in(p) # p /\ cloud[in(p)].kind = "none"
    <3>1. Len(in(p)) # Len(p)
      BY <2>2, <2>7
    <3>2. \A r \in Paths : Len(r) = 2 /\ cloud[r].kind # "none" => cloud[Parent(r)].kind = "dir"
      BY <1>1, FolderIs
    <3>3. cloud[Parent(in(p))].kind # "dir"
      BY <2>2, <2>7
    <3> HIDE DEF in
    <3> QED
      BY <2>1, <2>7, <3>1, <3>2, <3>3
  <2>9. folder(p)[in(p)].kind = "none" /\ InFolder(folder(p), in(p))
    BY <1>1, <2>1, <2>2, <2>3, <2>7, <2>8 DEF InFolder
  <2>10. tree(p) \in Folder
    <3> HIDE DEF folder, in
    <3> QED
      BY <2>1, <2>4, <2>6, <2>9, PutKeepsFolder
  <2> HIDE DEF tree
  <2> QED
    BY <1>1, <1>2, <1>3, <2>1, <2>2, <2>10, RemoteStepTyped
<1> QED
  BY <1>4, <1>5, <1>6, <1>7, <1>8, <1>9

(* A pass, whatever it takes the remote for.                               *)
LEMMA RunTyped ==
  ASSUME TInv, NEW R \in [Paths -> TidyNode],
         NEW raced \in {disk} \cup (IF Races /\ edits > 0 THEN LocalEdits(disk) ELSE {}),
         NEW approve \in BOOLEAN, NEW fault \in FaultsOf(Planned(disk, R, base))
  PROVE  RunPlan(Planned(disk, R, base), Start0(raced), approve, fault, disk, R, base) \in Running
<1> DEFINE plan == Planned(disk, R, base)
<1>1. disk \in [Paths -> TidyNode] /\ base \in Records
  BY DEF TInv, Folder
<1>2. raced \in Folder
  BY EditsKeepFolder DEF TInv
<1>3. Start0(raced) \in Running
  BY <1>2 DEF Start0, Running, TInv, Events
<1>4. /\ Len(plan) \in Nat /\ DOMAIN plan = 1 .. Len(plan)
      /\ \A i \in 1 .. Len(plan) : Orderly(plan[i], disk)
  BY <1>1, PlanShape DEF Trees, Records, StoredRow
<1>5. fault.crash => fault.at \in 1 .. Len(plan)
  BY <1>4 DEF FaultsOf, NoFault
<1> HIDE DEF plan
<1>6. \A x \in Running : \A i \in 1 .. Len(plan) :
        Perform(x, plan[i], disk, R, base, PlannedDirs(plan)) \in Running
  BY <1>1, <1>4, PerformEffect
<1>7. \A x \in Running : [x EXCEPT !.withheld = TRUE] \in Running
  BY DEF Running
<1>8. \A x, y \in Running : Failed(x, y) \in Running
  BY DEF Failed, Running
<1>9. RunPlan(plan, Start0(raced), approve, fault, disk, R, base) \in Running
  BY <1>3, <1>4, <1>5, <1>6, <1>7, <1>8, RunKeeps
<1> QED
  BY <1>9 DEF plan

LEMMA PassTyped ==
  ASSUME TInv, NEW R \in [Paths -> TidyNode], NEW full \in BOOLEAN, NEW waiting,
         PassOver(R, full, waiting)
  PROVE  TInv'
<1>1. PICK approve \in BOOLEAN,
           raced \in {disk} \cup (IF Races /\ edits > 0 THEN LocalEdits(disk) ELSE {}),
           fault \in FaultsOf(Planned(disk, R, base)) :
        LET x == RunPlan(Planned(disk, R, base), Start0(raced), approve, fault, disk, R, base)
        IN /\ disk' = x.disk /\ cloud' = x.cloud /\ copies' = x.copies
           /\ base' = x.base /\ lastId' = x.lastId
           /\ untold' = StillUntold(x.untold, x.base, x.cloud)
           /\ stamp' = IF raced # disk THEN stamp + 1 ELSE stamp
           /\ edits' = IF raced # disk THEN edits - 1 ELSE edits
           /\ delta' \in {delta \o x.told, x.told}
  BY DEF PassOver
<1> DEFINE x == RunPlan(Planned(disk, R, base), Start0(raced), approve, fault, disk, R, base)
<1>2. x \in Running
  BY RunTyped
<1>3. /\ disk' = x.disk /\ cloud' = x.cloud /\ copies' = x.copies
      /\ base' = x.base /\ lastId' = x.lastId
      /\ untold' = StillUntold(x.untold, x.base, x.cloud)
      /\ delta' \in {delta \o x.told, x.told}
  BY <1>1
<1> HIDE DEF x
<1>4. disk' \in Folder /\ cloud' \in Folder /\ base' \in Records /\ copies' \subseteq Nat
      /\ lastId' \in Nat
  BY <1>2, <1>3 DEF Running
<1>5. untold' \subseteq Nat
  BY <1>2, <1>3 DEF Running, StillUntold
<1>6. delta' \in Events
  <2>1. x.told \in Events
    BY <1>2 DEF Running
  <2>2. delta \o x.told \in Events
    BY <2>1, ConcatProperties DEF TInv, Events
  <2> QED
    BY <1>3, <2>1, <2>2
<1>7. stamp' \in Nat /\ edits' \in Nat
  <2>1. raced # disk => edits > 0
    OBVIOUS
  <2> QED
    BY <1>1, <2>1 DEF TInv
<1> QED
  BY <1>4, <1>5, <1>6, <1>7 DEF TInv

LEMMA StepTyped == TInv /\ [Next]_vars => TInv'
<1> SUFFICES ASSUME TInv, [Next]_vars PROVE TInv'
  OBVIOUS
<1>1. Listed \in [Paths -> TidyNode]
  BY ListedIs DEF TInv, Folder
<1>2. ASSUME FullWalk PROVE TInv'
  <2>1. PassOver(Listed, TRUE, behind \ ShownIds(Listed))
    BY <1>2 DEF FullWalk
  <2> QED
    BY <1>1, <2>1, PassTyped
<1>3. ASSUME Follow PROVE TInv'
  <2> DEFINE s == Rebuild(base, delta, Listed)
             waiting == {b.id : b \in s.behind}
  <2>1. FullWalk \/ PassOver(s.tree, FALSE, waiting)
    BY <1>3 DEF Follow, Rebuilt
  <2>2. s.tree \in [Paths -> TidyNode]
    BY <1>1, RebuiltIs, GivenIsTidy DEF TInv
  <2> HIDE DEF s, waiting
  <2> QED
    BY <1>2, <2>1, <2>2, PassTyped
<1>4. CASE ListingCatchesUp \/ UNCHANGED vars
  BY <1>4 DEF ListingCatchesUp, TInv, vars
<1> QED
  BY <1>2, <1>3, <1>4, EditLocalTyped, RemoteEditTyped DEF Next

LEMMA Invariance == Spec => []TInv
<1>1. Init => TInv
  BY InitTyped
<1>2. TInv /\ [Next]_vars => TInv'
  BY StepTyped
<1> QED
  BY <1>1, <1>2, PTL DEF Spec

(* Whatever users edit on either side, whatever listings hide and wherever *)
(* a pass is raced, cut or refused: both folders stay trees, in which a    *)
(* node is never without its folder, and the records stay well formed      *)
(* (the executor's renames and removals of whole directories).             *)
THEOREM FoldersStayTrees == Spec => []TypeOK
BY Invariance, TInvIsTyped, PTL

-----------------------------------------------------------------------------
(* Where a pass may carry what is at p: a folder another client moved      *)
(* takes it along to these places.                                         *)
Landings(R, p) ==
  {l \in Paths : \E m \in MovesPlanned(disk, R, base) :
                   m.kind = "dir" /\ Below(m.path, p) /\ l = Rekey(p, m.path, m.to)}

(* A landing place is free, and what the remote has there is no danger.    *)
LEMMA LandingIs ==
  ASSUME TInv, NEW R \in Given(base, Listed), NEW p \in Paths, NEW l \in Landings(R, p),
         disk[p].kind = "file", ~TakenOver(p)
  PROVE  \E q \in Paths :
           /\ Below(q, l) /\ disk[q].kind = "none" /\ disk[l].kind = "none"
           /\ base[p].kind # "none" => l \in Settled(disk, R, base)
           /\ cloud[l].kind = "file" => base[p].kind # "none" /\ ~Elder(p, cloud[l])
<1>1. /\ R \in [Paths -> TidyNode] /\ disk \in [Paths -> TidyNode] /\ disk \in Folder
      /\ base \in Records /\ Trees(disk, R, base)
  BY GivenIsTidy DEF TInv, Folder, Trees, Records, StoredRow
<1>2. l \in Paths
  BY DEF Landings
<1>3. PICK m \in MovesPlanned(disk, R, base) :
        m.kind = "dir" /\ Below(m.path, p) /\ l = Rekey(p, m.path, m.to)
  BY DEF Landings
<1>4. m \in MovesOf(disk, R, base) /\ Suppressed(base, m) \subseteq Settled(disk, R, base)
  BY DEF MovesPlanned
<1>5. /\ m.path \in Paths /\ m.to \in Paths
      /\ m = Transition(disk, R, base, m.path) /\ m # Nothing
      /\ m.do \in {"move_local", "move_remote"} /\ (m.do = "move_remote" => m.kind = "file")
      /\ m.id = base[m.path].id /\ m.id # 0
  BY <1>1, <1>3, <1>4, MoveShape
<1>6. m.do = "move_local"
  BY <1>3, <1>5
<1>7. /\ base[m.to].kind = "none" /\ base[m.path].kind = "dir"
      /\ disk[m.to].kind = "none" /\ R[m.to].kind = "dir" /\ R[m.to].id = base[m.path].id
  BY <1>3, <1>5, <1>6, MovesGoToFreePlaces
<1>8. Below(m.to, l) /\ Len(m.to) = 1
  BY <1>2, <1>3, <1>5, Rekeyed
<1>9. disk[l].kind = "none"
  <2>1. Len(l) = 2 /\ Parent(l) = m.to
    BY <1>2, <1>5, <1>8, Nesting
  <2> QED
    BY <1>1, <1>2, <1>7, <2>1, FolderIs
<1>10. base[p].kind # "none" => l \in Settled(disk, R, base)
  BY <1>3, <1>4 DEF Suppressed, Held
<1>11. cloud[m.to].id = base[m.path].id /\ m.to # m.path
  <2>1. R[m.to] \in {NoNode, EntityOfRow(base[m.to]), Listed[m.to]}
    BY <1>5 DEF Given
  <2>2. EntityOfRow(base[m.to]).kind = "none" /\ NoNode.kind = "none"
    BY <1>7 DEF EntityOfRow, NoNode
  <2>3. Listed[m.to] \in {cloud[m.to], NoNode}
    BY <1>5, ListedIs DEF TInv, Folder
  <2>4. R[m.to] = cloud[m.to]
    BY <1>7, <2>1, <2>2, <2>3
  <2> QED
    BY <1>7, <2>4
<1>12. ASSUME cloud[l].kind = "file" PROVE base[p].kind # "none" /\ ~Elder(p, cloud[l])
  <2>1. l \in Held(cloud)
    BY <1>2, <1>12 DEF Held
  <2>2. base[m.path].id # 0
    BY <1>5
  <2> QED
    BY <1>3, <1>5, <1>7, <1>11, <2>1, <2>2 DEF TakenOver
<1> QED
  BY <1>5, <1>7, <1>8, <1>9, <1>10, <1>12

(* The passes' states in which the content at p is in one of its places.   *)
Kept(R, p) ==
  {x \in Running :
     /\ \E s \in {p} \cup Landings(R, p) : x.disk[s].hash = disk[p].hash
     /\ \A l \in Landings(R, p) : x.cloud[l].kind = "file" => cloud[l].kind = "file"}

(* What a planned action relies on, as the lemmas below need it.           *)
Sensible(a, R) ==
  /\ Orderly(a, disk)
  /\ \/ a \in MovesPlanned(disk, R, base)
     \/ \E q \in Paths \ Settled(disk, R, base) :
          a = Decided(disk, R, base, q) /\ a.do # "none"

LEMMA SensibleMove ==
  ASSUME TInv, NEW R \in [Paths -> TidyNode], NEW a, Sensible(a, R),
         a.do \in {"move_local", "move_remote"}
  PROVE  /\ a \in MovesPlanned(disk, R, base)
         /\ a.path \in Paths /\ a.to \in Paths /\ a.kind \in {"file", "dir"}
         /\ base[a.to].kind = "none" /\ base[a.path].kind = a.kind
         /\ a.do = "move_local" =>
              /\ disk[a.path].kind = a.kind /\ disk[a.to].kind = "none"
              /\ a.kind = "file" =>
                   /\ disk[a.path].hash = base[a.path].hash
                   /\ R[a.to].kind = "file" /\ R[a.to].hash = base[a.path].hash
                   /\ base[a.path].id \in {0, R[a.to].id}
         /\ a.do = "move_remote" => disk[a.to].kind = "file"
<1>1. Trees(disk, R, base)
  BY DEF TInv, Folder, Trees, Records, StoredRow
<1>2. a \in MovesPlanned(disk, R, base)
  <2> SUFFICES ASSUME NEW q \in Paths, a = Decided(disk, R, base, q), a.do # "none"
               PROVE  FALSE
    BY DEF Sensible
  <2>1. Proved(disk, R, base, Settled(disk, R, base), q) \in BOOLEAN
    BY DEF Proved
  <2> QED
    BY <1>1, <2>1, DecisionShape DEF Decided
<1>3. /\ a.path \in Paths /\ a.to \in Paths /\ a.kind \in {"file", "dir"}
      /\ a = Transition(disk, R, base, a.path) /\ a # Nothing
      /\ a.do = "move_local" /\ a.kind = "file" => base[a.path].id \in {0, R[a.to].id}
  BY <1>1, <1>2, MoveShape DEF MovesPlanned
<1> QED
  BY <1>2, <1>3, MovesGoToFreePlaces

LEMMA SensibleDecision ==
  ASSUME TInv, NEW R \in [Paths -> TidyNode], NEW a, Sensible(a, R),
         a.do \in {"download", "local_delete"}
  PROVE  /\ a.path \in Paths \ Settled(disk, R, base)
         /\ a.do = "download" => disk[a.path].hash \in {0, base[a.path].hash}
         /\ a.do = "local_delete" =>
              /\ disk[a.path].kind # "none" /\ disk[a.path].hash = base[a.path].hash
              /\ \A q \in Paths :
                   Below(a.path, q) /\ disk[q].kind # "none" => disk[q].hash = base[q].hash
<1>1. Trees(disk, R, base) /\ disk \in Folder
  BY DEF TInv, Folder, Trees, Records, StoredRow
<1>2. a \notin MovesPlanned(disk, R, base)
  BY <1>1, MoveShape DEF MovesPlanned
<1>3. PICK p \in Paths \ Settled(disk, R, base) : a = Decided(disk, R, base, p)
  BY <1>2 DEF Sensible
<1> DEFINE proved == Proved(disk, R, base, Settled(disk, R, base), p)
<1>4. proved \in BOOLEAN /\ a = PlanEntity(disk, R, base, p, proved)
  BY <1>3 DEF Decided, Proved
<1>5. a.path = p /\ (a.do = "download" => disk[p].hash \in {0, base[p].hash})
  <2> HIDE DEF proved
  <2> QED
    BY <1>1, <1>4, DecisionShape
<1>6. ASSUME a.do = "local_delete"
      PROVE  /\ disk[p].kind # "none" /\ disk[p].hash = base[p].hash
             /\ \A q \in Paths :
                  Below(p, q) /\ disk[q].kind # "none" => disk[q].hash = base[q].hash
  <2>1. GivenUp(disk[p], R[p], base[p])
    <3> HIDE DEF proved
    <3> QED
      BY <1>1, <1>4, <1>6, OnlyAgreedIsDeleted
  <2>2. ASSUME NEW q \in Paths, Below(p, q), disk[q].kind # "none"
        PROVE  disk[q].hash = base[q].hash
    <3>1. Len(q) = 2 /\ Parent(q) = p
      BY <2>2, Nesting
    <3>2. disk[p].kind = "dir"
      BY <1>1, <2>2, <3>1, FolderIs DEF Folder
    <3>3. base[p].kind = "dir" /\ a.do \in Deletes
      BY <1>6, <2>1, <3>2 DEF GivenUp, Deletes
    <3>4. GivenUp(disk[q], R[q], base[q])
      BY <1>1, <1>4, <2>2, <3>3, DirectoriesGoWhole
    <3> QED
      BY <3>4 DEF GivenUp
  <2> QED
    BY <2>1, <2>2 DEF GivenUp
<1> QED
  BY <1>3, <1>5, <1>6

(* No action makes a remote file where the content may land.               *)
LEMMA NothingMadeThere ==
  ASSUME TInv, NEW R \in Given(base, Listed), NEW p \in Paths, disk[p].kind = "file",
         ~TakenOver(p), NEW a, Sensible(a, R), NEW l \in Landings(R, p)
  PROVE  ~Makes(a, l)
<1>1. R \in [Paths -> TidyNode]
  BY GivenIsTidy
<1>2. PICK q \in Paths : Below(q, l) /\ disk[q].kind = "none" /\ disk[l].kind = "none"
  BY LandingIs
<1>3. l \in Paths /\ Len(l) = 2 /\ Parent(l) = q
  BY <1>2, Nesting DEF Landings
<1>4. CASE a.do = "upload"
  BY <1>2, <1>4 DEF Makes, Sensible, Orderly
<1>5. CASE a.do = "move_remote"
  <2>1. a.to \in Paths /\ disk[a.to].kind = "file"
    BY <1>1, <1>5, SensibleMove
  <2>2. ASSUME l \in Subtree(a.to) PROVE FALSE
    <3>1. l = a.to \/ Below(a.to, l)
      BY <2>2 DEF Subtree
    <3>2. Below(a.to, l) => a.to = q
      BY <1>3, <2>1, Nesting
    <3> QED
      BY <1>2, <2>1, <3>1, <3>2
  <2> QED
    BY <1>5, <2>2 DEF Makes
<1> QED
  BY <1>4, <1>5 DEF Makes

(* An action that touches one of the places only moves the content on.     *)
LEMMA OnlyMovedOn ==
  ASSUME TInv, NEW R \in Given(base, Listed), NEW p \in Paths,
         disk[p].kind = "file", disk[p].hash \notin Agreed, ~TakenOver(p),
         NEW a, Sensible(a, R), NEW x \in Kept(R, p), NEW y,
         NEW s \in {p} \cup Landings(R, p), Touches(x, a, y, s)
  PROVE  \E l \in Landings(R, p) : y.disk[l] = x.disk[s]
<1>1. R \in [Paths -> TidyNode] /\ disk \in [Paths -> TidyNode]
  BY GivenIsTidy DEF TInv, Folder
<1>2. disk[p].hash # 0 /\ \A q \in Paths : disk[p].hash # base[q].hash
  BY <1>1, TidyParts DEF Agreed
<1>3. s \in Paths
  BY DEF Landings
<1>4. ASSUME NEW l \in Landings(R, p)
      PROVE  \E q \in Paths :
               /\ Below(q, l) /\ disk[q].kind = "none" /\ disk[l].kind = "none"
               /\ base[p].kind # "none" => l \in Settled(disk, R, base)
               /\ cloud[l].kind = "file" => base[p].kind # "none" /\ ~Elder(p, cloud[l])
  BY LandingIs
<1>5. CASE a.do = "download" /\ s = a.path /\ x.cloud[s].kind = "file"
  <2>1. s \notin Settled(disk, R, base) /\ disk[s].hash \in {0, base[s].hash}
    BY <1>1, <1>5, SensibleDecision
  <2>2. s # p
    BY <1>2, <2>1
  <2>3. cloud[s].kind = "file"
    BY <1>5, <2>2 DEF Kept
  <2> QED
    BY <1>4, <2>1, <2>2, <2>3
<1>6. CASE a.do = "move_local" /\ a.kind = "file" /\ s \in {a.path, a.to}
  <2>1. /\ a.path \in Paths /\ a.to \in Paths /\ base[a.to].kind = "none"
        /\ base[a.path].kind = "file"
        /\ disk[a.path].kind = "file" /\ disk[a.to].kind = "none"
        /\ disk[a.path].hash = base[a.path].hash
        /\ R[a.to].kind = "file" /\ R[a.to].hash = base[a.path].hash
        /\ base[a.path].id \in {0, R[a.to].id}
    BY <1>1, <1>6, SensibleMove
  <2>2. s # p /\ a.path # p
    BY <1>2, <1>6, <2>1
  <2>3. s \in Landings(R, p)
    BY <2>2
  <2>4. disk[s].kind = "none" /\ (cloud[s].kind = "file" => ~Elder(p, cloud[s]))
    BY <1>4, <2>3
  <2>5. s = a.to
    BY <1>6, <2>1, <2>4
  <2>6. R[a.to] = cloud[a.to]
    <3>1. R[a.to] \in {NoNode, EntityOfRow(base[a.to]), Listed[a.to]}
      BY <2>1 DEF Given
    <3>2. EntityOfRow(base[a.to]).kind = "none" /\ NoNode.kind = "none"
      BY <2>1 DEF EntityOfRow, NoNode
    <3>3. Listed[a.to] \in {cloud[a.to], NoNode}
      BY <2>1, ListedIs DEF TInv, Folder
    <3> QED
      BY <2>1, <3>1, <3>2, <3>3
  <2>7. Elder(p, cloud[a.to])
    BY <2>1, <2>2, <2>6 DEF Elder
  <2> QED
    BY <2>1, <2>4, <2>5, <2>6, <2>7
<1>7. CASE /\ a.do = "move_local" /\ a.kind # "file" /\ s \in Subtree(a.path)
           /\ Rekey(s, a.path, a.to) \in Paths
           /\ y.disk[Rekey(s, a.path, a.to)] = x.disk[s]
  <2>1. /\ a \in MovesPlanned(disk, R, base) /\ a.path \in Paths /\ a.kind = "dir"
        /\ disk[a.path].kind = "dir"
    BY <1>1, <1>7, SensibleMove
  <2>2. s = a.path \/ Below(a.path, s)
    BY <1>7 DEF Subtree
  <2>3. s \notin Landings(R, p)
    <3> SUFFICES ASSUME s \in Landings(R, p) PROVE FALSE
      OBVIOUS
    <3>1. PICK q \in Paths : Below(q, s) /\ disk[q].kind = "none" /\ disk[s].kind = "none"
      BY <1>4
    <3>2. Parent(s) = q /\ (Below(a.path, s) => Parent(s) = a.path)
      BY <1>3, <2>1, <3>1, Nesting
    <3> QED
      BY <2>1, <2>2, <3>1, <3>2
  <2>4. s = p /\ Below(a.path, p)
    BY <2>1, <2>2, <2>3
  <2>5. Rekey(p, a.path, a.to) \in Landings(R, p)
    BY <1>7, <2>1, <2>4 DEF Landings
  <2> QED
    BY <1>7, <2>4, <2>5
<1>8. CASE a.do = "local_delete" /\ (s = a.path \/ Below(a.path, s))
  <2>1. /\ a.path \in Paths
        /\ disk[a.path].kind # "none" /\ disk[a.path].hash = base[a.path].hash
        /\ \A q \in Paths :
             Below(a.path, q) /\ disk[q].kind # "none" => disk[q].hash = base[q].hash
    BY <1>1, <1>8, SensibleDecision
  <2>2. s # p
    BY <1>2, <1>8, <2>1
  <2>3. PICK q \in Paths : Below(q, s) /\ disk[q].kind = "none" /\ disk[s].kind = "none"
    BY <1>4, <2>2
  <2>4. Parent(s) = q /\ (Below(a.path, s) => Parent(s) = a.path)
    BY <1>3, <2>1, <2>3, Nesting
  <2> QED
    BY <1>8, <2>1, <2>3, <2>4
<1> QED
  BY <1>5, <1>6, <1>7, <1>8 DEF Touches

(* So every action keeps the content in one of its places.                 *)
LEMMA KeptByAction ==
  ASSUME TInv, NEW R \in Given(base, Listed), NEW p \in Paths,
         disk[p].kind = "file", disk[p].hash \notin Agreed, ~TakenOver(p),
         NEW a, Sensible(a, R), NEW plannedDirs, NEW x \in Kept(R, p)
  PROVE  Perform(x, a, disk, R, base, plannedDirs) \in Kept(R, p)
<1> DEFINE y == Perform(x, a, disk, R, base, plannedDirs)
<1>1. /\ R \in [Paths -> TidyNode] /\ disk \in [Paths -> TidyNode] /\ base \in Records
      /\ Orderly(a, disk) /\ x \in Running
  BY GivenIsTidy DEF TInv, Folder, Sensible, Kept
<1>2. /\ y \in Running
      /\ \A q \in Paths : x.disk[q].kind = "file" => y.disk[q] = x.disk[q] \/ Touches(x, a, y, q)
      /\ \A q \in Paths : y.cloud[q].kind = "file" => x.cloud[q].kind = "file" \/ Makes(a, q)
  BY <1>1, PerformEffect
<1> HIDE DEF y
<1>3. Landings(R, p) \subseteq Paths
  BY DEF Landings
<1>4. \A l \in Landings(R, p) : y.cloud[l].kind = "file" => cloud[l].kind = "file"
  BY <1>2, <1>3, NothingMadeThere DEF Kept
<1>5. PICK s \in {p} \cup Landings(R, p) : x.disk[s].hash = disk[p].hash
  BY DEF Kept
<1>6. x.disk[s].kind = "file"
  <2>1. disk[p].hash # 0
    BY <1>1, TidyParts
  <2>2. x.disk[s] \in TidyNode
    BY <1>1, <1>3 DEF Running, Folder
  <2> QED
    BY <1>5, <2>1, <2>2, TidyParts
<1>7. \E l \in {p} \cup Landings(R, p) : y.disk[l] = x.disk[s]
  <2>1. CASE y.disk[s] = x.disk[s]
    BY <2>1
  <2>2. CASE Touches(x, a, y, s)
    BY <2>2, OnlyMovedOn
  <2> QED
    BY <1>2, <1>3, <1>6, <2>1, <2>2
<1>8. y \in Kept(R, p)
  BY <1>2, <1>4, <1>5, <1>7 DEF Kept
<1> QED
  BY <1>8 DEF y

(* And so does a pass in which nobody edits, cut wherever it may be.       *)
LEMMA KeptByPass ==
  ASSUME TInv, NEW R \in Given(base, Listed), NEW p \in Paths,
         disk[p].kind = "file", disk[p].hash \notin Agreed, ~TakenOver(p),
         NEW approve \in BOOLEAN, NEW fault \in FaultsOf(Planned(disk, R, base))
  PROVE  RunPlan(Planned(disk, R, base), Start0(disk), approve, fault, disk, R, base)
           \in Kept(R, p)
<1> DEFINE plan == Planned(disk, R, base)
           S == Kept(R, p)
<1>1. disk \in [Paths -> TidyNode] /\ R \in [Paths -> TidyNode] /\ base \in Records
  BY GivenIsTidy DEF TInv, Folder
<1>2. Start0(disk) \in S
  <2>1. Start0(disk) \in Running
    BY DEF Start0, Running, TInv, Events
  <2>2. Start0(disk).disk = disk /\ Start0(disk).cloud = cloud
    BY DEF Start0
  <2> QED
    BY <2>1, <2>2 DEF Kept
<1>3. /\ Len(plan) \in Nat /\ DOMAIN plan = 1 .. Len(plan)
      /\ \A i \in 1 .. Len(plan) : Sensible(plan[i], R)
  BY <1>1, PlanShape DEF Trees, Records, StoredRow, Sensible
<1>4. fault.crash => fault.at \in 1 .. Len(plan)
  BY <1>3 DEF FaultsOf, NoFault
<1> HIDE DEF plan
<1>5. \A x \in S : \A i \in 1 .. Len(plan) :
        Perform(x, plan[i], disk, R, base, PlannedDirs(plan)) \in S
  BY <1>3, KeptByAction
<1>6. \A x \in S : [x EXCEPT !.withheld = TRUE] \in S
  BY DEF Running, Kept
<1>7. \A x, y \in S : Failed(x, y) \in S
  BY DEF Failed, Running, Kept
<1> HIDE DEF S
<1>8. RunPlan(plan, Start0(disk), approve, fault, disk, R, base) \in S
  BY <1>2, <1>3, <1>4, <1>5, <1>6, <1>7, RunKeeps
<1> QED
  BY <1>8 DEF plan, S

LEMMA EditStaysInPass ==
  ASSUME TInv, NEW R \in Given(base, Listed), NEW full \in BOOLEAN, NEW waiting,
         PassOver(R, full, waiting), edits' = edits,
         NEW c \in Contents(disk) \ (Agreed \cup Overrun)
  PROVE  c \in Contents(disk')
<1>1. PICK approve \in BOOLEAN,
           raced \in {disk} \cup (IF Races /\ edits > 0 THEN LocalEdits(disk) ELSE {}),
           fault \in FaultsOf(Planned(disk, R, base)) :
        /\ disk' = RunPlan(Planned(disk, R, base), Start0(raced), approve, fault,
                           disk, R, base).disk
        /\ edits' = IF raced # disk THEN edits - 1 ELSE edits
  BY DEF PassOver
<1>2. raced = disk
  BY <1>1 DEF TInv
<1>3. PICK p \in Paths : c = disk[p].hash /\ c # 0
  BY DEF Contents
<1>4. disk[p].kind = "file"
  BY <1>3, TidyParts DEF TInv, Folder
<1>5. disk[p].hash \notin Agreed /\ ~TakenOver(p)
  BY <1>3 DEF Overrun
<1> DEFINE x == RunPlan(Planned(disk, R, base), Start0(disk), approve, fault, disk, R, base)
<1>6. x \in Kept(R, p)
  BY <1>4, <1>5, KeptByPass
<1> HIDE DEF x
<1>7. PICK s \in {p} \cup Landings(R, p) : x.disk[s].hash = c
  BY <1>3, <1>6 DEF Kept
<1>8. disk' = x.disk
  BY <1>1, <1>2 DEF x
<1> QED
  BY <1>3, <1>7, <1>8 DEF Contents, Landings

(* The user's word stays: a local version that no record agrees on is      *)
(* somewhere in the folder after every pass, whatever the pass takes the   *)
(* remote for, whatever it moves, deletes and downloads, and wherever it   *)
(* fails, is refused a deletion or is cut (execute_plan_and_commit).       *)
THEOREM UserEditsStay == Spec => LocalEditsStay
<1> DEFINE Keeps == step' # "edit" /\ edits' = edits =>
                      Contents(disk) \ (Agreed \cup Overrun) \subseteq Contents(disk')
<1>1. ASSUME TInv, [Next]_vars PROVE [Keeps]_vars
  <2> SUFFICES ASSUME Next, step' # "edit", edits' = edits,
                      NEW c \in Contents(disk) \ (Agreed \cup Overrun)
               PROVE  c \in Contents(disk')
    BY <1>1
  <2>1. /\ Listed \in [Paths -> TidyNode]
        /\ \A q \in Paths : Listed[q] \in {NoNode, EntityOfRow(base[q]), Listed[q]}
    BY <1>1, ListedIs DEF TInv, Folder
  <2>2. Listed \in Given(base, Listed)
    BY <2>1 DEF Given
  <2>3. ASSUME FullWalk PROVE c \in Contents(disk')
    <3>1. PassOver(Listed, TRUE, behind \ ShownIds(Listed))
      BY <2>3 DEF FullWalk
    <3> QED
      BY <1>1, <2>2, <3>1, EditStaysInPass
  <2>4. ASSUME Follow PROVE c \in Contents(disk')
    <3> DEFINE s == Rebuild(base, delta, Listed)
               waiting == {b.id : b \in s.behind}
    <3>1. FullWalk \/ PassOver(s.tree, FALSE, waiting)
      BY <2>4 DEF Follow, Rebuilt
    <3>2. s.tree \in Given(base, Listed)
      BY <1>1, <2>1, RebuiltIs DEF TInv
    <3> HIDE DEF s, waiting
    <3> QED
      BY <1>1, <2>3, <3>1, <3>2, EditStaysInPass
  <2>5. CASE ListingCatchesUp
    BY <2>5 DEF ListingCatchesUp
  <2>6. CASE EditLocal
    BY <2>6 DEF EditLocal
  <2>7. CASE \/ RemoteCreate \/ RemoteRevise \/ RemoteTrash
             \/ RemoteMove \/ RemoteMoveOut \/ RemoteMoveIn
    BY <2>7 DEF RemoteCreate, RemoteRevise, RemoteTrash, RemoteMove, RemoteMoveOut,
                RemoteMoveIn, RemoteStep
  <2> QED
    BY <2>3, <2>4, <2>5, <2>6, <2>7 DEF Next
<1>2. Spec => [][Keeps]_vars
  <2>1. TInv /\ [Next]_vars => [Keeps]_vars
    BY <1>1
  <2> HIDE DEF Keeps
  <2> QED
    BY <2>1, Invariance, PTL DEF Spec
<1> QED
  BY <1>2 DEF LocalEditsStay
-----------------------------------------------------------------------------
(* The other half: a map that tells what is at p, and in which folder.     *)
ShownAt(R, p) ==
  R[p] = cloud[p] /\ (Len(p) > 1 => R[Parent(p)] = cloud[Parent(p)])

LEMMA ShownIsNotTaken ==
  ASSUME TInv, NEW R \in [Paths -> TidyNode], NEW p \in Paths,
         cloud[p].kind = "file", cloud[p].hash \notin Agreed, ShownAt(R, p),
         NEW a, Sensible(a, R)
  PROVE  ~Takes(a, p)
<1>1. Trees(disk, R, base) /\ cloud \in Folder /\ cloud \in [Paths -> TidyNode]
  BY DEF TInv, Folder, Trees, Records, StoredRow
<1>2. R[p].kind = "file" /\ R[p].hash # 0 /\ \A q \in Paths : R[p].hash # base[q].hash
  BY <1>1, TidyParts DEF ShownAt, Agreed
<1>3. ASSUME NEW d \in Paths, Below(d, p) PROVE R[d].kind = "dir"
  <2>1. Len(p) = 2 /\ Parent(p) = d
    BY <1>3, Parents
  <2>2. cloud[d].kind = "dir"
    BY <1>1, <2>1, FolderIs
  <2> QED
    BY <2>1, <2>2 DEF ShownAt
<1>4. a \in MovesPlanned(disk, R, base) => a.do \in {"move_local", "move_remote"}
  BY <1>1, MoveShape DEF MovesPlanned
<1>5. ASSUME a.do \in {"upload", "remote_delete"}
      PROVE  /\ a.path \in Paths
             /\ a = PlanEntity(disk, R, base, a.path,
                               Proved(disk, R, base, Settled(disk, R, base), a.path))
  <2>1. PICK q \in Paths \ Settled(disk, R, base) : a = Decided(disk, R, base, q)
    BY <1>4, <1>5 DEF Sensible
  <2> DEFINE proved == Proved(disk, R, base, Settled(disk, R, base), q)
  <2>2. proved \in BOOLEAN /\ a = PlanEntity(disk, R, base, q, proved) /\ a.do # "none"
    BY <1>5, <2>1 DEF Decided, Proved
  <2>3. a.path = q
    <3> HIDE DEF proved
    <3> QED
      BY <1>1, <2>2, DecisionShape
  <2> QED
    BY <2>2, <2>3
<1> DEFINE proved == Proved(disk, R, base, Settled(disk, R, base), a.path)
<1>6. proved \in BOOLEAN
  BY DEF Proved
<1>7. CASE a.do = "upload" /\ a.path = p
  <2>1. base[p].status # "modified"
    BY TidyParts DEF TInv, Records
  <2>2. R[p].hash \in {0, base[p].hash} \/ base[p].status = "modified"
    <3>1. a = PlanEntity(disk, R, base, p, proved) /\ a.do # "none"
      BY <1>5, <1>7
    <3> HIDE DEF proved
    <3> QED
      BY <1>1, <1>6, <1>7, <3>1, DecisionShape
  <2> QED
    BY <1>2, <2>1, <2>2
<1>8. CASE a.do = "remote_delete" /\ p \in Subtree(a.path)
  <2>1. a.path \in Paths /\ a = PlanEntity(disk, R, base, a.path, proved)
    BY <1>5, <1>8
  <2>2. GivenUp(R[a.path], disk[a.path], base[a.path])
    <3> HIDE DEF proved
    <3> QED
      BY <1>1, <1>6, <1>8, <2>1, OnlyAgreedIsDeleted
  <2>3. a.path # p
    BY <1>2, <2>1, <2>2 DEF GivenUp
  <2>4. Below(a.path, p)
    BY <1>8, <2>3 DEF Subtree
  <2>5. base[a.path].kind = "dir"
    BY <1>3, <2>1, <2>2, <2>4 DEF GivenUp
  <2>6. PlanEntity(disk, R, base, a.path, proved).do \in Deletes
    BY <1>8, <2>1 DEF Deletes
  <2>7. GivenUp(R[p], disk[p], base[p])
    BY <1>1, <1>2, <2>1, <2>4, <2>5, <2>6, DirectoriesGoWhole
  <2> QED
    BY <1>2, <2>7 DEF GivenUp
<1>9. CASE a.do = "move_remote" /\ p \in Subtree(a.path)
  <2>1. /\ a.path \in Paths /\ a = Transition(disk, R, base, a.path) /\ a # Nothing
    BY <1>1, <1>9, SensibleMove, MoveShape DEF MovesPlanned
  <2>2. R[a.path].kind = "file" /\ R[a.path].hash = base[a.path].hash
    BY <1>9, <2>1, MovesGoToFreePlaces
  <2>3. a.path # p
    BY <1>2, <2>1, <2>2
  <2>4. Below(a.path, p)
    BY <1>9, <2>3 DEF Subtree
  <2> QED
    BY <1>3, <2>1, <2>2, <2>4
<1> QED
  BY <1>7, <1>8, <1>9 DEF Takes

LEMMA ShownStaysByAction ==
  ASSUME TInv, NEW R \in [Paths -> TidyNode], NEW p \in Paths,
         cloud[p].kind = "file", cloud[p].hash \notin Agreed, ShownAt(R, p),
         NEW a, Sensible(a, R), NEW plannedDirs,
         NEW x \in Running, x.cloud[p] = cloud[p]
  PROVE  LET y == Perform(x, a, disk, R, base, plannedDirs)
         IN y \in Running /\ y.cloud[p] = cloud[p]
<1> DEFINE y == Perform(x, a, disk, R, base, plannedDirs)
<1>1. /\ R \in [Paths -> TidyNode] /\ disk \in [Paths -> TidyNode] /\ base \in Records
      /\ Orderly(a, disk) /\ x \in Running
  BY DEF TInv, Folder, Sensible
<1>2. /\ y \in Running
      /\ x.cloud[p].kind = "file" => y.cloud[p] = x.cloud[p] \/ Takes(a, p)
  BY <1>1, PerformEffect
<1> HIDE DEF y
<1>3. y \in Running /\ y.cloud[p] = cloud[p]
  BY <1>2, ShownIsNotTaken
<1> QED
  BY <1>3 DEF y

(* So a pass leaves it where it is.                                        *)
LEMMA ShownStays ==
  ASSUME TInv, NEW R \in [Paths -> TidyNode], NEW full \in BOOLEAN, NEW waiting,
         PassOver(R, full, waiting), NEW p \in Paths,
         cloud[p].kind = "file", cloud[p].hash \notin Agreed, ShownAt(R, p)
  PROVE  cloud'[p] = cloud[p]
<1>1. PICK approve \in BOOLEAN,
           raced \in {disk} \cup (IF Races /\ edits > 0 THEN LocalEdits(disk) ELSE {}),
           fault \in FaultsOf(Planned(disk, R, base)) :
        cloud' = RunPlan(Planned(disk, R, base), Start0(raced), approve, fault,
                         disk, R, base).cloud
  BY DEF PassOver
<1> DEFINE plan == Planned(disk, R, base)
           S == {x \in Running : x.cloud[p] = cloud[p]}
<1>2. disk \in [Paths -> TidyNode] /\ base \in Records
  BY DEF TInv, Folder
<1>3. Start0(raced) \in S
  <2>1. raced \in Folder
    BY EditsKeepFolder DEF TInv
  <2>2. Start0(raced) \in Running /\ Start0(raced).cloud = cloud
    BY <2>1 DEF Start0, Running, TInv, Events
  <2> QED
    BY <2>2
<1>4. /\ Len(plan) \in Nat /\ DOMAIN plan = 1 .. Len(plan)
      /\ \A i \in 1 .. Len(plan) : Sensible(plan[i], R)
  BY <1>2, PlanShape DEF Trees, Records, StoredRow, Sensible
<1>5. fault.crash => fault.at \in 1 .. Len(plan)
  BY <1>4 DEF FaultsOf, NoFault
<1> HIDE DEF plan
<1>6. \A x \in S : \A i \in 1 .. Len(plan) :
        Perform(x, plan[i], disk, R, base, PlannedDirs(plan)) \in S
  BY <1>4, ShownStaysByAction
<1>7. \A x \in S : [x EXCEPT !.withheld = TRUE] \in S
  BY DEF Running
<1>8. \A x, y \in S : Failed(x, y) \in S
  BY DEF Failed, Running
<1> HIDE DEF S
<1>9. RunPlan(plan, Start0(raced), approve, fault, disk, R, base) \in S
  BY <1>3, <1>4, <1>5, <1>6, <1>7, <1>8, RunKeeps
<1> QED
  BY <1>1, <1>9 DEF plan, S

StandsBy(R) ==
  \A p \in Paths :
    cloud[p].kind = "file" /\ cloud[p].hash \notin Agreed /\ ShownAt(R, p) =>
      cloud'[p] = cloud[p]

(* The other clients' word stays: a remote file that no record agrees on,  *)
(* and that the pass sees where it is, is still there, unchanged, after    *)
(* the pass, whatever the user edits meanwhile, whatever it moves, deletes *)
(* and uploads, and wherever it fails, is refused a deletion or is cut.    *)
(* The map is the listing of a full walk or that of reconstruct_remote.    *)
THEOREM RemoteEditsStay ==
  Spec => [][/\ FullWalk => StandsBy(Listed)
             /\ Follow /\ ~Rebuilt.walk => StandsBy(Rebuilt.tree)]_vars
<1> DEFINE Keeps == /\ FullWalk => StandsBy(Listed)
                    /\ Follow /\ ~Rebuilt.walk => StandsBy(Rebuilt.tree)
<1>1. ASSUME TInv, [Next]_vars PROVE [Keeps]_vars
  <2>1. Listed \in [Paths -> TidyNode]
    BY <1>1, ListedIs DEF TInv, Folder
  <2>2. ASSUME FullWalk PROVE StandsBy(Listed)
    <3>1. PassOver(Listed, TRUE, behind \ ShownIds(Listed))
      BY <2>2 DEF FullWalk
    <3> QED
      BY <1>1, <2>1, <3>1, ShownStays DEF StandsBy
  <2>3. ASSUME Follow, ~Rebuilt.walk PROVE StandsBy(Rebuilt.tree)
    <3> DEFINE s == Rebuilt
               waiting == {b.id : b \in s.behind}
    <3>1. PassOver(s.tree, FALSE, waiting)
      BY <2>3 DEF Follow
    <3>2. s.tree \in [Paths -> TidyNode]
      BY <1>1, <2>1, RebuiltIs, GivenIsTidy DEF TInv, Rebuilt
    <3> HIDE DEF s, waiting
    <3>3. StandsBy(s.tree)
      BY <1>1, <3>1, <3>2, ShownStays DEF StandsBy
    <3> QED
      BY <3>3 DEF s
  <2> QED
    BY <2>2, <2>3
<1> HIDE DEF Keeps
<1>2. Spec => [][Keeps]_vars
  <2>1. TInv /\ [Next]_vars => [Keeps]_vars
    BY <1>1
  <2> QED
    BY <2>1, Invariance, PTL DEF Spec
<1> QED
  BY <1>2 DEF Keeps

(* Over full walks this is NoAuthoredLoss, with the copy in the cloud: the *)
(* content other clients wrote is neither agreed nor unseen, so a listing  *)
(* shows it, and a listing that shows a node shows its folder.             *)
THEOREM WalksKeepAuthored ==
  Spec => [][FullWalk => Contents(cloud) \ (Agreed \cup Unseen) \subseteq Contents(cloud')]_vars
<1> DEFINE Keeps == FullWalk => Contents(cloud) \ (Agreed \cup Unseen) \subseteq Contents(cloud')
<1>1. ASSUME TInv, FullWalk, NEW h \in Contents(cloud) \ (Agreed \cup Unseen)
      PROVE  h \in Contents(cloud')
  <2>1. PICK p \in Paths : cloud[p].hash = h /\ h # 0
    BY <1>1 DEF Contents
  <2>2. cloud[p].kind = "file"
    <3>1. cloud \in [Paths -> TidyNode]
      BY <1>1 DEF TInv, Folder
    <3> QED
      BY <2>1, <3>1, TidyParts
  <2>3. Listed[p] = cloud[p]
    BY <1>1, <2>1 DEF Unseen, Untellable
  <2>4. ShownAt(Listed, p)
    <3>1. ~\E q \in Paths : cloud[q].id \in unlisted /\ p \in Subtree(q)
      BY <2>2, <2>3 DEF Listed, NoNode
    <3>2. ASSUME Len(p) > 1, NEW q \in Paths, Parent(p) \in Subtree(q) PROVE p \in Subtree(q)
      <4>1. Parent(p) \in Paths /\ Below(Parent(p), p) /\ Len(Parent(p)) = 1
        BY <3>2, Parents
      <4>2. ~Below(q, Parent(p))
        BY <4>1, Parents
      <4> QED
        BY <3>2, <4>1, <4>2 DEF Subtree
    <3>3. Len(p) > 1 => Listed[Parent(p)] = cloud[Parent(p)]
      BY <3>1, <3>2, Parents DEF Listed
    <3> QED
      BY <2>3, <3>3 DEF ShownAt
  <2>5. PassOver(Listed, TRUE, behind \ ShownIds(Listed))
    BY <1>1 DEF FullWalk
  <2>6. cloud'[p] = cloud[p]
    BY <1>1, <2>1, <2>2, <2>4, <2>5, ListedIs, ShownStays DEF TInv, Folder
  <2> QED
    BY <2>1, <2>6 DEF Contents
<1>2. TInv /\ [Next]_vars => [Keeps]_vars
  BY <1>1
<1> HIDE DEF Keeps
<1>3. Spec => [][Keeps]_vars
  BY <1>2, Invariance, PTL DEF Spec
<1> QED
  BY <1>3 DEF Keeps
=============================================================================
