--------------------------- MODULE FileSyncProofs ---------------------------
(***************************************************************************)
(* The promises of the planner for one file, for all contents and ids.     *)
(* TypeOK is inductive, and every other property follows from it and from  *)
(* the lemma that says when PlanFile chooses what.                         *)
(***************************************************************************)
EXTENDS FileSync, FilePlanProofs

(* What TypeOK says of the arguments the planner gets.                     *)
LEMMA Arguments ==
  ASSUME TypeOK
  PROVE  /\ disk \in Content /\ sidecar \in Content
         /\ cloud \in Entity /\ base \in Row
         /\ Exists(cloud) => cloud \in RemoteFile
         /\ ~Exists(cloud) => cloud = NoEntity
<1>1. disk \in Content /\ sidecar \in Content
  BY ContentsAssumption DEF TypeOK, LocalContent, Content
<1>2. NoEntity \in Entity /\ ~Exists(NoEntity)
  BY DEF NoEntity, Entity, Digest, Exists, Content
<1>3. ASSUME cloud \in RemoteFile PROVE cloud \in Entity /\ Exists(cloud)
  BY <1>3, ContentsAssumption, IdsAssumption DEF RemoteFile, Entity, Exists
<1>4. base \in Row
  BY DEF TypeOK, Versions
<1> QED
  BY <1>1, <1>2, <1>3, <1>4 DEF TypeOK

(* Initially nothing is recorded.                                          *)
LEMMA InitTyped == Init => TypeOK
<1>1. NoRecord \in [hash : LocalContent, id : Ids \cup {0}, status : Status]
  BY DEF NoRecord, LocalContent, Status
<1>2. NoRecord \in Row
  BY DEF NoRecord, Row, Record, Status, Content
<1> QED
  BY <1>1, <1>2 DEF Init, TypeOK, Versions, LocalContent

(* A pass records a row, whatever it planned.                              *)
LEMMA SyncTyped == TypeOK /\ Sync => TypeOK'
<1> SUFFICES ASSUME TypeOK, Sync PROVE TypeOK'
  OBVIOUS
<1>1. disk \in Content /\ cloud \in Entity /\ base \in Row
  BY Arguments
<1>2. Exists(cloud) => cloud.hash \in Contents /\ cloud.id \in Ids
  BY Arguments DEF RemoteFile
<1>3. disk' \in LocalContent /\ sidecar' \in LocalContent /\ quiet' \in BOOLEAN
  BY <1>1, <1>2, PlanLegal DEF Sync, action, TypeOK, LocalContent
<1>4. cloud' \in RemoteFile \cup {NoEntity}
  BY <1>1, PlanLegal, Arguments
  DEF Sync, action, TypeOK, Uploaded, RemoteFile, LocalContent, Digest
<1>5. base' \in Row
  <2>1. CASE Exists(cloud)
    BY <2>1, <1>1, RecordIsRow DEF Sync, action, Exists, Entity
  <2>2. CASE ~Exists(cloud)
    BY <2>2, <1>1, PlanLegal DEF Sync, action, RecordAfter, UploadId, RemoteId, Row,
       Record, NoRecord, Status, Entity, Exists, Deletes, Actions
  <2> QED
    BY <2>1, <2>2
<1>6. base' \in [hash : LocalContent, id : Ids \cup {0}, status : Status]
  BY <1>1, <1>2, PlanLegal, Arguments
  DEF Sync, action, RecordAfter, UploadId, RemoteId, TypeOK, LocalContent, Versions,
      NoRecord, Status, Exists, Deletes, RemoteFile
<1> QED
  BY <1>3, <1>4, <1>5, <1>6 DEF TypeOK, Versions

(* Every step keeps the type invariant.                                    *)
LEMMA StepTyped == TypeOK /\ [Next]_vars => TypeOK'
<1> SUFFICES ASSUME TypeOK, [Next]_vars PROVE TypeOK'
  OBVIOUS
<1>1. MarkModified(base) \in Versions
  BY DEF MarkModified, TypeOK, Versions, Row, Record, Status, Exists, NoRecord
<1>2. CASE LocalEdit
  BY <1>1, <1>2 DEF LocalEdit, TypeOK
<1>3. CASE RemoteEdit
  BY <1>3 DEF RemoteEdit, TypeOK
<1>4. CASE DropSidecar
  BY <1>1, <1>4 DEF DropSidecar, TypeOK, LocalContent
<1>5. CASE Sync
  BY <1>5, SyncTyped
<1>6. CASE UNCHANGED vars
  BY <1>6 DEF vars, TypeOK
<1> QED
  BY <1>2, <1>3, <1>4, <1>5, <1>6 DEF Next

(* Type correctness, for all contents and ids.                             *)
THEOREM TypeCorrect == Spec => []TypeOK
  BY InitTyped, StepTyped, PTL DEF Spec

(* A pass gives up only versions nobody needs (plan_file_sync).            *)
THEOREM NeverLosesAVersion == Spec => NoVersionLost
<1> DEFINE Kept ==
      quiet' =>
        /\ cloud.hash \in {0, cloud'.hash, base.hash, disk', sidecar'}
             \/ base.status = "modified"
        /\ disk \in {0, disk', base.hash, cloud'.hash}
<1>1. ASSUME TypeOK, [Next]_vars PROVE [Kept]_vars
  <2>1. CASE Sync
    BY <2>1, Arguments, <1>1, PlanLegal
    DEF Sync, action, Uploaded, Exists, Entity, NoEntity
  <2>2. CASE LocalEdit \/ RemoteEdit \/ DropSidecar
    BY <2>2 DEF LocalEdit, RemoteEdit, DropSidecar
  <2> QED
    BY <1>1, <2>1, <2>2 DEF Next
<1> QED
  BY <1>1, TypeCorrect, PTL DEF Spec, NoVersionLost

(* A pass deletes only what the other side removed, and only the version   *)
(* both sides agreed on.                                                   *)
THEOREM DeletesOnlyAgreed == Spec => DeletesAreAgreed
<1> DEFINE Agreed ==
      quiet' =>
        /\ Exists(cloud) /\ ~Exists(cloud') =>
             disk = 0 /\ cloud.hash = base.hash /\ cloud.digest = "sha1"
        /\ disk # 0 /\ disk' = 0 => ~Exists(cloud) /\ disk = base.hash
<1>1. ASSUME TypeOK, [Next]_vars PROVE [Agreed]_vars
  <2>1. CASE Sync
    BY <2>1, Arguments, <1>1, PlanLegal
    DEF Sync, action, Uploaded, Exists, Entity, NoEntity
  <2>2. CASE LocalEdit \/ RemoteEdit \/ DropSidecar
    BY <2>2 DEF LocalEdit, RemoteEdit, DropSidecar
  <2> QED
    BY <1>1, <2>1, <2>2 DEF Next
<1> QED
  BY <1>1, TypeCorrect, PTL DEF Spec, DeletesAreAgreed

(* A remote file without a usable digest is left as it is.                 *)
THEOREM UnknownStays == Spec => UnknownIsLeftAlone
<1> DEFINE Left == quiet' /\ cloud.digest # "sha1" => cloud' = cloud
<1>1. ASSUME TypeOK, [Next]_vars PROVE [Left]_vars
  <2>1. CASE Sync
    BY <2>1, Arguments, <1>1, PlanLegal DEF Sync, action, NoEntity
  <2>2. CASE LocalEdit \/ RemoteEdit \/ DropSidecar
    BY <2>2 DEF LocalEdit, RemoteEdit, DropSidecar
  <2> QED
    BY <1>1, <2>1, <2>2 DEF Next
<1> QED
  BY <1>1, TypeCorrect, PTL DEF Spec, UnknownIsLeftAlone

(* After a pass the planner has nothing left to do for the file.           *)
LEMMA SyncSettles == TypeOK /\ Sync => Settles'
<1> SUFFICES ASSUME TypeOK, Sync
             PROVE  PlanFile(disk', cloud', base') \in {"none", "skip", "auto_link"}
  BY DEF Settles, action
<1>1. disk \in Content /\ cloud \in Entity /\ base \in Row
  BY Arguments
<1>2. CASE action \in {"none", "skip"}
  <2>1. disk' = disk /\ cloud' = cloud /\ base' = base
    BY <1>2, Recorded DEF Sync, Deletes
  <2> QED
    BY <1>2, <2>1 DEF action
<1>3. CASE action = "upload"
  <2>1. disk' = disk /\ disk # 0
    BY <1>1, <1>3, PlanLegal DEF Sync, action
  <2>2. cloud' \in Uploaded
    BY <1>3 DEF Sync
  <2>3. cloud'.hash = disk /\ cloud'.digest = "sha1"
    BY <2>2 DEF Uploaded
  <2>4. base'.hash = disk /\ base'.status = "synced"
    BY <1>3, Recorded DEF Sync
  <2> QED
    BY <2>1, <2>3, <2>4 DEF PlanFile, ModifiedDecides, Frozen, OngoingMatrix, LocalDelta,
       RemoteDelta, PlanRelink, Exists
<1>4. CASE action = "download"
  <2>1. Exists(cloud) /\ cloud.digest # "doc"
    BY <1>1, <1>4, PlanLegal DEF action
  <2>2. disk' = cloud.hash /\ cloud' = cloud
    BY <1>4 DEF Sync
  <2>3. base'.hash = cloud.hash /\ base'.status = "synced"
    BY <1>4, Recorded DEF Sync
  <2> QED
    BY <2>1, <2>2, <2>3 DEF PlanFile, ModifiedDecides, Frozen, OngoingMatrix, LocalDelta,
       RemoteDelta, PlanRelink, Exists
<1>5. CASE action \in {"conflict", "conflict_local"}
  <2>1. disk # 0
    BY <1>1, <1>5, PlanLegal DEF action
  <2>2. disk' = disk /\ base'.hash = disk /\ base'.status = "conflict"
    BY <1>5, Recorded DEF Sync
  <2> QED
    BY <2>1, <2>2 DEF PlanFile, ModifiedDecides, Frozen, Exists
<1>6. CASE action \in Deletes \cup {"purge"}
  <2>1. disk' = 0
    BY <1>1, <1>6, PlanLegal DEF Sync, action, Deletes
  <2>2. ~Exists(cloud')
    BY <1>1, <1>6, PlanLegal DEF Sync, action, Deletes, NoEntity, Exists
  <2>3. ~Exists(base')
    BY <1>6, Recorded DEF Sync, NoRecord, Exists
  <2> QED
    BY <2>1, <2>2, <2>3 DEF PlanFile, PlanBootstrap
<1>7. CASE action = "auto_link"
  <2>0. disk # 0
    BY <1>1, <1>7, PlanLegal DEF action
  <2>1. /\ disk' = disk /\ disk # 0 /\ cloud' = cloud
        /\ base'.hash = disk /\ base'.status = "synced"
        /\ base'.id = RemoteId(cloud, base)
    BY <2>0, <1>7, Recorded DEF Sync
  <2>2. RemoteDelta(cloud, base') \in {"unchanged", "unknown"}
    BY <2>1, <1>1, <1>7
    DEF action, PlanFile, PlanBootstrap, PlanModified, ModifiedRow, ModifiedDecides,
        NeverUploaded, Frozen, OngoingMatrix, PlanRelink, PlanBothChanged, SameContent,
        LocalDelta, RemoteDelta, Exists, Entity, Digest
  <2> QED
    BY <2>1, <2>2 DEF PlanFile, ModifiedDecides, Frozen, OngoingMatrix, LocalDelta,
       PlanRelink, Exists
<1>8. action \in Actions
  BY <1>1, PlanLegal DEF action
<1> QED
  BY <1>2, <1>3, <1>4, <1>5, <1>6, <1>7, <1>8 DEF Actions, Deletes, action

(* A pass settles, for all contents and ids.                               *)
THEOREM PassSettles == Spec => []Settles
<1>1. Init => Settles
  BY DEF Init, Settles
<1>2. TypeOK /\ Settles /\ [Next]_vars => Settles'
  <2> SUFFICES ASSUME TypeOK, Settles, [Next]_vars PROVE Settles'
    OBVIOUS
  <2>1. CASE Sync
    BY <2>1, SyncSettles
  <2>2. CASE LocalEdit \/ RemoteEdit \/ DropSidecar
    BY <2>2 DEF LocalEdit, RemoteEdit, DropSidecar, Settles
  <2>3. CASE UNCHANGED vars
    BY <2>3 DEF vars, Settles, action
  <2> QED
    BY <2>1, <2>2, <2>3 DEF Next
<1> QED
  BY <1>1, <1>2, TypeCorrect, PTL DEF Spec
=============================================================================
