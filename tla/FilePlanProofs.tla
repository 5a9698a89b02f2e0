--------------------------- MODULE FilePlanProofs ---------------------------
(***************************************************************************)
(* What the file planner promises for every content, entity and record:    *)
(* each lemma says when PlanFile may choose one action.                    *)
(***************************************************************************)
EXTENDS FilePlan, TLAPS

USE DEF Content

(* The deltas are the names the matrix is indexed with.                    *)
LEMMA DeltaNames ==
  ASSUME NEW scanned \in Content, NEW entity \in Entity, NEW record \in Row
  PROVE  /\ LocalDelta(scanned, record) \in {"missing", "unchanged", "changed"}
         /\ RemoteDelta(entity, record) \in Delta
  BY DEF LocalDelta, RemoteDelta, Delta

(* plan_modified_record_action: what a record marked modified leads to.    *)
LEMMA ModifiedPlan ==
  ASSUME NEW scanned \in Content, NEW entity \in Entity, NEW record \in Row,
         Exists(record), ModifiedDecides(scanned, entity, record)
  PROVE  LET planned == PlanModified(scanned, entity, record)
         IN /\ planned \in {"upload", "auto_link", "conflict", "skip"}
            /\ planned = "upload" /\ Exists(entity) => entity.digest = "sha1"
            /\ planned = "conflict" => Exists(entity)
            /\ scanned # 0
<1>1. scanned # 0
  BY DEF ModifiedDecides, NeverUploaded, LocalDelta, Exists
<1>2. CASE NeverUploaded(scanned, entity, record)
  BY <1>1, <1>2 DEF PlanModified, NeverUploaded
<1>3. CASE ~NeverUploaded(scanned, entity, record)
  <2> DEFINE there == RemoteDelta(entity, record)
  <2>1. PlanModified(scanned, entity, record) = ModifiedRow[there]
    BY <1>3 DEF PlanModified
  <2>2. /\ there \in {"changed", "unchanged"} => entity.digest = "sha1"
        /\ there = "missing" <=> ~Exists(entity)
    BY DEF RemoteDelta, Entity, Digest
  <2>3. there \in Delta
    BY DeltaNames
  <2> QED
    BY <1>1, <2>1, <2>2, <2>3 DEF ModifiedRow, Delta
<1> QED
  BY <1>2, <1>3

(* plan_ongoing_file_action, read off its matrix.                          *)
LEMMA MatrixPlan ==
  ASSUME NEW scanned \in Content, NEW entity \in Entity, NEW record \in Row
  PROVE  LET here == LocalDelta(scanned, record)
             there == RemoteDelta(entity, record)
             planned == OngoingMatrix(scanned, entity, record)[here][there]
         IN /\ planned \in Actions
            /\ planned = "upload" => here = "changed" /\ there = "unchanged"
            /\ planned = "download" =>
                 here \in {"unchanged", "missing"} /\ there = "changed"
            /\ planned = "local_delete" => here = "unchanged" /\ there = "missing"
            /\ planned = "remote_delete" => here = "missing" /\ there = "unchanged"
            /\ planned = "purge" => here = "missing" /\ there = "missing"
  BY DeltaNames DEF Delta, OngoingMatrix, PlanRelink, PlanBothChanged, Actions

(* When PlanFile chooses each action: a transfer overwrites only what the  *)
(* record accounts for or a user insists on, a deletion needs both sides   *)
(* to agree with the record, and what the planner keeps exists.            *)
LEMMA PlanLegal ==
  ASSUME NEW scanned \in Content, NEW entity \in Entity, NEW record \in Row
  PROVE  LET planned == PlanFile(scanned, entity, record)
             agreed == entity.digest = "sha1" /\ entity.hash = record.hash
         IN /\ planned \in Actions
            /\ planned = "upload" =>
                 /\ scanned # 0
                 /\ ~Exists(entity) \/ record.status = "modified" \/ agreed
                 /\ Exists(entity) => entity.digest = "sha1"
            /\ planned = "download" =>
                 /\ Exists(entity) /\ entity.digest # "doc"
                 /\ scanned = 0 \/ scanned = record.hash
            /\ planned = "local_delete" =>
                 scanned # 0 /\ scanned = record.hash /\ ~Exists(entity)
            /\ planned = "remote_delete" => scanned = 0 /\ Exists(entity) /\ agreed
            /\ planned = "purge" => scanned = 0 /\ ~Exists(entity)
            /\ planned = "conflict" => scanned # 0 /\ Exists(entity)
            /\ planned \in {"auto_link", "conflict_local"} => scanned # 0
<1>1. CASE ~Exists(record)
  BY <1>1 DEF PlanFile, PlanBootstrap, Exists, Actions, Entity
<1>2. CASE Exists(record) /\ ModifiedDecides(scanned, entity, record)
  <2>1. PlanFile(scanned, entity, record) = PlanModified(scanned, entity, record)
    BY <1>2 DEF PlanFile
  <2>2. record.status = "modified"
    BY <1>2 DEF ModifiedDecides
  <2> QED
    BY <1>2, <2>1, <2>2, ModifiedPlan DEF Actions
<1>3. CASE /\ Exists(record) /\ ~ModifiedDecides(scanned, entity, record)
           /\ ~Frozen(scanned, entity, record)
  <2> DEFINE here == LocalDelta(scanned, record)
             there == RemoteDelta(entity, record)
  <2>1. PlanFile(scanned, entity, record)
          = OngoingMatrix(scanned, entity, record)[here][there]
    BY <1>3 DEF PlanFile
  <2>2. /\ here = "missing" <=> scanned = 0
        /\ here = "unchanged" <=> scanned # 0 /\ scanned = record.hash
        /\ there = "missing" <=> ~Exists(entity)
        /\ there = "unchanged" =>
             Exists(entity) /\ entity.digest = "sha1" /\ entity.hash = record.hash
        /\ there = "changed" => Exists(entity) /\ entity.digest # "doc"
    BY <1>3 DEF LocalDelta, RemoteDelta, Exists, Entity, Digest
  <2>3. /\ PlanFile(scanned, entity, record) = "conflict" => here = "changed" /\ there # "missing"
        /\ PlanFile(scanned, entity, record) \in {"auto_link", "conflict_local"} =>
             here # "missing"
    BY <2>1, DeltaNames DEF OngoingMatrix, PlanRelink, PlanBothChanged, Delta
  <2> QED
    BY <2>1, <2>2, <2>3, MatrixPlan
<1>4. CASE Exists(record) /\ Frozen(scanned, entity, record)
           /\ ~ModifiedDecides(scanned, entity, record)
  BY <1>4 DEF PlanFile, Actions
<1> QED
  BY <1>1, <1>2, <1>3, <1>4

(* The arms of RecordAfter, one by one.                                    *)
LEMMA Recorded ==
  ASSUME NEW act, NEW scanned, NEW landed, NEW entity, NEW record
  PROVE  LET after == RecordAfter(act, scanned, landed, entity, record)
         IN /\ act = "upload" =>
                 after = [hash |-> scanned, id |-> UploadId(scanned, entity, record),
                          status |-> "synced"]
            /\ act = "download" =>
                 after = [hash |-> landed, id |-> entity.id, status |-> "synced"]
            /\ act = "auto_link" =>
                 after = [hash |-> scanned, id |-> RemoteId(entity, record),
                          status |-> "synced"]
            /\ act \in {"conflict", "conflict_local"} =>
                 after = [hash |-> scanned, id |-> RemoteId(entity, record),
                          status |-> "conflict"]
            /\ act \in Deletes \cup {"purge"} => after = NoRecord
            /\ act \in {"none", "skip"} => after = record
  BY DEF RecordAfter, Deletes

(* What an executed action records is a row again.                         *)
LEMMA RecordIsRow ==
  ASSUME NEW scanned \in Content, NEW entity \in Entity, NEW record \in Row,
         NEW landed \in Content \ {0}
  PROVE  RecordAfter(PlanFile(scanned, entity, record), scanned, landed, entity, record)
           \in Row
  BY PlanLegal DEF RecordAfter, UploadId, RemoteId, Row, Record, NoRecord, Status,
     Entity, Exists, Deletes, Actions

(* Where the remote is not known to differ from the record, the planner    *)
(* does nothing that rests on a new remote version.                        *)
LEMMA CarriedPlan ==
  ASSUME NEW scanned \in Content, NEW record \in Row
  PROVE  LET planned == PlanFile(scanned, EntityOfRecord(record), record)
         IN /\ planned \in {"none", "upload", "remote_delete", "auto_link"}
            /\ planned = "auto_link" => scanned = record.hash /\ Exists(record)
<1> DEFINE entity == EntityOfRecord(record)
<1>1. entity.hash = record.hash /\ entity.id = record.id /\ entity.digest = "sha1"
  BY DEF EntityOfRecord
<1>2. CASE ~Exists(record)
  BY <1>1, <1>2 DEF PlanFile, PlanBootstrap, Exists
<1>3. CASE Exists(record)
  <2>1. RemoteDelta(entity, record) = "unchanged"
    BY <1>1, <1>3 DEF RemoteDelta, Exists
  <2>2. ~NeverUploaded(scanned, entity, record) /\ PlanRelink(entity, record) = "none"
    BY <1>1, <1>3 DEF NeverUploaded, PlanRelink, Exists
  <2> HIDE DEF entity
  <2>3. ModifiedDecides(scanned, entity, record) =>
          /\ PlanFile(scanned, entity, record) = "auto_link"
          /\ scanned = record.hash
    BY <1>3, <2>1, <2>2
    DEF PlanFile, ModifiedDecides, PlanModified, ModifiedRow, LocalDelta
  <2>4. OngoingMatrix(scanned, entity, record)[LocalDelta(scanned, record)]["unchanged"]
          \in {"none", "upload", "remote_delete"}
    BY <2>2 DEF OngoingMatrix, LocalDelta
  <2>5. ~ModifiedDecides(scanned, entity, record) =>
          PlanFile(scanned, entity, record) \in {"none", "upload", "remote_delete"}
    BY <1>3, <2>1, <2>4 DEF PlanFile
  <2> QED
    BY <1>3, <2>3, <2>5 DEF entity
<1> QED
  BY <1>2, <1>3

(* The node a record names is one the pass knew of.                        *)
LEMMA RecordedId ==
  ASSUME NEW act \in Actions, NEW scanned, NEW landed, NEW entity, NEW record
  PROVE  RecordAfter(act, scanned, landed, entity, record).id
           \in {0, entity.id, record.id}
  BY Recorded DEF UploadId, RemoteId, NoRecord, Deletes, Actions

(* Where the remote has a usable digest and an id, and nothing was marked  *)
(* modified, the planner leaves alone only what is in step, or frozen, and *)
(* links only the same content.                                            *)
LEMMA RestingPlan ==
  ASSUME NEW scanned \in Content, NEW entity \in Entity, NEW record \in Row,
         entity.digest = "sha1", record.status # "modified",
         Exists(entity) => entity.id # 0
  PROVE  LET planned == PlanFile(scanned, entity, record)
         IN /\ planned # "skip"
            /\ planned = "none" =>
                 \/ record.status = "conflict"
                 \/ /\ scanned = entity.hash /\ scanned = record.hash
                    /\ Exists(entity) => entity.id = record.id
            /\ planned = "auto_link" => scanned = entity.hash /\ Exists(entity)
            /\ planned = "conflict_local" => ~Exists(entity)
<1>1. CASE ~Exists(record)
  BY <1>1 DEF PlanFile, PlanBootstrap, SameContent, Exists
<1>2. CASE Exists(record) /\ Frozen(scanned, entity, record)
  <2>1. ~ModifiedDecides(scanned, entity, record)
    BY DEF ModifiedDecides
  <2> QED
    BY <1>2, <2>1 DEF PlanFile, Frozen
<1>3. CASE Exists(record) /\ ~Frozen(scanned, entity, record)
  <2> DEFINE here == LocalDelta(scanned, record)
             there == RemoteDelta(entity, record)
  <2>1. PlanFile(scanned, entity, record) = OngoingMatrix(scanned, entity, record)[here][there]
    BY <1>3 DEF PlanFile, ModifiedDecides
  <2>2. /\ here = "missing" <=> scanned = 0
        /\ here = "unchanged" <=> scanned # 0 /\ scanned = record.hash
        /\ here \in {"missing", "unchanged", "changed"}
        /\ there = "missing" <=> ~Exists(entity)
        /\ there = "unchanged" <=> Exists(entity) /\ entity.hash = record.hash
        /\ there \in {"missing", "unchanged", "changed"}
    BY <1>3 DEF LocalDelta, RemoteDelta, Exists
  <2> HIDE DEF here, there
  <2>3. PlanRelink(entity, record) \in {"none", "auto_link"}
        /\ (PlanRelink(entity, record) = "none" /\ Exists(entity) => entity.id = record.id)
    BY DEF PlanRelink
  <2>4. PlanBothChanged(scanned, entity) \in {"auto_link", "conflict"}
        /\ (PlanBothChanged(scanned, entity) = "auto_link" => scanned = entity.hash)
    BY DEF PlanBothChanged, SameContent
  <2>5. LET m == OngoingMatrix(scanned, entity, record)[here][there]
        IN /\ m \in {PlanRelink(entity, record), PlanBothChanged(scanned, entity)}
                \cup {"download", "local_delete", "upload", "conflict_local", "remote_delete", "purge"}
           /\ m \in {"none", "auto_link"} =>
                \/ here = "unchanged" /\ there = "unchanged" /\ m = PlanRelink(entity, record)
                \/ here = "changed" /\ there = "changed" /\ m = PlanBothChanged(scanned, entity)
           /\ m = "conflict_local" => there = "missing"
    <3>1. CASE here = "unchanged"
      BY <2>2, <2>3, <3>1 DEF OngoingMatrix
    <3>2. CASE here = "changed"
      BY <2>2, <2>4, <3>2 DEF OngoingMatrix
    <3>3. CASE here = "missing"
      BY <2>2, <3>3 DEF OngoingMatrix
    <3> QED
      BY <2>2, <3>1, <3>2, <3>3
  <2> QED
    BY <2>1, <2>2, <2>3, <2>4, <2>5
<1> QED
  BY <1>2, <1>3, <1>1
=============================================================================
