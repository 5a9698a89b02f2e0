------------------------------ MODULE FilePlan ------------------------------
(***************************************************************************)
(* The file half of the pure planner, src/src/sync.rs: what one pass plans *)
(* for one file path from what it scanned locally, what it holds of the    *)
(* remote, and the baseline record of the index.                           *)
(*                                                                         *)
(* A content is a natural number standing for a SHA-1; 0 is "no file".  A  *)
(* remote entity is a node id, the content it really has and the digest    *)
(* Proton exposes for it: "sha1" (usable), "none" (unknown) or "doc" (a    *)
(* Proton Docs node, which the CLI cannot download).  Id 0 is "no id".     *)
(***************************************************************************)
EXTENDS Naturals

Content == Nat
Digest == {"sha1", "none", "doc"}
Entity == [hash: Content, id: Nat, digest: Digest]
NoEntity == [hash |-> 0, id |-> 0, digest |-> "sha1"]

Status == {"none", "synced", "modified", "conflict"}
Record == [hash: Content, id: Nat, status: Status]
NoRecord == [hash |-> 0, id |-> 0, status |-> "none"]

Exists(x) == x.hash # 0

(* What the index can hold for a path: a record, or nothing at all.        *)
Row == {record \in Record : ~Exists(record) => record = NoRecord}

Delta == {"missing", "unchanged", "changed", "unknown", "unsupported"}

Actions ==
  {"none", "skip", "auto_link", "purge", "upload", "download", "conflict",
   "conflict_local", "remote_delete", "local_delete"}

(* SyncAction::delete_direction, and the two actions it is defined for.    *)
Direction(action) == IF action = "remote_delete" THEN "remote" ELSE "local"
Deletes == {"remote_delete", "local_delete"}

LocalDelta(scanned, record) ==
  IF scanned = 0 THEN "missing"
  ELSE IF scanned = record.hash THEN "unchanged" ELSE "changed"

(* Mutant of RemoteDelta: no digest is taken for no change.                *)
DeltaWithoutDigest(entity, record) ==
  IF ~Exists(entity) THEN "missing"
  ELSE IF entity.digest = "doc" THEN "unsupported"
  ELSE IF entity.digest = "none" \/ entity.hash = record.hash THEN "unchanged"
  ELSE "changed"

RemoteDelta(entity, record) ==
  IF ~Exists(entity) THEN "missing"
  ELSE IF entity.digest = "doc" THEN "unsupported"
  ELSE IF entity.digest = "none" THEN "unknown"
  ELSE IF entity.hash = record.hash THEN "unchanged" ELSE "changed"

(* Both sides hold the same content, as far as the digest tells.           *)
SameContent(scanned, entity) ==
  entity.digest = "sha1" /\ entity.hash = scanned

-----------------------------------------------------------------------------
(* A path the index has no record of: what exists on one side goes to the  *)
(* other, and nothing is ever deleted.                                     *)
PlanBootstrap(scanned, entity) ==
  IF ~Exists(entity) THEN (IF scanned = 0 THEN "none" ELSE "upload")
  ELSE IF scanned # 0 /\ SameContent(scanned, entity) THEN "auto_link"
  ELSE IF entity.digest = "doc" THEN "skip"
  ELSE IF scanned = 0 THEN "download" ELSE "conflict"

(* A record the watcher marked modified (an edit, or the removal of a      *)
(* conflict sidecar) decides alone while the local file is still the one   *)
(* it records; every other case falls through to the ordinary matrix.      *)
ModifiedRow ==
  [unchanged |-> "auto_link", changed |-> "upload", missing |-> "upload",
   unknown |-> "conflict", unsupported |-> "skip"]

NeverUploaded(scanned, entity, record) ==
  scanned # 0 /\ record.id = 0 /\ ~Exists(entity)

ModifiedDecides(scanned, entity, record) ==
  /\ record.status = "modified"
  /\ \/ NeverUploaded(scanned, entity, record)
     \/ LocalDelta(scanned, record) = "unchanged"

(* Mutant of PlanModified: a record marked modified is always uploaded.    *)
ModifiedUploads(scanned, entity, record) == "upload"

PlanModified(scanned, entity, record) ==
  IF NeverUploaded(scanned, entity, record) THEN "upload"
  ELSE ModifiedRow[RemoteDelta(entity, record)]

(* A recorded conflict is frozen until it is resolved or both sides go.    *)
NeverFrozen(scanned, entity, record) == FALSE   \* mutant of Frozen

Frozen(scanned, entity, record) ==
  record.status = "conflict" /\ (scanned # 0 \/ Exists(entity))

(* The same node under another id is linked again, nothing else changed.   *)
PlanRelink(entity, record) ==
  IF entity.id # 0 /\ entity.id # record.id THEN "auto_link" ELSE "none"

(* Mutant of PlanBothChanged: the remote wins.                             *)
RemoteWins(scanned, entity) == "download"
(* Mutant of PlanBothChanged: the local version wins.                      *)
LocalWins(scanned, entity) == "upload"

PlanBothChanged(scanned, entity) ==
  IF SameContent(scanned, entity) THEN "auto_link" ELSE "conflict"

(* The (local delta, remote delta) matrix of plan_ongoing_file_action.     *)
OngoingMatrix(scanned, entity, record) ==
  [unchanged |-> [unchanged |-> PlanRelink(entity, record),
                  changed |-> "download", missing |-> "local_delete",
                  unknown |-> PlanRelink(entity, record), unsupported |-> "skip"],
   changed |-> [unchanged |-> "upload",
                changed |-> PlanBothChanged(scanned, entity),
                missing |-> "conflict_local", unknown |-> "conflict",
                unsupported |-> "skip"],
   missing |-> [unchanged |-> "remote_delete", changed |-> "download",
                missing |-> "purge", unknown |-> "none", unsupported |-> "skip"]]

PlanFile(scanned, entity, record) ==
  IF ~Exists(record) THEN PlanBootstrap(scanned, entity)
  ELSE IF ModifiedDecides(scanned, entity, record)
  THEN PlanModified(scanned, entity, record)
  ELSE IF Frozen(scanned, entity, record) THEN "none"
  ELSE OngoingMatrix(scanned, entity, record)
         [LocalDelta(scanned, record)][RemoteDelta(entity, record)]

-----------------------------------------------------------------------------
(* The remote id an action carries into the record it writes.              *)
RemoteId(entity, record) == IF Exists(entity) THEN entity.id ELSE record.id

UploadId(scanned, entity, record) ==
  IF ModifiedDecides(scanned, entity, record)
  THEN RemoteId(entity, record) ELSE record.id

(* The record an executed action stages: `landed` is the content a         *)
(* download wrote, and every other record keeps the content that was       *)
(* SCANNED, not the one on disk when the action ran.                       *)
RecordAfter(action, scanned, landed, entity, record) ==
  CASE action = "upload" ->
         [hash |-> scanned, id |-> UploadId(scanned, entity, record),
          status |-> "synced"]
    [] action = "download" ->
         [hash |-> landed, id |-> entity.id, status |-> "synced"]
    [] action = "auto_link" ->
         [hash |-> scanned, id |-> RemoteId(entity, record), status |-> "synced"]
    [] action \in {"conflict", "conflict_local"} ->
         [hash |-> scanned, id |-> RemoteId(entity, record), status |-> "conflict"]
    [] action \in Deletes \cup {"purge"} -> NoRecord
    [] OTHER -> record

(* UPDATE file_index SET sync_status = 'modified': no row, no effect.      *)
MarkAnyway(record) == [record EXCEPT !.status = "modified"]   \* mutant

MarkModified(record) ==
  IF Exists(record) THEN [record EXCEPT !.status = "modified"] ELSE record

(* The remote entity a baseline record stands for in base (+) delta.       *)
EntityOfRecord(record) ==
  [hash |-> record.hash, id |-> record.id, digest |-> "sha1"]

(* The record says what the remote holds: the next reconstruction from the *)
(* baseline, which knows nothing else of the path, is right about it.      *)
Describes(record, entity) ==
  record.hash = entity.hash /\ (Exists(entity) => record.id = entity.id)
=============================================================================
