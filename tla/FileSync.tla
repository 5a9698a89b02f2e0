------------------------------ MODULE FileSync ------------------------------
(***************************************************************************)
(* One file and a pass that sees everything at once: the local scan, a     *)
(* listing of the remote and the baseline are of one instant, and the      *)
(* planned action lands and is recorded before anything else happens.      *)
(* This is what the matrix of FilePlan promises on its own; PairSync takes *)
(* the pass apart and lets the world move while it runs.                   *)
(***************************************************************************)
EXTENDS FilePlan

CONSTANTS
  Contents,   \* the contents files are written with
  Ids         \* the ids of remote nodes

ASSUME ContentsAssumption == Contents \subseteq Content \ {0}
ASSUME IdsAssumption == Ids \subseteq Nat \ {0} /\ Ids # {}

VARIABLES
  disk,      \* the local file
  cloud,     \* the remote file
  base,      \* its record in the index
  sidecar,   \* the conflict copy beside the local file
  quiet      \* the last step was a pass

vars == <<disk, cloud, base, sidecar, quiet>>

RemoteFile == [hash : Contents, id : Ids, digest : Digest]
LocalContent == Contents \cup {0}
Versions == [hash : LocalContent, id : Ids \cup {0}, status : Status] \cap Row

TypeOK ==
  /\ disk \in LocalContent /\ sidecar \in LocalContent
  /\ cloud \in RemoteFile \cup {NoEntity}
  /\ base \in Versions
  /\ quiet \in BOOLEAN

Init ==
  /\ disk \in LocalContent
  /\ cloud \in RemoteFile \cup {NoEntity}
  /\ base = NoRecord
  /\ sidecar = 0
  /\ quiet = FALSE

(* The watcher marks the record of a written file, or misses the write.    *)
LocalEdit ==
  /\ disk' \in LocalContent \ {disk}
  /\ base' \in {base} \cup (IF disk' = 0 THEN {} ELSE {MarkModified(base)})
  /\ quiet' = FALSE
  /\ UNCHANGED <<cloud, sidecar>>

RemoteEdit ==
  /\ cloud' \in (RemoteFile \cup {NoEntity}) \ {cloud}
  /\ quiet' = FALSE
  /\ UNCHANGED <<disk, base, sidecar>>

DropSidecar ==
  /\ sidecar # 0
  /\ sidecar' = 0
  /\ base' = MarkModified(base)
  /\ quiet' = FALSE
  /\ UNCHANGED <<disk, cloud>>

action == PlanFile(disk, cloud, base)

Uploaded ==
  [hash : {disk}, id : IF Exists(cloud) THEN {cloud.id} ELSE Ids, digest : {"sha1"}]

Sync ==
  /\ disk' = CASE action = "download" -> cloud.hash
               [] action = "local_delete" -> 0
               [] OTHER -> disk
  /\ cloud' \in CASE action = "upload" -> Uploaded
                  [] action = "remote_delete" -> {NoEntity}
                  [] OTHER -> {cloud}
  /\ sidecar' = CASE action = "conflict" -> cloud.hash
                  [] action = "conflict_local" /\ sidecar = 0 -> disk
                  [] OTHER -> sidecar
  /\ base' = RecordAfter(action, disk, cloud.hash, cloud, base)
  /\ quiet' = TRUE

Next == LocalEdit \/ RemoteEdit \/ DropSidecar \/ Sync

Spec == Init /\ [][Next]_vars

-----------------------------------------------------------------------------
(* A pass gives up a version only when it is the one both sides last       *)
(* agreed on, when a copy of it is left, or, for the remote, when the      *)
(* watcher saw the user insist on the local one.  Guards the whole matrix  *)
(* of plan_ongoing_file_action and plan_modified_record_action.            *)
NoVersionLost ==
  [][quiet' =>
       /\ cloud.hash \in {0, cloud'.hash, base.hash, disk', sidecar'}
            \/ base.status = "modified"
       /\ disk \in {0, disk', base.hash, cloud'.hash}]_vars

(* A pass deletes on one side only what the other side really removed: the *)
(* surviving version is the baseline's, seen through a usable digest.      *)
DeletesAreAgreed ==
  [][quiet' =>
       /\ Exists(cloud) /\ ~Exists(cloud') =>
            disk = 0 /\ cloud.hash = base.hash /\ cloud.digest = "sha1"
       /\ disk # 0 /\ disk' = 0 => ~Exists(cloud) /\ disk = base.hash]_vars

(* A remote file whose content cannot be told is left as it is: no digest, *)
(* no destructive decision (how-sync-works, "unknown").                    *)
UnknownIsLeftAlone ==
  [][quiet' /\ cloud.digest # "sha1" => cloud' = cloud]_vars

(* A pass settles: planned again over what it left, the file asks for no   *)
(* transfer, no deletion and no further conflict copy.                     *)
Settles == quiet => action \in {"none", "skip", "auto_link"}
=============================================================================
