# Proton Drive sync engine: models, checks and proofs

This directory holds TLA+ models of the sync engine in `src/src/`, the TLC
configurations that check them on small instances, and theorems about them that
the TLA+ proof system checks for every value of the constants. Paths below are
relative to the repository (`src/` here is its root, so the crate's own sources
are in `src/src/`).

Check a model with `tlc -config <run>.cfg <module>`, a proof with
`tlapm <module>.tla`. The run names, modules and properties are in
`PROJECT.json`, with the source lines every definition stands for.

## 1. The system

`proton-syncd` keeps local folders and Proton Drive folders the same. One
process serves several *folder pairs*; one job runs at a time.

| Part | Source | State | Operations | What makes it correct |
|---|---|---|---|---|
| File planner | `sync.rs` | none (pure) | plan one path from scan, remote map and record | no version given up unless it is agreed, copied or overridden by the user; deletions are agreed; unknown digests are left alone; a pass settles |
| Tree planner | `sync.rs` | none (pure) | directories, kind clashes, moves, deletions that cover others, order of actions | nothing inside a deleted directory survives or dies unplanned; a move is not a deletion and an upload |
| Remote reconstruction | `reconstruct.rs` | none (pure) | records (+) change events -> remote map, or "walk instead" | same map as a listing would give, or it says so |
| Pair engine | `daemon.rs` | records, cursor, approvals (index); pending changes and deletions, latches (memory) | a pass: begin, rebuild or list, scan, plan, gate, execute with checkpoints, finish, abort; restart | the stored cursor hides no change; no version is lost; both sides converge |
| Delete approvals | `daemon.rs`, `index.rs` | approvals with a fingerprint; the pending list | withhold, approve, deny, keep, consume | only approved content is deleted; an approval applies; a kept file comes back |
| Due queue and run loop | `due_queue.rs`, `daemon.rs` | timers, sweep schedule, request queue, tie cursor | request, pop, re-arm, sleep, shut down | no starvation, no lost sweep, no sleep over due work |
| Watcher | `daemon.rs` | kernel queue; pending changes | handle an event, lose events | a lost event is found by a rescan |
| Change feed | `events.rs`, `session.rs` | none | read events after a cursor | ordered, nothing skipped |
| Drive CLI client | `proton.rs` | the child process, the CLI gate | list, upload, download, delete | a failed call may have taken effect |
| Control plane | `ipc.rs`, `daemon.rs` | published snapshot, latches | sync, plan, apply, approve, deny, keep, pause, reset index | commands land at any point of a pass |
| Root guard | `daemon.rs`, `lib.rs` | the root's identity | check at each phase | an unmounted root is not read as "everything deleted" |
| Locks | `daemon.rs` | lock files | acquire, probe | one daemon per root |
| Schedule | `schedule.rs` | none | next occurrence | in the future, on the schedule |
| Index | `index.rs` | SQLite | transactions, scan with stat reuse | records and cursor commit together |

Further parts without sync decisions of their own: text merge base
(`ancestor.rs`), trash (`trash.rs`), configuration (`config.rs`,
`dirconfig.rs`), `doctor.rs`, the command line tools, the GUI, packaging and the
website.

How they interact. The run loop pops a job and calls the pair's pass. A pass
loads the records, reads the change feed from the stored cursor and rebuilds the
remote map (or walks the remote), scans the local folder, plans, withholds the
guarded deletions, runs the actions through the CLI client and commits records
as it goes; the cursor is stored last, and only if nothing is left behind. The
watcher's events are handled between jobs. The control plane runs on its own
thread with its own database connection: approve, deny and keep change the index
while a pass holds the baseline it loaded. Users and other clients change both
folders at any time.

What is hard: everything moves between the steps of a pass; a side effect
precedes its record; the cursor is a promise about the records; an incremental
pass believes the records where the feed is silent; state that is only in memory
dies with the process. Section "hazards" of `PROJECT.json` lists these with
their lines, and the properties that cover each.

## 2. The modules

| Modules | What they are |
|---|---|
| `FilePlan` -> `FileSync` | one file, atomic passes |
| `FilePlan` -> `PairSync` -> `MCPair` | a flat pair, every step of a pass interleaved with everything |
| `FilePlan` -> `TreePlan` -> `Reconstruct` -> `TreeSync` -> `MCTree` | a pair over a tree of folders, whole passes |
| `Control` -> `MCControl`, with `Mailbox` | the control plane and the root guard around a pair's pass |
| `DueQueue` -> `MCDueQueue` | the run loop over several pairs |
| `FilePlanProofs`, `FileSyncProofs`, `PairSyncProofs`, `TreeSyncProofs`, `TreeRunProofs`, `ControlProofs`, `DueQueueProofs` | theorems |
| `Induction` | what a least number proves of finite sets and recursive functions |

The three models of a pass share the planner and divide its difficulty: `PairSync`
has the interleavings, over single files; `TreeSync` the tree, in passes that are one
step; `Control` what is asked of the loop and where the folder is, over files that
are there or not. `DueQueue` says why passes come at all.

### FilePlan: the decision for one file (`sync.rs`)

Operators only. A content is a number (a SHA-1), 0 is "no file"; the remote
exposes its digest (`sha1`), none (`none`), or the node is a document that cannot
be downloaded (`doc`). `PlanFile` is `plan_entity_action` for files:
`PlanBootstrap` without a record, `PlanModified` for a record the watcher marked,
`Frozen` for a recorded conflict, and the `OngoingMatrix` of local and remote
delta. `RecordAfter` is the record `execute_plan_and_commit` writes after each
action, `EntityOfRecord` is `remote_entity_from_record`.

### FileSync: what the planner promises on its own

A world of one file in which scan, listing, plan, execution and record happen in
one step (`Sync`), between arbitrary edits, watcher marks and removals of the
conflict copy. It answers what the matrix is worth if nothing races.

### PairSync: the pair engine (`daemon.rs`, `reconstruct.rs`, `events.rs`)

A flat set of paths. `disk`, `sidecar`, `cloud` are the two folders, `log` the
volume's change events; `base`, `cursor`, `approvals` are the index; `inbox`,
`dirty`, `rescan`, `first`, `resync`, `pending`, `behind`, `authored` are
the pair's memory (`PairRuntime` and `PairShared`); the rest is one pass.

| Action | Code |
|---|---|
| `UserWrites`, `UserRemoves`, `UserDropsSidecar`, `RemoteWrites`, `RemoteRemoves` | the world |
| `HandleFsEvent`, `LoseFsEvents` | `handle_fs_event`, `settle_lost_events` |
| `Approve`, `Deny`, `Keep` | `apply_approval_command`, `pre_approve_planned_deletion`, `apply_keep_command` |
| `BeginFull`, `BeginIdle`, `BeginIncremental` | `reconcile_blocking_inner`, `reconcile_with_latches`, `try_incremental_reconcile` |
| `Rebuild`, `FallBack` | `reconstruct_remote` and what `try_incremental_reconcile` does with its answer |
| `ScanLocal`, `ListRemote` | `scan_local_entities_reporting_progress`, `bootstrap_reconcile` |
| `Decide` | `plan_*`, `decide_delete_gate`, the replacement of the pending list |
| `Upload` ... `Purge`, `Vanish`, `Fail` | the action loop of `execute_plan_and_commit`, `execute_download_run` |
| `Checkpoint`, `Finish` | `commit_checkpoint`; the cursor policy and the final transaction |
| `Abort`, `Crash` | an error that ends the pass; process death and `PairRuntime::open_looking` |

Actions act on the folders as they are *now* and stage records from what the pass
*scanned*; `CommitStaged` writes them and consumes the approvals. A failed call
may fail before or after it took effect. A listing is the cloud at that moment.

The ghost `blind` marks paths whose last pass looked at the remote and left a
record that knowingly differs from it (a conflict, an unusable digest); the
records that name a dead node are `Orphaned` (see finding 3). Properties exempt
exactly these, and the violation runs show what hides behind the exemptions.

### TreePlan: the plan of a folder (`sync.rs`)

Operators over three trees, `L` (the scan), `R` (the remote) and `B` (the index),
that give every path a node. `Moves` is `plan_file_path_transitions`: what left
its recorded path on one side, untouched on the other, and can be in exactly one
new place (a file by content, a directory by id). `PlanEntity` is
`plan_entity_action` with its directory rows, `Proved` the verdict
`compute_directory_deletion_verdicts` gives of a directory deletion (the code
spreads vetoes upward, the operator asks every descendant, which is the same),
`Covered` the suppression of what a deleted directory takes along, `Planned` the
whole plan in the order of a `BTreeMap`. Every node has a usable digest; unknown
digests are `FileSync`'s and `PairSync`'s.

### Reconstruct: the remote of an incremental pass (`reconstruct.rs`)

`Rebuild` folds the volume's events into the records. An event names a node and the
folder it is in, nothing else; what the node is comes from a listing of that
folder, taken later, which may lag. The fold's state is the function's:
`tree` and `at` (`remote` and `uid_to_path`, which events move separately),
`taken`, `behind`, `deferred`, and `walk` for every way out to a full walk.
`Settle` decides the deferred events at the end.

### TreeSync: passes over a tree (`daemon.rs`)

`disk` and `cloud` are the two trees, `delta` the events after the cursor,
`base` the index. `Follow` is an incremental pass, `FullWalk` the walk; both run
`RunPlan`, in which `Perform` has one operator per arm of
`execute_plan_and_commit`. An action works on the trees as earlier actions left
them, and records what that arm records (the scan's hash, the planned id). In a
pass the user may edit once between the scan and the first action, and one fault may
strike any action, before or after its effect, as a failing call or as a crash.
`unlisted` nodes are reported by the feed and shown by no listing yet. The user
and other clients write, create, remove and rename, and move subtrees into and out
of the folder; a name is a file on both sides or a folder on both. Paths are one or
two names long (`DepthAssumption`). Moves and deletions go by path, as in the code: a
rename takes along whatever is then below, and replaces an empty folder but nothing
else (`Occupied`). A folder never goes into a folder (`Fits`), and every folder has room
for each name (`RoomAssumption`): with two levels, what is below a folder must fit at
its new place, and folders of folders are the depth this bound leaves out.

Three ghosts carry what the properties excuse. `untold` are the ids the index
tells otherwise than the remote is, for reasons that are limits of the code: a
node moved below a folder that moved (the feed tells of the folder only), a restored
node recorded under its old id, a directory move that carried records over. `owed`
says that a full walk was cut short: what it had already recorded hides from
incremental passes what it had not (section 6). `calm` counts full, unhindered
passes in a row.

### Control: the control plane and the root guard (`daemon.rs`)

`here` is the directory at the pair's path, if any, `known` the one the pair runs
on. Each command of `handle_control_connection` that changes state is an action
that may land between any two steps of the loop; `StartSync` is the loop's look at
the folder (`examine_ready_pair`, `retry_unavailable`) and the start of a pass;
`Top` to `Finish` are the pass, with `RootLost` for every `ensure_root_available`
that refuses; `StartPlan` and `SealPlan` a plan job. A plan's token is the plan.

What the abstraction leaves out: the index is kept outside the folder, so that it
does not go with it; a scan and the look at the folder that follows it are one
step, as are the looks of one examination, so a directory swapped away and back
within one scan goes unseen; a folder that cannot be read is like none; shutdown
is not modelled; a restart runs on whatever it finds at the path and makes the
folder if there is none (`known_root` is not persisted), which is why the
ghost `seen` starts anew there unless the persisted force is set.

`Mailbox` is the abstract specification of a numbered request: booked, worked on,
answered, where only work begun after the booking answers it. `Control`
instantiates it twice, for plans and for applies.

### DueQueue: the run loop (`due_queue.rs`)

Every instant is kept as its distance from now, so that deadlines stay bounded
while time goes on for ever. `PopExplicit` and `PopTimer` are the two halves of
`pop`; `EndSync` is the re-arming in `run_job` (with a session that may come
back and tighten every timer); `Tick` is time passing, in a job or in the sleep,
which the loop enters only with nothing to pop. `overtaken` is a ghost.

## 3. What the runs check

| Run | Bounds | Distinct states | Shows |
|---|---|---|---|
| `file_sync` | 3 contents, 2 ids, all digests, no bound on steps | 12 thousand | planner alone: `NoVersionLost`, `DeletesAreAgreed`, `UnknownIsLeftAlone`, `Settles` |
| `pair_safety` | 1 path, 2 contents, 3 edits, 1 fault | 3.6 million | `CursorSafe`, `NoRemoteLoss`, `NoLocalLoss` under edits and one crash, abort, failed call or lost event |
| `pair_rulings` | 1 path, all digests, both directions guarded, 2 edits, 2 rulings | 1.7 million | only approved content is deleted; the cursor stays safe while rulings land in passes |
| `pair_live` | 1 path, 1 edit, 1 fault, 2 rulings, both directions guarded | 0.25 million | `Converges`, `ApprovalApplies`, `KeptIsRestored` |
| `tree_sync` | 6 paths (3 folders, a file in each), 2 edits, 1 fault, lag, races | 0.24 million | `OneKind`, `RecordsAreRemote`, `IdleMeansAgreed`, `Settles`, `NeverStuck`, `NoAuthoredLoss`, `LocalEditsStay` |
| `control` | 2 files, 2 directories and an empty path, 4 events in all | 0.17 million | `OnlySeenGo`, `AppliedIsReviewed`, `ResyncIsKept`, `ApprovalsAreSpent`, `ResetRuns`, `HoldLifts`, `RequestsAnswered`, and the two refinements of `Mailbox` |
| `due_queue` | 3 pairs (intervals 3, 1, 4), jobs of 1 or 2 units, 2 requests | 0.18 million | `NoOvertaking`, `SweepIsRun`, `SleepsOrPops`, `RequestsMerge`, `RequestServed` |
| `keep_mine`, `unknown_digest`, `dead_node`, `approval_abort`, `carried_move` | 1 to 3 edits, at most 1 fault | | findings, section 5 |

Why the bounds are enough to be interesting. `MaxEdits` = 3 lets one side change,
the other change while a pass runs, and one of them change again before the
records catch up; `MaxFaults` = 1 puts one crash or failure at every point of that. Two
contents tell the agreed version from another; `file_sync` has three (agreed,
local, remote). Passes are not bounded: each is executed again and again until
nothing changes. Both a fresh pair (every mixture of existing files) and a
synced one are initial. In `tree_sync` a plan has many actions, so that one of
several fails, vanishes or is withheld; two edits give a move on one side against an
edit, a removal or another move on the other, or an edit and a pass that a second one
(the race) meets. Three top-level names are one more than a rename
needs: a folder can be renamed while a file moves into or out of it. A run too long to
keep here, with three edits on two folders (1.5 million states),
agrees with it on all but `IdleMeansAgreed` (section 6, unlinked folders). Paths are
at most two names long: the folder and the file are what moves,
covering and proofs tell apart. In `control` four events are enough for a plan, its
apply, an edit between them and a fault, or for an unmount, a remount and two
commands; a replacement directory is empty or has one of the two files. In
`due_queue` one pair follows the
feed and changes cadence with the session, one has no sweep, and the longest job
outlasts the shortest interval, so timers come due during jobs.

`CHECK_DEADLOCK FALSE` is set for `due_queue` alone: `Shutdown` ends the loop.

### The properties

* `CursorSafe`: where no event lies after the stored cursor, the record describes
  the remote file. This is what every incremental pass builds on; it is what the
  capture before a walk, the held cursor and the order "records, then cursor" are
  for.
* `NoRemoteLoss`, `NoLocalLoss`: no step of the daemon destroys a version that is
  not the agreed one, not held by the other side or a conflict copy, and did not
  arrive after the pass had read that side. Two exemptions are worth knowing: an
  edit made between the scan and the action may be overwritten by a download, and
  a record marked modified lets the local version win.
* `RemoteDeletesApproved`, `LocalDeletesApproved`: a guarded deletion destroys
  only the content a person approved.
* `Converges`: when edits and faults stop, both sides agree for good on every path
  that is not waiting for a person, in conflict, or unreadable; through
  incremental passes alone.
* `ApprovalApplies`, `KeptIsRestored`: an approved deletion is carried out, a kept
  file is sent back, in behaviours without faults.
* `RecordsAreRemote`: where nothing is left to read, every synced record tells the
  kind, content and id of the remote node at its path. Every later map of the
  remote is built from the records, over moves and deletions of whole folders. Where
  two records name one id (a file moved out of a folder that is renamed, in one pass),
  it promises nothing: the next pass sees that and walks (`reconstruct.rs` 162-176).
* `IdleMeansAgreed`: a pair that nothing wakes is in step, on every path. This is
  what the idle pass relies on when it scans nothing.
* `Settles` (of `TreeSync`): a few unhindered full walks bring every path together
  or into a recorded conflict, whatever came before. `NeverStuck`: no plan trips over
  its own earlier actions, tangled moves excepted (section 6).
* `OneKind`: where users give a name one kind, passes do: no plan makes a folder
  where the other side has a file.
* `NoAuthoredLoss`: no pass, cut or whole, destroys the last copy of a remote version
  the pair never agreed on. Excused: nodes in `untold`, nodes no listing shows yet, or
  behind a cut walk.
* `LocalEditsStay`: a local version the pair never agreed on stays in the local
  folder through every pass. Excused: edits inside the pass, and files below a folder
  another client moved onto them (`TakenOver`; finding 5).
* `OnlySeenGo`: a file is deleted, on either side, only if both sides last had it in
  the directory this pass runs on, or its deletion was approved. An unmounted,
  emptied or replaced folder never passes for one the user deleted from.
* `AppliedIsReviewed`: a pass that applies a plan does what the user looked at and
  nothing else. `ApprovalsAreSpent`: an approval goes with the deletion it allowed
  and with nothing else.
* `ResyncIsKept`, `ResetRuns`, `HoldLifts`: what was asked for survives a pause, a
  hold and a missing folder, and a held pair comes back.
* `RequestsAnswered`: every plan and apply is answered. `PlansAnsweredInOrder`,
  `AppliesAnsweredInOrder`: `PlanSlot` implements `Mailbox`, so no answer is older
  than its question.
* `NoOvertaking`: while a pair is overdue no other pair runs twice on its timer.
* `SweepIsRun`, `SleepsOrPops`, `RequestsMerge`, `RequestServed`: as named, each
  with its comment in `DueQueue`.

Each property of a passing run has a mutant in `PROJECT.json`, a small wrong
version of a definition under which TLC finds it violated; the mutants stand in
the modules beside what they change.

### Fairness

`PairSync`: weak fairness of the delivery of queued watcher events, of the pass
the pair's timer owes (an incremental pass when the feed answers, a full one
otherwise) and of the steps of a running pass. The run loop justifies the last two:
it re-arms every timer (proved not to starve in `DueQueue`) and never leaves a
pass. A full walk that nothing asks for is never relied on: it is not fair.
Edits, faults and rulings are not fair and bounded. `DueQueue`: weak fairness of
`Pop`, `EndJob` and `Tick`: the loop goes round, jobs end, time passes.
`Control`: weak fairness of `Tick` (the timers ask for passes) and of the steps of a
pass; strong fairness of `StartSync` and `StartPlan`, since the loop is idle again
and again and the queue starves no job (`NoOvertaking`). Commands, edits, swaps and
faults are not fair, and bounded together by `MaxEvents`. `TreeSync` states no
liveness: `Settles` counts passes instead.

## 4. What is proved

All for every value of the constants, from the `ASSUME`s of the modules, which
TLC evaluates on each run.

**FileSync.** `TypeOK`, `NoVersionLost`, `DeletesAreAgreed`, `UnknownIsLeftAlone`,
`Settles`. `FilePlanProofs` brings the planner down to three lemmas: `PlanLegal`
(for each action, what must hold of scan, entity and record), `Recorded` and
`RecordIsRow` (what is written). The theorems cite these and never open the
matrix. `TypeOK` is inductive, and so is enough for the action properties;
`Settles` is proved from a `Sync` step alone, since `quiet` holds only after one.

**DueQueue.** `TypeOK`, `NoOvertaking`, `SweepIsRun`, `RequestsMerge`, `SleepsOrPops`. For
`NoOvertaking` the invariant is `IInv`: a pair that was overtaken is still overdue,
and the pair that overtook it is either still running or stands strictly later.
Ending a job re-arms its timer from that moment, so it cannot move before an
overdue pair; ticking moves all deadlines together. `SleepsOrPops` needs that the
earliest deadline of a finite set of pairs exists (`LeastValue` of `Induction`).

**Induction.** The library's induction theorems take a predicate as a parameter, which
the provers here cannot fill in. They can fill in a *set*: every nonempty set of
numbers has a least one (`LeastNatural`), and from that follow the least value of a
function on a finite set, and that what holds of the first value of a recursive
function on `0 .. n` and is kept by each step holds of the last (`LastValue`).
That is all the model's folds (`RunPlan`, `Rebuild`, `Moves`, `Chosen`) need.

**TreePlan.** Three theorems for any set of paths and any three trees over them.
`OnlyAgreedIsDeleted`: an entity is planned for deletion on one side only if that
side holds exactly what is recorded and the other side nothing; `DirectoriesGoWhole`:
a directory is, only if all that either side holds below it is recorded as it is and
itself given up, so that the recursive removal takes nothing new; and
`MovesGoToFreePlaces`. They rest on `PlanLegal` through `SameDecision` (the file
planner sees nothing else of a node) and assume trees in which exactly the files
have contents.

**TreeSync.** `FoldersStayTrees` (`TypeOK`) and `UserEditsStay` (`LocalEditsStay`),
for any paths at most two names deep, edits, lags, races, faults and refusals.
`TypeOK` is not inductive: an upload needs a content to send, and the map an
incremental pass is given is a fold over whatever records and events there are. The
invariant `TInv` asks for tidy nodes and records (exactly the files have contents,
exactly what is there has a kind) and well formed events; TLC checked it on the
instance of `tree_sync` first. The proof has a lemma per arm of the executor
(`UploadArm`, `MoveLocalDirArm`, ...: both trees stay trees) and one per fold:
`RebuiltIs` says that the rebuilt map holds at every path nothing, what the record
tells, or what the listing shows, whatever the delta.
Two theorems say which of them, for any records, any events in any order and any
listing, where no walk is asked for. `EventsAreHeeded`: the last event of a node has the
last word on it, so a node removed is nowhere in the map, and one updated is nowhere but
where and as the listing shows it (the stale name, the old content and the node that a
move took out from under a removed folder are the ways the fold could get this wrong).
`SilenceIsKept`: where no event names the node of a path, its folder or its listed
replacement, the map holds what is recorded. Both rest on `ApplyTurns`, which reduces an
event to doing nothing, taking a subtree out or putting a node where it is listed, and on
`InStep`: the map and the table of places tell the same of every node with an id, in
one place each. TLC checked both on the states of `tree_sync` (and with three edits)
first.
`UserEditsStay` then follows one content through a pass. It is at its scanned place,
or where the folder moves of the plan carry it (`Landings`); what the plan may
do to either place is bounded by the planner's theorems: a deletion takes only agreed
content, a download lands only on a scanned file that is as recorded, and nothing
is made or moved to the landing place unless the excuse `TakenOver` holds. The
argument asks nothing of the map of the remote: a pass on a wrong map keeps the user's
edits too.
`RemoteEditsStay` is the other half: a remote file that no record agrees on, and that
the map of the pass shows where it is, with its folder, is untouched in the cloud. It
needs that an upload overwrites only a recorded content, so `TInv` also says that no
stored record carries the modified mark between passes. A listing shows rightly
whatever it shows, so over full walks this gives `NoAuthoredLoss`
(`WalksKeepAuthored`); over incremental passes what is missing is only that the
rebuilt map is right.

**TreeSync, whole passes** (`TreeRunProofs`). What these owe is to the order of the plan.
`PlanOrder`: moves first, then each other path once, a folder before what is in it,
nothing of what a deletion of a folder covers. `PlanSpares`: no action takes what a later
one is about, unless moves are tangled. It is an argument about pairs of actions: a
move settles its subtree on both sides, so nothing else is planned there
(`Settled`), and a deletion of a folder comes after the moves and covers what is below.
The arms themselves are summed up once, in `Goes`: an action brings about only the kinds
it is allowed (`Suits`), takes only what it is about (`LostLocal`, `LostRemote`), and
does not fail where it finds what it needs (`Clear`). `RunReaches` carries an invariant
through the fold of a plan, faults and crashes included.
From these: `OnlyMapsMixKinds` (`OneKind`), a path comes to be a file on one side and a
folder on the other only through an incremental pass, and only if the user edited inside
it or its map shows a kind neither side has there (`Recognised`). Its invariant `NInv`
adds to `TInv` that everything two names deep is a file, on both sides, in the records
and on any map. `OneKindStays` is the same of whole behaviours. `OneKind` itself is not
proved, and TLC shows the reason: a rebuilt map may for a pass show a file
below the old name of a folder that moved, and the user may have made a folder there.
`WalksRunThrough` (`NeverStuck`): a full walk that no fault and no edit disturbs carries
out all it plans, from whatever trees and records, where the sides agree on kinds
and no moves are tangled; `NeverStuckAlike` is the same of whole behaviours. The argument
is that what an action needs is there when the plan is made (`Ready`), stays there until
its turn (`PlanSpares`), or is made by an earlier action of the same plan (`Made`).
`WalksEndInStep` says what such a walk is for: where the sides agree on kinds, a full
walk that asks for no other (nothing raced it, cut it short, was withheld or failed, and
no folder moved) and owes none (it missed no node of the feed) leaves *every* path with
one content on both sides and a record of it, or in conflict, from whatever records and
trees. `WalksSetRight` draws the conclusion for the runs' invariants: after any full walk
where kinds agree `IdleMeansAgreed` holds, and `RecordsAreRemote` holds unless another
pass is asked for. The argument has an invariant of the half-done plan, `Midway`: what
an earlier action was about is `Right` (agreed and recorded so, with the id of the
remote node while nothing was sent); what is still to come `Stands` as it was seen, but
for folders made on the way to what is in them. To keep it each arm of the executor
`Works` (it sets what is in its `Scope` right and leaves the rest alone), which it can
because its decision is `Warranted` by the two trees (`FileWarranted` and its like for
folders and moves) and because no two actions share a path but for a pair of moves to one
target (`ScopesApart`). At the end nothing is left over: a path no action is about is at
rest (`PlanCovers`, `RestingPlan`). The plan is one fold, so `RunReaches` carries `Midway`
through it. That the hypotheses are met, with both sides changed by the walk, TLC shows
on the instance of `tree_sync`.

**Control.** `TypeOK`, `AppliedIsReviewed`, `ResyncIsKept`, `ApprovalsAreSpent` and
the two refinements of `Mailbox`, from `TypeOK` and `OfToken` (what is left to do in an
applying pass is of its token; only a pass has anything to do). `DeletedAreSeen`
is `OnlySeenGo`, where no direction is guarded or both are. Its invariant `Safe`
says why a swapped folder cannot be believed: `BaseSafe`, every record is of a file
both sides had in the known directory, or is approved, or the force withholds all
deletions (it is set wherever the known directory changes), or a reset will clear it;
`RunSafe`, the same of what a running pass holds and has yet to commit, and that a
pass about to end the force leaves no record that is not. With one direction
guarded and the other not, it is false (section 6).

**PairSync.** `TypeOK`, `NoLocalLoss`, `LocalDeletesApproved`, for any number of
paths, edits, faults and rulings. `TypeOK` is not inductive: an executed
action stages the record of its plan, and that is a row only because the plan is
the one made from the scan, the view and the baseline this pass still holds.
`IInv` adds this (`PlanFollows`), that a guarded deletion left to run is granted
at the baseline's content (`Cleared`), and that no position points beyond the log
(`Positions`). TLC checked `IInv` on the instances first. Both safety theorems then look at one
step: `LocalChange` says that only a download and a local deletion change the
local folder, and `PlanLegal` says what each must have seen.

`CursorSafe`, `NoRemoteLoss` and `RemoteDeletesApproved` are about the cursor.
`CursorSafe` says nothing of a pass that runs, so it is not inductive. `CInv` follows
the promise through the pass. `RemoteInv`: the last event of a path says what is there;
`KnownInv`: every id the daemon has of a path is the id of the node that is there, or
of one whose removal was published. `Settled(p, record, blind, position, mark)` is
the promise itself: if nothing happened to `p` after the position, the record is
right, or names a node whose removal lies before the mark. It holds of the
records at the stored cursor (`CursorInv`), of the pass's view at the last event it
read (`ViewInv`), of what the actions stage (`StagedInv`) and of what
checkpoints have stored already (`StoredInv`), unless the path is one that holds the
cursor back. `Finish` turns the last two into the first. TLC checked `CInv` on the
instances of `pair_safety` and `pair_rulings` (3.6 and 1.7 million states) before
the proof. With it, a pass that acts on the remote has seen what it destroys, and the
two action properties follow from `PlanLegal` as on the local side.

**Only model-checked.** Liveness (`Converges`, `ApprovalApplies`,
`KeptIsRestored`, `RequestServed`, `ResetRuns`, `HoldLifts`, `RequestsAnswered`) is
out of the prover's reach. Of the safety properties, those of `TreeSync` that need the
rebuilt map to be *right*, with the records themselves, are unproved beyond full walks:
`RecordsAreRemote` and `IdleMeansAgreed` after edits, cut passes and incremental ones,
`NoAuthoredLoss` over incremental passes, and `OneKind` over those that meet an edit or
an unrecognised map. They need a
closed form of `Rebuild` over a whole delta, whose events are all answered from one later
listing; and the records hold only up to corners that TLC finds (a crash between the
record of a moved folder and those below it; a carried record). `Settles` needs,
beyond `WalksEndInStep`, that the walks which do ask for another (a folder moved, a move
was blocked) leave less undone each time. `IdleMeansAgreed` is not a
theorem at all: it holds with two edits and fails with three (section 6, unlinked
folders).

## 5. Where the code and its documentation disagree

Each is a run that ends in a counterexample.

1. `keep_mine` / `KeepMineUploads`. Removing a conflict copy is documented to
   upload the local version. The conflict's record holds the local hash, so the
   next incremental pass rebuilds the remote from it, sees no difference and links
   the two differing sides as synced.
2. `unknown_digest` / `UnknownIsNotDestroyed`. A remote revision without a digest
   is skipped by the pass that sees it, and the cursor moves on; the next pass
   rebuilds the remote with the old, usable digest and may delete or overwrite the
   revision.
3. `dead_node` / `RemovalsAreSeen`. An upload that restores a removed file records
   the dead node's id. If the new node is removed before it is learnt, its removal
   is dropped as foreign.
4. `approval_abort` / `ApprovalSurvives`. A pass that takes an approved deletion off
   the pending list and then fails leaves nothing that asks for the next pass.
5. `carried_move` / `ConflictsKeepBoth`. Another client moves a folder; the local
   folder is renamed with the files nobody recorded in it, and the same plan
   downloads the remote files of the new folder over those of the same name. The
   comment says the subtree "is left to the next pass"; the README that conflicts
   keep both sides. The proof of `UserEditsStay` showed a second form, beyond the bounds
   of the run: the file may be recorded, and edited by the user. The move carries it
   along, and a *file* move of the same plan whose destination is below the folder's new
   name renames another file over it. Moves are checked for suppressed sources,
   not destinations (`sync.rs` 867, 970-996; the rename is at `daemon.rs` 8389-8398). It
   takes four edits: the user edits `1/1`; another client moves `1/1` out of `1`,
   renames `1` to `3` and moves `2` to `3/1`. `Elder` in `TakenOver` excuses
   exactly this.

## 6. Limits

What the models show of the code beside the findings, and excuse:

* A full walk that is cut short, or withholds a deletion, holds no promise the
  records need: a folder that was moved in and recorded before the cut hides its
  contents from incremental passes, whose events do not tell of them. The comments at
  `daemon.rs` 8848-8855 and 8872-8877 expect the next pass to find the rest "from
  ground truth"; only a full walk does (`owed`).
* A file edited between the scan and its move or download: the move records what
  it then finds, and a download replaces the edit.
* Unlinked folders. A folder the daemon made has no id until the next pass. If
  another client renames it inside the pair and moves a folder of its own to its old
  path before that, the newcomer is linked as the daemon's folder and what is in it
  waits for a full walk: `is_the_daemons_own_folder` (`reconstruct.rs` 378-380) looks
  for nodes that left the tree or went behind, not for one placed elsewhere in it. With
  three edits and a fault `IdleMeansAgreed` shows it; what is lost sight of is found by
  the next walk (`Settles` holds).
* A file uploaded a moment ago has a record without an id until the next pass; if
  another client moves or renames it before, the record stays (`IdleMeansAgreed`
  excuses id 0).
* Deletions go by path: a folder moved to the path of a folder that is to be deleted
  goes in its place. A restored folder keeps the id of the lost one.
* The resync latch survives only the loss of the folder. Any other error, and an
  apply that diverged, drops it (`daemon.rs` 6473-6475), though Keep relies on it
  (10349-10359).
* Tangled moves: a plan's moves run in the order of their old paths, whatever their
  new ones (`Tangled`). A file another client moves into a folder it renames comes before
  the folder if its old path does: its parent is made (`ensure_parent_directory`), and
  the rename of the folder onto it fails (`daemon.rs` 8389-8398). And two
  recorded files of one content, both gone locally, with one new local file of that
  content, both plan a `MoveRemote` to it: only the destination must be unique
  (`sync.rs` 998-1030), though `docs/rename-detection-design.md` 21 asks for "a single
  unambiguous source and destination". The action fails and the rest of the plan
  runs; the next walk brings the sides together (`Settles`).
* With one direction guarded and the other not, a deletion withheld by its guard is
  not counted as forced (`daemon.rs` 9392-9394, 7960), so the force settles with it
  pending, and later deletions of the other direction go without a question.
  `OnlySeenGo` is checked and proved for guards on both directions or none.
* An apply booked just before a pause that is lifted again at once still runs.
* A crash between a deletion and its checkpoint leaves the approval unspent.

## 7. Not modelled

* In the engine: a feed outage and its hold, unsyncable names, Proton documents in a
  tree, type conflicts of a file and a folder, excluded paths, the fingerprint of a
  directory approval, history, activity and progress; a conflict resolved in a
  tree (`PairSync` and finding 1 have it for a file).
* The stat fast path of the scan, the lock files, the CLI gate, the calendar
  arithmetic of the schedule. Each is a candidate for a module of its own, and
  none takes part in a decision modelled here.
* HTTP and keyring access, SQLite, trash, configuration, `doctor`, the command line
  tools, the GUI, packaging and the website, which make up most of the repository.
  They take no sync decision or are pure input and output; their failures
  appear as faults.
