------------------------------ MODULE DueQueue ------------------------------
(***************************************************************************)
(* The run loop of the daemon and its queue, src/src/due_queue.rs: which   *)
(* folder pair runs next.  One job runs at a time.  Requests from the      *)
(* control socket come first; otherwise the pair whose timer or scheduled  *)
(* full sweep is overdue longest runs.                                     *)
(*                                                                         *)
(* Every instant is written as its distance from the present: 0 is now, an *)
(* overdue deadline is negative.  Time passes while a job runs, which      *)
(* takes at least one unit of it, and while the loop sleeps.               *)
(***************************************************************************)
EXTENDS Integers, Sequences, FiniteSets

CONSTANTS
  N,             \* the number of folder pairs, numbered in config order
  ScanInterval,  \* scan_interval of each pair
  PollInterval,  \* the daemon's events poll interval
  EventsDriven,  \* the pairs that follow the change feed
  SweepDelays,   \* how far ahead a full sweep may be scheduled
  Unscheduled,   \* the pairs without a full-sweep schedule
  MaxPass,       \* bound: the length of a job
  MaxRequests    \* bound: control requests

Pairs == 0..(N - 1)
Positive == Nat \ {0}

ASSUME NAssumption == N \in Positive
ASSUME IntervalAssumption ==
  ScanInterval \in [Pairs -> Positive] /\ PollInterval \in Positive
ASSUME PairsAssumption == EventsDriven \subseteq Pairs /\ Unscheduled \subseteq Pairs
ASSUME SweepAssumption == SweepDelays \subseteq Positive /\ SweepDelays # {}
ASSUME BoundsAssumption == MaxPass \in Positive /\ MaxRequests \in Nat

VARIABLES
  nextDue,    \* when each pair's timer fires
  cadence,    \* by how much it is re-armed
  armed,      \* the pairs with a full sweep scheduled
  sweepAt,    \* when it is due
  explicit,   \* the requested jobs, oldest first
  cursor,     \* where the next tie starts looking
  job,        \* the job that runs, or NoJob
  elapsed,    \* for how long it has run
  session,    \* there is an event session
  stopped,    \* the loop has ended
  requests,   \* spent budget
  overtaken   \* ghost: <<p, q>> when q ran on its timer while p was overdue

vars == <<nextDue, cadence, armed, sweepAt, explicit, cursor, job, elapsed,
          session, stopped, requests, overtaken>>
timers == <<nextDue, cadence, armed, sweepAt, cursor>>

Kinds == {"sync", "plan"}
Causes == {"explicit", "timer", "sweep"}
Job == [pair : Pairs, kind : Kinds, cause : Causes]
NoJob == [pair |-> 0, kind |-> "none", cause |-> "none"]

TypeOK ==
  /\ nextDue \in [Pairs -> Int]
  /\ cadence \in [Pairs -> Positive]
  /\ armed \subseteq Pairs /\ sweepAt \in [Pairs -> Int]
  /\ explicit \in Seq(Pairs \X Kinds)
  /\ cursor \in Pairs
  /\ job \in Job \cup {NoJob} /\ elapsed \in Nat
  /\ session \in BOOLEAN /\ stopped \in BOOLEAN
  /\ requests \in Nat
  /\ overtaken \subseteq Pairs \X Pairs

CadenceFor(p, live) ==
  IF p \in EventsDriven /\ live /\ PollInterval < ScanInterval[p]
  THEN PollInterval ELSE ScanInterval[p]

Init ==
  /\ session \in BOOLEAN
  /\ nextDue = [p \in Pairs |-> 0]
  /\ cadence = [p \in Pairs |-> CadenceFor(p, session)]
  /\ armed = Pairs \ Unscheduled
  /\ sweepAt \in [Pairs -> SweepDelays]
  /\ explicit = <<>> /\ cursor = 0
  /\ job = NoJob /\ elapsed = 0 /\ stopped = FALSE
  /\ requests = 0 /\ overtaken = {}

-----------------------------------------------------------------------------
SweepOverdue(p) == p \in armed /\ sweepAt[p] <= 0

(* The one rule of what is due, for pop and for the sleep alike.           *)
Deadline(p) ==
  IF p \in armed /\ sweepAt[p] < nextDue[p] THEN sweepAt[p] ELSE nextDue[p]
Due(p) == Deadline(p) <= 0

(* Position in the rotation that breaks ties.                              *)
Turn(p) == IF p >= cursor THEN p - cursor ELSE p + N - cursor

NeverQueued(p, kind) == FALSE   \* mutant of Queued
Queued(p, kind) == \E i \in DOMAIN explicit : explicit[i] = <<p, kind>>

(* The same request is not queued twice; one made while its own job runs   *)
(* is queued once more.                                                    *)
Request(p, kind) ==
  /\ ~stopped
  /\ requests < MaxRequests
  /\ requests' = requests + 1
  /\ explicit' = IF Queued(p, kind) THEN explicit ELSE Append(explicit, <<p, kind>>)
  /\ UNCHANGED <<timers, job, elapsed, session, stopped, overtaken>>

Idle == job = NoJob /\ ~stopped

(* Consuming an overdue sweep makes the job a full one, whoever asked.     *)
TakeAnySweep(p) == armed' = armed \ {p}   \* mutant of TakeSweep
TakeSweep(p) == armed' = IF SweepOverdue(p) THEN armed \ {p} ELSE armed

(* Mutant of Waiting: a job takes the other requests of its pair along.    *)
WaitingElsewhere == SelectSeq(explicit, LAMBDA r : r[1] # Head(explicit)[1])
Waiting == Tail(explicit)

PopExplicit ==
  /\ Idle
  /\ explicit # <<>>
  /\ LET p == Head(explicit)[1]
         kind == Head(explicit)[2]
     IN IF kind = "sync"
        THEN /\ TakeSweep(p)
             /\ job' = [pair |-> p, kind |-> kind,
                        cause |-> IF SweepOverdue(p) THEN "sweep" ELSE "explicit"]
             /\ overtaken' = {o \in overtaken : o[1] # p}
        ELSE /\ job' = [pair |-> p, kind |-> kind, cause |-> "explicit"]
             /\ UNCHANGED <<armed, overtaken>>
  /\ explicit' = Waiting
  /\ elapsed' = 0
  /\ UNCHANGED <<nextDue, cadence, sweepAt, cursor, session, stopped, requests>>

(* The earliest deadline, then the first pair at or after the cursor.      *)
FirstInConfig(p) == Due(p) /\ \A q \in Pairs : Due(q) => p <= q   \* mutant
Chosen(p) ==
  /\ Due(p)
  /\ \A q \in Pairs : Due(q) =>
       Deadline(p) < Deadline(q) \/ (Deadline(p) = Deadline(q) /\ Turn(p) <= Turn(q))

NoWrap(p) == p + 1   \* mutant of After
After(p) == IF p + 1 = N THEN 0 ELSE p + 1

(* The timer is re-armed before the job has run, so that a job that never  *)
(* re-arms it cannot leave the pair due.                                   *)
PopTimer(p) ==
  /\ Idle
  /\ explicit = <<>>
  /\ Chosen(p)
  /\ cursor' = After(p)
  /\ TakeSweep(p)
  /\ job' = [pair |-> p, kind |-> "sync",
             cause |-> IF SweepOverdue(p) THEN "sweep" ELSE "timer"]
  /\ nextDue' = [nextDue EXCEPT ![p] = cadence[p]]
  /\ elapsed' = 0
  /\ overtaken' = {o \in overtaken : o[1] # p} \cup
                  {<<q, p>> : q \in {r \in Pairs : r # p /\ Due(r)}}
  /\ UNCHANGED <<cadence, sweepAt, explicit, session, stopped, requests>>

(* The end of run_job.  A pass re-arms its timer from the moment it ended, *)
(* and its sweep if it was one; a session that came back retunes all.      *)
EndPlan ==
  /\ job.kind = "plan" /\ elapsed > 0
  /\ job' = NoJob /\ elapsed' = 0
  /\ UNCHANGED <<timers, explicit, session, stopped, requests, overtaken>>

EndSync(p) ==
  /\ job.kind = "sync" /\ elapsed > 0
  /\ job.pair = p
  /\ job' = NoJob /\ elapsed' = 0
  /\ session' \in {session, TRUE}
  /\ cadence' = [q \in Pairs |-> IF q = p \/ session' # session
                                 THEN CadenceFor(q, session') ELSE cadence[q]]
  /\ LET rearmed == [nextDue EXCEPT ![p] = cadence'[p]]
         Tightens(q) == /\ session' # session /\ q \in EventsDriven
                        /\ cadence'[q] < rearmed[q]
     IN nextDue' = [q \in Pairs |->
          IF Tightens(q) THEN cadence'[q] ELSE rearmed[q]]
  /\ IF job.cause = "sweep"
     THEN /\ armed' = armed \cup ({p} \ Unscheduled)
          /\ \E delay \in SweepDelays : sweepAt' = [sweepAt EXCEPT ![p] = delay]
     ELSE UNCHANGED <<armed, sweepAt>>
  /\ UNCHANGED <<explicit, cursor, stopped, requests, overtaken>>

(* Mutant of NextWake: sleeps on the timers alone.                         *)
NextTimer == CHOOSE t \in {nextDue[p] : p \in Pairs} : \A p \in Pairs : t <= nextDue[p]
NextWake == CHOOSE t \in {Deadline(p) : p \in Pairs} : \A p \in Pairs : t <= Deadline(p)

(* The loop sleeps until the next wake-up when nothing is left to pop.     *)
Tick ==
  /\ ~stopped
  /\ \/ job # NoJob /\ elapsed < MaxPass /\ elapsed' = elapsed + 1
     \/ job = NoJob /\ explicit = <<>> /\ NextWake > 0 /\ UNCHANGED elapsed
  /\ nextDue' = [p \in Pairs |-> nextDue[p] - 1]
  /\ sweepAt' = [p \in Pairs |-> IF p \in armed THEN sweepAt[p] - 1 ELSE sweepAt[p]]
  /\ UNCHANGED <<cadence, armed, cursor, explicit, job, session, stopped, requests, overtaken>>

(* A shutdown request or a signal, seen between two jobs.                  *)
Shutdown ==
  /\ Idle
  /\ stopped' = TRUE
  /\ UNCHANGED <<timers, explicit, job, elapsed, session, requests, overtaken>>

Pop == PopExplicit \/ \E p \in Pairs : PopTimer(p)
EndJob == EndPlan \/ \E p \in Pairs : EndSync(p)

Next ==
  \/ \E p \in Pairs, kind \in Kinds : Request(p, kind)
  \/ Pop \/ EndJob \/ Tick \/ Shutdown

Spec == Init /\ [][Next]_vars

(* Jobs end, and the loop goes round again.                                *)
LiveSpec == Spec /\ WF_vars(Pop) /\ WF_vars(EndJob) /\ WF_vars(Tick)

-----------------------------------------------------------------------------
(* No starvation between timers: while a pair is overdue no other pair     *)
(* runs twice on its own timer, whatever the cadences are.  Rests on the   *)
(* re-arming from the end of a pass and on the order of pop.               *)
NoOvertaking ==
  [][\A p \in Pairs : PopTimer(p) =>
       \A q \in Pairs : Due(q) => <<q, p>> \notin overtaken]_vars

(* A scheduled sweep leaves the schedule only as the job that runs it,     *)
(* also when an explicit request gets there first, and never early.        *)
(* Guards take_overdue_sweep and the arms that replace it.                 *)
SweepIsRun ==
  [][\A p \in armed \ armed' :
       job'.pair = p /\ job'.cause = "sweep" /\ sweepAt[p] <= 0]_vars

(* The loop never sleeps on work and never spins: with no request queued   *)
(* it has a positive time to sleep exactly when there is nothing to pop.   *)
(* Guards the one "due" rule that pop and next_wake share (deadline).      *)
SleepsOrPops ==
  Idle /\ explicit = <<>> => ((NextWake > 0) <=> ~\E p \in Pairs : Chosen(p))

(* A request made twice is queued once, so that the queue of requests      *)
(* cannot outgrow two jobs per pair however often clients ask.             *)
RequestsMerge ==
  \A i, j \in DOMAIN explicit : explicit[i] = explicit[j] => i = j

(* A job that was requested runs sooner or later.                          *)
RequestServed ==
  \A p \in Pairs, kind \in Kinds :
    Queued(p, kind) ~> (stopped \/ (job.pair = p /\ job.kind = kind))
=============================================================================
