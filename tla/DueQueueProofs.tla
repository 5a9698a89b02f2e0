--------------------------- MODULE DueQueueProofs ---------------------------
(***************************************************************************)
(* Fairness of the due queue between timers, for any number of pairs, any  *)
(* intervals and any lengths of jobs.  The inductive invariant says what a *)
(* ghost entry means: while p waits overdue, whoever ran in its stead is   *)
(* due later than p, and p itself is not running.                          *)
(***************************************************************************)
EXTENDS DueQueue, Induction

Waits(p, q) ==
  /\ Deadline(p) <= 0
  /\ Deadline(q) > Deadline(p)
  /\ job.kind = "sync" => job.pair # p

OvertakenWait == \A o \in overtaken : Waits(o[1], o[2])

IInv == TypeOK /\ OvertakenWait

-----------------------------------------------------------------------------
(* Pairs are numbers.                                                      *)
LEMMA PairsTyped == Pairs \subseteq Int /\ 0 \in Pairs
  BY NAssumption DEF Pairs, Positive

(* Cadences are positive.                                                  *)
LEMMA CadenceTyped ==
  ASSUME NEW p \in Pairs, NEW live \in BOOLEAN
  PROVE  CadenceFor(p, live) \in Positive
  BY IntervalAssumption DEF CadenceFor

(* Deadlines are instants.                                                 *)
LEMMA DeadlineTyped ==
  ASSUME TypeOK, NEW p \in Pairs
  PROVE  Deadline(p) \in Int
  BY DEF Deadline, TypeOK

(* The seeded queue is well typed.                                         *)
LEMMA InitTyped == Init => TypeOK
<1> SUFFICES ASSUME Init PROVE TypeOK
  OBVIOUS
<1>1. cadence \in [Pairs -> Positive] /\ nextDue \in [Pairs -> Int]
  BY CadenceTyped DEF Init
<1>2. sweepAt \in [Pairs -> Int]
  <2>1. SweepDelays \subseteq Int
    BY SweepAssumption DEF Positive
  <2>2. \A p \in Pairs : sweepAt[p] \in Int
    BY <2>1 DEF Init
  <2> QED
    BY <2>2 DEF Init
<1>3. explicit \in Seq(Pairs \X Kinds) /\ cursor \in Pairs
  BY PairsTyped DEF Init
<1>4. armed \subseteq Pairs /\ overtaken \subseteq Pairs \X Pairs
  BY DEF Init
<1>5. session \in BOOLEAN /\ job = NoJob
  BY DEF Init
<1> QED
  BY <1>1, <1>2, <1>3, <1>4, <1>5 DEF Init, TypeOK

(* The type invariant, action by action.                                   *)
LEMMA StepTyped == TypeOK /\ [Next]_vars => TypeOK'
<1> SUFFICES ASSUME TypeOK, [Next]_vars PROVE TypeOK'
  OBVIOUS
<1> USE DEF TypeOK
<1>1. ASSUME NEW p \in Pairs, NEW kind \in Kinds, Request(p, kind) PROVE TypeOK'
  <2>1. explicit' \in Seq(Pairs \X Kinds)
    BY <1>1 DEF Request
  <2> QED
    BY <1>1, <2>1 DEF Request, timers
<1>2. CASE PopExplicit
  <2>1. explicit' \in Seq(Pairs \X Kinds) /\ Head(explicit) \in Pairs \X Kinds
    BY <1>2 DEF PopExplicit, Waiting
  <2>2. job' \in Job /\ armed' \subseteq Pairs /\ overtaken' \subseteq Pairs \X Pairs
    BY <1>2, <2>1 DEF PopExplicit, Job, Causes, Kinds, TakeSweep
  <2> QED
    BY <1>2, <2>1, <2>2 DEF PopExplicit
<1>3. ASSUME NEW p \in Pairs, PopTimer(p) PROVE TypeOK'
  <2>1. After(p) \in Pairs
    BY NAssumption DEF After, Pairs, Positive
  <2>2. job' \in Job /\ armed' \subseteq Pairs /\ overtaken' \subseteq Pairs \X Pairs
    BY <1>3 DEF PopTimer, Job, Causes, Kinds, TakeSweep
  <2>3. nextDue' \in [Pairs -> Int]
    BY <1>3 DEF PopTimer, Positive
  <2> QED
    BY <1>3, <2>1, <2>2, <2>3 DEF PopTimer
<1>4. CASE EndPlan
  BY <1>4 DEF EndPlan, timers
<1>5. ASSUME NEW p \in Pairs, EndSync(p) PROVE TypeOK'
  <2>1. session' \in BOOLEAN
    BY <1>5 DEF EndSync
  <2>2. cadence' \in [Pairs -> Positive]
    BY <1>5, <2>1, CadenceTyped DEF EndSync
  <2>3. nextDue' \in [Pairs -> Int]
    BY <1>5, <2>2 DEF EndSync, Positive
  <2>4. armed' \subseteq Pairs /\ sweepAt' \in [Pairs -> Int]
    BY <1>5, SweepAssumption DEF EndSync, Positive
  <2> QED
    BY <1>5, <2>1, <2>2, <2>3, <2>4 DEF EndSync
<1>6. CASE Tick
  BY <1>6 DEF Tick
<1>7. CASE Shutdown
  BY <1>7 DEF Shutdown, timers
<1>8. CASE UNCHANGED vars
  BY <1>8 DEF vars
<1> QED
  BY <1>1, <1>2, <1>3, <1>4, <1>5, <1>6, <1>7, <1>8 DEF Next, Pop, EndJob

(* Type correctness.                                                       *)
THEOREM TypeCorrect == Spec => []TypeOK
  BY InitTyped, StepTyped, PTL DEF Spec

-----------------------------------------------------------------------------
(* A pair that just ran on its timer is due only in the future.            *)
LEMMA PoppedIsLater ==
  ASSUME TypeOK, NEW p \in Pairs, PopTimer(p)
  PROVE  Deadline(p)' > 0
<1>1. nextDue'[p] > 0
  BY DEF PopTimer, TypeOK, Positive
<1>2. p \in armed' => sweepAt'[p] > 0
  BY DEF PopTimer, TakeSweep, SweepOverdue, TypeOK
<1> QED
  BY <1>1, <1>2 DEF Deadline

(* The end of a pass moves no deadline to or into the past, and the        *)
(* deadline of another pair only to an earlier one (a session came back).  *)
LEMMA EndSyncDeadlines ==
  ASSUME TypeOK, NEW p \in Pairs, EndSync(p), NEW q \in Pairs
  PROVE  /\ Deadline(q)' > 0 \/ Deadline(q)' >= Deadline(q)
         /\ q # p => Deadline(q)' <= Deadline(q)
<1> USE DEF TypeOK
<1>1. session' \in BOOLEAN
  BY DEF EndSync
<1>2. cadence' \in [Pairs -> Positive]
  BY <1>1, CadenceTyped DEF EndSync
<1>3. /\ nextDue'[q] \in Int
      /\ nextDue'[q] > 0 \/ nextDue'[q] = nextDue[q]
      /\ q # p => nextDue'[q] <= nextDue[q]
  BY <1>2 DEF EndSync, Positive
<1>4. \/ (q \in armed <=> q \in armed') /\ sweepAt'[q] = sweepAt[q]
      \/ q = p /\ sweepAt'[q] \in Int /\ sweepAt'[q] > 0
  BY SweepAssumption DEF EndSync, Positive
<1> QED
  BY <1>3, <1>4 DEF Deadline

(* Time moves every deadline alike.                                        *)
LEMMA TickDeadlines ==
  ASSUME TypeOK, Tick, NEW p \in Pairs
  PROVE  Deadline(p)' = Deadline(p) - 1
  BY DEF TypeOK, Tick, Deadline

-----------------------------------------------------------------------------
(* Nobody waits at the start.                                              *)
LEMMA InitWaits == Init => OvertakenWait
  BY DEF Init, OvertakenWait

(* The order of the waiting pairs, action by action.                       *)
LEMMA StepWaits == IInv /\ [Next]_vars => OvertakenWait'
<1> SUFFICES ASSUME IInv, [Next]_vars,
                    NEW o \in overtaken', NEW p, NEW q, p = o[1], q = o[2]
             PROVE  Waits(p, q)'
  BY DEF OvertakenWait
<1>1. p \in Pairs /\ q \in Pairs /\ TypeOK'
  BY StepTyped DEF IInv, TypeOK
<1>2. o \in overtaken => Waits(p, q)
  BY DEF IInv, OvertakenWait
<1>3. Deadline(p) \in Int /\ Deadline(q) \in Int
  BY <1>1, DeadlineTyped DEF IInv
<1>4. CASE UNCHANGED <<timers, job, overtaken>>
  BY <1>2, <1>4 DEF Waits, Deadline, timers
<1>5. CASE PopExplicit
  <2>1. o \in overtaken /\ (job'.kind = "sync" => job'.pair # p)
    BY <1>5 DEF PopExplicit
  <2>2. armed' \subseteq armed /\ nextDue' = nextDue /\ sweepAt' = sweepAt
    BY <1>5 DEF PopExplicit, TakeSweep
  <2>3. p \in armed => p \in armed'
    BY <1>5, <2>1 DEF PopExplicit, TakeSweep
  <2>4. Deadline(p)' = Deadline(p)
    BY <2>2, <2>3 DEF Deadline
  <2>5. Deadline(q)' >= Deadline(q)
    BY <1>1, <2>2 DEF Deadline, TypeOK, IInv
  <2>6. Deadline(q)' \in Int
    BY <1>1 DEF Deadline, TypeOK
  <2> QED
    BY <1>2, <1>3, <2>1, <2>4, <2>5, <2>6 DEF Waits
<1>6. ASSUME NEW r \in Pairs, PopTimer(r) PROVE Waits(p, q)'
  <2>1. p # r /\ job'.pair = r
    BY <1>6 DEF PopTimer
  <2>2. Deadline(p)' = Deadline(p)
    BY <1>1, <1>6, <2>1 DEF PopTimer, Deadline, TakeSweep, TypeOK, IInv
  <2>3. CASE q = r
    <3>1. o \in overtaken \/ o \in {<<x, r>> : x \in {y \in Pairs : y # r /\ Due(y)}}
      BY <1>6 DEF PopTimer
    <3>2. Due(p)
      BY <1>2, <3>1 DEF Waits, Due
    <3>3. Deadline(q)' > 0 /\ Deadline(q)' \in Int
      BY <1>1, <1>6, <2>3, PoppedIsLater DEF IInv, Deadline, TypeOK
    <3> QED
      BY <1>3, <2>1, <2>2, <3>2, <3>3 DEF Waits, Due
  <2>4. CASE q # r
    <3>1. o \in overtaken
      BY <1>6, <2>4 DEF PopTimer
    <3>2. Deadline(q)' = Deadline(q)
      BY <1>1, <1>6, <2>4 DEF PopTimer, Deadline, TakeSweep, TypeOK, IInv
    <3> QED
      BY <1>2, <2>1, <2>2, <3>1, <3>2 DEF Waits
  <2> QED
    BY <2>3, <2>4
<1>7. ASSUME NEW r \in Pairs, EndSync(r) PROVE Waits(p, q)'
  <2>1. o \in overtaken /\ r # p /\ job'.kind # "sync"
    BY <1>2, <1>7 DEF EndSync, Waits, NoJob
  <2>2. Deadline(p)' \in Int /\ Deadline(q)' \in Int
    BY <1>1 DEF Deadline, TypeOK
  <2>3. Deadline(p)' <= Deadline(p) /\ (Deadline(q)' > 0 \/ Deadline(q)' >= Deadline(q))
    BY <1>1, <1>7, <2>1, EndSyncDeadlines DEF IInv
  <2> QED
    BY <1>2, <1>3, <2>1, <2>2, <2>3 DEF Waits
<1>8. CASE Tick
  <2>1. o \in overtaken /\ job' = job
    BY <1>8 DEF Tick
  <2> QED
    BY <1>1, <1>2, <1>3, <1>8, <2>1, TickDeadlines DEF Waits, IInv
<1>9. CASE EndPlan
  BY <1>2, <1>9 DEF EndPlan, Waits, Deadline, timers, NoJob
<1>10. CASE Shutdown \/ (\E r \in Pairs, kind \in Kinds : Request(r, kind)) \/ UNCHANGED vars
  BY <1>4, <1>10 DEF Shutdown, Request, vars, timers
<1> QED
  BY <1>5, <1>6, <1>7, <1>8, <1>9, <1>10 DEF Next, Pop, EndJob

(* The order in which pairs wait, for every number of pairs.               *)
THEOREM WaitingOrder == Spec => []IInv
<1>1. Init => IInv
  BY InitTyped, InitWaits DEF IInv
<1>2. IInv /\ [Next]_vars => IInv'
  BY StepTyped, StepWaits DEF IInv
<1> QED
  BY <1>1, <1>2, PTL DEF Spec

(* No pair is overtaken twice on the timer by the same other pair.         *)
THEOREM NobodyOvertakesTwice == Spec => NoOvertaking
<1> DEFINE Fair ==
      \A p \in Pairs : PopTimer(p) => \A q \in Pairs : Due(q) => <<q, p>> \notin overtaken
<1>1. IInv => Fair
  <2> SUFFICES ASSUME IInv, NEW p \in Pairs, NEW q \in Pairs, Chosen(p), Due(q),
                      <<q, p>> \in overtaken
               PROVE  FALSE
    BY DEF PopTimer
  <2>1. Deadline(p) > Deadline(q)
    BY DEF IInv, OvertakenWait, Waits
  <2>2. Deadline(p) <= Deadline(q)
    BY DeadlineTyped DEF Chosen, IInv
  <2> QED
    BY <2>1, <2>2, DeadlineTyped DEF IInv
<1> QED
  BY <1>1, WaitingOrder, PTL DEF NoOvertaking

(* A scheduled sweep leaves the schedule only as the job that runs it.     *)
THEOREM SweepsAreRun == Spec => SweepIsRun
<1> DEFINE Run ==
      \A p \in armed \ armed' : job'.pair = p /\ job'.cause = "sweep" /\ sweepAt[p] <= 0
<1>1. [Next]_vars => [Run]_vars
  <2> SUFFICES ASSUME Next, NEW p \in armed \ armed'
               PROVE  job'.pair = p /\ job'.cause = "sweep" /\ sweepAt[p] <= 0
    OBVIOUS
  <2>1. CASE PopExplicit
    BY <2>1 DEF PopExplicit, TakeSweep, SweepOverdue
  <2>2. CASE \E r \in Pairs : PopTimer(r)
    BY <2>2 DEF PopTimer, TakeSweep, SweepOverdue
  <2>3. CASE \E r \in Pairs : EndSync(r)
    BY <2>3 DEF EndSync
  <2>4. CASE EndPlan \/ Tick \/ Shutdown \/ \E r \in Pairs, kind \in Kinds : Request(r, kind)
    BY <2>4 DEF EndPlan, Tick, Shutdown, Request, timers
  <2> QED
    BY <2>1, <2>2, <2>3, <2>4 DEF Next, Pop, EndJob
<1> QED
  BY <1>1, PTL DEF Spec, SweepIsRun

(* A request made twice is queued once.                                    *)
THEOREM RequestsAreMerged == Spec => []RequestsMerge
<1>1. Init => RequestsMerge
  BY DEF Init, RequestsMerge
<1>2. TypeOK /\ RequestsMerge /\ [Next]_vars => RequestsMerge'
  <2> SUFFICES ASSUME TypeOK, RequestsMerge, [Next]_vars PROVE RequestsMerge'
    OBVIOUS
  <2>1. CASE UNCHANGED explicit
    BY <2>1 DEF RequestsMerge
  <2>2. ASSUME NEW p \in Pairs, NEW kind \in Kinds, Request(p, kind) PROVE RequestsMerge'
    <3>1. CASE Queued(p, kind)
      BY <2>1, <2>2, <3>1 DEF Request
    <3>2. CASE ~Queued(p, kind)
      <4>1. explicit' = Append(explicit, <<p, kind>>)
        BY <2>2, <3>2 DEF Request
      <4> QED
        <5>1. /\ DOMAIN explicit' = DOMAIN explicit \cup {Len(explicit) + 1}
              /\ \A i \in DOMAIN explicit : explicit'[i] = explicit[i]
              /\ explicit'[Len(explicit) + 1] = <<p, kind>>
          BY <4>1 DEF TypeOK
        <5> QED
          BY <3>2, <5>1 DEF RequestsMerge, Queued
    <3> QED
      BY <3>1, <3>2
  <2>3. CASE PopExplicit
    <3>1. explicit' = Tail(explicit) /\ explicit # <<>>
      BY <2>3 DEF PopExplicit, Waiting
    <3>2. /\ DOMAIN explicit = 1..Len(explicit) /\ Len(explicit) \in Nat
          /\ DOMAIN explicit' = 1..(Len(explicit) - 1)
          /\ \A i \in DOMAIN explicit' : explicit'[i] = explicit[i + 1]
      BY <3>1 DEF TypeOK
    <3>3. ASSUME NEW i \in DOMAIN explicit', NEW j \in DOMAIN explicit',
                 explicit'[i] = explicit'[j]
          PROVE  i = j
      BY <3>2, <3>3 DEF RequestsMerge
    <3> QED
      BY <3>3 DEF RequestsMerge
  <2> QED
    BY <2>1, <2>2, <2>3
    DEF Next, Pop, EndJob, PopTimer, EndPlan, EndSync, Tick, Shutdown, vars
<1> QED
  BY <1>1, <1>2, TypeCorrect, PTL DEF Spec

-----------------------------------------------------------------------------
(* The number of pairs is finite, so some deadline is the earliest, and it *)
(* is when the loop wakes up.                                              *)
LEMMA WakesAtTheEarliest ==
  ASSUME TypeOK
  PROVE  /\ NextWake \in Int
         /\ \E p \in Pairs : NextWake = Deadline(p)
         /\ \A p \in Pairs : NextWake <= Deadline(p)
<1> DEFINE f == [p \in Pairs |-> Deadline(p)]
<1>1. PICK p \in Pairs : \A q \in Pairs : Deadline(p) <= Deadline(q)
  <2>1. f \in [Pairs -> Int] /\ N - 1 \in Nat /\ Pairs = 0 .. N - 1
    BY DeadlineTyped, NAssumption DEF Pairs, Positive
  <2>2. \E p \in Pairs : \A q \in Pairs : f[p] <= f[q]
    <3> HIDE DEF f
    <3> QED
      BY <2>1, LeastValue
  <2> QED
    BY <2>2
<1>2. Deadline(p) \in {Deadline(q) : q \in Pairs}
  OBVIOUS
<1>3. /\ NextWake \in {Deadline(q) : q \in Pairs}
      /\ \A q \in Pairs : NextWake <= Deadline(q)
  BY <1>1, <1>2 DEF NextWake
<1> QED
  BY <1>3, DeadlineTyped

(* The rotation counts from the cursor.                                    *)
LEMMA TurnTyped ==
  ASSUME TypeOK, NEW p \in Pairs
  PROVE  Turn(p) \in Nat
  BY NAssumption DEF Turn, TypeOK, Pairs, Positive

(* Some pair is chosen exactly when some pair is due.                      *)
LEMMA SomebodyIsChosen ==
  ASSUME TypeOK
  PROVE  (\E p \in Pairs : Chosen(p)) <=> NextWake <= 0
<1>1. ASSUME NEW p \in Pairs, Chosen(p) PROVE NextWake <= 0
  BY <1>1, WakesAtTheEarliest, DeadlineTyped DEF Chosen, Due
<1>2. ASSUME NextWake <= 0 PROVE \E p \in Pairs : Chosen(p)
  <2> DEFINE earliest == {p \in Pairs : Deadline(p) = NextWake}
             turns == {Turn(p) : p \in earliest}
  <2>1. turns \in SUBSET Nat /\ turns # {}
    BY WakesAtTheEarliest, TurnTyped
  <2>2. PICK t \in turns : \A u \in turns : t <= u
    <3> HIDE DEF turns
    <3> QED
      BY <2>1, LeastNatural
  <2>3. PICK p \in earliest : t = Turn(p)
    OBVIOUS
  <2>4. Due(p)
    BY <1>2, <2>3 DEF Due
  <2>5. ASSUME NEW q \in Pairs
        PROVE  \/ Deadline(p) < Deadline(q)
               \/ Deadline(p) = Deadline(q) /\ Turn(p) <= Turn(q)
    <3>1. Deadline(p) = NextWake /\ NextWake <= Deadline(q)
      BY WakesAtTheEarliest
    <3>2. CASE Deadline(q) = NextWake
      BY <2>2, <2>3, <3>1, <3>2
    <3>3. CASE Deadline(q) # NextWake
      BY <3>1, <3>3, WakesAtTheEarliest, DeadlineTyped
    <3> QED
      BY <3>2, <3>3
  <2> QED
    BY <2>4, <2>5 DEF Chosen
<1> QED
  BY <1>1, <1>2

(* The loop sleeps exactly when there is nothing to pop, for any number of *)
(* pairs and any deadlines.                                                *)
THEOREM NeverSleepsOnWork == Spec => []SleepsOrPops
<1>1. TypeOK => SleepsOrPops
  BY SomebodyIsChosen, WakesAtTheEarliest DEF SleepsOrPops
<1> QED
  BY <1>1, TypeCorrect, PTL
=============================================================================
