---------------------------- MODULE TreeRunProofs ----------------------------
(***************************************************************************)
(* What the passes over a tree owe to the order of their plans.  First the *)
(* order itself: moves, then folders before what is in them, and nothing   *)
(* twice.  Then one theory of the action arms, Goes: an action brings      *)
(* about no kind it is not allowed (Suits), takes nothing but what it is   *)
(* about (LostLocal, LostRemote), and does not fail where it finds what it *)
(* needs (Clear).  Three results follow for whole passes.  No path comes   *)
(* to be a file on one side and a directory on the other, unless the map   *)
(* of an incremental pass shows it so.  A full walk that nobody disturbs   *)
(* carries out all it plans: no action takes what a later one needs.  And  *)
(* such a walk leaves every path as it should be: what is behind it is in  *)
(* step (Right), what is before it stands as it was seen (Stands).         *)
(***************************************************************************)
EXTENDS TreeSyncProofs

(* What is chosen of a sequence keeps its order, and nothing else is.      *)
LEMMA ChosenInOrder ==
  ASSUME NEW X, NEW s \in Seq(X), NEW chosen
  PROVE  LET t == Chosen(s, chosen)
         IN /\ t \in Seq(X)
            /\ \A a \in 1 .. Len(t) : \E k \in 1 .. Len(s) : k \in chosen /\ t[a] = s[k]
            /\ \A a, b \in 1 .. Len(t) : a < b =>
                 \E k, l \in 1 .. Len(s) :
                   k < l /\ k \in chosen /\ l \in chosen /\ t[a] = s[k] /\ t[b] = s[l]
            /\ \A k \in 1 .. Len(s) : k \in chosen => \E a \in 1 .. Len(t) : t[a] = s[k]
<1> DEFINE n == Len(s)
           S == Seq(X)
           start == <<>>
           Step(t, i) == IF i \in chosen THEN Append(t, s[i]) ELSE t
           taken == CHOOSE f : f = [i \in 0 .. n |-> IF i = 0 THEN start ELSE Step(f[i - 1], i)]
<1>1. Chosen(s, chosen) = taken[n]
  BY DEF Chosen
<1>2. n \in Nat /\ start \in S
  BY LenProperties
<1>3. ASSUME NEW i \in 1 .. n PROVE s[i] \in X
  BY ElementOfSeq
<1>4. ASSUME NEW t \in S, NEW i \in 1 .. n PROVE Step(t, i) \in S
  BY <1>3, AppendProperties
<1> HIDE DEF S, Step, start, n
<1> DEFINE g == [i \in 1 .. n |-> [t \in S |-> Step(t, i)]]
<1>5. PICK h : h \in Chains(n, S, start, g)
  <2>1. g \in [1 .. n -> [S -> S]]
    BY <1>4
  <2> HIDE DEF g
  <2> QED
    BY <1>2, <2>1, Recursion
<1>6. h = [i \in 0 .. n |-> IF i = 0 THEN start ELSE Step(h[i - 1], i)]
  <2>1. ASSUME NEW i \in 0 .. n
        PROVE  h[i] = IF i = 0 THEN start ELSE Step(h[i - 1], i)
    <3>1. CASE i = 0
      BY <1>5, <3>1 DEF Chains
    <3>2. CASE i # 0
      <4>1. i \in 1 .. n /\ i - 1 \in 0 .. n
        BY <1>2, <3>2
      <4>2. h[i - 1] \in S /\ h[i] = g[i][h[i - 1]]
        BY <1>5, <4>1 DEF Chains
      <4> QED
        BY <3>2, <4>1, <4>2
    <3> QED
      BY <3>1, <3>2
  <2> QED
    BY <1>5, <2>1 DEF Chains
<1>7. taken = [i \in 0 .. n |-> IF i = 0 THEN start ELSE Step(taken[i - 1], i)]
  BY <1>6
<1> HIDE DEF taken
<1> DEFINE Ordered(t, m) ==
             /\ t \in S
             /\ \A a \in 1 .. Len(t) : \E k \in 1 .. m : k \in chosen /\ t[a] = s[k]
             /\ \A a, b \in 1 .. Len(t) : a < b =>
                  \E k, l \in 1 .. m :
                    k < l /\ k \in chosen /\ l \in chosen /\ t[a] = s[k] /\ t[b] = s[l]
             /\ \A k \in 1 .. m : k \in chosen => \E a \in 1 .. Len(t) : t[a] = s[k]
           T == {i \in 0 .. n : Ordered(taken[i], i)}
<1>8. 0 \in T
  <2>1. taken[0] = start
    BY <1>2, <1>7
  <2>2. Len(start) = 0
    BY DEF start
  <2>3. start \in S /\ 1 .. Len(start) = {}
    BY <1>2, <2>2
  <2> QED
    BY <1>2, <2>1, <2>3
<1>9. ASSUME NEW i \in 0 .. n - 1, i \in T PROVE i + 1 \in T
  <2> DEFINE t == taken[i]
             u == taken[i + 1]
  <2>1. Ordered(t, i) /\ i \in Nat /\ i + 1 \in 1 .. n
    <3>1. i \in Nat /\ i + 1 \in 1 .. n
      BY <1>2
    <3> HIDE DEF Ordered
    <3>2. Ordered(t, i)
      BY <1>9
    <3> QED
      BY <3>1, <3>2
  <2>2. u = Step(t, i + 1)
    BY <1>2, <1>7, <2>1
  <2> HIDE DEF t, u
  <2>3. CASE i + 1 \notin chosen
    <3>1. u = t
      BY <2>2, <2>3 DEF Step
    <3>2. \A k \in 1 .. i : k \in 1 .. i + 1
      BY <2>1
    <3>3. ASSUME NEW a \in 1 .. Len(u)
          PROVE  \E k \in 1 .. i + 1 : k \in chosen /\ u[a] = s[k]
      BY <2>1, <3>1, <3>2
    <3>4. ASSUME NEW a \in 1 .. Len(u), NEW b \in 1 .. Len(u), a < b
          PROVE  \E k, l \in 1 .. i + 1 :
                   k < l /\ k \in chosen /\ l \in chosen /\ u[a] = s[k] /\ u[b] = s[l]
      <4>1. PICK k \in 1 .. i, l \in 1 .. i :
              k < l /\ k \in chosen /\ l \in chosen /\ t[a] = s[k] /\ t[b] = s[l]
        BY <2>1, <3>1, <3>4
      <4> QED
        BY <3>1, <3>2, <4>1
    <3>5. ASSUME NEW k \in 1 .. i + 1, k \in chosen
          PROVE  \E a \in 1 .. Len(u) : u[a] = s[k]
      <4>1. k \in 1 .. i
        BY <2>1, <2>3, <3>5
      <4> QED
        BY <2>1, <3>1, <3>5, <4>1
    <3>6. u \in S
      BY <2>1, <3>1
    <3>7. Ordered(u, i + 1)
      BY <3>3, <3>4, <3>5, <3>6
    <3> QED
      BY <2>1, <3>7 DEF u
  <2>4. CASE i + 1 \in chosen
    <3>1. u = Append(t, s[i + 1])
      BY <2>2, <2>4 DEF Step
    <3>2. /\ u \in S /\ Len(t) \in Nat /\ Len(u) = Len(t) + 1 /\ u[Len(t) + 1] = s[i + 1]
          /\ \A a \in 1 .. Len(t) : u[a] = t[a]
      BY <1>3, <2>1, <3>1, AppendProperties, LenProperties DEF S
    <3>3. \A a \in 1 .. Len(u) : a # Len(t) + 1 => a \in 1 .. Len(t)
      BY <3>2
    <3>4. \A k \in 1 .. i : k \in 1 .. i + 1 /\ k < i + 1
      BY <2>1
    <3>5. ASSUME NEW a \in 1 .. Len(u)
          PROVE  \E k \in 1 .. i + 1 : k \in chosen /\ u[a] = s[k]
      <4>1. CASE a = Len(t) + 1
        BY <2>1, <2>4, <3>2, <4>1
      <4>2. CASE a # Len(t) + 1
        <5>1. a \in 1 .. Len(t) /\ u[a] = t[a]
          BY <3>2, <3>3, <4>2
        <5>2. PICK k \in 1 .. i : k \in chosen /\ t[a] = s[k]
          BY <2>1, <5>1
        <5> QED
          BY <3>4, <5>1, <5>2
      <4> QED
        BY <4>1, <4>2
    <3>6. ASSUME NEW a \in 1 .. Len(u), NEW b \in 1 .. Len(u), a < b
          PROVE  \E k, l \in 1 .. i + 1 :
                   k < l /\ k \in chosen /\ l \in chosen /\ u[a] = s[k] /\ u[b] = s[l]
      <4>1. a \in 1 .. Len(t) /\ u[a] = t[a]
        BY <3>2, <3>6
      <4>2. CASE b = Len(t) + 1
        <5>1. PICK k \in 1 .. i : k \in chosen /\ t[a] = s[k]
          BY <2>1, <4>1
        <5>2. k \in 1 .. i + 1 /\ k < i + 1 /\ i + 1 \in 1 .. i + 1
          BY <2>1
        <5>3. u[b] = s[i + 1]
          BY <3>2, <4>2
        <5> QED
          BY <2>4, <4>1, <5>1, <5>2, <5>3
      <4>3. CASE b # Len(t) + 1
        <5>1. b \in 1 .. Len(t) /\ u[b] = t[b]
          BY <3>2, <3>3, <4>3
        <5>2. PICK k \in 1 .. i, l \in 1 .. i :
                k < l /\ k \in chosen /\ l \in chosen /\ t[a] = s[k] /\ t[b] = s[l]
          BY <2>1, <3>6, <4>1, <5>1
        <5> QED
          BY <3>4, <4>1, <5>1, <5>2
      <4> QED
        BY <4>2, <4>3
    <3>7. ASSUME NEW k \in 1 .. i + 1, k \in chosen
          PROVE  \E a \in 1 .. Len(u) : u[a] = s[k]
      <4>1. CASE k = i + 1
        <5>1. Len(t) + 1 \in 1 .. Len(u)
          BY <3>2
        <5> QED
          BY <3>2, <4>1, <5>1
      <4>2. CASE k # i + 1
        <5>1. k \in 1 .. i
          BY <2>1, <4>2
        <5>2. PICK a \in 1 .. Len(t) : t[a] = s[k]
          BY <2>1, <3>7, <5>1
        <5>3. a \in 1 .. Len(u) /\ u[a] = t[a]
          BY <3>2
        <5> QED
          BY <5>2, <5>3
      <4> QED
        BY <4>1, <4>2
    <3>8. Ordered(u, i + 1)
      BY <3>2, <3>5, <3>6, <3>7
    <3> QED
      BY <2>1, <3>8 DEF u
  <2> QED
    BY <2>3, <2>4
<1>10. n \in T
  <2> HIDE DEF T
  <2>1. \A i \in 0 .. n : i \in T
    BY <1>2, <1>8, <1>9, Climb
  <2> QED
    BY <1>2, <2>1
<1> QED
  BY <1>1, <1>10 DEF n, S

(* Moves are found one path after the other: none starts where an earlier  *)
(* one has settled what is done, and what is settled one of them settled.  *)
LEMMA MovesInOrder ==
  ASSUME NEW L, NEW R, NEW B
  PROVE  LET moves == Moves(L, R, B).moves
         IN /\ \A a, b \in 1 .. Len(moves) :
                 a < b => moves[b].path \notin Suppressed(B, moves[a])
            /\ \A p \in Moves(L, R, B).hidden :
                 \E a \in 1 .. Len(moves) : p \in Suppressed(B, moves[a])
<1> DEFINE T == MovesOf(L, R, B)
           S == [moves : Seq(T), hidden : SUBSET UNION {Suppressed(B, m) : m \in T}]
           start == [moves |-> <<>>, hidden |-> {}]
           Step(v, i) ==
             LET move == Transition(L, R, B, Order[i])
             IN IF Order[i] \in v.hidden \/ move = Nothing THEN v
                ELSE [moves |-> Append(v.moves, move),
                      hidden |-> v.hidden \cup Suppressed(B, move)]
           Apart(v) ==
             /\ \A a \in 1 .. Len(v.moves) : Suppressed(B, v.moves[a]) \subseteq v.hidden
             /\ \A a, b \in 1 .. Len(v.moves) :
                  a < b => v.moves[b].path \notin Suppressed(B, v.moves[a])
             /\ \A p \in v.hidden : \E a \in 1 .. Len(v.moves) : p \in Suppressed(B, v.moves[a])
           G == {v \in S : Apart(v)}
           n == Len(Order)
           found == CHOOSE f : f = [i \in 0 .. n |-> IF i = 0 THEN start ELSE Step(f[i - 1], i)]
<1>1. Moves(L, R, B) = found[n]
  BY DEF Moves
<1>2. n \in Nat /\ DOMAIN Order = 1 .. n
  BY PathsTyped
<1>3. start \in G
  OBVIOUS
<1>4. ASSUME NEW v \in G, NEW i \in 1 .. n PROVE Step(v, i) \in G
  <2> DEFINE move == Transition(L, R, B, Order[i])
             w == [moves |-> Append(v.moves, move), hidden |-> v.hidden \cup Suppressed(B, move)]
  <2>1. CASE Order[i] \in v.hidden \/ move = Nothing
    BY <2>1
  <2>2. CASE ~(Order[i] \in v.hidden \/ move = Nothing)
    <3>1. Step(v, i) = w
      BY <2>2
    <3>2. move \in T /\ Order[i] \in Paths
      BY <1>2, <2>2 DEF MovesOf, Paths
    <3>3. move.path = Order[i]
      BY <2>2, <3>2, MovesGoToFreePlaces
    <3>4. v.moves \in Seq(T) /\ v.hidden \subseteq UNION {Suppressed(B, m) : m \in T} /\ Apart(v)
      OBVIOUS
    <3> HIDE DEF move, T
    <3>5. /\ w.moves \in Seq(T) /\ Len(w.moves) = Len(v.moves) + 1 /\ Len(v.moves) \in Nat
          /\ w.moves[Len(v.moves) + 1] = move
          /\ \A k \in 1 .. Len(v.moves) : w.moves[k] = v.moves[k]
      BY <3>2, <3>4, AppendProperties, LenProperties
    <3>6. w.hidden \subseteq UNION {Suppressed(B, m) : m \in T}
      BY <3>2, <3>4
    <3>7. \A k \in 1 .. Len(w.moves) : k # Len(v.moves) + 1 => k \in 1 .. Len(v.moves)
      BY <3>5
    <3>8. ASSUME NEW k \in 1 .. Len(w.moves) PROVE Suppressed(B, w.moves[k]) \subseteq w.hidden
      BY <3>4, <3>5, <3>7
    <3>9. ASSUME NEW a \in 1 .. Len(w.moves), NEW b \in 1 .. Len(w.moves), a < b
          PROVE  w.moves[b].path \notin Suppressed(B, w.moves[a])
      <4>1. a \in 1 .. Len(v.moves) /\ w.moves[a] = v.moves[a]
        BY <3>5, <3>9
      <4>2. CASE b = Len(v.moves) + 1
        BY <2>2, <3>3, <3>4, <3>5, <4>1, <4>2
      <4>3. CASE b # Len(v.moves) + 1
        BY <3>4, <3>5, <3>7, <3>9, <4>1, <4>3
      <4> QED
        BY <4>2, <4>3
    <3>10. w \in S
      BY <3>5, <3>6
    <3>11. ASSUME NEW p \in w.hidden
           PROVE  \E a \in 1 .. Len(w.moves) : p \in Suppressed(B, w.moves[a])
      <4>1. CASE p \in v.hidden
        <5>1. PICK a \in 1 .. Len(v.moves) : p \in Suppressed(B, v.moves[a])
          BY <3>4, <4>1
        <5>2. a \in 1 .. Len(w.moves) /\ w.moves[a] = v.moves[a]
          BY <3>5
        <5> QED
          BY <5>1, <5>2
      <4>2. CASE p \notin v.hidden
        <5>1. p \in Suppressed(B, move) /\ Len(v.moves) + 1 \in 1 .. Len(w.moves)
          BY <3>5, <4>2
        <5> QED
          BY <3>5, <5>1
      <4> QED
        BY <4>1, <4>2
    <3>12. Apart(w)
      BY <3>8, <3>9, <3>11
    <3> HIDE DEF w, S, Apart
    <3> QED
      BY <3>1, <3>10, <3>12
  <2> QED
    BY <2>1, <2>2
<1> HIDE DEF G, S, Step, start, n
<1> DEFINE g == [i \in 1 .. n |-> [v \in G |-> Step(v, i)]]
<1>5. PICK h : h \in Chains(n, G, start, g)
  <2>1. g \in [1 .. n -> [G -> G]]
    BY <1>4
  <2>2. n \in Nat
    BY <1>2
  <2> HIDE DEF g
  <2> QED
    BY <1>3, <2>1, <2>2, Recursion
<1>6. h = [i \in 0 .. n |-> IF i = 0 THEN start ELSE Step(h[i - 1], i)]
  <2>1. ASSUME NEW i \in 0 .. n
        PROVE  h[i] = IF i = 0 THEN start ELSE Step(h[i - 1], i)
    <3>1. CASE i = 0
      BY <1>5, <3>1 DEF Chains
    <3>2. CASE i # 0
      <4>1. i \in 1 .. n /\ i - 1 \in 0 .. n
        BY <1>2, <3>2
      <4>2. h[i - 1] \in G /\ h[i] = g[i][h[i - 1]]
        BY <1>5, <4>1 DEF Chains
      <4> QED
        BY <3>2, <4>1, <4>2
    <3> QED
      BY <3>1, <3>2
  <2> QED
    BY <1>5, <2>1 DEF Chains
<1>7. found = [i \in 0 .. n |-> IF i = 0 THEN start ELSE Step(found[i - 1], i)]
  BY <1>6
<1> HIDE DEF found
<1>8. found[0] \in G
  BY <1>2, <1>3, <1>7
<1>9. ASSUME NEW i \in 1 .. n, found[i - 1] \in G PROVE found[i] \in G
  <2>1. i \in 0 .. n /\ i # 0
    BY <1>2
  <2>2. found[i] = Step(found[i - 1], i)
    BY <1>7, <2>1
  <2> QED
    BY <1>4, <1>9, <2>2
<1>10. found[n] \in G
  BY <1>2, <1>8, <1>9, LastValue
<1> QED
  BY <1>1, <1>10 DEF G

-----------------------------------------------------------------------------
IsMove(a) == a.do \in {"move_local", "move_remote"}

(* A plan does its moves first, then what it decides of the other paths,   *)
(* each once, a folder before what is in it; what a deletion of a folder   *)
(* covers it leaves out.                                                   *)
THEOREM PlanOrder ==
  ASSUME NEW L, NEW R, NEW B, Trees(L, R, B)
  PROVE  LET plan == Planned(L, R, B)
         IN /\ \A i, j \in 1 .. Len(plan) : i < j =>
                 /\ IsMove(plan[j]) =>
                      IsMove(plan[i]) /\ plan[j].path \notin Suppressed(B, plan[i])
                 /\ ~IsMove(plan[i]) =>
                      plan[i].path # plan[j].path /\ ~Below(plan[j].path, plan[i].path)
            /\ \A i, j \in 1 .. Len(plan) :
                 plan[i].kind = "dir" /\ plan[i].do \in Deletes =>
                   ~Below(plan[i].path, plan[j].path)
<1> DEFINE found == Moves(L, R, B)
           hidden == Settled(L, R, B)
           entity(p) == IF p \in hidden THEN Nothing ELSE Decided(L, R, B, p)
           rest == [i \in DOMAIN Order |-> entity(Order[i])]
           all == found.moves \o rest
           Y == MovesOf(L, R, B) \cup {entity(p) : p \in Paths}
           chosen == {i \in DOMAIN all : all[i].do # "none" /\ ~Covered(all, all[i])}
           plan == Planned(L, R, B)
           m == Len(found.moves)
<1>1. plan = Chosen(all, chosen)
  BY DEF Planned, Settled, Decided
<1>2. found.moves \in Seq(MovesOf(L, R, B))
  BY MovesAre
<1>3. \A a, b \in 1 .. m : a < b => found.moves[b].path \notin Suppressed(B, found.moves[a])
  BY MovesInOrder
<1>4. ASSUME NEW i \in 1 .. m PROVE IsMove(found.moves[i])
  <2>1. found.moves[i] \in MovesOf(L, R, B)
    BY <1>2, ElementOfSeq
  <2> QED
    BY <2>1, MoveShape DEF IsMove
<1>5. rest \in Seq({entity(p) : p \in Paths}) /\ Len(rest) = Len(Order) /\ Len(Order) \in Nat
      /\ \A i \in 1 .. Len(Order) : rest[i] = entity(Order[i]) /\ Order[i] \in Paths
  <2>1. Len(Order) \in Nat /\ DOMAIN Order = 1 .. Len(Order)
    BY PathsTyped
  <2>2. \A i \in 1 .. Len(Order) : Order[i] \in Paths
    BY <2>1 DEF Paths
  <2> HIDE DEF entity
  <2>3. rest \in [1 .. Len(Order) -> {entity(p) : p \in Paths}]
    BY <2>1, <2>2
  <2> QED
    BY <2>1, <2>2, <2>3
<1>6. ASSUME NEW p \in Paths, entity(p).do # "none"
      PROVE  ~IsMove(entity(p)) /\ entity(p).path = p
  <2>1. entity(p) = Decided(L, R, B, p)
    BY <1>6 DEF Nothing, Action
  <2>2. Proved(L, R, B, hidden, p) \in BOOLEAN
    BY DEF Proved
  <2> QED
    BY <1>6, <2>1, <2>2, DecisionShape DEF IsMove, Decided
<1> HIDE DEF found, entity, rest
<1>7. /\ all \in Seq(Y) /\ Len(all) = m + Len(rest)
      /\ Len(all) \in Nat /\ m \in Nat /\ Len(rest) \in Nat /\ DOMAIN all = 1 .. Len(all)
      /\ \A i \in 1 .. Len(all) :
           all[i] = IF i <= m THEN found.moves[i] ELSE rest[i - m]
  <2>1. found.moves \in Seq(Y) /\ rest \in Seq(Y)
    BY <1>2, <1>5, SeqMonotonic
  <2> HIDE DEF Y
  <2> QED
    BY <2>1, ConcatProperties, LenProperties
<1> HIDE DEF all, Y
<1>8. /\ \A a \in 1 .. Len(plan) : \E k \in 1 .. Len(all) : k \in chosen /\ plan[a] = all[k]
      /\ \A a, b \in 1 .. Len(plan) : a < b =>
           \E k, l \in 1 .. Len(all) :
             k < l /\ k \in chosen /\ l \in chosen /\ plan[a] = all[k] /\ plan[b] = all[l]
  <2> HIDE DEF chosen, plan
  <2>1. all \in Seq(Y)
    BY <1>7
  <2> DEFINE t == Chosen(all, chosen)
             Picked(x) ==
               /\ \A a \in 1 .. Len(x) : \E k \in 1 .. Len(all) : k \in chosen /\ x[a] = all[k]
               /\ \A a, b \in 1 .. Len(x) : a < b =>
                    \E k, l \in 1 .. Len(all) :
                      k < l /\ k \in chosen /\ l \in chosen /\ x[a] = all[k] /\ x[b] = all[l]
  <2>2. Picked(t)
    BY <2>1, ChosenInOrder
  <2> HIDE DEF t, Picked
  <2>3. Picked(plan)
    BY <1>1, <2>2 DEF t
  <2> QED
    BY <2>3 DEF Picked
<1> HIDE DEF plan, m
<1>9. ASSUME NEW k \in 1 .. Len(all), k \in chosen
      PROVE  IF k <= m THEN k \in 1 .. m /\ all[k] = found.moves[k] /\ IsMove(all[k])
             ELSE /\ k - m \in 1 .. Len(Order) /\ all[k].path = Order[k - m]
                  /\ ~IsMove(all[k])
  <2>1. CASE k <= m
    <3>1. k \in 1 .. m
      BY <1>7, <2>1
    <3> QED
      BY <1>4, <1>7, <2>1, <3>1 DEF m
  <2>2. CASE ~(k <= m)
    <3>1. k - m \in 1 .. Len(Order)
      BY <1>5, <1>7, <2>2
    <3>2. all[k] = entity(Order[k - m]) /\ Order[k - m] \in Paths
      BY <1>5, <1>7, <2>2, <3>1
    <3> QED
      BY <1>6, <1>9, <2>2, <3>1, <3>2
  <2> QED
    BY <2>1, <2>2
<1>10. ASSUME NEW k \in 1 .. Len(Order), NEW l \in 1 .. Len(Order), k < l
       PROVE  Order[k] # Order[l] /\ ~Below(Order[l], Order[k])
  <2>1. DOMAIN Order = 1 .. Len(Order)
    BY PathsTyped
  <2>2. \A i, j \in DOMAIN Order : Order[i] = Order[j] => i = j
    BY OrderAssumption
  <2>3. ASSUME Below(Order[l], Order[k]) PROVE FALSE
    <3>1. Len(Order[k]) = 2 /\ Order[l] = Parent(Order[k])
      BY <1>5, <2>3, Parents
    <3>2. \A i \in DOMAIN Order :
            Len(Order[i]) > 1 => \E j \in 1 .. i - 1 : Order[j] = Parent(Order[i])
      BY OrderAssumption
    <3>3. PICK j \in 1 .. k - 1 : Order[j] = Parent(Order[k])
      <4>1. k \in DOMAIN Order /\ Len(Order[k]) > 1
        BY <2>1, <3>1
      <4> QED
        BY <3>2, <4>1
    <3>4. j \in 1 .. Len(Order) /\ j # l
      BY <1>5, <1>10
    <3> QED
      BY <2>1, <2>2, <3>1, <3>3, <3>4
  <2> QED
    BY <1>10, <2>1, <2>2, <2>3
<1>11. ASSUME NEW i \in 1 .. Len(plan), NEW j \in 1 .. Len(plan), i < j
       PROVE  /\ IsMove(plan[j]) =>
                   IsMove(plan[i]) /\ plan[j].path \notin Suppressed(B, plan[i])
              /\ ~IsMove(plan[i]) =>
                   plan[i].path # plan[j].path /\ ~Below(plan[j].path, plan[i].path)
  <2>1. PICK k \in 1 .. Len(all), l \in 1 .. Len(all) :
          k < l /\ k \in chosen /\ l \in chosen /\ plan[i] = all[k] /\ plan[j] = all[l]
    BY <1>8, <1>11
  <2> HIDE DEF chosen
  <2>2. CASE l <= m
    <3>1. k <= m
      BY <1>7, <2>1, <2>2
    <3>2. k \in 1 .. m /\ l \in 1 .. m
      BY <1>9, <2>1, <2>2, <3>1
    <3> QED
      BY <1>3, <1>9, <2>1, <2>2, <3>1, <3>2 DEF m
  <2>3. CASE ~(l <= m) /\ k <= m
    BY <1>9, <2>1, <2>3
  <2>4. CASE ~(l <= m) /\ ~(k <= m)
    <3>1. k - m \in 1 .. Len(Order) /\ l - m \in 1 .. Len(Order)
      BY <1>9, <2>1, <2>4
    <3>2. k - m < l - m
      BY <1>7, <2>1
    <3>3. Order[k - m] # Order[l - m] /\ ~Below(Order[l - m], Order[k - m])
      BY <1>10, <3>1, <3>2
    <3> QED
      BY <1>9, <2>1, <2>4, <3>3
  <2> QED
    BY <2>2, <2>3, <2>4
<1>12. ASSUME NEW i \in 1 .. Len(plan), NEW j \in 1 .. Len(plan),
              plan[i].kind = "dir", plan[i].do \in Deletes
       PROVE  ~Below(plan[i].path, plan[j].path)
  <2>1. PICK k \in 1 .. Len(all) : plan[i] = all[k]
    BY <1>8
  <2>2. PICK l \in 1 .. Len(all) : l \in chosen /\ plan[j] = all[l]
    BY <1>8
  <2>3. ~Covered(all, all[l])
    BY <2>2
  <2> QED
    BY <1>7, <1>12, <2>1, <2>2, <2>3 DEF Covered
<1> QED
  BY <1>11, <1>12 DEF plan

(* What a decision tells of its path.                                      *)
LEMMA DecisionKinds ==
  ASSUME NEW L, NEW R, NEW B, Trees(L, R, B), NEW p \in Paths, NEW proved \in BOOLEAN,
         NEW a, a = PlanEntity(L, R, B, p, proved), a.do # "none"
  PROVE  /\ a.do = "create_remote_dir" => L[p].kind = "dir"
         /\ a.do = "create_local_dir" => R[p].kind = "dir"
         /\ a.do = "auto_link" /\ a.kind = "dir" => L[p].kind = "dir" /\ R[p].kind = "dir"
         /\ a.do = "local_delete" => L[p].kind = a.kind /\ a.kind \in {"file", "dir"}
         /\ a.do = "remote_delete" =>
              /\ R[p].kind = a.kind /\ a.kind \in {"file", "dir"}
              /\ a.kind = "dir" /\ R[p].id # 0 => a.id # 0
<1> DEFINE Shape ==
             /\ a.do = "create_remote_dir" => L[p].kind = "dir"
             /\ a.do = "create_local_dir" => R[p].kind = "dir"
             /\ a.do = "auto_link" /\ a.kind = "dir" => L[p].kind = "dir" /\ R[p].kind = "dir"
             /\ a.do = "local_delete" => L[p].kind = a.kind /\ a.kind \in {"file", "dir"}
             /\ a.do = "remote_delete" =>
                  /\ R[p].kind = a.kind /\ a.kind \in {"file", "dir"}
                  /\ a.kind = "dir" /\ R[p].id # 0 => a.id # 0
<1>1. L[p].kind \in Kinds /\ R[p].kind \in Kinds /\ B[p].kind \in Kinds
  BY TidyParts DEF Trees
<1>2. \A row \in {NoRow, B[p]} :
        /\ row.kind # "dir" /\ a = PlanFileAt(L, R, row, p)
        /\ L[p].kind # "dir" /\ R[p].kind # "dir"
        => Shape
  <2> SUFFICES ASSUME NEW row \in {NoRow, B[p]}, row.kind # "dir", a = PlanFileAt(L, R, row, p),
                      L[p].kind # "dir", R[p].kind # "dir"
               PROVE  Shape
    OBVIOUS
  <2>1. a.do \in Actions /\ a.kind = "file"
    BY FileDecision DEF PlanFileAt, Action
  <2>2. /\ a.do = "local_delete" => GivenUp(L[p], R[p], row)
        /\ a.do = "remote_delete" => GivenUp(R[p], L[p], row)
    BY FileDeletion
  <2> QED
    BY <1>1, <2>1, <2>2 DEF Actions, GivenUp, Kinds
<1>3. CASE Reconciled(L, R, B, p)
  BY <1>3 DEF PlanEntity, Nothing, Action
<1>4. CASE ~Reconciled(L, R, B, p) /\ Clash(L, R, p)
  BY <1>4 DEF PlanEntity, Action
<1>5. CASE /\ ~Reconciled(L, R, B, p) /\ ~Clash(L, R, p)
           /\ B[p].kind = "none" \/ StaleKind(L, R, B, p)
  <2>1. a = PlanFresh(L, R, p)
    BY <1>5 DEF PlanEntity
  <2>2. CASE "file" \in {L[p].kind, R[p].kind}
    <3>1. L[p].kind # "dir" /\ R[p].kind # "dir"
      BY <1>1, <1>5, <2>2 DEF Clash, Kinds
    <3>2. a = PlanFileAt(L, R, NoRow, p)
      BY <2>1, <2>2 DEF PlanFresh
    <3>3. NoRow.kind # "dir" /\ NoRow \in {NoRow, B[p]}
      BY DEF NoRow
    <3> QED
      BY <1>2, <3>1, <3>2, <3>3
  <2>3. CASE "file" \notin {L[p].kind, R[p].kind}
    BY <2>1, <2>3 DEF PlanFresh, Action, Nothing
  <2> QED
    BY <2>2, <2>3
<1>6. CASE /\ ~Reconciled(L, R, B, p) /\ ~Clash(L, R, p)
           /\ ~(B[p].kind = "none" \/ StaleKind(L, R, B, p))
  <2>1. L[p].kind \in {"none", B[p].kind} /\ R[p].kind \in {"none", B[p].kind}
    BY <1>6 DEF StaleKind
  <2>2. CASE B[p].kind = "dir"
    <3>1. a = PlanDir(L, R, B, p, proved)
      BY <1>6, <2>2 DEF PlanEntity
    <3> QED
      BY <2>1, <2>2, <3>1 DEF PlanDir, Action, Nothing
  <2>3. CASE B[p].kind # "dir"
    <3>1. a = PlanFileAt(L, R, B[p], p)
      BY <1>6, <2>3 DEF PlanEntity
    <3>2. L[p].kind # "dir" /\ R[p].kind # "dir"
      BY <2>1, <2>3
    <3> QED
      BY <1>2, <2>3, <3>1, <3>2
  <2> QED
    BY <2>2, <2>3
<1> QED
  BY <1>3, <1>4, <1>5, <1>6

-----------------------------------------------------------------------------
(* The small steps keep a failure as it is told.                           *)
LEMMA Flags ==
  ASSUME NEW x \in Running, NEW p \in Paths
  PROVE  /\ Bad(x).failed = x.failed /\ Vanish(x).failed = x.failed /\ Vanish(x).bad = x.bad
         /\ \A a : LET y == Rescan(x, a)
                   IN y.failed = x.failed /\ y.bad = x.bad /\ y.base = x.base
         /\ \A row : LET y == Write(x, p, row)
                     IN /\ y.failed = x.failed /\ y.bad = x.bad
                        /\ \A q \in Paths : y.base[q] = IF q = p THEN row ELSE x.base[q]
         /\ LET y == Forget(x, p)
            IN /\ y.failed = x.failed /\ y.bad = x.bad
               /\ \A q \in Paths : y.base[q] \in {NoRow, x.base[q]}
         /\ \A id : LET y == Misnames(x, p, id)
                    IN y.failed = x.failed /\ y.bad = x.bad /\ y.base = x.base
         /\ \A node, type : PutRemote(x, p, node, type).failed = x.failed
<1>1. Bad(x).failed = x.failed /\ Vanish(x).failed = x.failed /\ Vanish(x).bad = x.bad
  BY DEF Bad, Vanish, Running
<1>2. ASSUME NEW a PROVE LET y == Rescan(x, a)
                         IN y.failed = x.failed /\ y.bad = x.bad /\ y.base = x.base
  BY DEF Rescan, Running
<1>3. ASSUME NEW row
      PROVE  LET y == Write(x, p, row)
             IN /\ y.failed = x.failed /\ y.bad = x.bad
                /\ \A q \in Paths : y.base[q] = IF q = p THEN row ELSE x.base[q]
  BY DEF Write, Running, Records
<1>4. LET y == Forget(x, p)
      IN /\ y.failed = x.failed /\ y.bad = x.bad
         /\ \A q \in Paths : y.base[q] \in {NoRow, x.base[q]}
  BY DEF Forget, Running, Records
<1>5. ASSUME NEW id
      PROVE  LET y == Misnames(x, p, id)
             IN y.failed = x.failed /\ y.bad = x.bad /\ y.base = x.base
  BY DEF Misnames, Running
<1>6. ASSUME NEW node, NEW type PROVE PutRemote(x, p, node, type).failed = x.failed
  BY DEF PutRemote, Running
<1> QED
  BY <1>1, <1>2, <1>3, <1>4, <1>5, <1>6

(* What a node put in the cloud leaves there.                              *)
LEMMA PuttingIs ==
  ASSUME NEW x \in Running, NEW p \in Paths, NEW node \in TidyNode, NEW type \in EventTypes,
         InFolder(x.cloud, p), x.cloud[p].kind # "dir",
         NEW z, z = PutRemote(x, p, node, type)
  PROVE  /\ z \in Running /\ z.disk = x.disk /\ z.base = x.base /\ z.bad = x.bad
         /\ z.failed = x.failed /\ z.cloud = [x.cloud EXCEPT ![p] = node]
<1>1. LET y == PutRemote(x, p, node, type)
      IN /\ y \in Running /\ y.disk = x.disk /\ y.base = x.base /\ y.bad = x.bad
         /\ y.cloud = [x.cloud EXCEPT ![p] = node]
  BY Putting
<1>2. PutRemote(x, p, node, type).failed = x.failed
  BY Flags
<1> QED
  BY <1>1, <1>2

(* A folder at the top, or none: what ensure_directory is asked for.       *)
Tops == {d \in Paths \cup {Beginning} : d # Beginning => Len(d) = 1}

(* A parent is at the top, or is the beginning itself.                     *)
LEMMA ParentIsTop ==
  ASSUME NEW p \in Paths
  PROVE  /\ Parent(p) \in Tops /\ Parent(p) \in Paths \cup {Beginning}
         /\ Len(p) = 1 => p \in Tops /\ Parent(p) = Beginning
         /\ Parent(p) \in Paths <=> Len(p) = 2
         /\ Parent(p) # p
<1>1. Len(p) \in {1, 2} /\ p \in Seq(Nat) /\ Beginning \notin Paths
  <2>1. Len(Beginning) = 0
    BY DEF Beginning
  <2> QED
    BY <2>1, PathsTyped
<1>2. CASE Len(p) = 1
  <2>1. Parent(p) = Beginning
    <3>1. Parent(p) = SubSeq(p, 1, 0)
      BY <1>2 DEF Parent
    <3> QED
      BY <1>1, <3>1, SubSeqProperties, EmptySeq DEF Beginning
  <2> QED
    BY <1>1, <1>2, <2>1 DEF Tops
<1>3. CASE Len(p) = 2
  BY <1>1, <1>3, Parents DEF Tops
<1> QED
  BY <1>1, <1>2, <1>3

(* ensure_directory of a folder at the top fills that place only, and does *)
(* not fail unless a file is there; in the cloud,                          *)
LEMMA EnsuringTop ==
  ASSUME NEW x \in Running, NEW d \in Tops
  PROVE  LET y == EnsureRemote(x, d)
         IN /\ y.failed = x.failed
            /\ \A q \in Paths :
                 y.cloud[q] = x.cloud[q]
                   \/ /\ q = d /\ x.cloud[q].kind = "none"
                      /\ y.cloud[q].kind = "dir" /\ y.cloud[q].id # 0
            /\ ~x.bad /\ (d \in Paths => x.cloud[d].kind # "file") => ~y.bad
<1> DEFINE y == EnsureRemote(x, d)
           node == Dir(x.lastId + 1)
           z == PutRemote(x, d, node, "created")
<1>1. d = Beginning \/ (d \in Paths /\ Len(d) = 1)
  BY DEF Tops
<1>2. y = IF d = Beginning THEN x ELSE Making(x, d)
  BY <1>1, EnsureRemoteIs
<1>3. x.cloud \in [Paths -> TidyNode] /\ x.lastId \in Nat
  BY DEF Running, Folder
<1>4. CASE d = Beginning \/ x.bad \/ x.cloud[d].kind = "dir"
  BY <1>2, <1>4 DEF Making
<1>5. CASE ~(d = Beginning \/ x.bad \/ x.cloud[d].kind = "dir") /\ x.cloud[d].kind = "file"
  <2>1. y = Bad(x) /\ d \in Paths
    BY <1>1, <1>2, <1>5 DEF Making
  <2> QED
    BY <1>5, <2>1, SmallSteps, Flags
<1>6. CASE ~(d = Beginning \/ x.bad \/ x.cloud[d].kind = "dir") /\ x.cloud[d].kind # "file"
  <2>1. y = z /\ d \in Paths /\ Len(d) = 1
    BY <1>1, <1>2, <1>6 DEF Making
  <2>2. x.cloud[d].kind = "none"
    BY <1>3, <1>6, <2>1, TidyParts DEF Kinds
  <2>3. node \in TidyNode /\ node.kind = "dir" /\ node.id # 0 /\ "created" \in EventTypes
    BY <1>3, TidyThings DEF Dir, EventTypes
  <2>4. InFolder(x.cloud, d)
    BY <2>1 DEF InFolder
  <2> HIDE DEF node, z, y
  <2>5. z.bad = x.bad /\ z.cloud = [x.cloud EXCEPT ![d] = node] /\ z.failed = x.failed
    BY <2>1, <2>3, <2>4, Putting, Flags DEF z
  <2>6. /\ y.failed = x.failed /\ ~y.bad
        /\ \A q \in Paths : y.cloud[q] = IF q = d THEN node ELSE x.cloud[q]
    BY <1>3, <1>6, <2>1, <2>5
  <2> QED
    BY <2>2, <2>3, <2>6 DEF y
<1> QED
  BY <1>4, <1>5, <1>6

(* and on the disk.                                                        *)
LEMMA EnsuringTopLocal ==
  ASSUME NEW x \in Running, NEW d \in Tops
  PROVE  LET y == EnsureLocal(x, d)
         IN /\ y.failed = x.failed
            /\ \A q \in Paths :
                 y.disk[q] = x.disk[q] \/ (q = d /\ y.disk[q].kind = "dir")
            /\ d = Beginning => y.disk = x.disk
            /\ ~x.bad /\ (d \in Paths => x.disk[d].kind # "file") => ~y.bad
<1> DEFINE way == {SubSeq(d, 1, n) : n \in 1 .. Len(d)}
           tree == [p \in Paths |-> IF p \in way THEN Dir(0) ELSE x.disk[p]]
           y == EnsureLocal(x, d)
<1>1. way = IF d = Beginning THEN {} ELSE {d}
  BY WayIs DEF Tops
<1>2. x.disk \in [Paths -> TidyNode] /\ (d = Beginning \/ d \in Paths)
  BY DEF Running, Folder, Tops
<1>3. CASE \E p \in way : x.disk[p].kind = "file"
  <2>1. y = Bad(x) /\ d \in Paths /\ d # Beginning /\ x.disk[d].kind = "file"
    BY <1>1, <1>2, <1>3 DEF EnsureLocal
  <2> QED
    BY <2>1, SmallSteps, Flags
<1>4. CASE ~\E p \in way : x.disk[p].kind = "file"
  <2>1. y = [x EXCEPT !.disk = tree]
    BY <1>4 DEF EnsureLocal
  <2>2. y.failed = x.failed /\ y.bad = x.bad /\ y.disk = tree
    <3> HIDE DEF tree, y
    <3> QED
      BY <2>1 DEF Running
  <2>3. \A q \in Paths : tree[q] = x.disk[q] \/ (q = d /\ tree[q].kind = "dir")
    BY <1>1 DEF Dir
  <2>4. d = Beginning => tree = x.disk
    BY <1>1, <1>2
  <2> QED
    BY <2>2, <2>3, <2>4
<1> QED
  BY <1>3, <1>4

-----------------------------------------------------------------------------
(* What kinds a pass may bring about at each path, of the disk, the cloud  *)
(* or both; a path of two names holds a file or nothing, here and in the   *)
(* records, and every remote node has an id.                               *)
Ranges ==
  {K \in [Paths -> SUBSET Kinds] :
     \A q \in Paths : "none" \in K[q] /\ (Len(q) = 2 => K[q] = {"none", "file"})}
Within(K) ==
  {x \in Running :
     \A q \in Paths :
       /\ x.disk[q].kind \in K[q] /\ x.cloud[q].kind \in K[q]
       /\ x.cloud[q].kind # "none" => x.cloud[q].id # 0
       /\ Len(q) = 2 => x.base[q].kind # "dir"}
Allowed(K, p, kind) ==
  /\ kind \in K[p]
  /\ Len(p) = 2 => kind = "file" /\ "dir" \in K[Parent(p)]

(* An action that makes nothing of another kind, whatever it finds.        *)
Suits(a, K) ==
  /\ a.do \in {"upload", "download"} => Allowed(K, a.path, "file")
  /\ a.do \in {"create_remote_dir", "create_local_dir"} => Allowed(K, a.path, "dir")
  /\ a.do = "auto_link" /\ a.kind = "dir" => Len(a.path) = 1
  /\ a.do = "move_local" => Allowed(K, a.to, a.kind) /\ a.kind \in {"file", "dir"}
  /\ a.do = "move_remote" =>
       Allowed(K, a.to, "file") /\ ("dir" \in K[a.path] /\ Len(a.to) = 1 => "dir" \in K[a.to])

(* What it takes from either side, and what a move fills.                  *)
LostLocal(a) ==
  IF a.do = "move_local" /\ a.kind = "file" THEN {a.path}
  ELSE IF a.do \in {"move_local", "local_delete"} THEN Subtree(a.path) ELSE {}
LostRemote(a) == IF a.do \in {"move_remote", "remote_delete"} THEN Subtree(a.path) ELSE {}
Gains(x, a, y) ==
  /\ \A q \in Held(y.disk) \ Held(x.disk) :
       a.do = "move_local" /\ (q \in Subtree(a.to) \/ q = Parent(a.to))
  /\ \A q \in Held(y.cloud) \ Held(x.cloud) :
       a.do = "move_remote" /\ (q \in Subtree(a.to) \/ q = Parent(a.to))

(* What it needs to be carried out.                                        *)
Free(tree, p) == Parent(p) \in Paths => tree[Parent(p)].kind # "file"
Clear(x, a, plannedDirs) ==
  /\ a.do = "upload" =>
       /\ x.disk[a.path].kind = "file" /\ x.cloud[a.path].kind # "dir"
       /\ Free(x.cloud, a.path)
       /\ Parent(a.path) \in plannedDirs => InFolder(x.cloud, a.path)
  /\ a.do = "download" => x.disk[a.path].kind # "dir" /\ Free(x.disk, a.path)
  /\ a.do = "conflict_local" => x.disk[a.path].kind = "file"
  /\ a.do = "create_remote_dir" => x.cloud[a.path].kind # "file"
  /\ a.do = "create_local_dir" => x.disk[a.path].kind # "file"
  /\ a.do = "move_local" /\ a.kind = "file" =>
       /\ x.disk[a.path].kind = "file" /\ x.disk[a.to].kind # "dir"
       /\ Free(x.disk, a.to)
  /\ a.do = "move_local" /\ a.kind = "dir" =>
       /\ x.disk[a.path].kind = "dir" /\ Len(a.path) = 1 /\ ~Occupied(x.disk, a.to)
  /\ a.do = "move_remote" =>
       /\ x.cloud[a.path].kind = "file" /\ x.cloud[a.to].kind = "none"
       /\ ~Below(a.path, a.to) /\ Free(x.cloud, a.to)
  /\ a.do = "remote_delete" =>
       x.cloud[a.path].kind # "none" /\ (a.kind = "dir" => a.id # 0)

Goes(x, a, y, K, plannedDirs) ==
  /\ y \in Within(K) /\ y.failed = x.failed
  /\ Held(x.disk) \ LostLocal(a) \subseteq Held(y.disk)
  /\ Held(x.cloud) \ LostRemote(a) \subseteq Held(y.cloud)
  /\ a.do \in {"move_local", "move_remote"} => Gains(x, a, y)
  /\ ~x.bad /\ Clear(x, a, plannedDirs) =>
       ~y.bad /\ (a.do = "create_remote_dir" => y.cloud[a.path].kind # "none")

(* A state whose folders are another's, but for what may be there.         *)
LEMMA StaysWithin ==
  ASSUME NEW K \in Ranges, NEW x \in Within(K), NEW y \in Running,
         \A q \in Paths :
           /\ y.disk[q].kind \in K[q] \cup {x.disk[q].kind}
           /\ y.cloud[q] = x.cloud[q]
                \/ (y.cloud[q].kind \in K[q] /\ (y.cloud[q].kind # "none" => y.cloud[q].id # 0))
           /\ Len(q) = 2 => y.base[q] = x.base[q] \/ y.base[q].kind # "dir"
  PROVE  y \in Within(K)
BY DEF Within

(* One that went nowhere.                                                  *)
LEMMA GoesNowhere ==
  ASSUME NEW K \in Ranges, NEW x \in Within(K), NEW a, NEW plannedDirs, NEW y \in Running,
         y.disk = x.disk, y.cloud = x.cloud, y.failed = x.failed,
         \A q \in Paths : Len(q) = 2 => y.base[q] = x.base[q] \/ y.base[q].kind # "dir",
         a.do # "create_remote_dir",
         ~x.bad /\ Clear(x, a, plannedDirs) => ~y.bad
  PROVE  Goes(x, a, y, K, plannedDirs)
<1>1. y \in Within(K)
  BY DEF Within
<1> QED
  BY <1>1 DEF Goes, Gains

(* An arm at a time. A file goes up: its folder may be made first.         *)
LEMMA UploadGoes ==
  ASSUME NEW K \in Ranges, NEW x \in Within(K), NEW a, a.path \in Paths, a.do = "upload",
         Suits(a, K), NEW plannedDirs,
         NEW L \in [Paths -> TidyNode], NEW R \in [Paths -> TidyNode], NEW B \in Records,
         L[a.path].kind = "file"
  PROVE  Goes(x, a, Upload(x, a.path, L, R, B, plannedDirs), K, plannedDirs)
<1> DEFINE p == a.path
           y == IF Parent(p) \in plannedDirs THEN x ELSE EnsureRemote(x, Parent(p))
           old == y.cloud[p]
           sent == y.disk[p].hash
           z == IF old.kind = "file"
                THEN PutRemote(y, p, File(sent, old.id), "updated")
                ELSE PutRemote(y, p, File(sent, y.lastId + 1), "created")
           row == RecordAfter("upload", L[p].hash, 0, R[p], B[p])
           end == Write(Misnames(z, p, row.id), p, FileRow(row.hash, row.id, "synced"))
           v == Upload(x, p, L, R, B, plannedDirs)
<1>1. x \in Running /\ p \in Paths /\ Allowed(K, p, "file")
  BY DEF Within, Suits
<1>2. v \in Running /\ v.disk = x.disk
  BY <1>1, UploadArm
<1>3. /\ y \in Running /\ y.disk = x.disk /\ y.base = x.base /\ y.failed = x.failed
      /\ \A q \in Paths :
           y.cloud[q] = x.cloud[q]
             \/ /\ q = Parent(p) /\ x.cloud[q].kind = "none"
                /\ y.cloud[q].kind = "dir" /\ y.cloud[q].id # 0
      /\ ~x.bad /\ Clear(x, a, plannedDirs) => ~y.bad /\ InFolder(y.cloud, p)
  <2>1. CASE Parent(p) \in plannedDirs
    BY <1>1, <2>1 DEF Clear
  <2>2. CASE Parent(p) \notin plannedDirs
    <3>1. Parent(p) \in Tops /\ Parent(p) \in Paths \cup {Beginning}
      BY <1>1, ParentIsTop
    <3>2. y = EnsureRemote(x, Parent(p))
      BY <2>2
    <3> HIDE DEF y
    <3>3. /\ y \in Running /\ y.disk = x.disk /\ y.base = x.base
          /\ ~y.bad => \A q \in Way(Parent(p)) : y.cloud[q].kind = "dir"
      BY <1>1, <3>1, <3>2, EnsuringRemote
    <3>4. /\ y.failed = x.failed
          /\ \A q \in Paths :
               y.cloud[q] = x.cloud[q]
                 \/ /\ q = Parent(p) /\ x.cloud[q].kind = "none"
                    /\ y.cloud[q].kind = "dir" /\ y.cloud[q].id # 0
          /\ ~x.bad /\ (Parent(p) \in Paths => x.cloud[Parent(p)].kind # "file") => ~y.bad
      BY <1>1, <3>1, <3>2, EnsuringTop
    <3>5. ~y.bad => InFolder(y.cloud, p)
      BY <1>1, <3>3, ParentWay
    <3>6. ~x.bad /\ Clear(x, a, plannedDirs) => ~y.bad
      BY <3>4 DEF Clear, Free
    <3> QED
      BY <3>3, <3>4, <3>5, <3>6
  <2> HIDE DEF y
  <2> QED
    BY <2>1, <2>2
<1>4. /\ \A q \in Paths : y.cloud[q] = x.cloud[q]
           \/ (y.cloud[q].kind \in K[q] /\ y.cloud[q].kind # "none" /\ y.cloud[q].id # 0)
      /\ Held(x.cloud) \subseteq Held(y.cloud)
  <2>1. Parent(p) \in Paths => "dir" \in K[Parent(p)]
    BY <1>1, ParentIsTop DEF Allowed
  <2> HIDE DEF y
  <2> QED
    BY <1>3, <2>1 DEF Held
<1>5. CASE y.bad \/ y.disk[p].kind # "file" \/ old.kind = "dir" \/ ~InFolder(y.cloud, p)
  <2>1. v = Bad(y)
    BY <1>5 DEF Upload
  <2>2. ~(~x.bad /\ Clear(x, a, plannedDirs))
    <3> SUFFICES ASSUME ~x.bad, Clear(x, a, plannedDirs) PROVE FALSE
      OBVIOUS
    <3>1. x.disk[p].kind = "file" /\ x.cloud[p].kind # "dir"
      BY DEF Clear
    <3>2. p # Parent(p)
      BY <1>1, ParentIsTop
    <3> HIDE DEF y
    <3> QED
      BY <1>1, <1>3, <1>5, <3>1, <3>2
  <2> HIDE DEF y, v
  <2>3. v.failed = x.failed /\ v.disk = x.disk /\ v.cloud = y.cloud /\ v.base = x.base
    BY <1>1, <1>3, <2>1, SmallSteps, Flags
  <2>4. v \in Within(K)
    <3>1. v \in Running
      BY <1>2 DEF v
    <3> QED
      BY <1>4, <2>3, <3>1, StaysWithin
  <2>5. Goes(x, a, v, K, plannedDirs)
    BY <1>4, <2>2, <2>3, <2>4 DEF Goes
  <2> QED
    BY <2>5 DEF v
<1>6. CASE ~(y.bad \/ y.disk[p].kind # "file" \/ old.kind = "dir" \/ ~InFolder(y.cloud, p))
  <2>1. v = end
    BY <1>6 DEF Upload
  <2> HIDE DEF y
  <2>2. sent \in Nat \ {0} /\ old.id \in Nat /\ y.lastId + 1 \in Nat \ {0}
    BY <1>1, <1>3, <1>6, TidyParts DEF Running, Folder
  <2>3. /\ File(sent, old.id) \in TidyNode /\ File(sent, y.lastId + 1) \in TidyNode
        /\ "updated" \in EventTypes /\ "created" \in EventTypes
    BY <2>2, TidyThings DEF EventTypes
  <2>4. old.kind = "file" => old.id # 0
    BY <1>1, <1>4 DEF Within
  <2>5. PICK node \in TidyNode, type \in EventTypes :
          z = PutRemote(y, p, node, type) /\ node.kind = "file" /\ node.id # 0
    BY <2>2, <2>3, <2>4 DEF File
  <2> HIDE DEF z
  <2>6. /\ z \in Running /\ z.disk = y.disk /\ z.base = y.base /\ z.bad = y.bad
        /\ z.failed = y.failed /\ z.cloud = [y.cloud EXCEPT ![p] = node]
    <3>1. y \in Running /\ InFolder(y.cloud, p) /\ y.cloud[p].kind # "dir"
      BY <1>3, <1>6
    <3> QED
      BY <1>1, <2>5, <3>1, PuttingIs
  <2>7. row.id \in Nat
    <3>1. L[p] \in TidyNode /\ R[p] \in TidyNode /\ B[p] \in TidyRow
      BY <1>1 DEF Records, StoredRow
    <3> QED
      BY <3>1, StagedId
  <2> HIDE DEF row
  <2> DEFINE m == Misnames(z, p, row.id)
  <2>8. /\ m \in Running /\ m.disk = z.disk /\ m.cloud = z.cloud
        /\ m.failed = z.failed /\ m.bad = z.bad /\ m.base = z.base
    BY <1>1, <2>6, <2>7, Misnaming, Flags
  <2> HIDE DEF m
  <2>9. /\ end.failed = m.failed /\ end.bad = m.bad
        /\ end.disk = m.disk /\ end.cloud = m.cloud
        /\ \A q \in Paths : end.base[q] = m.base[q] \/ end.base[q].kind = "file"
    <3>1. end = Write(m, p, FileRow(row.hash, row.id, "synced"))
      BY DEF m
    <3>2. /\ Write(m, p, FileRow(row.hash, row.id, "synced")).disk = m.disk
          /\ Write(m, p, FileRow(row.hash, row.id, "synced")).cloud = m.cloud
      BY <2>8 DEF Write, Running
    <3> HIDE DEF end
    <3> QED
      BY <1>1, <2>8, <3>1, <3>2, Flags DEF FileRow
  <2> HIDE DEF end, v
  <2>10. /\ v.failed = x.failed /\ v.bad = y.bad /\ v.disk = x.disk
         /\ v.cloud = [y.cloud EXCEPT ![p] = node]
         /\ \A q \in Paths : v.base[q] = x.base[q] \/ v.base[q].kind = "file"
    BY <1>3, <2>1, <2>6, <2>8, <2>9
  <2>11. y.cloud \in [Paths -> TidyNode]
    BY <1>3 DEF Running, Folder
  <2>12. \A q \in Paths : v.cloud[q] = IF q = p THEN node ELSE y.cloud[q]
    BY <1>1, <2>10, <2>11
  <2>13. v \in Within(K)
    <3>1. v \in Running
      BY <1>2 DEF v
    <3>2. node.kind \in K[p]
      BY <1>1, <2>5 DEF Allowed
    <3>3. ASSUME NEW q \in Paths
          PROVE  /\ v.disk[q].kind \in K[q] \cup {x.disk[q].kind}
                 /\ v.cloud[q] = x.cloud[q]
                      \/ /\ v.cloud[q].kind \in K[q]
                         /\ v.cloud[q].kind # "none" => v.cloud[q].id # 0
                 /\ Len(q) = 2 => v.base[q] = x.base[q] \/ v.base[q].kind # "dir"
      BY <1>4, <2>5, <2>10, <2>12, <3>2
    <3> QED
      BY <3>1, <3>3, StaysWithin
  <2>14. Held(x.cloud) \subseteq Held(v.cloud)
    BY <1>4, <2>5, <2>12 DEF Held
  <2>15. Goes(x, a, v, K, plannedDirs)
    BY <1>6, <2>10, <2>13, <2>14 DEF Goes
  <2> QED
    BY <2>15 DEF v
<1> QED
  BY <1>5, <1>6

(* A file comes down, or has vanished.                                     *)
LEMMA DownloadGoes ==
  ASSUME NEW K \in Ranges, NEW x \in Within(K), NEW a, a.path \in Paths, a.do = "download",
         Suits(a, K), NEW plannedDirs, NEW R \in [Paths -> TidyNode]
  PROVE  Goes(x, a, Download(x, a.path, R), K, plannedDirs)
<1> DEFINE p == a.path
           y == EnsureLocal(x, Parent(p))
           row == FileRow(y.cloud[p].hash, R[p].id, "synced")
           tree == [y.disk EXCEPT ![p] = File(y.cloud[p].hash, 0)]
           z == [y EXCEPT !.disk[p] = File(y.cloud[p].hash, 0)]
           v == Download(x, p, R)
<1>1. x \in Running /\ p \in Paths /\ Allowed(K, p, "file")
  BY DEF Within, Suits
<1>2. v \in Running /\ v.cloud = x.cloud
  BY <1>1, DownloadArm
<1>3. /\ y \in Running /\ y.cloud = x.cloud /\ y.base = x.base /\ y.failed = x.failed
      /\ \A q \in Paths :
           y.disk[q] = x.disk[q] \/ (q = Parent(p) /\ y.disk[q].kind = "dir")
      /\ ~x.bad /\ Free(x.disk, p) => ~y.bad
  <2>1. Parent(p) \in Tops /\ Parent(p) \in Paths \cup {Beginning}
    BY <1>1, ParentIsTop
  <2>2. y \in Running /\ y.cloud = x.cloud /\ y.base = x.base
    BY <1>1, <2>1, EnsuringLocal
  <2>3. /\ y.failed = x.failed
        /\ \A q \in Paths :
             y.disk[q] = x.disk[q] \/ (q = Parent(p) /\ y.disk[q].kind = "dir")
        /\ ~x.bad /\ (Parent(p) \in Paths => x.disk[Parent(p)].kind # "file") => ~y.bad
    BY <1>1, <2>1, EnsuringTopLocal
  <2> HIDE DEF y
  <2> QED
    BY <2>2, <2>3 DEF Free
<1>4. /\ \A q \in Paths : y.disk[q].kind \in K[q]
      /\ Held(x.disk) \subseteq Held(y.disk)
  <2>1. Parent(p) \in Paths => "dir" \in K[Parent(p)]
    BY <1>1, ParentIsTop DEF Allowed
  <2>2. \A q \in Paths : x.disk[q].kind \in K[q]
    BY DEF Within
  <2> HIDE DEF y
  <2> QED
    BY <1>3, <2>1, <2>2 DEF Held
<1>5. CASE y.bad \/ y.disk[p].kind = "dir"
  <2>1. v = Bad(y)
    BY <1>5 DEF Download
  <2>2. ~(~x.bad /\ Clear(x, a, plannedDirs))
    <3>1. p # Parent(p)
      BY <1>1, ParentIsTop
    <3> HIDE DEF y
    <3> QED
      BY <1>1, <1>3, <1>5, <3>1 DEF Clear
  <2> HIDE DEF y, v
  <2>3. v.failed = x.failed /\ v.disk = y.disk /\ v.cloud = x.cloud /\ v.base = x.base
    BY <1>1, <1>3, <2>1, SmallSteps, Flags
  <2>4. v \in Within(K)
    <3>1. v \in Running
      BY <1>2 DEF v
    <3> QED
      BY <1>4, <2>3, <3>1, StaysWithin
  <2>5. Goes(x, a, v, K, plannedDirs)
    BY <1>4, <2>2, <2>3, <2>4 DEF Goes
  <2> QED
    BY <2>5 DEF v
<1>6. CASE ~(y.bad \/ y.disk[p].kind = "dir") /\ y.cloud[p].kind # "file"
  <2>1. v = Vanish(y)
    BY <1>6 DEF Download
  <2> HIDE DEF y, v
  <2>2. /\ v.failed = x.failed /\ v.bad = y.bad
        /\ v.disk = y.disk /\ v.cloud = x.cloud /\ v.base = x.base
    BY <1>1, <1>3, <2>1, SmallSteps, Flags
  <2>3. v \in Within(K)
    <3>1. v \in Running
      BY <1>2 DEF v
    <3> QED
      BY <1>4, <2>2, <3>1, StaysWithin
  <2>4. Goes(x, a, v, K, plannedDirs)
    BY <1>4, <1>6, <2>2, <2>3 DEF Goes
  <2> QED
    BY <2>4 DEF v
<1>7. CASE ~(y.bad \/ y.disk[p].kind = "dir") /\ y.cloud[p].kind = "file"
  <2>1. v = Write(z, p, row)
    BY <1>7 DEF Download
  <2>2. row.kind = "file" /\ File(y.cloud[p].hash, 0).kind = "file"
    BY DEF FileRow, File
  <2>3. y.disk \in [Paths -> TidyNode] /\ y.base \in Records
    BY <1>3 DEF Running, Folder
  <2>4. /\ v.failed = y.failed /\ v.bad = y.bad /\ v.disk = tree /\ v.cloud = y.cloud
        /\ \A q \in Paths : v.base[q] = IF q = p THEN row ELSE y.base[q]
    <3> HIDE DEF row, y
    <3>1. Write(z, p, row).base = [y.base EXCEPT ![p] = row]
      BY <1>3 DEF Write, Running
    <3>2. /\ Write(z, p, row).failed = y.failed /\ Write(z, p, row).bad = y.bad
          /\ Write(z, p, row).disk = tree /\ Write(z, p, row).cloud = y.cloud
      BY <1>3 DEF Write, Running
    <3> QED
      BY <1>1, <2>1, <2>3, <3>1, <3>2 DEF Records
  <2>5. \A q \in Paths : tree[q] = IF q = p THEN File(y.cloud[p].hash, 0) ELSE y.disk[q]
    BY <2>3
  <2> HIDE DEF y, v, row, tree, z
  <2>6. v \in Within(K)
    <3>1. v \in Running
      BY <1>2 DEF v
    <3>2. ASSUME NEW q \in Paths
          PROVE  /\ v.disk[q].kind \in K[q] \cup {x.disk[q].kind}
                 /\ v.cloud[q] = x.cloud[q]
                 /\ Len(q) = 2 => v.base[q] = x.base[q] \/ v.base[q].kind # "dir"
      BY <1>1, <1>3, <1>4, <2>2, <2>4, <2>5 DEF Allowed
    <3> QED
      BY <3>1, <3>2, StaysWithin
  <2>7. Held(x.disk) \subseteq Held(v.disk)
    BY <1>4, <2>2, <2>4, <2>5 DEF Held
  <2>8. Goes(x, a, v, K, plannedDirs)
    BY <1>3, <1>7, <2>4, <2>6, <2>7 DEF Goes
  <2> QED
    BY <2>8 DEF v
<1> QED
  BY <1>5, <1>6, <1>7

(* A conflict moves nothing: it makes a copy, and a record.                *)
LEMMA KeepBothGoes ==
  ASSUME NEW K \in Ranges, NEW x \in Within(K), NEW a, a.path \in Paths,
         a.do \in {"conflict", "conflict_local"}, NEW plannedDirs,
         NEW L \in [Paths -> TidyNode], NEW R \in [Paths -> TidyNode], NEW B \in Records,
         L[a.path].kind = "file"
  PROVE  Goes(x, a, KeepBoth(x, a.path, a.do, L, R, B), K, plannedDirs)
<1> DEFINE p == a.path
           row == RecordAfter(a.do, L[p].hash, 0, R[p], B[p])
           frozen == FileRow(L[p].hash, row.id, "conflict")
           v == KeepBoth(x, p, a.do, L, R, B)
<1>1. x \in Running /\ p \in Paths
  BY DEF Within
<1>2. v \in Running /\ v.disk = x.disk /\ v.cloud = x.cloud
  BY <1>1, KeepBothArm
<1>3. frozen.kind = "file"
  BY DEF FileRow
<1>4. /\ v.failed = x.failed
      /\ \A q \in Paths : v.base[q] = x.base[q] \/ v.base[q].kind # "dir"
      /\ ~x.bad /\ Clear(x, a, plannedDirs) => ~v.bad
  <2> HIDE DEF row
  <2>1. CASE a.do = "conflict" /\ x.cloud[p].kind # "file"
    BY <1>1, <2>1, SmallSteps, Flags DEF KeepBoth
  <2>2. CASE a.do # "conflict" /\ x.disk[p].kind # "file"
    BY <1>1, <2>2, SmallSteps, Flags DEF KeepBoth, Clear
  <2>3. CASE ~(a.do = "conflict" /\ x.cloud[p].kind # "file")
             /\ ~(a.do # "conflict" /\ x.disk[p].kind # "file")
    <3>1. PICK seen : v = Write([x EXCEPT !.copies = seen], p, frozen)
      BY <2>3 DEF KeepBoth, row
    <3> HIDE DEF frozen, v
    <3>2. v = [x EXCEPT !.copies = seen, !.base = [x.base EXCEPT ![p] = frozen]]
      BY <1>1, <3>1 DEF Write, Running
    <3>3. v.failed = x.failed /\ v.bad = x.bad /\ v.base = [x.base EXCEPT ![p] = frozen]
      BY <1>1, <3>2 DEF Running
    <3>4. x.base \in [Paths -> StoredRow]
      BY <1>1 DEF Running, Records
    <3>5. \A q \in Paths : v.base[q] = x.base[q] \/ v.base[q].kind # "dir"
      BY <1>3, <3>3, <3>4
    <3> QED
      BY <3>3, <3>5
  <2> QED
    BY <2>1, <2>2, <2>3
<1>5. a.do # "create_remote_dir"
  OBVIOUS
<1> HIDE DEF v, frozen, row
<1>6. Goes(x, a, v, K, plannedDirs)
  BY <1>2, <1>4, <1>5, GoesNowhere
<1> QED
  BY <1>6 DEF v

(* A folder is made in the cloud, where no file is,                        *)
LEMMA CreateRemoteGoes ==
  ASSUME NEW K \in Ranges, NEW x \in Within(K), NEW a, a.path \in Paths, a.id \in Nat,
         a.do = "create_remote_dir", Suits(a, K), NEW plannedDirs, NEW B \in Records
  PROVE  Goes(x, a, CreateRemoteDirectory(x, a.path, a.id, B), K, plannedDirs)
<1> DEFINE p == a.path
           y == EnsureRemote(x, p)
           kept == IF a.id # 0 THEN a.id ELSE B[p].id
           m == Misnames(y, p, kept)
           v == CreateRemoteDirectory(x, p, a.id, B)
<1>1. x \in Running /\ p \in Paths /\ "dir" \in K[p] /\ Len(p) = 1 /\ p \in Tops
  <2>1. Len(p) \in {1, 2}
    BY Parents
  <2> QED
    BY <2>1, ParentIsTop DEF Within, Suits, Allowed
<1>2. v \in Running /\ v.disk = x.disk
  BY <1>1, CreateRemoteArm
<1>3. /\ y \in Running /\ y.disk = x.disk /\ y.base = x.base /\ y.failed = x.failed
      /\ \A q \in Paths :
           y.cloud[q] = x.cloud[q]
             \/ /\ q = p /\ x.cloud[q].kind = "none"
                /\ y.cloud[q].kind = "dir" /\ y.cloud[q].id # 0
      /\ ~x.bad /\ x.cloud[p].kind # "file" => ~y.bad
      /\ ~y.bad => y.cloud[p].kind = "dir"
  <2>1. y \in Running /\ y.disk = x.disk /\ y.base = x.base
        /\ (~y.bad => \A q \in Way(p) : y.cloud[q].kind = "dir")
    BY <1>1, EnsuringRemote
  <2>2. p \in Way(p)
    BY <1>1 DEF Way
  <2>3. /\ y.failed = x.failed
        /\ \A q \in Paths :
             y.cloud[q] = x.cloud[q]
               \/ /\ q = p /\ x.cloud[q].kind = "none"
                  /\ y.cloud[q].kind = "dir" /\ y.cloud[q].id # 0
        /\ ~x.bad /\ (p \in Paths => x.cloud[p].kind # "file") => ~y.bad
    BY <1>1, EnsuringTop
  <2> HIDE DEF y
  <2> QED
    BY <2>1, <2>2, <2>3
<1>4. kept \in Nat
  BY <1>1, TidyParts DEF Records, StoredRow
<1>5. /\ v.failed = x.failed /\ v.bad = y.bad /\ v.cloud = y.cloud
      /\ \A q \in Paths : v.base[q] = x.base[q] \/ (q = p /\ v.base[q] = DirRow(kept))
  <2>1. CASE y.bad
    <3>1. v = y
      BY <2>1 DEF CreateRemoteDirectory
    <3> QED
      BY <1>3, <2>1, <3>1
  <2>2. CASE ~y.bad
    <3>1. v = Write(m, p, DirRow(kept))
      BY <2>2 DEF CreateRemoteDirectory
    <3> HIDE DEF kept, y, v
    <3>2. /\ m \in Running /\ m.disk = y.disk /\ m.cloud = y.cloud
          /\ m.failed = y.failed /\ m.bad = y.bad /\ m.base = y.base
      BY <1>1, <1>3, <1>4, Misnaming, Flags
    <3> HIDE DEF m
    <3>3. /\ v.failed = m.failed /\ v.bad = m.bad
          /\ \A q \in Paths : v.base[q] = IF q = p THEN DirRow(kept) ELSE m.base[q]
      BY <1>1, <3>1, <3>2, Flags
    <3>4. v.cloud = m.cloud
      BY <3>1, <3>2 DEF Write, Running
    <3> QED
      BY <1>3, <3>2, <3>3, <3>4
  <2> QED
    BY <2>1, <2>2
<1> HIDE DEF v, y, kept
<1>6. v \in Within(K)
  <2>1. v \in Running
    BY <1>2 DEF v
  <2>2. ASSUME NEW q \in Paths
        PROVE  /\ v.disk[q].kind \in K[q] \cup {x.disk[q].kind}
               /\ v.cloud[q] = x.cloud[q]
                    \/ /\ v.cloud[q].kind \in K[q]
                       /\ v.cloud[q].kind # "none" => v.cloud[q].id # 0
               /\ Len(q) = 2 => v.base[q] = x.base[q] \/ v.base[q].kind # "dir"
    <3>1. v.disk = x.disk
      BY <1>2 DEF v
    <3> QED
      BY <1>1, <1>3, <1>5, <3>1
  <2> QED
    BY <2>1, <2>2, StaysWithin
<1>7. v.disk = x.disk
  BY <1>2 DEF v
<1>8. Goes(x, a, v, K, plannedDirs)
  BY <1>1, <1>3, <1>5, <1>6, <1>7 DEF Goes, Clear, Held
<1> QED
  BY <1>8 DEF v

(* or on the disk.                                                         *)
LEMMA CreateLocalGoes ==
  ASSUME NEW K \in Ranges, NEW x \in Within(K), NEW a, a.path \in Paths, a.id \in Nat,
         a.do = "create_local_dir", Suits(a, K), NEW plannedDirs
  PROVE  Goes(x, a, CreateLocalDirectory(x, a.path, a.id), K, plannedDirs)
<1> DEFINE p == a.path
           y == EnsureLocal(x, p)
           v == CreateLocalDirectory(x, p, a.id)
<1>1. x \in Running /\ p \in Paths /\ "dir" \in K[p] /\ Len(p) = 1 /\ p \in Tops
  <2>1. Len(p) \in {1, 2}
    BY Parents
  <2> QED
    BY <2>1, ParentIsTop DEF Within, Suits, Allowed
<1>2. v \in Running /\ v.cloud = x.cloud
  BY <1>1, CreateLocalArm
<1>3. /\ y \in Running /\ y.cloud = x.cloud /\ y.base = x.base /\ y.failed = x.failed
      /\ \A q \in Paths :
           y.disk[q] = x.disk[q] \/ (q = p /\ y.disk[q].kind = "dir")
      /\ ~x.bad /\ x.disk[p].kind # "file" => ~y.bad
  <2>1. y \in Running /\ y.cloud = x.cloud /\ y.base = x.base
    BY <1>1, EnsuringLocal
  <2>2. /\ y.failed = x.failed
        /\ \A q \in Paths :
             y.disk[q] = x.disk[q] \/ (q = p /\ y.disk[q].kind = "dir")
        /\ ~x.bad /\ (p \in Paths => x.disk[p].kind # "file") => ~y.bad
    BY <1>1, EnsuringTopLocal
  <2> HIDE DEF y
  <2> QED
    BY <2>1, <2>2
<1>4. /\ v.failed = x.failed /\ v.bad = y.bad /\ v.disk = y.disk
      /\ \A q \in Paths : v.base[q] = x.base[q] \/ q = p
  <2>1. CASE y.bad
    <3>1. v = y
      BY <2>1 DEF CreateLocalDirectory
    <3> QED
      BY <1>3, <2>1, <3>1
  <2>2. CASE ~y.bad
    <3>1. v = Write(y, p, DirRow(a.id))
      BY <2>2 DEF CreateLocalDirectory
    <3> HIDE DEF y, v
    <3>2. /\ v.failed = y.failed /\ v.bad = y.bad
          /\ \A q \in Paths : v.base[q] = IF q = p THEN DirRow(a.id) ELSE y.base[q]
      BY <1>1, <1>3, <3>1, Flags
    <3>3. v.disk = y.disk
      BY <1>3, <3>1 DEF Write, Running
    <3> QED
      BY <1>3, <3>2, <3>3
  <2> QED
    BY <2>1, <2>2
<1>5. v \in Running /\ v.cloud = x.cloud
  BY <1>2
<1> HIDE DEF v, y
<1>6. v \in Within(K)
  <2>1. ASSUME NEW q \in Paths
        PROVE  /\ v.disk[q].kind \in K[q] \cup {x.disk[q].kind}
               /\ v.cloud[q] = x.cloud[q]
               /\ Len(q) = 2 => v.base[q] = x.base[q] \/ v.base[q].kind # "dir"
    BY <1>1, <1>3, <1>4, <1>5
  <2> QED
    BY <1>5, <2>1, StaysWithin
<1>7. Goes(x, a, v, K, plannedDirs)
  BY <1>1, <1>3, <1>4, <1>5, <1>6 DEF Goes, Clear, Held
<1> QED
  BY <1>7 DEF v

(* Linking writes a record only.                                           *)
LEMMA AutoLinkGoes ==
  ASSUME NEW K \in Ranges, NEW x \in Within(K), NEW a, a.path \in Paths, a.id \in Nat,
         a.do = "auto_link", Suits(a, K), NEW plannedDirs,
         NEW L \in [Paths -> TidyNode], NEW R \in [Paths -> TidyNode], NEW B \in Records,
         a.kind = "dir" \/ L[a.path].kind = "file"
  PROVE  Goes(x, a, AutoLink(x, a, L, R, B), K, plannedDirs)
<1> DEFINE p == a.path
           v == AutoLink(x, a, L, R, B)
<1>1. x \in Running /\ p \in Paths
  BY DEF Within
<1>2. v \in Running /\ v.disk = x.disk /\ v.cloud = x.cloud
  BY <1>1, AutoLinkArm
<1>3. PICK row, ids :
        /\ v = [x EXCEPT !.untold = ids, !.base = [x.base EXCEPT ![p] = row]]
        /\ row.kind = "dir" => Len(p) = 1
  <2>1. CASE a.kind = "dir"
    <3> DEFINE seen == IF B[p].id \in {0, a.id} THEN x.untold ELSE x.untold \cup Unshown(R, B, p)
    <3>1. v = Write([x EXCEPT !.untold = seen], p, DirRow(a.id))
      BY <2>1 DEF AutoLink
    <3>2. Len(p) = 1
      BY <2>1 DEF Suits
    <3> HIDE DEF seen, v
    <3>3. v = [x EXCEPT !.untold = seen, !.base = [x.base EXCEPT ![p] = DirRow(a.id)]]
      BY <1>1, <3>1 DEF Write, Running
    <3> QED
      BY <3>2, <3>3
  <2>2. CASE a.kind # "dir"
    <3> DEFINE row == FileRow(L[p].hash, RemoteId(R[p], B[p]), "synced")
    <3>1. v = Write(x, p, row) /\ row.kind = "file"
      BY <2>2 DEF AutoLink, FileRow
    <3> HIDE DEF row, v
    <3>2. v = [x EXCEPT !.untold = x.untold, !.base = [x.base EXCEPT ![p] = row]]
      BY <1>1, <3>1 DEF Write, Running
    <3> QED
      BY <3>1, <3>2
  <2> QED
    BY <2>1, <2>2
<1> HIDE DEF v
<1>4. v.failed = x.failed /\ v.bad = x.bad /\ v.base = [x.base EXCEPT ![p] = row]
  BY <1>1, <1>3 DEF Running
<1>5. \A q \in Paths : Len(q) = 2 => v.base[q] = x.base[q] \/ v.base[q].kind # "dir"
  <2>1. x.base \in [Paths -> StoredRow]
    BY <1>1 DEF Running, Records
  <2> QED
    BY <1>1, <1>3, <1>4, <2>1
<1>6. v \in Running /\ v.disk = x.disk /\ v.cloud = x.cloud
  BY <1>2 DEF v
<1>7. a.do # "create_remote_dir"
  OBVIOUS
<1>8. Goes(x, a, v, K, plannedDirs)
  BY <1>4, <1>5, <1>6, <1>7, GoesNowhere
<1> QED
  BY <1>8 DEF v

(* A subtree leaves the cloud,                                             *)
LEMMA RemoteDeleteGoes ==
  ASSUME NEW K \in Ranges, NEW x \in Within(K), NEW a, a.path \in Paths,
         a.do = "remote_delete", NEW plannedDirs
  PROVE  Goes(x, a, RemoteDelete(x, a), K, plannedDirs)
<1> DEFINE p == a.path
           tree == Without(x.cloud, p)
           told == Append(x.told, Told("removed", x.cloud, p))
           y == [x EXCEPT !.cloud = tree, !.told = told]
           v == RemoteDelete(x, a)
<1>1. x \in Running /\ p \in Paths /\ x.cloud \in Folder /\ x.base \in [Paths -> StoredRow]
  BY DEF Within, Running, Records
<1>2. v \in Running /\ v.disk = x.disk
  BY <1>1, RemoteDeleteArm
<1>3. CASE x.cloud[p].kind = "none" \/ (a.kind = "dir" /\ a.id = 0)
  <2>1. v = Bad(x) /\ ~Clear(x, a, plannedDirs)
    BY <1>3 DEF RemoteDelete, Clear
  <2> HIDE DEF v
  <2>2. v.failed = x.failed /\ v.disk = x.disk /\ v.cloud = x.cloud /\ v.base = x.base
    BY <1>1, <2>1, SmallSteps, Flags
  <2>3. v \in Running /\ a.do # "create_remote_dir"
    BY <1>2 DEF v
  <2>4. Goes(x, a, v, K, plannedDirs)
    BY <2>1, <2>2, <2>3, GoesNowhere
  <2> QED
    BY <2>4 DEF v
<1>4. CASE ~(x.cloud[p].kind = "none" \/ (a.kind = "dir" /\ a.id = 0))
  <2>1. v = Forget(y, p)
    BY <1>4 DEF RemoteDelete
  <2>2. \A q \in Paths : tree[q] = IF q = p \/ Below(p, q) THEN NoNode ELSE x.cloud[q]
    BY <1>1, WithoutKeepsFolder
  <2> HIDE DEF tree, told, v
  <2>3. v = [x EXCEPT !.cloud = tree, !.told = told,
                      !.base = [q \in Paths |-> IF q \in Subtree(p) THEN NoRow ELSE x.base[q]]]
    BY <1>1, <2>1 DEF Forget, Running
  <2>4. /\ v.failed = x.failed /\ v.bad = x.bad /\ v.cloud = tree
        /\ v.base = [q \in Paths |-> IF q \in Subtree(p) THEN NoRow ELSE x.base[q]]
    BY <1>1, <2>3 DEF Running
  <2>5. v \in Running /\ v.disk = x.disk
    BY <1>2 DEF v
  <2>6. v \in Within(K)
    <3>1. ASSUME NEW q \in Paths
          PROVE  /\ v.disk[q].kind \in K[q] \cup {x.disk[q].kind}
                 /\ v.cloud[q] = x.cloud[q]
                      \/ /\ v.cloud[q].kind \in K[q]
                         /\ v.cloud[q].kind # "none" => v.cloud[q].id # 0
                 /\ Len(q) = 2 => v.base[q] = x.base[q] \/ v.base[q].kind # "dir"
      <4>1. v.base[q] \in {NoRow, x.base[q]}
        BY <2>4
      <4>2. NoRow.kind # "dir" /\ NoNode.kind = "none" /\ "none" \in K[q]
        BY DEF NoRow, NoNode, Ranges
      <4> QED
        BY <2>2, <2>4, <2>5, <4>1, <4>2
    <3> QED
      BY <2>5, <3>1, StaysWithin
  <2>7. Held(x.cloud) \ LostRemote(a) \subseteq Held(v.cloud)
    <3>1. LostRemote(a) = Subtree(p)
      BY DEF LostRemote
    <3>2. \A q \in Paths : q = p \/ Below(p, q) => q \in Subtree(p)
      BY <1>1, SubtreeIs
    <3> QED
      BY <2>2, <2>4, <3>1, <3>2 DEF Held
  <2>8. Goes(x, a, v, K, plannedDirs)
    BY <2>4, <2>5, <2>6, <2>7 DEF Goes
  <2> QED
    BY <2>8 DEF v
<1> QED
  BY <1>3, <1>4

(* or the disk.                                                            *)
LEMMA LocalDeleteGoes ==
  ASSUME NEW K \in Ranges, NEW x \in Within(K), NEW a, a.path \in Paths,
         a.do = "local_delete", NEW plannedDirs
  PROVE  Goes(x, a, LocalDelete(x, a.path), K, plannedDirs)
<1> DEFINE p == a.path
           tree == Without(x.disk, p)
           v == LocalDelete(x, p)
<1>1. x \in Running /\ p \in Paths /\ x.disk \in Folder /\ x.base \in [Paths -> StoredRow]
  BY DEF Within, Running, Records
<1>2. v \in Running /\ v.cloud = x.cloud
  BY <1>1, LocalDeleteArm
<1>3. \A q \in Paths : tree[q] = IF q = p \/ Below(p, q) THEN NoNode ELSE x.disk[q]
  BY <1>1, WithoutKeepsFolder
<1>4. v = Forget([x EXCEPT !.disk = tree], p)
  BY DEF LocalDelete
<1> HIDE DEF tree, v
<1>5. v = [x EXCEPT !.disk = tree,
                    !.base = [q \in Paths |-> IF q \in Subtree(p) THEN NoRow ELSE x.base[q]]]
  BY <1>1, <1>4 DEF Forget, Running
<1>6. /\ v.failed = x.failed /\ v.bad = x.bad /\ v.disk = tree
      /\ v.base = [q \in Paths |-> IF q \in Subtree(p) THEN NoRow ELSE x.base[q]]
  BY <1>1, <1>5 DEF Running
<1>7. v \in Running /\ v.cloud = x.cloud
  BY <1>2 DEF v
<1>8. v \in Within(K)
  <2>1. ASSUME NEW q \in Paths
        PROVE  /\ v.disk[q].kind \in K[q] \cup {x.disk[q].kind}
               /\ v.cloud[q] = x.cloud[q]
               /\ Len(q) = 2 => v.base[q] = x.base[q] \/ v.base[q].kind # "dir"
    <3>1. v.base[q] \in {NoRow, x.base[q]}
      BY <1>6
    <3>2. NoRow.kind # "dir" /\ NoNode.kind = "none" /\ "none" \in K[q]
      BY DEF NoRow, NoNode, Ranges
    <3> QED
      BY <1>3, <1>6, <1>7, <3>1, <3>2
  <2> QED
    BY <1>7, <2>1, StaysWithin
<1>9. Held(x.disk) \ LostLocal(a) \subseteq Held(v.disk)
  <2>1. LostLocal(a) = Subtree(p)
    BY DEF LostLocal
  <2>2. \A q \in Paths : q = p \/ Below(p, q) => q \in Subtree(p)
    BY <1>1, SubtreeIs
  <2> QED
    BY <1>3, <1>6, <2>1, <2>2 DEF Held
<1>10. Goes(x, a, v, K, plannedDirs)
  BY <1>6, <1>7, <1>8, <1>9 DEF Goes
<1> QED
  BY <1>10 DEF v

(* A file is renamed on the disk, into a folder that may be made first.    *)
LEMMA MoveLocalFileGoes ==
  ASSUME NEW K \in Ranges, NEW x \in Within(K), NEW a, a.path \in Paths, a.to \in Paths,
         a.id \in Nat, a.do = "move_local", a.kind = "file", Suits(a, K), NEW plannedDirs,
         NEW R \in [Paths -> TidyNode]
  PROVE  Goes(x, a, MoveLocalFile(x, a, R), K, plannedDirs)
<1> DEFINE p == a.path
           y == EnsureLocal(x, Parent(a.to))
           found == x.disk[p].hash
           tree == [[y.disk EXCEPT ![p] = NoNode] EXCEPT ![a.to] = File(found, 0)]
           ids == IF found = R[a.to].hash THEN y.untold ELSE y.untold \cup {a.id}
           z == [y EXCEPT !.disk = tree, !.untold = ids]
           row == FileRow(found, a.id, "synced")
           rows == [q \in Paths |-> IF q \in Subtree(p) THEN NoRow ELSE y.base[q]]
           v == MoveLocalFile(x, a, R)
<1>1. /\ x \in Running /\ p \in Paths /\ a.to \in Paths /\ Allowed(K, a.to, "file")
      /\ \A q \in Paths : x.disk[q].kind \in K[q]
  BY DEF Within, Suits
<1>2. v \in Running /\ v.cloud = x.cloud
  BY <1>1, MoveLocalFileArm
<1>3. /\ y \in Running /\ y.cloud = x.cloud /\ y.base = x.base /\ y.failed = x.failed
      /\ \A q \in Paths :
           y.disk[q] = x.disk[q] \/ (q = Parent(a.to) /\ y.disk[q].kind = "dir")
      /\ ~x.bad /\ Free(x.disk, a.to) => ~y.bad
  <2>1. Parent(a.to) \in Tops /\ Parent(a.to) \in Paths \cup {Beginning}
    BY <1>1, ParentIsTop
  <2>2. y \in Running /\ y.cloud = x.cloud /\ y.base = x.base
    BY <1>1, <2>1, EnsuringLocal
  <2>3. /\ y.failed = x.failed
        /\ \A q \in Paths :
             y.disk[q] = x.disk[q] \/ (q = Parent(a.to) /\ y.disk[q].kind = "dir")
        /\ ~x.bad /\ (Parent(a.to) \in Paths => x.disk[Parent(a.to)].kind # "file") => ~y.bad
    BY <1>1, <2>1, EnsuringTopLocal
  <2> HIDE DEF y
  <2> QED
    BY <2>2, <2>3 DEF Free
<1>4. /\ \A q \in Paths : y.disk[q].kind \in K[q]
      /\ Held(x.disk) \subseteq Held(y.disk)
      /\ \A q \in Held(y.disk) \ Held(x.disk) : q = Parent(a.to)
  <2>1. Parent(a.to) \in Paths => "dir" \in K[Parent(a.to)]
    BY <1>1, ParentIsTop DEF Allowed
  <2> HIDE DEF y
  <2> QED
    BY <1>1, <1>3, <2>1 DEF Held
<1>5. CASE y.bad \/ x.disk[p].kind # "file" \/ y.disk[a.to].kind = "dir"
  <2>1. v = Bad(y)
    BY <1>5 DEF MoveLocalFile
  <2>2. ~(~x.bad /\ Clear(x, a, plannedDirs))
    <3>1. a.to # Parent(a.to)
      BY <1>1, ParentIsTop
    <3> HIDE DEF y
    <3> QED
      BY <1>1, <1>3, <1>5, <3>1 DEF Clear
  <2> HIDE DEF y, v
  <2>3. v.failed = x.failed /\ v.disk = y.disk /\ v.cloud = x.cloud /\ v.base = x.base
    BY <1>1, <1>3, <2>1, SmallSteps, Flags
  <2>4. v \in Within(K)
    <3>1. v \in Running
      BY <1>2 DEF v
    <3> QED
      BY <1>4, <2>3, <3>1, StaysWithin
  <2>5. Gains(x, a, v)
    BY <1>4, <2>3 DEF Gains
  <2>6. Goes(x, a, v, K, plannedDirs)
    BY <1>4, <2>2, <2>3, <2>4, <2>5 DEF Goes
  <2> QED
    BY <2>6 DEF v
<1>6. CASE ~(y.bad \/ x.disk[p].kind # "file" \/ y.disk[a.to].kind = "dir")
  <2>1. v = Write(Forget(z, p), a.to, row)
    BY <1>6 DEF MoveLocalFile
  <2>2. row.kind = "file" /\ File(found, 0).kind = "file" /\ NoNode.kind = "none" /\ NoRow.kind = "none"
    BY DEF FileRow, File, NoNode, NoRow
  <2>3. y.disk \in [Paths -> TidyNode] /\ y.base \in Records
    BY <1>3 DEF Running, Folder
  <2>4. \A q \in Paths :
          tree[q] = IF q = a.to THEN File(found, 0) ELSE IF q = p THEN NoNode ELSE y.disk[q]
    BY <1>1, <2>3
  <2> HIDE DEF y, v, row, tree, ids
  <2>5. v = [y EXCEPT !.disk = tree, !.untold = ids, !.base = [rows EXCEPT ![a.to] = row]]
    BY <1>3, <2>1 DEF Write, Forget, Running
  <2>6. /\ v.failed = y.failed /\ v.bad = y.bad /\ v.disk = tree
        /\ v.base = [rows EXCEPT ![a.to] = row]
    BY <1>3, <2>5 DEF Running
  <2>7. \A q \in Paths : v.base[q] \in {row, NoRow, y.base[q]}
    BY <2>6
  <2>8. v \in Running /\ v.cloud = x.cloud
    BY <1>2 DEF v
  <2> HIDE DEF z, rows
  <2>9. v \in Within(K)
    <3>1. ASSUME NEW q \in Paths
          PROVE  /\ v.disk[q].kind \in K[q] \cup {x.disk[q].kind}
                 /\ v.cloud[q] = x.cloud[q]
                 /\ Len(q) = 2 => v.base[q] = x.base[q] \/ v.base[q].kind # "dir"
      <4>1. "none" \in K[q]
        BY DEF Ranges
      <4>2. v.disk[q].kind \in K[q]
        BY <1>1, <1>4, <2>2, <2>4, <2>6, <4>1 DEF Allowed
      <4> QED
        BY <1>3, <2>2, <2>7, <2>8, <4>2
    <3> QED
      BY <2>8, <3>1, StaysWithin
  <2>10. Held(x.disk) \ LostLocal(a) \subseteq Held(v.disk)
    <3>1. LostLocal(a) = {p}
      BY DEF LostLocal
    <3> QED
      BY <1>4, <2>2, <2>4, <2>6, <3>1 DEF Held
  <2>11. Gains(x, a, v)
    <3>1. a.to \in Subtree(a.to)
      BY <1>1, SubtreeIs
    <3> QED
      BY <1>4, <2>2, <2>4, <2>6, <2>8, <3>1 DEF Gains, Held
  <2>12. Goes(x, a, v, K, plannedDirs)
    BY <1>3, <1>6, <2>6, <2>8, <2>9, <2>10, <2>11 DEF Goes
  <2> QED
    BY <2>12 DEF v
<1> QED
  BY <1>5, <1>6

(* A folder is renamed with all below it, onto nothing or an empty one.    *)
LEMMA MoveLocalDirGoes ==
  ASSUME NEW K \in Ranges, NEW x \in Within(K), NEW a, a.path \in Paths, a.to \in Paths,
         a.id \in Nat, a.do = "move_local", a.kind = "dir", Suits(a, K), NEW plannedDirs,
         NEW R \in [Paths -> TidyNode], NEW B \in Records,
         \A q \in Paths : Len(q) = 2 => B[q].kind # "dir"
  PROVE  Goes(x, a, MoveLocalDir(x, a, R, B), K, plannedDirs)
<1> DEFINE p == a.path
           y == EnsureLocal(x, Parent(a.to))
           below == {q \in Held(B) : Below(p, q)}
           rows == [q \in Paths |->
                      IF q = a.to THEN DirRow(a.id)
                      ELSE IF Below(a.to, q) /\ Rekey(q, a.to, p) \in below
                      THEN B[Rekey(q, a.to, p)]
                      ELSE IF q = p \/ q \in below THEN NoRow ELSE x.base[q]]
           tree == Moved(x.disk, p, a.to)
           ids == y.untold \cup Unshown(R, B, p)
           v == MoveLocalDir(x, a, R, B)
<1>1. /\ x \in Running /\ p \in Paths /\ a.to \in Paths /\ Allowed(K, a.to, "dir")
      /\ \A q \in Paths : x.disk[q].kind \in K[q]
      /\ x.disk \in [Paths -> TidyNode] /\ x.base \in [Paths -> StoredRow]
  BY DEF Within, Suits, Running, Folder, Records
<1>2. v \in Running /\ v.cloud = x.cloud
  BY <1>1, MoveLocalDirArm
<1>3. Len(a.to) = 1 /\ Parent(a.to) = Beginning
  <2>1. Len(a.to) \in {1, 2}
    BY <1>1, Parents
  <2>2. Len(a.to) # 2
    BY <1>1 DEF Allowed
  <2> QED
    BY <1>1, <2>1, <2>2, ParentIsTop
<1>4. /\ y \in Running /\ y.disk = x.disk /\ y.cloud = x.cloud /\ y.base = x.base
      /\ y.failed = x.failed /\ (~x.bad => ~y.bad)
  <2>1. Parent(a.to) \in Tops /\ Parent(a.to) \in Paths \cup {Beginning} /\ Parent(a.to) \notin Paths
    BY <1>1, <1>3, ParentIsTop
  <2>2. y \in Running /\ y.cloud = x.cloud /\ y.base = x.base
    BY <1>1, <2>1, EnsuringLocal
  <2>3. /\ y.failed = x.failed
        /\ Parent(a.to) = Beginning => y.disk = x.disk
        /\ ~x.bad /\ (Parent(a.to) \in Paths => x.disk[Parent(a.to)].kind # "file") => ~y.bad
    BY <1>1, <2>1, EnsuringTopLocal
  <2> HIDE DEF y
  <2> QED
    BY <1>3, <2>1, <2>2, <2>3
<1>5. CASE \/ y.bad \/ y.disk[p].kind # "dir"
           \/ Occupied(y.disk, a.to) \/ ~Fits(y.disk, p, a.to)
  <2>1. v = Bad(y)
    BY <1>5 DEF MoveLocalDir
  <2>2. ~(~x.bad /\ Clear(x, a, plannedDirs))
    <3> SUFFICES ASSUME ~x.bad, Clear(x, a, plannedDirs) PROVE FALSE
      OBVIOUS
    <3>1. x.disk[p].kind = "dir" /\ Len(p) = 1 /\ ~Occupied(x.disk, a.to)
      BY DEF Clear
    <3>2. \A r \in Subtree(p) : Rekey(r, p, a.to) \in Paths
      BY <1>1, <1>3, <3>1, RoomAssumption
    <3>3. ASSUME Below(p, a.to) PROVE FALSE
      <4>1. Len(a.to) = 2
        BY <1>1, <3>3, Nesting
      <4> QED
        BY <1>3, <4>1
    <3>4. Fits(x.disk, p, a.to)
      BY <1>3, <3>2, <3>3 DEF Fits
    <3> HIDE DEF y
    <3> QED
      BY <1>4, <1>5, <3>1, <3>4
  <2> HIDE DEF y, v
  <2>3. v.failed = x.failed /\ v.disk = x.disk /\ v.cloud = x.cloud /\ v.base = x.base
    BY <1>1, <1>4, <2>1, SmallSteps, Flags
  <2>4. v \in Within(K)
    <3>1. v \in Running
      BY <1>2 DEF v
    <3> QED
      BY <2>3, <3>1, StaysWithin
  <2>5. Goes(x, a, v, K, plannedDirs)
    BY <2>2, <2>3, <2>4 DEF Goes, Gains
  <2> QED
    BY <2>5 DEF v
<1>6. CASE ~(\/ y.bad \/ y.disk[p].kind # "dir"
             \/ Occupied(y.disk, a.to) \/ ~Fits(y.disk, p, a.to))
  <2>1. v = Rescan([y EXCEPT !.disk = Moved(y.disk, p, a.to), !.untold = ids,
                            !.base = [q \in Paths |->
                               IF q = a.to THEN DirRow(a.id)
                               ELSE IF Below(a.to, q) /\ Rekey(q, a.to, p) \in below
                               THEN B[Rekey(q, a.to, p)]
                               ELSE IF q = p \/ q \in below THEN NoRow ELSE y.base[q]]], a)
    BY <1>6 DEF MoveLocalDir
  <2> HIDE DEF y, v
  <2>2. v = Rescan([y EXCEPT !.disk = tree, !.untold = ids, !.base = rows], a)
    BY <1>4, <2>1
  <2>3. \A r \in Paths :
          /\ r \in Subtree(a.to) /\ Rekey(r, a.to, p) \in Paths => tree[r] = x.disk[Rekey(r, a.to, p)]
          /\ r \in Subtree(a.to) /\ Rekey(r, a.to, p) \notin Paths => tree[r] = NoNode
          /\ r \notin Subtree(a.to) /\ r \in Subtree(p) => tree[r] = NoNode
          /\ r \notin Subtree(a.to) /\ r \notin Subtree(p) => tree[r] = x.disk[r]
    BY <1>1, MovingIs, ZenonT(30)
  <2>4. /\ Rekey(a.to, a.to, p) = p
        /\ \A r \in Paths : Below(a.to, r) /\ Rekey(r, a.to, p) \in Paths =>
             Below(p, Rekey(r, a.to, p))
    BY <1>1, Rekeyed
  <2>5. \A r \in Paths : Below(a.to, r) /\ Rekey(r, a.to, p) \in Paths =>
          Len(r) = 2 /\ Len(Rekey(r, a.to, p)) = 2
    BY <1>1, <2>4, Parents
  <2>6. \A r \in Paths : r \in Subtree(a.to) <=> r = a.to \/ Below(a.to, r)
    BY <1>1, SubtreeIs
  <2>7. \A q \in Paths : Len(q) = 2 => rows[q] = x.base[q] \/ rows[q].kind # "dir"
    <3> SUFFICES ASSUME NEW q \in Paths, Len(q) = 2, rows[q] # x.base[q]
                 PROVE  rows[q].kind # "dir"
      OBVIOUS
    <3>1. q # a.to /\ NoRow.kind # "dir"
      BY <1>3 DEF NoRow
    <3>2. Below(a.to, q) /\ Rekey(q, a.to, p) \in below => B[Rekey(q, a.to, p)].kind # "dir"
      BY <2>5 DEF Held
    <3> HIDE DEF below
    <3> QED
      BY <3>1, <3>2
  <2> HIDE DEF tree, ids, rows, below
  <2>8. v = [y EXCEPT !.disk = tree, !.untold = ids, !.base = rows, !.rescan = TRUE]
    BY <1>4, <2>2 DEF Rescan, Running
  <2>9. v.failed = y.failed /\ v.bad = y.bad /\ v.disk = tree /\ v.base = rows
    BY <1>4, <2>8 DEF Running
  <2>10. v \in Running /\ v.cloud = x.cloud
    BY <1>2 DEF v
  <2>11. x.disk[p].kind = "dir" /\ ~Occupied(x.disk, a.to) /\ "dir" \in K[a.to]
    BY <1>1, <1>4, <1>6 DEF Allowed
  <2>12. NoNode.kind = "none" /\ \A q \in Paths : "none" \in K[q] /\ (Len(q) = 2 => K[q] = {"none", "file"})
    BY DEF NoNode, Ranges
  <2>13. \A q \in Paths : tree[q].kind \in K[q]
    <3> SUFFICES ASSUME NEW q \in Paths PROVE tree[q].kind \in K[q]
      OBVIOUS
    <3>1. CASE q = a.to
      BY <1>1, <2>3, <2>4, <2>6, <2>11, <3>1
    <3>2. CASE Below(a.to, q) /\ Rekey(q, a.to, p) \in Paths
      <4>1. K[q] = K[Rekey(q, a.to, p)]
        BY <2>5, <2>12, <3>2
      <4> QED
        BY <1>1, <2>3, <2>6, <3>2, <4>1
    <3>3. CASE Below(a.to, q) /\ Rekey(q, a.to, p) \notin Paths
      BY <2>3, <2>6, <2>12, <3>3
    <3>4. CASE q \notin Subtree(a.to)
      BY <1>1, <2>3, <2>12, <3>4
    <3> QED
      BY <2>6, <3>1, <3>2, <3>3, <3>4
  <2>14. v \in Within(K)
    <3>1. ASSUME NEW q \in Paths
          PROVE  /\ v.disk[q].kind \in K[q] \cup {x.disk[q].kind}
                 /\ v.cloud[q] = x.cloud[q]
                 /\ Len(q) = 2 => v.base[q] = x.base[q] \/ v.base[q].kind # "dir"
      BY <2>7, <2>9, <2>10, <2>13
    <3> QED
      BY <2>10, <3>1, StaysWithin
  <2>15. Held(x.disk) \ LostLocal(a) \subseteq Held(v.disk)
    <3>1. LostLocal(a) = Subtree(p)
      BY DEF LostLocal
    <3>2. ASSUME NEW q \in Held(x.disk), q \notin Subtree(p) PROVE tree[q].kind # "none"
      <4>1. CASE q = a.to
        BY <1>1, <2>3, <2>4, <2>6, <2>11, <4>1
      <4>2. CASE q # a.to
        <5>1. q \notin Subtree(a.to)
          BY <2>6, <2>11, <4>2 DEF Occupied, Held
        <5> QED
          BY <2>3, <3>2, <5>1 DEF Held
      <4> QED
        BY <4>1, <4>2
    <3> QED
      BY <2>9, <3>1, <3>2 DEF Held
  <2>16. Gains(x, a, v)
    <3>1. ASSUME NEW q \in Paths, tree[q].kind # "none", x.disk[q].kind = "none"
          PROVE  q \in Subtree(a.to)
      BY <2>3, <2>12, <3>1
    <3> QED
      BY <2>9, <2>10, <3>1 DEF Gains, Held
  <2>17. Goes(x, a, v, K, plannedDirs)
    BY <1>4, <1>6, <2>9, <2>10, <2>14, <2>15, <2>16 DEF Goes
  <2> QED
    BY <2>17 DEF v
<1> QED
  BY <1>5, <1>6

(* Whatever is at its old path moves in the cloud, with all below it.      *)
LEMMA MoveRemoteGoes ==
  ASSUME NEW K \in Ranges, NEW x \in Within(K), NEW a, a.path \in Paths, a.to \in Paths,
         a.id \in Nat, a.do = "move_remote", Suits(a, K), NEW plannedDirs,
         NEW L \in [Paths -> TidyNode], L[a.to].kind = "file"
  PROVE  Goes(x, a, MoveRemote(x, a, L), K, plannedDirs)
<1> DEFINE p == a.path
           y == EnsureRemote(x, Parent(a.to))
           tree == Moved(y.cloud, p, a.to)
           told == Append(y.told, Told("updated", tree, a.to))
           row == FileRow(L[a.to].hash, a.id, "synced")
           rows == [q \in Paths |-> IF q \in Subtree(p) THEN NoRow ELSE y.base[q]]
           v == MoveRemote(x, a, L)
<1>1. /\ x \in Running /\ p \in Paths /\ a.to \in Paths /\ Allowed(K, a.to, "file")
      /\ "dir" \in K[p] /\ Len(a.to) = 1 => "dir" \in K[a.to]
      /\ \A q \in Paths :
           x.cloud[q].kind \in K[q] /\ (x.cloud[q].kind # "none" => x.cloud[q].id # 0)
  BY DEF Within, Suits
<1>2. v \in Running /\ v.disk = x.disk
  BY <1>1, MoveRemoteArm
<1>3. /\ y \in Running /\ y.disk = x.disk /\ y.base = x.base /\ y.failed = x.failed
      /\ \A q \in Paths :
           y.cloud[q] = x.cloud[q]
             \/ /\ q = Parent(a.to) /\ x.cloud[q].kind = "none"
                /\ y.cloud[q].kind = "dir" /\ y.cloud[q].id # 0
      /\ ~x.bad /\ Free(x.cloud, a.to) => ~y.bad
  <2>1. Parent(a.to) \in Tops /\ Parent(a.to) \in Paths \cup {Beginning}
    BY <1>1, ParentIsTop
  <2>2. y \in Running /\ y.disk = x.disk /\ y.base = x.base
    BY <1>1, <2>1, EnsuringRemote
  <2>3. /\ y.failed = x.failed
        /\ \A q \in Paths :
             y.cloud[q] = x.cloud[q]
               \/ /\ q = Parent(a.to) /\ x.cloud[q].kind = "none"
                  /\ y.cloud[q].kind = "dir" /\ y.cloud[q].id # 0
        /\ ~x.bad /\ (Parent(a.to) \in Paths => x.cloud[Parent(a.to)].kind # "file") => ~y.bad
    BY <1>1, <2>1, EnsuringTop
  <2> HIDE DEF y
  <2> QED
    BY <2>2, <2>3 DEF Free
<1>4. /\ \A q \in Paths :
           y.cloud[q].kind \in K[q] /\ (y.cloud[q].kind # "none" => y.cloud[q].id # 0)
      /\ Held(x.cloud) \subseteq Held(y.cloud)
      /\ \A q \in Held(y.cloud) \ Held(x.cloud) : q = Parent(a.to)
  <2>1. Parent(a.to) \in Paths => "dir" \in K[Parent(a.to)]
    BY <1>1, ParentIsTop DEF Allowed
  <2> HIDE DEF y
  <2> QED
    BY <1>1, <1>3, <2>1 DEF Held
<1>5. y.cloud \in Folder /\ y.cloud \in [Paths -> TidyNode]
  BY <1>3 DEF Running, Folder
<1>6. ASSUME NEW q \in Paths, NEW r \in Paths, Below(q, r), y.cloud[r].kind # "none"
      PROVE  y.cloud[q].kind = "dir"
  <2>1. Len(r) = 2 /\ Parent(r) = q
    BY <1>6, Nesting
  <2> HIDE DEF y
  <2> QED
    BY <1>5, <1>6, <2>1, FolderIs
<1>7. CASE \/ y.bad \/ y.cloud[p].kind = "none"
           \/ y.cloud[a.to].kind # "none" \/ ~Fits(y.cloud, p, a.to)
  <2>1. v = Bad(y)
    BY <1>7 DEF MoveRemote
  <2>2. ~(~x.bad /\ Clear(x, a, plannedDirs))
    <3> SUFFICES ASSUME ~x.bad, Clear(x, a, plannedDirs) PROVE FALSE
      OBVIOUS
    <3>1. /\ x.cloud[p].kind = "file" /\ x.cloud[a.to].kind = "none"
          /\ ~Below(p, a.to) /\ Free(x.cloud, a.to)
      BY DEF Clear
    <3>2. a.to # Parent(a.to)
      BY <1>1, ParentIsTop
    <3> HIDE DEF y
    <3>3. y.cloud[p].kind = "file" /\ y.cloud[a.to].kind = "none" /\ ~y.bad
      BY <1>1, <1>3, <3>1, <3>2
    <3>4. ASSUME NEW r \in Subtree(p) \cap Held(y.cloud) PROVE Rekey(r, p, a.to) \in Paths
      <4>1. r \in Paths /\ y.cloud[r].kind # "none" /\ (r = p \/ Below(p, r))
        BY <1>1, SubtreeIs DEF Held
      <4>2. r = p
        BY <1>1, <1>6, <3>3, <4>1
      <4>3. Rekey(p, p, a.to) = a.to
        BY <1>1, Rekeyed
      <4> QED
        BY <1>1, <4>2, <4>3
    <3>5. Fits(y.cloud, p, a.to)
      BY <3>1, <3>3, <3>4 DEF Fits
    <3> QED
      BY <1>7, <3>3, <3>5
  <2> HIDE DEF y, v
  <2>3. v.failed = x.failed /\ v.disk = x.disk /\ v.cloud = y.cloud /\ v.base = x.base
    BY <1>1, <1>3, <2>1, SmallSteps, Flags, SMTT(30)
  <2>4. v \in Within(K)
    <3>1. v \in Running
      BY <1>2 DEF v
    <3> QED
      BY <1>4, <2>3, <3>1, StaysWithin
  <2>5. Gains(x, a, v)
    BY <1>4, <2>3 DEF Gains
  <2>6. Goes(x, a, v, K, plannedDirs)
    BY <1>4, <2>2, <2>3, <2>4, <2>5 DEF Goes
  <2> QED
    BY <2>6 DEF v
<1>8. CASE ~(\/ y.bad \/ y.cloud[p].kind = "none"
             \/ y.cloud[a.to].kind # "none" \/ ~Fits(y.cloud, p, a.to))
  <2>1. v = Write(Forget([y EXCEPT !.cloud = tree, !.told = told], p), a.to, row)
    BY <1>8 DEF MoveRemote
  <2> HIDE DEF y, v
  <2>2. \A r \in Paths :
          /\ r \in Subtree(a.to) /\ Rekey(r, a.to, p) \in Paths => tree[r] = y.cloud[Rekey(r, a.to, p)]
          /\ r \in Subtree(a.to) /\ Rekey(r, a.to, p) \notin Paths => tree[r] = NoNode
          /\ r \notin Subtree(a.to) /\ r \in Subtree(p) => tree[r] = NoNode
          /\ r \notin Subtree(a.to) /\ r \notin Subtree(p) => tree[r] = y.cloud[r]
    BY <1>1, <1>5, MovingIs, ZenonT(30)
  <2>3. /\ Rekey(a.to, a.to, p) = p
        /\ \A r \in Paths : Below(a.to, r) /\ Rekey(r, a.to, p) \in Paths =>
             Below(p, Rekey(r, a.to, p))
    BY <1>1, Rekeyed
  <2>4. \A r \in Paths : Below(a.to, r) /\ Rekey(r, a.to, p) \in Paths =>
          Len(r) = 2 /\ Len(Rekey(r, a.to, p)) = 2
    BY <1>1, <2>3, Parents
  <2>5. \A r \in Paths : r \in Subtree(a.to) <=> r = a.to \/ Below(a.to, r)
    BY <1>1, SubtreeIs
  <2>6. row.kind = "file" /\ NoRow.kind = "none" /\ NoNode.kind = "none"
        /\ \A q \in Paths : "none" \in K[q] /\ (Len(q) = 2 => K[q] = {"none", "file"})
    BY DEF FileRow, NoRow, NoNode, Ranges
  <2>7. tree[a.to] = y.cloud[p] /\ y.cloud[p].kind \in K[a.to] /\ y.cloud[p].kind # "none"
    <3>1. tree[a.to] = y.cloud[p]
      BY <1>1, <2>2, <2>3, <2>5
    <3>2. y.cloud[p].kind \in {"file", "dir"}
      BY <1>1, <1>5, <1>8, TidyParts DEF Kinds
    <3>3. CASE y.cloud[p].kind = "file"
      BY <1>1, <3>1, <3>3 DEF Allowed
    <3>4. CASE y.cloud[p].kind = "dir"
      <4>1. Len(a.to) = 1
        BY <1>8, <3>4 DEF Fits
      <4> QED
        BY <1>1, <1>4, <3>1, <3>4, <4>1
    <3> QED
      BY <3>1, <3>2, <3>3, <3>4
  <2> HIDE DEF tree, told, row
  <2>8. v = [y EXCEPT !.cloud = tree, !.told = told, !.base = [rows EXCEPT ![a.to] = row]]
    BY <1>3, <2>1 DEF Write, Forget, Running
  <2>9. /\ v.failed = y.failed /\ v.bad = y.bad /\ v.cloud = tree
        /\ v.base = [rows EXCEPT ![a.to] = row]
    BY <1>3, <2>8 DEF Running
  <2>10. \A q \in Paths : v.base[q] \in {row, NoRow, y.base[q]}
    BY <2>9
  <2>11. v \in Running /\ v.disk = x.disk
    BY <1>2 DEF v
  <2> HIDE DEF rows
  <2>12. ASSUME NEW q \in Paths
         PROVE  tree[q].kind \in K[q] /\ (tree[q].kind # "none" => tree[q].id # 0)
    <3>1. CASE q = a.to
      BY <1>1, <1>4, <2>7, <3>1
    <3>2. CASE Below(a.to, q) /\ Rekey(q, a.to, p) \in Paths
      <4>1. K[q] = K[Rekey(q, a.to, p)]
        BY <2>4, <2>6, <3>2
      <4> QED
        BY <1>4, <2>2, <2>5, <3>2, <4>1
    <3>3. CASE Below(a.to, q) /\ Rekey(q, a.to, p) \notin Paths
      BY <2>2, <2>5, <2>6, <3>3
    <3>4. CASE q \notin Subtree(a.to)
      BY <1>4, <2>2, <2>6, <3>4
    <3> QED
      BY <2>5, <3>1, <3>2, <3>3, <3>4
  <2>13. v \in Within(K)
    <3>1. ASSUME NEW q \in Paths
          PROVE  /\ v.disk[q].kind \in K[q] \cup {x.disk[q].kind}
                 /\ v.cloud[q].kind \in K[q] /\ (v.cloud[q].kind # "none" => v.cloud[q].id # 0)
                 /\ Len(q) = 2 => v.base[q] = x.base[q] \/ v.base[q].kind # "dir"
      BY <1>3, <2>6, <2>9, <2>10, <2>11, <2>12
    <3> QED
      BY <2>11, <3>1, StaysWithin
  <2>14. Held(x.cloud) \ LostRemote(a) \subseteq Held(v.cloud)
    <3>1. LostRemote(a) = Subtree(p)
      BY DEF LostRemote
    <3>2. ASSUME NEW q \in Held(y.cloud), q \notin Subtree(p) PROVE tree[q].kind # "none"
      <4>1. CASE q = a.to
        BY <2>7, <4>1
      <4>2. CASE q # a.to
        <5>1. q \notin Subtree(a.to)
          BY <1>1, <1>6, <1>8, <2>5, <4>2 DEF Held
        <5> QED
          BY <2>2, <3>2, <5>1 DEF Held
      <4> QED
        BY <4>1, <4>2
    <3> QED
      BY <1>4, <2>9, <3>1, <3>2 DEF Held
  <2>15. Gains(x, a, v)
    <3>1. ASSUME NEW q \in Paths, tree[q].kind # "none", y.cloud[q].kind = "none"
          PROVE  q \in Subtree(a.to)
      BY <2>2, <2>6, <3>1
    <3> QED
      BY <1>4, <2>9, <2>11, <3>1 DEF Gains, Held
  <2>16. Goes(x, a, v, K, plannedDirs)
    BY <1>3, <1>8, <2>9, <2>11, <2>13, <2>14, <2>15 DEF Goes
  <2> QED
    BY <2>16 DEF v
<1> QED
  BY <1>7, <1>8

(* Every action, whatever it finds, keeps to the kinds it is allowed and   *)
(* to the nodes it is about, and goes well where it is clear.              *)
LEMMA PerformGoes ==
  ASSUME NEW K \in Ranges, NEW x \in Within(K), NEW a, NEW plannedDirs,
         NEW L \in [Paths -> TidyNode], NEW R \in [Paths -> TidyNode], NEW B \in Records,
         \A q \in Paths : Len(q) = 2 => B[q].kind # "dir",
         Orderly(a, L), Suits(a, K)
  PROVE  Goes(x, a, Perform(x, a, L, R, B, plannedDirs), K, plannedDirs)
<1> DEFINE y == Perform(x, a, L, R, B, plannedDirs)
<1>0. a.path \in Paths /\ a.id \in Nat /\ x \in Running
  BY DEF Orderly, Within
<1>1. CASE a.do = "upload"
  <2>1. y = Upload(x, a.path, L, R, B, plannedDirs) /\ L[a.path].kind = "file"
    BY <1>1 DEF Perform, Orderly
  <2> QED
    BY <1>0, <1>1, <2>1, UploadGoes
<1>2. CASE a.do = "download"
  <2>1. y = Download(x, a.path, R)
    BY <1>2 DEF Perform
  <2> QED
    BY <1>0, <1>2, <2>1, DownloadGoes
<1>3. CASE a.do \in {"conflict", "conflict_local"}
  <2>1. y = KeepBoth(x, a.path, a.do, L, R, B) /\ L[a.path].kind = "file"
    BY <1>3 DEF Perform, Orderly
  <2> QED
    BY <1>0, <1>3, <2>1, KeepBothGoes
<1>4. CASE a.do = "create_remote_dir"
  <2>1. y = CreateRemoteDirectory(x, a.path, a.id, B)
    BY <1>4 DEF Perform
  <2> QED
    BY <1>0, <1>4, <2>1, CreateRemoteGoes
<1>5. CASE a.do = "create_local_dir"
  <2>1. y = CreateLocalDirectory(x, a.path, a.id)
    BY <1>5 DEF Perform
  <2> QED
    BY <1>0, <1>5, <2>1, CreateLocalGoes
<1>6. CASE a.do = "move_local" /\ a.kind = "file"
  <2>1. y = MoveLocalFile(x, a, R) /\ a.to \in Paths
    BY <1>6 DEF Perform, Orderly
  <2> QED
    BY <1>0, <1>6, <2>1, MoveLocalFileGoes
<1>7. CASE a.do = "move_local" /\ a.kind # "file"
  <2>1. y = MoveLocalDir(x, a, R, B) /\ a.to \in Paths /\ a.kind = "dir"
    BY <1>7 DEF Perform, Orderly, Suits
  <2> QED
    BY <1>0, <1>7, <2>1, MoveLocalDirGoes
<1>8. CASE a.do = "move_remote"
  <2>1. y = MoveRemote(x, a, L) /\ a.to \in Paths /\ L[a.to].kind = "file"
    BY <1>8 DEF Perform, Orderly
  <2> QED
    BY <1>0, <1>8, <2>1, MoveRemoteGoes
<1>9. CASE a.do = "auto_link"
  <2>1. y = AutoLink(x, a, L, R, B) /\ (a.kind = "dir" \/ L[a.path].kind = "file")
    BY <1>9 DEF Perform, Orderly
  <2> QED
    BY <1>0, <1>9, <2>1, AutoLinkGoes
<1>10. CASE a.do = "remote_delete"
  <2>1. y = RemoteDelete(x, a)
    BY <1>10 DEF Perform
  <2> QED
    BY <1>0, <1>10, <2>1, RemoteDeleteGoes
<1>11. CASE a.do = "local_delete"
  <2>1. y = LocalDelete(x, a.path)
    BY <1>11 DEF Perform
  <2> QED
    BY <1>0, <1>11, <2>1, LocalDeleteGoes
<1>12. CASE a.do = "purge"
  <2>1. y = Write(x, a.path, NoRow) /\ NoRow.kind = "none"
    BY <1>12 DEF Perform, NoRow
  <2> HIDE DEF y
  <2>2. y \in Running /\ y.disk = x.disk /\ y.cloud = x.cloud
    BY <1>0, <2>1, Writing, TidyThings
  <2>3. /\ y.failed = x.failed /\ y.bad = x.bad
        /\ \A q \in Paths : y.base[q] = IF q = a.path THEN NoRow ELSE x.base[q]
    BY <1>0, <2>1, Flags
  <2>4. Goes(x, a, y, K, plannedDirs)
    BY <1>12, <2>1, <2>2, <2>3, GoesNowhere
  <2> QED
    BY <2>4 DEF y
<1>13. CASE a.do \notin {"upload", "download", "conflict", "conflict_local",
                          "create_remote_dir", "create_local_dir", "move_local",
                          "move_remote", "auto_link", "remote_delete", "local_delete",
                          "purge"}
  <2>1. y = x
    BY <1>13 DEF Perform
  <2> QED
    BY <1>0, <1>13, <2>1, GoesNowhere
<1> QED
  BY <1>1, <1>2, <1>3, <1>4, <1>5, <1>6, <1>7, <1>8, <1>9, <1>10, <1>11, <1>12, <1>13

-----------------------------------------------------------------------------
(* Folders are at the top; what is in them is files.                       *)
Flat(tree) == \A q \in Paths : Len(q) = 2 => tree[q].kind # "dir"

(* The kinds a pass has seen are allowed, and the folders of what it saw;  *)
(* what it saw as a file is not a folder, or may be one anywhere.          *)
Fitting(K, L, R) ==
  /\ \A p \in Paths : L[p].kind \in K[p] /\ R[p].kind \in K[p]
  /\ \A p \in Paths :
       Len(p) = 2 /\ (L[p].kind # "none" \/ R[p].kind # "none") => "dir" \in K[Parent(p)]
  /\ \A p, q \in Paths :
       R[p].kind = "file" /\ "dir" \in K[p] /\ Len(q) = 1 => "dir" \in K[q]

(* Where the kinds a pass has seen are allowed, so is all that it plans.   *)
LEMMA PlanSuits ==
  ASSUME NEW L, NEW R, NEW B, Trees(L, R, B), Flat(L), Flat(R),
         NEW K \in Ranges, Fitting(K, L, R)
  PROVE  LET plan == Planned(L, R, B)
         IN \A i \in 1 .. Len(plan) : Suits(plan[i], K)
<1> DEFINE plan == Planned(L, R, B)
<1> SUFFICES ASSUME NEW i \in 1 .. Len(plan) PROVE Suits(plan[i], K)
  OBVIOUS
<1> DEFINE a == plan[i]
<1>1. \/ a \in MovesPlanned(L, R, B)
      \/ \E p \in Paths \ Settled(L, R, B) : a = Decided(L, R, B, p) /\ a.do # "none"
  BY PlanShape
<1> HIDE DEF plan, a
<1>2. CASE a \in MovesPlanned(L, R, B)
  <2>1. a \in MovesOf(L, R, B)
    BY <1>2 DEF MovesPlanned
  <2>2. /\ a.path \in Paths /\ a.to \in Paths
        /\ a = Transition(L, R, B, a.path) /\ a # Nothing
        /\ a.do \in {"move_local", "move_remote"} /\ a.kind \in {"file", "dir"}
        /\ a.do = "move_remote" => a.kind = "file" /\ L[a.to].kind = "file"
    BY <2>1, MoveShape
  <2>3. /\ a.do = "move_local" => R[a.to].kind = a.kind
        /\ a.do = "move_remote" => R[a.path].kind = "file"
    BY <2>2, MovesGoToFreePlaces
  <2>4. a.do = "move_local" => Allowed(K, a.to, a.kind)
    BY <2>2, <2>3 DEF Fitting, Flat, Allowed
  <2>5. a.do = "move_remote" =>
          Allowed(K, a.to, "file") /\ ("dir" \in K[a.path] /\ Len(a.to) = 1 => "dir" \in K[a.to])
    BY <2>2, <2>3 DEF Fitting, Allowed
  <2> QED
    BY <2>2, <2>4, <2>5 DEF Suits, a
<1>3. CASE \E p \in Paths \ Settled(L, R, B) : a = Decided(L, R, B, p) /\ a.do # "none"
  <2>1. PICK p \in Paths : a = Decided(L, R, B, p) /\ a.do # "none"
    BY <1>3
  <2>2. PICK proved \in BOOLEAN : a = PlanEntity(L, R, B, p, proved)
    BY <2>1 DEF Decided, Proved
  <2>3. /\ a.path = p /\ a.do \notin {"move_local", "move_remote"}
        /\ a.do = "upload" => L[p].kind = "file"
        /\ a.do = "download" => R[p].kind = "file"
    BY <2>1, <2>2, DecisionShape
  <2>4. /\ a.do = "create_remote_dir" => L[p].kind = "dir"
        /\ a.do = "create_local_dir" => R[p].kind = "dir"
        /\ a.do = "auto_link" /\ a.kind = "dir" => L[p].kind = "dir"
    BY <2>1, <2>2, DecisionKinds
  <2>5. L[p].kind = "dir" \/ R[p].kind = "dir" => Len(p) = 1
    BY Parents DEF Flat
  <2>6. a.do \in {"upload", "download"} => Allowed(K, p, "file")
    BY <2>3 DEF Fitting, Allowed
  <2>7. a.do \in {"create_remote_dir", "create_local_dir"} => Allowed(K, p, "dir")
    BY <2>4, <2>5 DEF Fitting, Allowed
  <2> QED
    BY <2>3, <2>4, <2>5, <2>6, <2>7 DEF Suits, a
<1> QED
  BY <1>1, <1>2, <1>3

(* However a pass is cut, its actions make no other kinds.                 *)
LEMMA RunWithin ==
  ASSUME NEW L, NEW R, NEW B \in Records, Trees(L, R, B), Flat(L), Flat(R), Flat(B),
         NEW K \in Ranges, Fitting(K, L, R), NEW start \in Within(K),
         NEW approve \in BOOLEAN, NEW fault,
         fault.crash => fault.at \in 1 .. Len(Planned(L, R, B))
  PROVE  RunPlan(Planned(L, R, B), start, approve, fault, L, R, B) \in Within(K)
<1> DEFINE plan == Planned(L, R, B)
<1>1. /\ Len(plan) \in Nat
      /\ \A i \in 1 .. Len(plan) : Orderly(plan[i], L)
  BY PlanShape
<1>2. \A i \in 1 .. Len(plan) : Suits(plan[i], K)
  BY PlanSuits
<1> HIDE DEF plan
<1>3. ASSUME NEW x \in Within(K), NEW i \in 1 .. Len(plan)
      PROVE  Perform(x, plan[i], L, R, B, PlannedDirs(plan)) \in Within(K)
  <2>1. Orderly(plan[i], L) /\ Suits(plan[i], K)
    BY <1>1, <1>2
  <2>2. \A q \in Paths : Len(q) = 2 => B[q].kind # "dir"
    BY DEF Flat
  <2>3. Goes(x, plan[i], Perform(x, plan[i], L, R, B, PlannedDirs(plan)), K, PlannedDirs(plan))
    BY <2>1, <2>2, PerformGoes DEF Trees
  <2> QED
    BY <2>3 DEF Goes
<1>4. ASSUME NEW x \in Within(K) PROVE [x EXCEPT !.withheld = TRUE] \in Within(K)
  <2> DEFINE y == [x EXCEPT !.withheld = TRUE]
  <2>1. /\ y \in Running /\ y.disk = x.disk /\ y.cloud = x.cloud /\ y.base = x.base
    BY DEF Within, Running
  <2> HIDE DEF y
  <2>2. y \in Within(K)
    BY <2>1, StaysWithin
  <2> QED
    BY <2>2 DEF y
<1>5. ASSUME NEW x \in Within(K), NEW y \in Within(K) PROVE Failed(x, y) \in Within(K)
  <2> DEFINE z == Failed(x, y)
  <2>1. x \in Running /\ y \in Running
    BY DEF Within
  <2>2. /\ z \in Running /\ z.disk = y.disk /\ z.cloud = y.cloud /\ z.base = x.base
    BY <2>1 DEF Failed, Running
  <2> HIDE DEF z
  <2>3. z \in Within(K)
    BY <2>2 DEF Within
  <2> QED
    BY <2>3 DEF z
<1>6. RunPlan(plan, start, approve, fault, L, R, B) \in Within(K)
  BY <1>1, <1>3, <1>4, <1>5, RunKeeps DEF plan
<1> QED
  BY <1>6 DEF plan

-----------------------------------------------------------------------------
(* Between passes.  Users and passes keep folders at the top, the records  *)
(* as flat as the folders, and every remote node its id.                   *)
Numbered(tree) == \A q \in Paths : tree[q].kind # "none" => tree[q].id # 0
Shallow == Flat(disk) /\ Flat(cloud) /\ Flat(base) /\ Numbered(cloud)

(* Renames keep folders at the top, since they go there or are of files,   *)
LEMMA MovedFlat ==
  ASSUME NEW tree \in [Paths -> TidyNode], NEW p \in Paths, NEW q \in Paths,
         Flat(tree), Fits(tree, p, q)
  PROVE  /\ Flat(Moved(tree, p, q))
         /\ Numbered(tree) => Numbered(Moved(tree, p, q))
<1> DEFINE new == Moved(tree, p, q)
<1>1. \A r \in Paths :
        /\ r \in Subtree(q) /\ Rekey(r, q, p) \in Paths => new[r] = tree[Rekey(r, q, p)]
        /\ r \in Subtree(q) /\ Rekey(r, q, p) \notin Paths => new[r] = NoNode
        /\ r \notin Subtree(q) /\ r \in Subtree(p) => new[r] = NoNode
        /\ r \notin Subtree(q) /\ r \notin Subtree(p) => new[r] = tree[r]
  BY MovingIs
<1>2. /\ Rekey(q, q, p) = p
      /\ \A r \in Paths : Below(q, r) /\ Rekey(r, q, p) \in Paths => Below(p, Rekey(r, q, p))
  BY Rekeyed
<1>3. \A r \in Paths : Below(q, r) /\ Rekey(r, q, p) \in Paths => Len(Rekey(r, q, p)) = 2
  BY <1>2, Parents
<1>4. \A r \in Paths : r \in Subtree(q) <=> r = q \/ Below(q, r)
  BY SubtreeIs
<1>5. NoNode.kind = "none" /\ (tree[p].kind = "dir" => Len(q) = 1)
  BY DEF NoNode, Fits
<1> HIDE DEF new
<1>6. ASSUME NEW r \in Paths, Len(r) = 2 PROVE new[r].kind # "dir"
  <2>1. CASE r = q
    BY <1>1, <1>2, <1>4, <1>5, <1>6, <2>1
  <2>2. CASE Below(q, r) /\ Rekey(r, q, p) \in Paths
    BY <1>1, <1>3, <1>4, <2>2 DEF Flat
  <2>3. CASE Below(q, r) /\ Rekey(r, q, p) \notin Paths
    BY <1>1, <1>4, <1>5, <2>3
  <2>4. CASE r \notin Subtree(q)
    BY <1>1, <1>5, <1>6, <2>4 DEF Flat
  <2> QED
    BY <1>4, <2>1, <2>2, <2>3, <2>4
<1>7. \A r \in Paths : new[r] = NoNode \/ \E s \in Paths : new[r] = tree[s]
  BY <1>1
<1> QED
  BY <1>5, <1>6, <1>7 DEF Flat, Numbered, new

(* as do removals.                                                         *)
LEMMA WithoutFlat ==
  ASSUME NEW tree \in Folder, NEW p \in Paths, Flat(tree)
  PROVE  /\ Flat(Without(tree, p))
         /\ Numbered(tree) => Numbered(Without(tree, p))
<1>1. \A q \in Paths : Without(tree, p)[q] \in {NoNode, tree[q]}
  BY WithoutKeepsFolder
<1>2. NoNode.kind = "none"
  BY DEF NoNode
<1> QED
  BY <1>1, <1>2 DEF Flat, Numbered

(* An edit of a local tree, outside a pass or inside one: no folder in a   *)
(* folder, and no kind where the remote has the other one.                 *)
LEMMA EditsFlat ==
  ASSUME NEW tree \in Folder, Flat(tree), NEW new \in LocalEdits(tree)
  PROVE  Flat(new)
<1>1. tree \in [Paths -> TidyNode]
  BY DEF Folder
<1>2. CASE new \in Writes(tree)
  <2>1. PICK p \in Paths : new = [tree EXCEPT ![p] = File(stamp + 1, 0)]
    BY <1>2 DEF Writes
  <2> QED
    BY <1>1, <2>1 DEF Flat, File
<1>3. CASE new \in NewFolders(tree)
  <2>1. PICK p \in Paths : new = [tree EXCEPT ![p] = Dir(0)] /\ Len(p) = 1
    BY <1>3 DEF NewFolders, Held
  <2>2. \A q \in Paths : Len(q) = 2 => q # p
    BY <2>1
  <2> QED
    BY <1>1, <2>1, <2>2 DEF Flat
<1>4. CASE new \in Removals(tree)
  <2>1. PICK p \in Paths : new = Without(tree, p)
    BY <1>4 DEF Removals, Held
  <2> QED
    BY <2>1, WithoutFlat
<1>5. CASE new \in Renames(tree)
  <2>1. PICK pq \in Held(tree) \X Paths :
          new = Moved(tree, pq[1], pq[2]) /\ CanMove(tree, pq[1], pq[2])
    BY <1>5 DEF Renames
  <2>2. pq[1] \in Paths /\ pq[2] \in Paths
    BY DEF Held
  <2> QED
    BY <1>1, <2>1, <2>2, MovedFlat DEF CanMove
<1> QED
  BY <1>2, <1>3, <1>4, <1>5 DEF LocalEdits

NoClash(L, R) == \A p \in Paths : ~Clash(L, R, p)

(* Kinds clash the same from either side, and never with nothing.          *)
LEMMA ClashIs ==
  ASSUME NEW L, NEW R, NEW p \in Paths
  PROVE  Clash(L, R, p) <=> \/ L[p].kind = "file" /\ R[p].kind = "dir"
                            \/ L[p].kind = "dir" /\ R[p].kind = "file"
BY DEF Clash

(* A rename gives no path another kind than it has, on either side,        *)
LEMMA MovedKinds ==
  ASSUME NEW tree \in Folder, NEW p \in Paths, NEW q \in Paths, NEW other,
         NoClash(tree, other), CanMove(tree, p, q),
         \A r \in Subtree(p) \cap Held(tree) : KindFree(other, Rekey(r, p, q), tree[r].kind)
  PROVE  /\ NoClash(Moved(tree, p, q), other)
         /\ NoClash(Moved(tree, p, q), tree)
<1> DEFINE new == Moved(tree, p, q)
<1>0. tree \in [Paths -> TidyNode]
  BY DEF Folder
<1>1. \A r \in Paths :
        /\ r \in Subtree(q) /\ Rekey(r, q, p) \in Paths => new[r] = tree[Rekey(r, q, p)]
        /\ r \in Subtree(q) /\ Rekey(r, q, p) \notin Paths => new[r] = NoNode
        /\ r \notin Subtree(q) /\ r \in Subtree(p) => new[r] = NoNode
        /\ r \notin Subtree(q) /\ r \notin Subtree(p) => new[r] = tree[r]
  BY <1>0, MovingIs
<1>2. /\ Rekey(q, q, p) = p /\ Rekey(p, p, q) = q
      /\ \A r \in Paths : Below(q, r) /\ Rekey(r, q, p) \in Paths =>
           Below(p, Rekey(r, q, p)) /\ Rekey(Rekey(r, q, p), p, q) = r
  BY Rekeyed
<1>3. \A r, s \in Paths : s \in Subtree(r) <=> s = r \/ Below(r, s)
  BY SubtreeIs
<1>4. NoNode.kind = "none" /\ tree[q].kind = "none"
  BY DEF NoNode, CanMove, Held
<1>5. ASSUME NEW r \in Paths, r \in Subtree(q) PROVE tree[r].kind = "none"
  <2>1. CASE r = q
    BY <1>4, <2>1
  <2>2. CASE Below(q, r)
    <3>1. Len(r) = 2 /\ Parent(r) = q
      BY <2>2, Parents
    <3> QED
      BY <1>0, <1>4, <3>1, FolderIs
  <2> QED
    BY <1>3, <1>5, <2>1, <2>2
<1> HIDE DEF new
<1>6. ASSUME NEW r \in Paths, Rekey(r, q, p) \in Paths, r \in Subtree(q)
      PROVE  tree[Rekey(r, q, p)].kind = "none" \/ KindFree(other, r, new[r].kind)
  <2> DEFINE s == Rekey(r, q, p)
  <2>1. s \in Subtree(p) /\ Rekey(s, p, q) = r
    BY <1>2, <1>3, <1>6
  <2>2. new[r] = tree[s]
    BY <1>1, <1>6
  <2>3. tree[s].kind # "none" => s \in Held(tree)
    BY <1>6 DEF Held
  <2> HIDE DEF s
  <2>4. tree[s].kind # "none" => KindFree(other, r, new[r].kind)
    BY <2>1, <2>2, <2>3
  <2> QED
    BY <2>4 DEF s
<1>7. ASSUME NEW r \in Paths PROVE ~Clash(new, other, r) /\ ~Clash(new, tree, r)
  <2>1. CASE r \in Subtree(q) /\ Rekey(r, q, p) \in Paths
    BY <1>1, <1>5, <1>6, <2>1, ClashIs DEF KindFree
  <2>2. CASE r \in Subtree(q) /\ Rekey(r, q, p) \notin Paths
    BY <1>1, <1>4, <2>2, ClashIs
  <2>3. CASE r \notin Subtree(q)
    <3>1. new[r] = NoNode \/ new[r] = tree[r]
      BY <1>1, <2>3
    <3> QED
      BY <1>4, <3>1, ClashIs DEF NoClash
  <2> QED
    BY <2>1, <2>2, <2>3
<1> QED
  BY <1>7 DEF NoClash, new

(* A user's edit gives a name no second kind, neither of what the remote   *)
(* holds there nor of what the tree held.                                  *)
LEMMA EditsKeepKinds ==
  ASSUME NEW tree \in Folder, NoClash(tree, cloud), NEW new \in LocalEdits(tree)
  PROVE  NoClash(new, cloud) /\ NoClash(new, tree)
<1>1. tree \in [Paths -> TidyNode]
  BY DEF Folder
<1>2. ASSUME NEW p \in Paths, NEW node, new = [tree EXCEPT ![p] = node],
             KindFree(tree, p, node.kind), KindFree(cloud, p, node.kind)
      PROVE  NoClash(new, cloud) /\ NoClash(new, tree)
  <2>1. \A q \in Paths : new[q] = IF q = p THEN node ELSE tree[q]
    BY <1>1, <1>2
  <2>2. ASSUME NEW q \in Paths PROVE ~Clash(new, cloud, q) /\ ~Clash(new, tree, q)
    <3>1. CASE q = p
      <4>1. new[q].kind = node.kind
        BY <2>1, <3>1
      <4>2. tree[q].kind \in {"none", node.kind} /\ cloud[q].kind \in {"none", node.kind}
        BY <1>2, <3>1 DEF KindFree
      <4> QED
        BY <4>1, <4>2, ClashIs
    <3>2. CASE q # p
      BY <2>1, <3>2, ClashIs DEF NoClash
    <3> QED
      BY <3>1, <3>2
  <2> QED
    BY <2>2 DEF NoClash
<1>3. CASE new \in Writes(tree)
  <2>1. PICK p \in Paths : /\ new = [tree EXCEPT ![p] = File(stamp + 1, 0)]
                           /\ KindFree(tree, p, "file") /\ KindFree(cloud, p, "file")
    BY <1>3 DEF Writes
  <2>2. File(stamp + 1, 0).kind = "file"
    BY DEF File
  <2> QED
    BY <1>2, <2>1, <2>2
<1>4. CASE new \in NewFolders(tree)
  <2>1. PICK p \in Paths : /\ new = [tree EXCEPT ![p] = Dir(0)]
                           /\ tree[p].kind = "none" /\ KindFree(cloud, p, "dir")
    BY <1>4 DEF NewFolders, Held
  <2>2. Dir(0).kind = "dir" /\ KindFree(tree, p, "dir")
    BY <2>1 DEF Dir, KindFree
  <2> QED
    BY <1>2, <2>1, <2>2
<1>5. CASE new \in Removals(tree)
  <2>1. PICK p \in Paths : new = Without(tree, p)
    BY <1>5 DEF Removals, Held
  <2>2. \A q \in Paths : new[q] \in {NoNode, tree[q]}
    BY <2>1, WithoutKeepsFolder
  <2>3. NoNode.kind = "none"
    BY DEF NoNode
  <2> QED
    BY <2>2, <2>3, ClashIs DEF NoClash
<1>6. CASE new \in Renames(tree)
  <2>1. PICK pq \in Held(tree) \X Paths :
          /\ new = Moved(tree, pq[1], pq[2]) /\ CanMove(tree, pq[1], pq[2])
          /\ \A r \in Subtree(pq[1]) \cap Held(tree) :
               KindFree(cloud, Rekey(r, pq[1], pq[2]), tree[r].kind)
    BY <1>6 DEF Renames
  <2>2. pq[1] \in Paths /\ pq[2] \in Paths
    BY DEF Held
  <2> QED
    BY <2>1, <2>2, MovedKinds
<1> QED
  BY <1>3, <1>4, <1>5, <1>6 DEF LocalEdits

(* So it is with what other clients do.                                    *)
LEMMA RemoteEditsKeepKinds ==
  ASSUME TInv, Shallow,
         \/ RemoteCreate \/ RemoteRevise \/ RemoteTrash
         \/ RemoteMove \/ RemoteMoveOut \/ RemoteMoveIn
  PROVE  /\ disk' = disk /\ base' = base /\ step' = "edit"
         /\ Flat(cloud') /\ Numbered(cloud')
         /\ OneKind => NoClash(cloud', disk)
<1>1. /\ cloud \in Folder /\ cloud \in [Paths -> TidyNode] /\ lastId \in Nat
      /\ Flat(cloud) /\ Numbered(cloud)
  BY DEF TInv, Folder, Shallow
<1>2. lastId + 1 # 0 /\ lastId + 2 # 0 /\ Held(cloud) \subseteq Paths /\ NoNode.kind = "none"
  BY <1>1 DEF Held, NoNode
<1>3. OneKind => NoClash(cloud, disk)
  BY ClashIs DEF OneKind, NoClash
<1>4. ASSUME NEW tree, tree \in [Paths -> TidyNode] /\ Flat(tree) /\ Numbered(tree),
             NEW p \in Paths, NEW node \in TidyNode,
             Len(p) = 2 => node.kind # "dir", node.id # 0, KindFree(disk, p, node.kind),
             OneKind => NoClash(tree, disk)
      PROVE  LET new == [tree EXCEPT ![p] = node]
             IN /\ new \in [Paths -> TidyNode] /\ Flat(new) /\ Numbered(new)
                /\ OneKind => NoClash(new, disk)
  <2> DEFINE new == [tree EXCEPT ![p] = node]
  <2>1. new \in [Paths -> TidyNode] /\ \A q \in Paths : new[q] = IF q = p THEN node ELSE tree[q]
    BY <1>4
  <2> HIDE DEF new
  <2>2. Flat(new) /\ Numbered(new)
    BY <1>4, <2>1 DEF Flat, Numbered
  <2>3. OneKind => NoClash(new, disk)
    BY <1>4, <2>1, ClashIs DEF NoClash, KindFree
  <2> QED
    BY <2>1, <2>2, <2>3 DEF new
<1>5. ASSUME NEW p \in Paths, cloud' = Without(cloud, p)
      PROVE  Flat(cloud') /\ Numbered(cloud') /\ (OneKind => NoClash(cloud', disk))
  <2>1. \A q \in Paths : cloud'[q] \in {NoNode, cloud[q]}
    BY <1>1, <1>5, WithoutKeepsFolder
  <2> QED
    BY <1>1, <1>2, <1>3, <1>5, <2>1, WithoutFlat, ClashIs DEF NoClash
<1>6. disk' = disk /\ base' = base /\ step' = "edit"
  BY DEF RemoteStep, RemoteCreate, RemoteRevise, RemoteTrash, RemoteMove, RemoteMoveOut, RemoteMoveIn
<1>7. CASE RemoteCreate
  <2>1. PICK p \in Paths \ Held(cloud),
              node \in {File(stamp + 1, lastId + 1), Dir(lastId + 1)} :
          /\ KindFree(disk, p, node.kind) /\ (node.kind = "dir" => Len(p) = 1)
          /\ cloud' = [cloud EXCEPT ![p] = node]
    BY <1>7 DEF RemoteCreate, RemoteStep
  <2>2. node \in TidyNode /\ node.id # 0
    <3>1. stamp + 1 \in Nat \ {0} /\ lastId + 1 \in Nat
      BY DEF TInv
    <3> QED
      BY <1>2, <3>1, TidyThings DEF File, Dir
  <2>3. Len(p) = 2 => node.kind # "dir"
    BY <2>1
  <2> HIDE DEF OneKind
  <2> QED
    BY <1>1, <1>3, <1>4, <1>6, <2>1, <2>2, <2>3
<1>8. CASE RemoteRevise
  <2>1. PICK p \in Paths : /\ cloud[p].kind = "file"
                           /\ cloud' = [cloud EXCEPT ![p].hash = stamp + 1]
    BY <1>8 DEF RemoteRevise, RemoteStep
  <2>2. \A q \in Paths : cloud'[q].kind = cloud[q].kind /\ cloud'[q].id = cloud[q].id
    <3>1. \A q \in Paths : cloud'[q] = IF q = p THEN [cloud[p] EXCEPT !.hash = stamp + 1] ELSE cloud[q]
      BY <1>1, <2>1
    <3>2. cloud[p] \in TidyNode
      BY <1>1
    <3> QED
      BY <3>1, <3>2 DEF TidyNode, Node
  <2> QED
    BY <1>1, <1>3, <1>6, <2>2, ClashIs DEF Flat, Numbered, NoClash
<1>9. CASE RemoteTrash \/ RemoteMoveOut
  <2>1. PICK p \in Paths : cloud' = Without(cloud, p)
    BY <1>2, <1>9 DEF RemoteTrash, RemoteMoveOut, RemoteStep
  <2> QED
    BY <1>5, <1>6, <2>1
<1>10. CASE RemoteMove
  <2>1. PICK p \in Held(cloud), q \in Paths :
          /\ CanMove(cloud, p, q) /\ cloud' = Moved(cloud, p, q)
          /\ \A r \in Subtree(p) \cap Held(cloud) : KindFree(disk, Rekey(r, p, q), cloud[r].kind)
    BY <1>10 DEF RemoteMove, RemoteStep
  <2>2. Flat(cloud') /\ Numbered(cloud')
    BY <1>1, <1>2, <2>1, MovedFlat DEF CanMove
  <2>3. OneKind => NoClash(cloud', disk)
    BY <1>1, <1>2, <1>3, <2>1, MovedKinds
  <2> QED
    BY <1>6, <2>2, <2>3
<1>11. CASE RemoteMoveIn
  <2> DEFINE in(p) == p \o <<1>>
             folder(p) == [cloud EXCEPT ![p] = Dir(lastId + 1)]
             tree(p) == [folder(p) EXCEPT ![in(p)] = File(stamp + 1, lastId + 2)]
  <2>1. PICK p \in Paths :
          /\ Len(p) = 1 /\ in(p) \in Paths
          /\ KindFree(disk, p, "dir") /\ KindFree(disk, in(p), "file")
          /\ cloud' = [cloud EXCEPT ![p] = Dir(lastId + 1), ![in(p)] = File(stamp + 1, lastId + 2)]
    BY <1>11 DEF RemoteMoveIn, RemoteStep
  <2>2. cloud' = tree(p)
    BY <2>1
  <2>3. /\ Dir(lastId + 1) \in TidyNode /\ Dir(lastId + 1).kind = "dir" /\ Dir(lastId + 1).id # 0
        /\ File(stamp + 1, lastId + 2) \in TidyNode /\ File(stamp + 1, lastId + 2).kind = "file"
        /\ File(stamp + 1, lastId + 2).id # 0
    <3>1. stamp + 1 \in Nat \ {0} /\ lastId + 1 \in Nat /\ lastId + 2 \in Nat
      BY DEF TInv
    <3> QED
      BY <1>2, <3>1, TidyThings DEF File, Dir
  <2> HIDE DEF OneKind, in
  <2>4. /\ folder(p) \in [Paths -> TidyNode] /\ Flat(folder(p)) /\ Numbered(folder(p))
        /\ OneKind => NoClash(folder(p), disk)
    <3> DEFINE node == Dir(lastId + 1)
    <3>1. node \in TidyNode /\ node.id # 0 /\ (Len(p) = 2 => node.kind # "dir")
          /\ KindFree(disk, p, node.kind)
      BY <2>1, <2>3
    <3> HIDE DEF node
    <3>2. LET new == [cloud EXCEPT ![p] = node]
          IN /\ new \in [Paths -> TidyNode] /\ Flat(new) /\ Numbered(new)
             /\ OneKind => NoClash(new, disk)
      BY <1>1, <1>3, <1>4, <3>1
    <3> QED
      BY <3>2 DEF node
  <2> HIDE DEF folder
  <2>5. /\ tree(p) \in [Paths -> TidyNode] /\ Flat(tree(p)) /\ Numbered(tree(p))
        /\ OneKind => NoClash(tree(p), disk)
    BY <1>4, <2>1, <2>3, <2>4
  <2> HIDE DEF tree
  <2> QED
    BY <1>6, <2>2, <2>5
<1> QED
  BY <1>7, <1>8, <1>9, <1>10, <1>11

(* At first,                                                               *)
LEMMA InitShallow == Init => Shallow /\ OneKind
<1> SUFFICES ASSUME Init PROVE Shallow /\ OneKind
  OBVIOUS
<1>1. PICK beside \in {NoNode, File(2, 3), Dir(3)} :
        cloud = [p \in Paths |-> CASE p = <<1>> -> Dir(1) [] p = <<1, 1>> -> File(1, 2)
                                   [] p = <<2>> -> beside [] OTHER -> NoNode]
  BY DEF Init, SyncedTrees
<1>2. /\ Dir(1).kind = "dir" /\ Dir(1).id # 0 /\ Dir(3).id # 0 /\ NoNode.kind = "none"
      /\ File(1, 2).kind = "file" /\ File(1, 2).id # 0 /\ File(2, 3).kind = "file"
      /\ File(2, 3).id # 0
  BY DEF Dir, File, NoNode
<1>3. Len(<<1>>) = 1 /\ Len(<<2>>) = 1
  OBVIOUS
<1>4. Flat(cloud) /\ Numbered(cloud)
  BY <1>1, <1>2, <1>3 DEF Flat, Numbered
<1>5. ASSUME NEW p \in Paths
      PROVE  /\ disk[p].kind \in {"none", cloud[p].kind}
             /\ base[p].kind \in {"none", cloud[p].kind}
  <2>1. LocalOf(cloud[p]).kind = cloud[p].kind /\ RowOf(cloud[p]).kind \in {"none", cloud[p].kind}
    <3>1. cloud[p] \in TidyNode
      BY InitTyped DEF TInv, Folder
    <3>2. LocalOf(cloud[p]).kind = cloud[p].kind
      BY <3>1 DEF LocalOf, TidyNode, Node
    <3> QED
      BY <3>2 DEF RowOf, FileRow, DirRow, NoRow
  <2>2. Empty[p].kind = "none" /\ NoRow.kind = "none"
    BY DEF Empty, NoNode, NoRow
  <2> QED
    BY <2>1, <2>2 DEF Init
<1>6. OneKind
  BY <1>5, ClashIs DEF OneKind
<1> QED
  BY <1>4, <1>5, <1>6 DEF Shallow, Flat

-----------------------------------------------------------------------------
(* A pass, with what it ran.                                               *)
LEMMA PassIs ==
  ASSUME NEW R, NEW full, NEW waiting, PassOver(R, full, waiting), edits \in Nat
  PROVE  \E approve \in BOOLEAN,
            raced \in {disk} \cup (IF Races /\ edits > 0 THEN LocalEdits(disk) ELSE {}),
            fault \in FaultsOf(Planned(disk, R, base)) :
           LET plan == Planned(disk, R, base)
               x == RunPlan(plan, Start0(raced), approve, fault, disk, R, base)
           IN /\ disk' = x.disk /\ cloud' = x.cloud /\ base' = x.base
              /\ edits' = edits => raced = disk
              /\ step' = "stuck" =>
                   full /\ x.failed /\ raced = disk /\ fault = NoFault /\ unlisted = {}
                     /\ ~Tangled(plan)
<1> DEFINE plan == Planned(disk, R, base)
           x(raced, approve, fault) ==
             RunPlan(plan, Start0(raced), approve, fault, disk, R, base)
<1>1. PICK approve \in BOOLEAN,
           raced \in {disk} \cup (IF Races /\ edits > 0 THEN LocalEdits(disk) ELSE {}),
           fault \in FaultsOf(plan) :
        /\ disk' = x(raced, approve, fault).disk /\ cloud' = x(raced, approve, fault).cloud
        /\ base' = x(raced, approve, fault).base
        /\ edits' = IF raced # disk THEN edits - 1 ELSE edits
        /\ fault.crash => step' = "crash"
        /\ ~fault.crash =>
             step' = IF ~full THEN "follow"
                     ELSE IF /\ x(raced, approve, fault).failed
                             /\ ~(raced # disk \/ fault # NoFault \/ unlisted # {})
                             /\ ~Tangled(plan)
                     THEN "stuck" ELSE "walk"
  BY DEF PassOver
<1> HIDE DEF plan, x
<1>2. edits' = edits => raced = disk
  BY <1>1
<1>3. step' = "stuck" =>
        /\ full /\ x(raced, approve, fault).failed /\ raced = disk /\ fault = NoFault
        /\ unlisted = {} /\ ~Tangled(plan)
  BY <1>1
<1> QED
  BY <1>1, <1>2, <1>3 DEF plan, x

(* What it ends with keeps to the kinds it started from.                   *)
LEMMA PassWithin ==
  ASSUME TInv, Shallow, NEW R \in [Paths -> TidyNode], Flat(R),
         NEW raced \in {disk} \cup (IF Races /\ edits > 0 THEN LocalEdits(disk) ELSE {}),
         NEW approve \in BOOLEAN, NEW fault \in FaultsOf(Planned(disk, R, base)),
         NEW K \in Ranges, Fitting(K, disk, R),
         \A q \in Paths : raced[q].kind \in K[q] /\ cloud[q].kind \in K[q]
  PROVE  RunPlan(Planned(disk, R, base), Start0(raced), approve, fault, disk, R, base)
           \in Within(K)
<1> DEFINE plan == Planned(disk, R, base)
           start == Start0(raced)
<1>1. disk \in [Paths -> TidyNode] /\ base \in Records /\ cloud \in Folder
  BY DEF TInv, Folder
<1>2. raced \in Folder
  BY EditsKeepFolder DEF TInv
<1>3. /\ start \in Running /\ start.disk = raced /\ start.cloud = cloud /\ start.base = base
  BY <1>2 DEF Start0, Running, TInv, Events
<1>4. start \in Within(K)
  <2> HIDE DEF start
  <2>1. \A q \in Paths : cloud[q].kind # "none" => cloud[q].id # 0
    BY DEF Shallow, Numbered
  <2>2. \A q \in Paths : Len(q) = 2 => base[q].kind # "dir"
    BY DEF Shallow, Flat
  <2> QED
    BY <1>3, <2>1, <2>2 DEF Within
<1>5. Len(plan) \in Nat /\ DOMAIN plan = 1 .. Len(plan)
  BY <1>1, PlanShape DEF Trees, Records, StoredRow
<1>6. fault.crash => fault.at \in 1 .. Len(plan)
  BY <1>5 DEF FaultsOf, NoFault
<1>7. Trees(disk, R, base) /\ Flat(disk) /\ Flat(base)
  BY <1>1 DEF Trees, Records, StoredRow, Shallow
<1> HIDE DEF start
<1>8. RunPlan(plan, start, approve, fault, disk, R, base) \in Within(K)
  BY <1>1, <1>4, <1>6, <1>7, RunWithin
<1> QED
  BY <1>8 DEF start

(* after any pass, whatever map it was given,                              *)
LEMMA PassShallow ==
  ASSUME TInv, Shallow, NEW R \in [Paths -> TidyNode], Flat(R), NEW full, NEW waiting,
         PassOver(R, full, waiting)
  PROVE  Shallow'
<1> DEFINE K == [q \in Paths |-> IF Len(q) = 2 THEN {"none", "file"} ELSE Kinds]
<1>1. \A q \in Paths : K[q] = IF Len(q) = 2 THEN {"none", "file"} ELSE Kinds
  OBVIOUS
<1>2. K \in Ranges
  BY DEF Ranges, Kinds
<1> HIDE DEF K
<1>3. PICK approve \in BOOLEAN,
           raced \in {disk} \cup (IF Races /\ edits > 0 THEN LocalEdits(disk) ELSE {}),
           fault \in FaultsOf(Planned(disk, R, base)) :
        LET x == RunPlan(Planned(disk, R, base), Start0(raced), approve, fault, disk, R, base)
        IN disk' = x.disk /\ cloud' = x.cloud /\ base' = x.base
  BY PassIs DEF TInv
<1>4. /\ disk \in Folder /\ disk \in [Paths -> TidyNode] /\ cloud \in [Paths -> TidyNode]
      /\ Flat(disk) /\ Flat(cloud)
  BY DEF TInv, Folder, Shallow
<1>5. raced \in [Paths -> TidyNode] /\ Flat(raced)
  <2>1. CASE raced = disk
    BY <1>4, <2>1
  <2>2. CASE raced \in LocalEdits(disk)
    <3>1. raced \in Folder
      BY <2>2, EditsKeepFolder DEF TInv
    <3> QED
      BY <1>4, <2>2, <3>1, EditsFlat DEF Folder
  <2> QED
    BY <2>1, <2>2
<1>6. ASSUME NEW tree \in [Paths -> TidyNode], Flat(tree), NEW q \in Paths
      PROVE  tree[q].kind \in K[q]
  BY <1>1, <1>6, TidyParts DEF Flat, Kinds
<1>7. Fitting(K, disk, R)
  <2>1. \A p \in Paths : Len(p) = 2 => Parent(p) \in Paths /\ Len(Parent(p)) = 1
    BY Parents
  <2>2. \A p, q \in Paths : R[p].kind = "file" /\ "dir" \in K[p] /\ Len(q) = 1 => "dir" \in K[q]
    BY <1>1 DEF Kinds
  <2>3. \A p \in Paths : Len(p) = 2 => "dir" \in K[Parent(p)]
    BY <1>1, <2>1 DEF Kinds
  <2> QED
    BY <1>4, <1>6, <2>2, <2>3 DEF Fitting
<1>8. \A q \in Paths : raced[q].kind \in K[q] /\ cloud[q].kind \in K[q]
  BY <1>4, <1>5, <1>6
<1> DEFINE x == RunPlan(Planned(disk, R, base), Start0(raced), approve, fault, disk, R, base)
<1>9. x \in Within(K)
  BY <1>2, <1>7, <1>8, PassWithin
<1>10. disk' = x.disk /\ cloud' = x.cloud /\ base' = x.base
  BY <1>3
<1> HIDE DEF x
<1>11. /\ Flat(disk') /\ Flat(cloud') /\ Flat(base') /\ Numbered(cloud')
  BY <1>1, <1>9, <1>10 DEF Within, Flat, Numbered
<1> QED
  BY <1>11 DEF Shallow

(* What a pass holds of the remote is as flat: a listing shows what is     *)
(* there, a rebuilt map what was recorded or is listed.                    *)
LEMMA MapsAreFlat ==
  ASSUME TInv, Shallow
  PROVE  /\ Listed \in [Paths -> TidyNode] /\ Flat(Listed)
         /\ Rebuilt.tree \in [Paths -> TidyNode] /\ Flat(Rebuilt.tree)
<1>1. Listed \in [Paths -> TidyNode] /\ \A p \in Paths : Listed[p] \in {cloud[p], NoNode}
  BY ListedIs DEF TInv, Folder
<1>2. Flat(Listed)
  BY <1>1 DEF Shallow, Flat, NoNode
<1> DEFINE V == Listed
<1> HIDE DEF V
<1>3. Rebuild(base, delta, V).tree \in Given(base, V)
  BY <1>1, RebuiltIs DEF TInv, V
<1>4. Rebuilt.tree \in Given(base, V)
  BY <1>3 DEF Rebuilt, V
<1>5. \A p \in Paths : EntityOfRow(base[p]).kind \in {"none", base[p].kind}
  BY DEF EntityOfRow, NoNode, File, Dir
<1>6. Rebuilt.tree \in [Paths -> TidyNode] /\ Flat(Rebuilt.tree)
  <2> DEFINE T == Rebuilt.tree
  <2> HIDE DEF T
  <2>1. T \in [Paths -> TidyNode] /\ \A p \in Paths : T[p] \in {NoNode, EntityOfRow(base[p]), V[p]}
    BY <1>4 DEF Given, T
  <2>2. Flat(T)
    BY <1>2, <1>5, <2>1 DEF Shallow, Flat, NoNode, V
  <2> QED
    BY <2>1, <2>2 DEF T
<1> QED
  BY <1>1, <1>2, <1>6

(* after any step,                                                         *)
LEMMA StepShallow ==
  ASSUME TInv, Shallow, [Next]_vars
  PROVE  Shallow'
<1>1. ASSUME FullWalk PROVE Shallow'
  BY <1>1, MapsAreFlat, PassShallow DEF FullWalk
<1>2. ASSUME Follow PROVE Shallow'
  <2>1. FullWalk \/ PassOver(Rebuilt.tree, FALSE, {b.id : b \in Rebuilt.behind})
    BY <1>2 DEF Follow
  <2> QED
    BY <1>1, <2>1, MapsAreFlat, PassShallow
<1>3. CASE EditLocal
  <2>1. disk' \in LocalEdits(disk) /\ UNCHANGED <<cloud, base>>
    BY <1>3 DEF EditLocal
  <2>2. disk \in Folder /\ Flat(disk)
    BY DEF TInv, Shallow
  <2>3. Flat(disk')
    BY <2>1, <2>2, EditsFlat
  <2> QED
    BY <2>1, <2>3 DEF Shallow, Flat, Numbered
<1>4. CASE \/ RemoteCreate \/ RemoteRevise \/ RemoteTrash
           \/ RemoteMove \/ RemoteMoveOut \/ RemoteMoveIn
  BY <1>4, RemoteEditsKeepKinds DEF Shallow, Flat
<1>5. CASE ListingCatchesUp \/ UNCHANGED vars
  BY <1>5 DEF ListingCatchesUp, vars, Shallow, Flat, Numbered
<1> QED
  BY <1>1, <1>2, <1>3, <1>4, <1>5 DEF Next

NInv == TInv /\ Shallow

(* and so always.                                                          *)
LEMMA NInvHolds == Spec => []NInv
<1>1. Init => NInv
  BY InitTyped, InitShallow DEF NInv
<1>2. NInv /\ [Next]_vars => NInv'
  <2> SUFFICES ASSUME NInv, [Next]_vars PROVE NInv'
    OBVIOUS
  <2> QED
    BY StepTyped, StepShallow DEF NInv
<1> QED
  BY <1>1, <1>2, PTL DEF Spec

-----------------------------------------------------------------------------
(* A view of the remote that sees no file where either folder has a        *)
(* directory, or the other way, nor anything below a file.                 *)
Recognised(tree, R) ==
  \A p \in Paths :
    /\ ~Clash(tree, R, p) /\ ~Clash(R, cloud, p)
    /\ Len(p) = 2 /\ R[p].kind # "none" =>
         "file" \notin {tree[Parent(p)].kind, cloud[Parent(p)].kind, R[Parent(p)].kind}

(* The listings are such a view, however far behind they are.              *)
LEMMA ListedIsRecognised ==
  ASSUME TInv, NEW tree, NoClash(tree, cloud)
  PROVE  Recognised(tree, Listed)
<1>1. \A p \in Paths : Listed[p] \in {cloud[p], NoNode}
  BY ListedIs DEF TInv, Folder
<1>2. NoNode.kind = "none"
  BY DEF NoNode
<1>3. ASSUME NEW p \in Paths
      PROVE  ~Clash(tree, Listed, p) /\ ~Clash(Listed, cloud, p)
  BY <1>1, <1>2, ClashIs DEF NoClash
<1>4. ASSUME NEW p \in Paths, Len(p) = 2, Listed[p].kind # "none"
      PROVE  "file" \notin {tree[Parent(p)].kind, cloud[Parent(p)].kind, Listed[Parent(p)].kind}
  <2>1. cloud[p].kind # "none" /\ Parent(p) \in Paths
    BY <1>1, <1>2, <1>4, Parents
  <2>2. cloud[Parent(p)].kind = "dir"
    BY <1>4, <2>1, FolderIs DEF TInv, Folder
  <2> QED
    BY <1>1, <1>2, <2>1, <2>2, ClashIs DEF NoClash
<1> QED
  BY <1>3, <1>4 DEF Recognised

(* The one kind each path has on either side, and in the view; a folder's  *)
(* where there is nothing yet.                                             *)
Alike(tree, R) ==
  [q \in Paths |->
     IF Len(q) = 2 \/ "file" \in {disk[q].kind, tree[q].kind, cloud[q].kind, R[q].kind}
     THEN {"none", "file"} ELSE {"none", "dir"}]

(* These kinds allow all that is there and all that the pass is shown.     *)
LEMMA AlikeFits ==
  ASSUME TInv, Shallow, OneKind, NEW R \in [Paths -> TidyNode], Flat(R),
         NEW raced \in {disk} \cup (IF Races /\ edits > 0 THEN LocalEdits(disk) ELSE {}),
         Recognised(disk, R), Recognised(raced, R)
  PROVE  /\ Alike(raced, R) \in Ranges /\ Fitting(Alike(raced, R), disk, R)
         /\ \A q \in Paths : raced[q].kind \in Alike(raced, R)[q]
                             /\ cloud[q].kind \in Alike(raced, R)[q]
<1> DEFINE K == Alike(raced, R)
           Here(q) == {disk[q].kind, raced[q].kind, cloud[q].kind, R[q].kind}
<1>1. \A q \in Paths : K[q] = IF Len(q) = 2 \/ "file" \in Here(q)
                              THEN {"none", "file"} ELSE {"none", "dir"}
  BY DEF Alike
<1>2. K \in Ranges
  BY DEF Alike, Ranges, Kinds
<1> HIDE DEF K
<1>3. /\ disk \in Folder /\ disk \in [Paths -> TidyNode] /\ cloud \in [Paths -> TidyNode]
      /\ Flat(disk) /\ Flat(cloud) /\ NoClash(disk, cloud)
  BY DEF TInv, Folder, Shallow, OneKind, NoClash
<1>4. /\ raced \in [Paths -> TidyNode] /\ Flat(raced)
      /\ NoClash(raced, cloud) /\ NoClash(raced, disk)
  <2>1. CASE raced = disk
    BY <1>3, <2>1, ClashIs DEF NoClash
  <2>2. CASE raced \in LocalEdits(disk)
    <3>1. raced \in Folder
      BY <2>2, EditsKeepFolder DEF TInv
    <3> QED
      BY <1>3, <2>2, <3>1, EditsFlat, EditsKeepKinds DEF Folder
  <2> QED
    BY <2>1, <2>2
<1>5. ASSUME NEW q \in Paths PROVE Here(q) \subseteq K[q]
  <2>1. /\ disk[q].kind \in Kinds /\ raced[q].kind \in Kinds
        /\ cloud[q].kind \in Kinds /\ R[q].kind \in Kinds
    BY <1>3, <1>4, TidyParts
  <2>2. CASE Len(q) = 2
    BY <1>1, <1>3, <1>4, <2>1, <2>2 DEF Flat, Kinds
  <2>3. CASE Len(q) # 2 /\ "file" \in Here(q)
    <3>1. /\ ~Clash(disk, R, q) /\ ~Clash(R, cloud, q) /\ ~Clash(raced, R, q)
          /\ ~Clash(disk, cloud, q) /\ ~Clash(raced, cloud, q) /\ ~Clash(raced, disk, q)
      BY <1>3, <1>4 DEF Recognised, NoClash
    <3>2. "dir" \notin Here(q)
      BY <2>3, <3>1, ClashIs
    <3> QED
      BY <1>1, <2>1, <2>3, <3>2 DEF Kinds
  <2>4. CASE Len(q) # 2 /\ "file" \notin Here(q)
    BY <1>1, <2>1, <2>4 DEF Kinds
  <2> QED
    BY <2>2, <2>3, <2>4
<1>6. ASSUME NEW p \in Paths, Len(p) = 2, disk[p].kind # "none" \/ R[p].kind # "none"
      PROVE  "dir" \in K[Parent(p)]
  <2>1. Parent(p) \in Paths /\ Len(Parent(p)) = 1
    BY <1>6, Parents
  <2>2. CASE disk[p].kind # "none"
    <3>1. disk[Parent(p)].kind = "dir"
      BY <1>3, <1>6, <2>2, FolderIs
    <3> QED
      BY <1>5, <2>1, <3>1
  <2>3. CASE R[p].kind # "none"
    <3>1. "file" \notin Here(Parent(p))
      BY <1>6, <2>3 DEF Recognised
    <3>2. ~(Len(Parent(p)) = 2 \/ "file" \in Here(Parent(p)))
      BY <2>1, <3>1
    <3> HIDE DEF Here
    <3>3. K[Parent(p)] = {"none", "dir"}
      BY <1>1, <2>1, <3>2
    <3> QED
      BY <3>3
  <2> QED
    BY <1>6, <2>2, <2>3
<1>7. \A p, q \in Paths :
        R[p].kind = "file" /\ "dir" \in K[p] /\ Len(q) = 1 => "dir" \in K[q]
  BY <1>1
<1>8. Fitting(K, disk, R)
  BY <1>5, <1>6, <1>7 DEF Fitting
<1> QED
  BY <1>2, <1>5, <1>8 DEF K

(* So no path comes to be a file on one side and a directory on the other, *)
(* whatever the pass finds when it acts and wherever it is cut.            *)
LEMMA PassKeepsOneKind ==
  ASSUME TInv, Shallow, OneKind, NEW R \in [Paths -> TidyNode], Flat(R), NEW full, NEW waiting,
         PassOver(R, full, waiting), Recognised(disk, R),
         edits' = edits \/ \A raced \in LocalEdits(disk) : Recognised(raced, R)
  PROVE  OneKind'
<1>1. PICK approve \in BOOLEAN,
           raced \in {disk} \cup (IF Races /\ edits > 0 THEN LocalEdits(disk) ELSE {}),
           fault \in FaultsOf(Planned(disk, R, base)) :
        LET x == RunPlan(Planned(disk, R, base), Start0(raced), approve, fault, disk, R, base)
        IN disk' = x.disk /\ cloud' = x.cloud /\ (edits' = edits => raced = disk)
  BY PassIs DEF TInv
<1>2. Recognised(raced, R)
  BY <1>1
<1> DEFINE K == Alike(raced, R)
           x == RunPlan(Planned(disk, R, base), Start0(raced), approve, fault, disk, R, base)
<1>3. /\ K \in Ranges /\ Fitting(K, disk, R)
      /\ \A q \in Paths : raced[q].kind \in K[q] /\ cloud[q].kind \in K[q]
  BY <1>2, AlikeFits
<1>4. \A q \in Paths : K[q] \in {{"none", "file"}, {"none", "dir"}}
  BY DEF Alike
<1> HIDE DEF K
<1>5. x \in Within(K)
  BY <1>3, PassWithin
<1>6. disk' = x.disk /\ cloud' = x.cloud
  BY <1>1
<1> HIDE DEF x
<1>7. ASSUME NEW q \in Paths PROVE ~Clash(disk', cloud', q)
  BY <1>4, <1>5, <1>6, ClashIs DEF Within
<1> QED
  BY <1>7 DEF OneKind, Clash

(* A full walk is shown only such a view.                                  *)
LEMMA WalkKeepsOneKind ==
  ASSUME TInv, Shallow, OneKind, FullWalk
  PROVE  OneKind'
<1>1. PassOver(Listed, TRUE, behind \ ShownIds(Listed))
  BY DEF FullWalk
<1>2. disk \in Folder /\ NoClash(disk, cloud)
  BY DEF TInv, OneKind, NoClash
<1>3. Recognised(disk, Listed)
  BY <1>2, ListedIsRecognised
<1>4. \A raced \in LocalEdits(disk) : Recognised(raced, Listed)
  BY <1>2, EditsKeepKinds, ListedIsRecognised
<1> QED
  BY <1>1, <1>3, <1>4, MapsAreFlat, PassKeepsOneKind

(* Users give a name one kind, and so do passes (the action arms of        *)
(* execute_plan_and_commit): no edit of either side, and no full walk, be  *)
(* its listing behind, its user writing in between, and whatever call of   *)
(* it fails or process ends, leaves a path a file on one side and a        *)
(* directory on the other.  Only an incremental pass might, if the user    *)
(* edits inside it or the map it rebuilt shows a kind neither side has.    *)
THEOREM OnlyMapsMixKinds ==
  Spec => [][OneKind /\ ~OneKind' =>
               /\ Follow /\ ~Rebuilt.walk
               /\ edits' # edits \/ ~Recognised(disk, Rebuilt.tree)]_vars
<1>1. ASSUME NInv, [Next]_vars, OneKind, ~OneKind'
      PROVE  /\ Follow /\ ~Rebuilt.walk
             /\ edits' # edits \/ ~Recognised(disk, Rebuilt.tree)
  <2>0. TInv /\ Shallow
    BY <1>1 DEF NInv
  <2>1. ASSUME FullWalk PROVE FALSE
    BY <1>1, <2>0, <2>1, WalkKeepsOneKind
  <2>2. ASSUME EditLocal PROVE FALSE
    <3>1. disk' \in LocalEdits(disk) /\ cloud' = cloud
      BY <2>2 DEF EditLocal
    <3>2. disk \in Folder /\ NoClash(disk, cloud)
      BY <1>1, <2>0 DEF TInv, OneKind, NoClash
    <3>3. NoClash(disk', cloud)
      BY <3>1, <3>2, EditsKeepKinds
    <3>4. OneKind'
      BY <3>1, <3>3 DEF OneKind, NoClash, Clash
    <3> QED
      BY <1>1, <3>4
  <2>3. ASSUME \/ RemoteCreate \/ RemoteRevise \/ RemoteTrash
               \/ RemoteMove \/ RemoteMoveOut \/ RemoteMoveIn
        PROVE  FALSE
    <3>1. disk' = disk /\ NoClash(cloud', disk)
      BY <1>1, <2>0, <2>3, RemoteEditsKeepKinds
    <3>2. OneKind'
      BY <3>1, ClashIs DEF OneKind, NoClash, Clash
    <3> QED
      BY <1>1, <3>2
  <2>4. ASSUME ListingCatchesUp \/ UNCHANGED vars PROVE FALSE
    BY <1>1, <2>4 DEF ListingCatchesUp, vars, OneKind, Clash
  <2>5. Follow
    BY <1>1, <2>1, <2>2, <2>3, <2>4 DEF Next
  <2>6. ~Rebuilt.walk /\ PassOver(Rebuilt.tree, FALSE, {b.id : b \in Rebuilt.behind})
    BY <2>1, <2>5 DEF Follow
  <2>7. edits' # edits \/ ~Recognised(disk, Rebuilt.tree)
    BY <1>1, <2>0, <2>6, MapsAreFlat, PassKeepsOneKind
  <2> QED
    BY <2>5, <2>6, <2>7
<1> QED
  BY <1>1, NInvHolds, PTL DEF Spec

(* So kinds stay one wherever no incremental pass meets either.            *)
THEOREM OneKindStays ==
  /\ Spec
  /\ [][Follow /\ ~Rebuilt.walk => edits' = edits /\ Recognised(disk, Rebuilt.tree)]_vars
  => []OneKind
<1>1. Init => OneKind
  BY InitShallow
<1>2. /\ OneKind
      /\ [OneKind /\ ~OneKind' =>
            /\ Follow /\ ~Rebuilt.walk
            /\ edits' # edits \/ ~Recognised(disk, Rebuilt.tree)]_vars
      /\ [Follow /\ ~Rebuilt.walk => edits' = edits /\ Recognised(disk, Rebuilt.tree)]_vars
      => OneKind'
  <2>1. UNCHANGED vars /\ OneKind => OneKind'
    BY DEF vars, OneKind, Clash
  <2> QED
    BY <2>1
<1> QED
  BY <1>1, <1>2, OnlyMapsMixKinds, PTL DEF Spec

-----------------------------------------------------------------------------
(* A walk nobody disturbs.  What each action of a plan has seen of the two *)
(* folders it was made from.                                               *)
Sees(a, L, R) ==
  /\ a.path \in Paths
  /\ a.do \in {"upload", "conflict_local"} => L[a.path].kind = "file"
  /\ a.do = "download" => R[a.path].kind = "file"
  /\ a.do = "create_remote_dir" => L[a.path].kind = "dir"
  /\ a.do = "create_local_dir" => R[a.path].kind = "dir"
  /\ a.do = "move_local" =>
       /\ a.to \in Paths /\ a.kind \in {"file", "dir"}
       /\ L[a.path].kind = a.kind /\ L[a.to].kind = "none" /\ R[a.to].kind = a.kind
  /\ a.do = "move_remote" =>
       /\ a.to \in Paths
       /\ R[a.path].kind = "file" /\ L[a.path].kind = "none"
       /\ R[a.to].kind = "none" /\ L[a.to].kind = "file"
  /\ a.do = "local_delete" => a.kind \in {"file", "dir"} /\ L[a.path].kind = a.kind
  /\ a.do = "remote_delete" =>
       /\ a.kind \in {"file", "dir"} /\ R[a.path].kind = a.kind
       /\ a.kind = "dir" => a.id # 0

(* A move is of what is there to a place free of it; the rest is decided   *)
(* of what is there.                                                       *)
LEMMA PlanSees ==
  ASSUME NEW L, NEW R, NEW B, Trees(L, R, B), Numbered(R)
  PROVE  LET plan == Planned(L, R, B)
         IN \A i \in 1 .. Len(plan) : Sees(plan[i], L, R)
<1> DEFINE plan == Planned(L, R, B)
<1> SUFFICES ASSUME NEW i \in 1 .. Len(plan) PROVE Sees(plan[i], L, R)
  OBVIOUS
<1> DEFINE a == plan[i]
<1>1. \/ a \in MovesPlanned(L, R, B)
      \/ \E p \in Paths \ Settled(L, R, B) : a = Decided(L, R, B, p) /\ a.do # "none"
  BY PlanShape
<1> HIDE DEF plan, a
<1>2. CASE a \in MovesPlanned(L, R, B)
  <2>1. a \in MovesOf(L, R, B)
    BY <1>2 DEF MovesPlanned
  <2>2. /\ a.path \in Paths /\ a.to \in Paths
        /\ a = Transition(L, R, B, a.path) /\ a # Nothing
        /\ a.do \in {"move_local", "move_remote"} /\ a.kind \in {"file", "dir"}
    BY <2>1, MoveShape
  <2>3. /\ a.do = "move_local" =>
             L[a.path].kind = a.kind /\ L[a.to].kind = "none" /\ R[a.to].kind = a.kind
        /\ a.do = "move_remote" =>
             /\ R[a.path].kind = "file" /\ L[a.path].kind = "none"
             /\ R[a.to].kind = "none" /\ L[a.to].kind = "file"
    BY <2>2, MovesGoToFreePlaces
  <2> QED
    BY <2>2, <2>3 DEF Sees, a
<1>3. CASE \E p \in Paths \ Settled(L, R, B) : a = Decided(L, R, B, p) /\ a.do # "none"
  <2>1. PICK p \in Paths : a = Decided(L, R, B, p) /\ a.do # "none"
    BY <1>3
  <2>2. PICK proved \in BOOLEAN : a = PlanEntity(L, R, B, p, proved)
    BY <2>1 DEF Decided, Proved
  <2>3. /\ a.path = p /\ a.do \notin {"move_local", "move_remote"}
        /\ a.do \in {"upload", "conflict_local"} => L[p].kind = "file"
        /\ a.do = "download" => R[p].kind = "file"
    BY <2>1, <2>2, DecisionShape
  <2>4. /\ a.do = "create_remote_dir" => L[p].kind = "dir"
        /\ a.do = "create_local_dir" => R[p].kind = "dir"
        /\ a.do = "local_delete" => L[p].kind = a.kind /\ a.kind \in {"file", "dir"}
        /\ a.do = "remote_delete" =>
             /\ R[p].kind = a.kind /\ a.kind \in {"file", "dir"}
             /\ a.kind = "dir" /\ R[p].id # 0 => a.id # 0
    BY <2>1, <2>2, DecisionKinds
  <2>5. R[p].kind = "dir" => R[p].id # 0
    BY DEF Numbered
  <2> QED
    BY <2>3, <2>4, <2>5 DEF Sees, a
<1> QED
  BY <1>1, <1>2, <1>3

(* What is below a node of a folder is in a directory.                     *)
LEMMA BelowADirectory ==
  ASSUME NEW tree \in Folder, NEW p \in Paths, NEW q \in Paths, Below(p, q),
         tree[q].kind # "none"
  PROVE  tree[p].kind = "dir"
<1>1. Len(q) = 2 /\ Parent(q) = p
  BY Nesting
<1> QED
  BY <1>1, FolderIs DEF Folder

(* The node an action is about must be there still: on the disk for what   *)
(* is sent, kept or moved, in the cloud for what is moved or deleted.      *)
OnDisk(a) == a.do \in {"upload", "conflict_local", "move_local"}
InCloud(a) == a.do \in {"move_remote", "remote_delete"}

(* No action of a plan takes away what a later one is about: neither a     *)
(* move, by what it settles, nor a deletion, by the order and by what it   *)
(* covers.                                                                 *)
THEOREM PlanSpares ==
  ASSUME NEW L \in Folder, NEW R \in Folder, NEW B, Trees(L, R, B), Numbered(R)
  PROVE  LET plan == Planned(L, R, B)
         IN \A i, j \in 1 .. Len(plan) : i < j =>
              /\ OnDisk(plan[j]) => plan[j].path \notin LostLocal(plan[i])
              /\ InCloud(plan[j]) => plan[j].path \notin LostRemote(plan[i])
<1> DEFINE plan == Planned(L, R, B)
<1> SUFFICES ASSUME NEW i \in 1 .. Len(plan), NEW j \in 1 .. Len(plan), i < j
             PROVE  /\ OnDisk(plan[j]) => plan[j].path \notin LostLocal(plan[i])
                    /\ InCloud(plan[j]) => plan[j].path \notin LostRemote(plan[i])
  OBVIOUS
<1> DEFINE b == plan[i]
           a == plan[j]
<1>1. Sees(a, L, R) /\ Sees(b, L, R)
  BY PlanSees
<1>2. /\ IsMove(a) => IsMove(b) /\ a.path \notin Suppressed(B, b)
      /\ ~IsMove(b) => b.path # a.path
      /\ b.kind = "dir" /\ b.do \in Deletes => ~Below(b.path, a.path)
  BY PlanOrder
<1>3. \/ a \in MovesPlanned(L, R, B)
      \/ \E p \in Paths \ Settled(L, R, B) : a = Decided(L, R, B, p) /\ a.do # "none"
  BY PlanShape
<1>4. \/ b \in MovesPlanned(L, R, B)
      \/ \E p \in Paths \ Settled(L, R, B) : b = Decided(L, R, B, p) /\ b.do # "none"
  BY PlanShape
<1> HIDE DEF plan, a, b
<1>5. IF IsMove(a)
      THEN B[a.path].kind # "none"
      ELSE a.path \in Paths \ Settled(L, R, B)
  <2>1. CASE a \in MovesPlanned(L, R, B)
    <3>1. a \in MovesOf(L, R, B)
      BY <2>1 DEF MovesPlanned
    <3>2. /\ a.path \in Paths /\ a = Transition(L, R, B, a.path) /\ a # Nothing
          /\ a.do \in {"move_local", "move_remote"} /\ a.kind \in {"file", "dir"}
      BY <3>1, MoveShape
    <3>3. B[a.path].kind = a.kind
      BY <3>2, MovesGoToFreePlaces
    <3> QED
      BY <3>2, <3>3 DEF IsMove
  <2>2. CASE \E p \in Paths \ Settled(L, R, B) : a = Decided(L, R, B, p) /\ a.do # "none"
    <3>1. PICK p \in Paths \ Settled(L, R, B) : a = Decided(L, R, B, p) /\ a.do # "none"
      BY <2>2
    <3>2. PICK proved \in BOOLEAN : a = PlanEntity(L, R, B, p, proved)
      BY <3>1 DEF Decided, Proved
    <3>3. a.path = p /\ a.do \notin {"move_local", "move_remote"}
      BY <3>1, <3>2, DecisionShape
    <3> QED
      BY <3>1, <3>3 DEF IsMove
  <2> QED
    BY <1>3, <2>1, <2>2
<1>6. IsMove(b) => b \in MovesPlanned(L, R, B)
  <2> SUFFICES ASSUME NEW p \in Paths, b = Decided(L, R, B, p), b.do # "none"
               PROVE  ~IsMove(b)
    BY <1>4
  <2>1. PICK proved \in BOOLEAN : b = PlanEntity(L, R, B, p, proved)
    BY DEF Decided, Proved
  <2> QED
    BY <2>1, DecisionShape DEF IsMove
<1>7. a.path \in Paths /\ b.path \in Paths
  BY <1>1 DEF Sees
<1>8. \A q \in Paths : q \in Subtree(b.path) <=> q = b.path \/ Below(b.path, q)
  BY <1>7, SubtreeIs
<1>9. ASSUME IsMove(b) PROVE a.path # b.path
  <2>1. Suppressed(B, b) \subseteq Settled(L, R, B)
    BY <1>6, <1>9 DEF MovesPlanned
  <2>2. b.path \in Suppressed(B, b)
    BY DEF Suppressed
  <2> QED
    BY <1>2, <1>5, <2>1, <2>2
<1>10. ASSUME OnDisk(a), a.path \in LostLocal(b) PROVE FALSE
  <2>1. a.path # b.path
    BY <1>2, <1>9
  <2>2. /\ b.do \in {"move_local", "local_delete"} /\ ~(b.do = "move_local" /\ b.kind = "file")
        /\ a.path \in Subtree(b.path)
    BY <1>10, <2>1 DEF LostLocal
  <2>3. Below(b.path, a.path)
    BY <1>7, <1>8, <2>1, <2>2
  <2>4. L[a.path].kind # "none"
    BY <1>1, <1>10 DEF OnDisk, Sees
  <2>5. L[b.path].kind = "dir"
    BY <1>7, <2>3, <2>4, BelowADirectory
  <2>6. CASE b.do = "local_delete"
    <3>1. b.kind = "dir"
      BY <1>1, <2>5, <2>6 DEF Sees
    <3> QED
      BY <1>2, <2>3, <2>6, <3>1 DEF Deletes
  <2>7. CASE b.do = "move_local"
    <3>1. b.kind = "dir" /\ IsMove(b)
      BY <1>1, <2>2, <2>7 DEF Sees, IsMove
    <3>2. /\ Suppressed(B, b) \subseteq Settled(L, R, B)
          /\ \A p \in Held(L) \ Held(B) : Below(b.path, p) => p \in Settled(L, R, B)
      BY <1>6, <3>1 DEF MovesPlanned
    <3>3. a.path \in Held(B) => a.path \in Suppressed(B, b)
      BY <2>3, <3>1 DEF Suppressed
    <3>4. CASE IsMove(a)
      BY <1>2, <1>5, <1>7, <3>3, <3>4 DEF Held
    <3>5. CASE ~IsMove(a)
      <4>1. a.path \notin Settled(L, R, B)
        BY <1>5, <3>5
      <4>2. a.path \in Held(L) \ Held(B)
        BY <1>7, <2>4, <3>2, <3>3, <4>1 DEF Held
      <4> QED
        BY <2>3, <3>2, <4>1, <4>2
    <3> QED
      BY <3>4, <3>5
  <2> QED
    BY <2>2, <2>6, <2>7
<1>11. ASSUME InCloud(a), a.path \in LostRemote(b) PROVE FALSE
  <2>1. a.path # b.path
    BY <1>2, <1>9
  <2>2. b.do \in {"move_remote", "remote_delete"} /\ a.path \in Subtree(b.path)
    BY <1>11 DEF LostRemote
  <2>3. Below(b.path, a.path)
    BY <1>7, <1>8, <2>1, <2>2
  <2>4. R[a.path].kind # "none"
    BY <1>1, <1>11 DEF InCloud, Sees
  <2>5. R[b.path].kind = "dir"
    BY <1>7, <2>3, <2>4, BelowADirectory
  <2>6. b.do = "remote_delete" /\ b.kind = "dir"
    BY <1>1, <2>2, <2>5 DEF Sees
  <2> QED
    BY <1>2, <2>3, <2>6 DEF Deletes
<1> QED
  BY <1>10, <1>11 DEF a, b

(* What an action finds in the pass's state when its turn comes.           *)
Ready(a, x) ==
  /\ OnDisk(a) => x.disk[a.path].kind # "none"
  /\ InCloud(a) => x.cloud[a.path].kind # "none"
  /\ a.do = "move_local" /\ a.kind = "dir" =>
       \A q \in Paths : Below(a.to, q) => x.disk[q].kind = "none"
  /\ a.do = "move_remote" => x.cloud[a.to].kind = "none"

(* It finds it at the start,                                               *)
LEMMA ReadyAtFirst ==
  ASSUME NEW L \in Folder, NEW R \in Folder, NEW x, x.disk = L, x.cloud = R,
         NEW a, Sees(a, L, R)
  PROVE  Ready(a, x)
<1>1. a.do = "move_local" => \A q \in Paths : Below(a.to, q) => L[q].kind = "none"
  BY BelowADirectory DEF Sees
<1>2. OnDisk(a) => L[a.path].kind # "none"
  BY DEF OnDisk, Sees
<1>3. InCloud(a) => R[a.path].kind # "none"
  BY DEF InCloud, Sees
<1>4. a.do = "move_remote" => R[a.to].kind = "none"
  BY DEF Sees
<1> QED
  BY <1>1, <1>2, <1>3, <1>4 DEF Ready

(* and an earlier action leaves it so.  One that is not a move fills no    *)
(* place of a move, for moves come first; of two moves, one that fills     *)
(* the other's place would be tangled with it.                             *)
LEMMA StaysReady ==
  ASSUME NEW L \in Folder, NEW R \in Folder, NEW K \in Ranges,
         NEW x \in Within(K), NEW y, NEW b, NEW a, NEW plannedDirs,
         Sees(a, L, R), Sees(b, L, R), Goes(x, b, y, K, plannedDirs), Ready(a, x),
         OnDisk(a) => a.path \notin LostLocal(b),
         InCloud(a) => a.path \notin LostRemote(b),
         IsMove(a) => IsMove(b) /\ a.to # b.to /\ ~Below(a.to, b.to)
  PROVE  Ready(a, y)
<1>1. a.path \in Paths
  BY DEF Sees
<1>2. ASSUME OnDisk(a) PROVE y.disk[a.path].kind # "none"
  <2>1. a.path \in Held(x.disk) \ LostLocal(b)
    BY <1>1, <1>2 DEF Ready, Held
  <2> QED
    BY <2>1 DEF Goes, Held
<1>3. ASSUME InCloud(a) PROVE y.cloud[a.path].kind # "none"
  <2>1. a.path \in Held(x.cloud) \ LostRemote(b)
    BY <1>1, <1>3 DEF Ready, Held
  <2> QED
    BY <2>1 DEF Goes, Held
<1>4. IsMove(b) => b.to \in Paths /\ Gains(x, b, y)
  BY DEF IsMove, Sees, Goes
<1>5. ASSUME a.do = "move_local", a.kind = "dir", NEW q \in Paths, Below(a.to, q),
             y.disk[q].kind # "none"
      PROVE  FALSE
  <2>1. q \in Held(y.disk) \ Held(x.disk)
    BY <1>5 DEF Ready, Held
  <2>2. IsMove(b) /\ a.to # b.to /\ ~Below(a.to, b.to) /\ a.to \in Paths
    BY <1>5 DEF IsMove, Sees
  <2>3. q \in Subtree(b.to) \/ q = Parent(b.to)
    BY <1>4, <2>1, <2>2 DEF Gains
  <2>4. Len(q) = 2 /\ Parent(q) = a.to
    BY <1>5, <2>2, Nesting
  <2>5. CASE q = b.to
    BY <1>5, <2>2, <2>5
  <2>6. CASE Below(b.to, q)
    <3>1. Parent(q) = b.to
      BY <1>4, <2>2, <2>6, Nesting
    <3> QED
      BY <2>2, <2>4, <3>1
  <2>7. CASE q = Parent(b.to)
    <3>1. Len(b.to) = 2 /\ Len(Parent(b.to)) = 1
      BY <1>4, <2>2, <2>7, ParentIsTop, Parents
    <3> QED
      BY <2>4, <2>7, <3>1
  <2> QED
    BY <1>4, <2>2, <2>3, <2>5, <2>6, <2>7, SubtreeIs
<1>6. ASSUME a.do = "move_remote", y.cloud[a.to].kind # "none" PROVE FALSE
  <2>1. a.to \in Paths /\ L[a.to].kind = "file"
    BY <1>6 DEF Sees
  <2>2. a.to \in Held(y.cloud) \ Held(x.cloud)
    BY <1>6, <2>1 DEF Ready, Held
  <2>3. IsMove(b) /\ a.to # b.to
    BY <1>6 DEF IsMove
  <2>4. b.do = "move_remote" /\ (a.to \in Subtree(b.to) \/ a.to = Parent(b.to))
    BY <1>4, <2>2, <2>3 DEF Gains
  <2>5. b.to \in Paths /\ L[b.to].kind = "file"
    BY <2>4 DEF Sees
  <2>6. CASE Below(b.to, a.to)
    BY <2>1, <2>5, <2>6, BelowADirectory
  <2>7. CASE a.to = Parent(b.to)
    <3>1. Len(b.to) = 2
      BY <2>1, <2>5, <2>7, ParentIsTop
    <3>2. Below(a.to, b.to)
      BY <2>1, <2>5, <2>7, <3>1, Nesting
    <3> QED
      BY <2>1, <2>5, <3>2, BelowADirectory
  <2> QED
    BY <2>1, <2>3, <2>4, <2>5, <2>6, <2>7, SubtreeIs
<1> QED
  BY <1>2, <1>3, <1>5, <1>6 DEF Ready

(* Where each path has one kind, that is all an action needs: nothing it   *)
(* finds is of another kind than what it has seen, and the folder of an    *)
(* upload was made by an action before it.                                 *)
OneOf(K) == \A q \in Paths : K[q] \in {{"none", "file"}, {"none", "dir"}}
Made(plan, i, x) ==
  \A k \in 1 .. i : plan[k].do = "create_remote_dir" => x.cloud[plan[k].path].kind # "none"

LEMMA ReadyIsClear ==
  ASSUME NEW L \in Folder, NEW R \in Folder, NEW B, Trees(L, R, B), Flat(L), Flat(R), Numbered(R),
         NEW K \in Ranges, OneOf(K), Fitting(K, L, R), NEW x \in Within(K),
         NEW i \in 1 .. Len(Planned(L, R, B)), Ready(Planned(L, R, B)[i], x),
         Made(Planned(L, R, B), i - 1, x)
  PROVE  Clear(x, Planned(L, R, B)[i], PlannedDirs(Planned(L, R, B)))
<1> DEFINE plan == Planned(L, R, B)
           a == plan[i]
           dirs == PlannedDirs(plan)
<1>1. Len(plan) \in Nat /\ DOMAIN plan = 1 .. Len(plan)
  BY PlanShape
<1>2. \A k \in 1 .. Len(plan) : Sees(plan[k], L, R)
  BY PlanSees
<1>3. \A k, j \in 1 .. Len(plan) : k < j /\ ~IsMove(plan[k]) => ~Below(plan[j].path, plan[k].path)
  BY PlanOrder
<1>4. Sees(a, L, R) /\ Ready(a, x) /\ Made(plan, i - 1, x)
  BY <1>2
<1> HIDE DEF plan
<1>5. ASSUME NEW q \in Paths
      PROVE  /\ "file" \in {L[q].kind, R[q].kind} =>
                  x.disk[q].kind # "dir" /\ x.cloud[q].kind # "dir"
             /\ "dir" \in {L[q].kind, R[q].kind} =>
                  x.disk[q].kind # "file" /\ x.cloud[q].kind # "file"
  BY DEF OneOf, Fitting, Within
<1>6. ASSUME NEW q \in Paths PROVE x.disk[q].kind \in Kinds /\ x.cloud[q].kind \in Kinds
  BY TidyParts DEF Within, Running, Folder
<1>7. ASSUME NEW q \in Paths, L[q].kind # "none" \/ R[q].kind # "none", Parent(q) \in Paths
      PROVE  x.disk[Parent(q)].kind # "file" /\ x.cloud[Parent(q)].kind # "file"
  <2>1. Below(Parent(q), q)
    BY <1>7, ParentIsTop, Nesting
  <2>2. L[Parent(q)].kind = "dir" \/ R[Parent(q)].kind = "dir"
    BY <1>7, <2>1, BelowADirectory
  <2> QED
    BY <1>5, <1>7, <2>2
<1>8. ASSUME a.do = "upload", Parent(a.path) \in dirs PROVE InFolder(x.cloud, a.path)
  <2>1. PICK k \in 1 .. Len(plan) :
          plan[k].do = "create_remote_dir" /\ plan[k].path = Parent(a.path)
    BY <1>1, <1>8 DEF PlannedDirs
  <2>2. a.path \in Paths /\ Parent(a.path) \in Paths /\ L[Parent(a.path)].kind = "dir"
    BY <1>2, <1>4, <2>1 DEF Sees
  <2>3. Below(plan[k].path, a.path)
    BY <2>1, <2>2, ParentIsTop, Nesting
  <2>4. k # i /\ ~IsMove(a)
    BY <1>8, <2>1 DEF IsMove
  <2>5. k \in 1 .. i - 1
    BY <1>1, <1>3, <2>3, <2>4
  <2>6. x.cloud[Parent(a.path)].kind # "none"
    BY <1>4, <2>1, <2>5 DEF Made
  <2>7. x.cloud[Parent(a.path)].kind = "dir"
    BY <1>5, <1>6, <2>2, <2>6 DEF Kinds
  <2> QED
    BY <2>7 DEF InFolder
<1> HIDE DEF a, dirs
<1>9. CASE a.do = "upload"
  <2>1. /\ a.path \in Paths /\ L[a.path].kind = "file" /\ x.disk[a.path].kind # "none"
    BY <1>4, <1>9 DEF Sees, Ready, OnDisk
  <2>2. x.disk[a.path].kind = "file" /\ x.cloud[a.path].kind # "dir" /\ Free(x.cloud, a.path)
    BY <1>5, <1>6, <1>7, <2>1 DEF Kinds, Free
  <2>3. Clear(x, a, dirs)
    BY <1>8, <1>9, <2>2 DEF Clear
  <2> QED
    BY <2>3 DEF a, dirs, plan
<1>10. CASE a.do \in {"download", "conflict_local", "create_remote_dir", "create_local_dir"}
  <2>1. a.path \in Paths
    BY <1>4 DEF Sees
  <2>2. a.do = "download" => x.disk[a.path].kind # "dir" /\ Free(x.disk, a.path)
    BY <1>4, <1>5, <1>7, <2>1 DEF Sees, Free
  <2>3. a.do = "conflict_local" => x.disk[a.path].kind = "file"
    BY <1>4, <1>5, <1>6, <2>1 DEF Sees, Ready, OnDisk, Kinds
  <2>4. a.do = "create_remote_dir" => x.cloud[a.path].kind # "file"
    BY <1>4, <1>5, <2>1 DEF Sees
  <2>5. a.do = "create_local_dir" => x.disk[a.path].kind # "file"
    BY <1>4, <1>5, <2>1 DEF Sees
  <2>6. Clear(x, a, dirs)
    BY <1>10, <2>2, <2>3, <2>4, <2>5 DEF Clear
  <2> QED
    BY <2>6 DEF a, dirs, plan
<1>11. CASE a.do = "move_local"
  <2>1. /\ a.path \in Paths /\ a.to \in Paths /\ a.kind \in {"file", "dir"}
        /\ L[a.path].kind = a.kind /\ R[a.to].kind = a.kind
        /\ x.disk[a.path].kind # "none"
    BY <1>4, <1>11 DEF Sees, Ready, OnDisk
  <2>2. a.kind = "file" =>
          /\ x.disk[a.path].kind = "file" /\ x.disk[a.to].kind # "dir"
          /\ Free(x.disk, a.to)
    BY <1>5, <1>6, <1>7, <2>1 DEF Kinds, Free
  <2>3. a.kind = "dir" =>
          /\ x.disk[a.path].kind = "dir" /\ Len(a.path) = 1 /\ ~Occupied(x.disk, a.to)
    <3> SUFFICES ASSUME a.kind = "dir"
                 PROVE  /\ x.disk[a.path].kind = "dir" /\ Len(a.path) = 1
                        /\ ~Occupied(x.disk, a.to)
      OBVIOUS
    <3>1. x.disk[a.path].kind = "dir" /\ x.disk[a.to].kind # "file"
      BY <1>5, <1>6, <2>1 DEF Kinds
    <3>2. Len(a.path) = 1
      BY <2>1, Parents DEF Flat
    <3>3. \A q \in Paths : Below(a.to, q) => x.disk[q].kind = "none"
      BY <1>4, <1>11 DEF Ready
    <3> QED
      BY <3>1, <3>2, <3>3 DEF Occupied, Held
  <2>4. Clear(x, a, dirs)
    BY <1>11, <2>2, <2>3 DEF Clear
  <2> QED
    BY <2>4 DEF a, dirs, plan
<1>12. CASE a.do = "move_remote"
  <2>1. /\ a.path \in Paths /\ a.to \in Paths /\ R[a.path].kind = "file"
        /\ L[a.path].kind = "none" /\ L[a.to].kind = "file"
        /\ x.cloud[a.path].kind # "none" /\ x.cloud[a.to].kind = "none"
    BY <1>4, <1>12 DEF Sees, Ready, InCloud
  <2>2. x.cloud[a.path].kind = "file" /\ Free(x.cloud, a.to)
    BY <1>5, <1>6, <1>7, <2>1 DEF Kinds, Free
  <2>3. ~Below(a.path, a.to)
    <3>1. ASSUME Below(a.path, a.to) PROVE FALSE
      <4>1. L[a.path].kind = "dir"
        BY <2>1, <3>1, BelowADirectory
      <4> QED
        BY <2>1, <4>1
    <3> QED
      BY <3>1
  <2>4. Clear(x, a, dirs)
    BY <1>12, <2>1, <2>2, <2>3 DEF Clear
  <2> QED
    BY <2>4 DEF a, dirs, plan
<1>13. CASE a.do = "remote_delete"
  <2>1. Clear(x, a, dirs)
    BY <1>4, <1>13 DEF Clear, Sees, Ready, InCloud
  <2> QED
    BY <2>1 DEF a, dirs, plan
<1>14. CASE a.do \notin {"upload", "download", "conflict_local", "create_remote_dir",
                          "create_local_dir", "move_local", "move_remote", "remote_delete"}
  <2>1. Clear(x, a, dirs)
    BY <1>14 DEF Clear
  <2> QED
    BY <2>1 DEF a, dirs, plan
<1> QED
  BY <1>9, <1>10, <1>11, <1>12, <1>13, <1>14

-----------------------------------------------------------------------------
(* An undisturbed pass: where every action leaves its successor what it    *)
(* needs, the whole of them ends there.                                    *)
LEMMA RunReaches ==
  ASSUME NEW plan, NEW n \in Nat, n = Len(plan), NEW T, NEW start \in T[0],
         NEW approve \in BOOLEAN, NEW fault, ~fault.crash, NEW L, NEW R, NEW B,
         \A i \in 1 .. n : \A x \in T[i - 1] :
           LET y == RunAction(x, plan[i], L, R, B, PlannedDirs(plan))
           IN /\ [x EXCEPT !.withheld = TRUE] \in T[i] \/ plan[i].do \notin Deletes
              /\ y \in T[i]
              /\ i = fault.at => Failed(x, x) \in T[i] /\ Failed(x, y) \in T[i]
  PROVE  RunPlan(plan, start, approve, fault, L, R, B) \in T[n]
<1> DEFINE last == IF fault.crash THEN fault.at ELSE Len(plan)
           Step(x, i) ==
             LET y == RunAction(x, plan[i], L, R, B, PlannedDirs(plan))
             IN IF plan[i].do \in Deletes /\ ~approve THEN [x EXCEPT !.withheld = TRUE]
                ELSE IF i = fault.at THEN Failed(x, IF fault.effect THEN y ELSE x) ELSE y
           ran == CHOOSE f : f = [i \in 0 .. last |-> IF i = 0 THEN start ELSE Step(f[i - 1], i)]
           S == UNION {T[i] : i \in 0 .. n}
<1>1. RunPlan(plan, start, approve, fault, L, R, B) = ran[last]
  BY DEF RunPlan
<1>2. last = n
  OBVIOUS
<1>3. ASSUME NEW i \in 1 .. n, NEW x \in T[i - 1] PROVE Step(x, i) \in T[i]
  OBVIOUS
<1> HIDE DEF last, Step
<1> DEFINE g == [i \in 1 .. n |-> [x \in S |-> IF x \in T[i - 1] THEN Step(x, i) ELSE x]]
<1>4. g \in [1 .. n -> [S -> S]]
  <2>1. ASSUME NEW i \in 1 .. n, NEW x \in S
        PROVE  (IF x \in T[i - 1] THEN Step(x, i) ELSE x) \in S
    <3>1. i \in 0 .. n
      OBVIOUS
    <3> QED
      BY <1>3, <3>1
  <2> HIDE DEF S
  <2> QED
    BY <2>1
<1>5. start \in S
  OBVIOUS
<1>6. PICK h : h \in Chains(n, S, start, g)
  <2> HIDE DEF g, S
  <2> QED
    BY <1>4, <1>5, Recursion
<1> HIDE DEF S
<1>7. /\ h \in [0 .. n -> S] /\ h[0] = start
      /\ \A i \in 1 .. n : h[i] = IF h[i - 1] \in T[i - 1] THEN Step(h[i - 1], i) ELSE h[i - 1]
  <2>1. ASSUME NEW i \in 1 .. n
        PROVE  h[i] = IF h[i - 1] \in T[i - 1] THEN Step(h[i - 1], i) ELSE h[i - 1]
    <3>1. i - 1 \in 0 .. n
      OBVIOUS
    <3>2. h[i - 1] \in S /\ h[i] = g[i][h[i - 1]]
      BY <1>6, <3>1 DEF Chains
    <3> QED
      BY <3>2
  <2> QED
    BY <1>6, <2>1 DEF Chains
<1> HIDE DEF g
<1>8. \A i \in 0 .. n : i \in {j \in 0 .. n : h[j] \in T[j]}
  <2> DEFINE Z == {j \in 0 .. n : h[j] \in T[j]}
  <2>1. 0 \in Z
    BY <1>7
  <2>2. ASSUME NEW i \in 0 .. n - 1, i \in Z PROVE i + 1 \in Z
    <3>1. i + 1 \in 1 .. n /\ (i + 1) - 1 = i /\ i + 1 \in 0 .. n
      OBVIOUS
    <3>2. h[i + 1] = Step(h[i], i + 1) /\ h[i] \in T[i]
      BY <1>7, <2>2, <3>1
    <3>3. h[i + 1] \in T[i + 1]
      BY <1>3, <3>1, <3>2
    <3> QED
      BY <3>1, <3>3
  <2> HIDE DEF Z
  <2>3. \A i \in 0 .. n : i \in Z
    BY <2>1, <2>2, Climb
  <2> QED
    BY <2>3 DEF Z
<1>9. h = [i \in 0 .. last |-> IF i = 0 THEN start ELSE Step(h[i - 1], i)]
  <2>1. ASSUME NEW i \in 0 .. n
        PROVE  h[i] = IF i = 0 THEN start ELSE Step(h[i - 1], i)
    <3>1. CASE i = 0
      BY <1>7, <3>1
    <3>2. CASE i # 0
      <4>1. i \in 1 .. n /\ i - 1 \in 0 .. n
        BY <3>2
      <4>2. h[i - 1] \in T[i - 1]
        BY <1>8, <4>1
      <4> QED
        BY <1>7, <3>2, <4>1, <4>2
    <3> QED
      BY <3>1, <3>2
  <2> QED
    BY <1>2, <1>7, <2>1
<1>10. ran = [i \in 0 .. last |-> IF i = 0 THEN start ELSE Step(ran[i - 1], i)]
  BY <1>9
<1> HIDE DEF ran
<1> DEFINE Z == {j \in 0 .. n : ran[j] \in T[j]}
<1>11. 0 \in Z
  BY <1>2, <1>10
<1>12. ASSUME NEW i \in 0 .. n - 1, i \in Z PROVE i + 1 \in Z
  <2>1. i + 1 \in 1 .. n /\ (i + 1) - 1 = i /\ i + 1 \in 0 .. n /\ i + 1 # 0
    OBVIOUS
  <2>2. ran[i + 1] = Step(ran[i], i + 1) /\ ran[i] \in T[i]
    BY <1>2, <1>10, <1>12, <2>1
  <2>3. ran[i + 1] \in T[i + 1]
    BY <1>3, <2>1, <2>2
  <2> QED
    BY <2>1, <2>3
<1> HIDE DEF Z
<1>13. \A i \in 0 .. n : i \in Z
  BY <1>11, <1>12, Climb
<1>14. n \in Z
  BY <1>13
<1> QED
  BY <1>1, <1>2, <1>14 DEF Z

(* What the folders an earlier action made for uploads are left.           *)
LEMMA StaysMade ==
  ASSUME NEW L, NEW R, NEW B, Trees(L, R, B), NEW K \in Ranges,
         NEW i \in 1 .. Len(Planned(L, R, B)), NEW x \in Within(K), NEW y, NEW plannedDirs,
         \A j \in 1 .. Len(Planned(L, R, B)) : Planned(L, R, B)[j].path \in Paths,
         Goes(x, Planned(L, R, B)[i], y, K, plannedDirs),
         ~x.bad, Clear(x, Planned(L, R, B)[i], plannedDirs),
         Made(Planned(L, R, B), i - 1, x)
  PROVE  Made(Planned(L, R, B), i, y)
<1> DEFINE plan == Planned(L, R, B)
           b == plan[i]
<1>1. Len(plan) \in Nat
  BY PlanShape
<1>2. \A k, j \in 1 .. Len(plan) : k < j =>
        /\ IsMove(plan[j]) => IsMove(plan[k])
        /\ ~IsMove(plan[k]) =>
             plan[k].path # plan[j].path /\ ~Below(plan[j].path, plan[k].path)
  BY PlanOrder
<1> HIDE DEF plan
<1> SUFFICES ASSUME NEW k \in 1 .. i, plan[k].do = "create_remote_dir"
             PROVE  y.cloud[plan[k].path].kind # "none"
  BY DEF Made, plan
<1>3. CASE k = i
  BY <1>3 DEF Goes, plan
<1>4. CASE k # i
  <2>1. k \in 1 .. Len(plan) /\ k < i /\ k \in 1 .. i - 1 /\ plan[k].path \in Paths
    BY <1>1, <1>4 DEF plan
  <2>2. ~IsMove(plan[k]) /\ ~IsMove(b)
    BY <1>2, <2>1 DEF IsMove, plan
  <2>3. plan[k].path # b.path /\ ~Below(b.path, plan[k].path) /\ b.path \in Paths
    BY <1>2, <2>1, <2>2 DEF plan
  <2>4. plan[k].path \notin LostRemote(b)
    BY <2>1, <2>3, SubtreeIs DEF LostRemote
  <2>5. plan[k].path \in Held(x.cloud)
    BY <2>1 DEF Made, Held, plan
  <2>6. Held(x.cloud) \ LostRemote(b) \subseteq Held(y.cloud)
    BY DEF Goes, plan
  <2> QED
    BY <2>4, <2>5, <2>6 DEF Held
<1> QED
  BY <1>3, <1>4

(* One action of such a pass, between what it and those after it need and  *)
(* what those after it still need.                                         *)
Underway(plan, K, i) ==
  {x \in Within(K) :
     /\ ~x.bad /\ ~x.failed
     /\ \A j \in i + 1 .. Len(plan) : Ready(plan[j], x)
     /\ Made(plan, i, x)}

LEMMA ActionRunsThrough ==
  ASSUME NEW L \in Folder, NEW R \in Folder, NEW B \in Records, Trees(L, R, B),
         Flat(L), Flat(R), Flat(B), Numbered(R),
         NEW K \in Ranges, OneOf(K), Fitting(K, L, R), ~Tangled(Planned(L, R, B)),
         NEW i \in 1 .. Len(Planned(L, R, B)), NEW x \in Underway(Planned(L, R, B), K, i - 1)
  PROVE  RunAction(x, Planned(L, R, B)[i], L, R, B, PlannedDirs(Planned(L, R, B)))
           \in Underway(Planned(L, R, B), K, i)
<1> DEFINE plan == Planned(L, R, B)
           b == plan[i]
           dirs == PlannedDirs(plan)
           y == Perform(x, b, L, R, B, dirs)
<1>1. /\ Len(plan) \in Nat /\ DOMAIN plan = 1 .. Len(plan)
      /\ \A k \in 1 .. Len(plan) : Orderly(plan[k], L)
  BY PlanShape
<1>2. \A k \in 1 .. Len(plan) : Sees(plan[k], L, R)
  BY PlanSees
<1>3. Suits(b, K)
  BY PlanSuits
<1>4. /\ x \in Within(K) /\ ~x.bad /\ ~x.failed /\ Made(plan, i - 1, x)
      /\ \A j \in i .. Len(plan) : Ready(plan[j], x)
  BY DEF Underway
<1>5. Clear(x, b, dirs)
  <2>1. Ready(b, x)
    BY <1>1, <1>4
  <2> QED
    BY <1>4, <2>1, ReadyIsClear
<1>6. Goes(x, b, y, K, dirs)
  <2>1. \A q \in Paths : Len(q) = 2 => B[q].kind # "dir"
    BY DEF Flat
  <2> QED
    BY <1>1, <1>3, <1>4, <2>1, PerformGoes DEF Trees
<1>7. y \in Within(K) /\ ~y.bad /\ ~y.failed
  BY <1>4, <1>5, <1>6 DEF Goes
<1>8. Made(plan, i, y)
  <2>1. \A j \in 1 .. Len(plan) : plan[j].path \in Paths
    BY <1>2 DEF Sees
  <2> QED
    BY <1>4, <1>5, <1>6, <2>1, StaysMade
<1>9. ASSUME NEW j \in i + 1 .. Len(plan) PROVE Ready(plan[j], y)
  <2>1. j \in 1 .. Len(plan) /\ i < j /\ j \in i .. Len(plan)
    BY <1>1
  <2>2. /\ OnDisk(plan[j]) => plan[j].path \notin LostLocal(b)
        /\ InCloud(plan[j]) => plan[j].path \notin LostRemote(b)
    BY <2>1, PlanSpares
  <2>3. IsMove(plan[j]) => IsMove(b)
    BY <2>1, PlanOrder
  <2>4. IsMove(plan[j]) => plan[j].to # b.to /\ ~Below(plan[j].to, b.to)
    <3> HIDE DEF y, dirs
    <3> QED
      BY <1>1, <2>1, <2>3 DEF IsMove, Tangled
  <2>5. Sees(plan[j], L, R) /\ Sees(b, L, R) /\ Ready(plan[j], x)
    BY <1>2, <1>4, <2>1
  <2> HIDE DEF plan, b, y, dirs
  <2> QED
    BY <1>4, <1>6, <2>2, <2>3, <2>4, <2>5, StaysReady
<1>10. RunAction(x, b, L, R, B, dirs) = y
  BY <1>7 DEF RunAction
<1> HIDE DEF y
<1>11. y \in Underway(plan, K, i)
  BY <1>7, <1>8, <1>9 DEF Underway
<1> QED
  BY <1>10, <1>11

(* The plan of two folders that give each name one kind, run on them as    *)
(* they are, carries out everything it holds unless moves are tangled.     *)
LEMMA PlanRunsThrough ==
  ASSUME NEW L \in Folder, NEW R \in Folder, NEW B \in Records, Trees(L, R, B),
         Flat(L), Flat(R), Flat(B), Numbered(R),
         NEW K \in Ranges, OneOf(K), Fitting(K, L, R), ~Tangled(Planned(L, R, B)),
         NEW start \in Within(K), start.disk = L, start.cloud = R, ~start.bad, ~start.failed,
         NEW approve \in BOOLEAN
  PROVE  ~RunPlan(Planned(L, R, B), start, approve, NoFault, L, R, B).failed
<1> DEFINE plan == Planned(L, R, B)
           n == Len(plan)
           T == [i \in 0 .. n |-> Underway(plan, K, i)]
<1>1. n \in Nat
  BY PlanShape
<1>2. start \in T[0]
  <2>1. \A j \in 1 .. n : Ready(plan[j], start)
    BY PlanSees, ReadyAtFirst
  <2>2. Made(plan, 0, start)
    BY DEF Made
  <2> HIDE DEF plan
  <2>3. start \in Underway(plan, K, 0)
    BY <2>1, <2>2 DEF Underway
  <2> QED
    BY <1>1, <2>3
<1>3. ASSUME NEW i \in 1 .. n, NEW x \in Underway(plan, K, i - 1)
      PROVE  RunAction(x, plan[i], L, R, B, PlannedDirs(plan)) \in Underway(plan, K, i)
  BY ActionRunsThrough
<1> HIDE DEF plan
<1>4. ASSUME NEW i \in 1 .. n, NEW x \in Underway(plan, K, i - 1), plan[i].do \in Deletes
      PROVE  [x EXCEPT !.withheld = TRUE] \in Underway(plan, K, i)
  <2> DEFINE y == [x EXCEPT !.withheld = TRUE]
  <2>1. x \in Within(K) /\ x \in Running
    BY DEF Underway, Within
  <2>2. /\ y \in Running /\ y.disk = x.disk /\ y.cloud = x.cloud /\ y.base = x.base
        /\ y.bad = x.bad /\ y.failed = x.failed
    BY <2>1 DEF Running
  <2> HIDE DEF y
  <2>3. y \in Within(K)
    BY <2>1, <2>2, StaysWithin
  <2>4. \A j \in i + 1 .. n : Ready(plan[j], y)
    <3>1. ASSUME NEW j \in i + 1 .. n PROVE Ready(plan[j], y)
      <4>1. j \in (i - 1) + 1 .. n
        BY <1>1
      <4>2. Ready(plan[j], x)
        BY <4>1 DEF Underway
      <4> QED
        BY <2>2, <4>2 DEF Ready
    <3> QED
      BY <3>1
  <2>5. Made(plan, i, y)
    <3>1. ASSUME NEW k \in 1 .. i, plan[k].do = "create_remote_dir"
          PROVE  y.cloud[plan[k].path].kind # "none"
      <4>1. k # i
        BY <1>4, <3>1 DEF Deletes
      <4>2. k \in 1 .. i - 1
        BY <1>1, <4>1
      <4>3. Made(plan, i - 1, x)
        BY DEF Underway
      <4> QED
        BY <2>2, <3>1, <4>2, <4>3 DEF Made
    <3> QED
      BY <3>1 DEF Made
  <2>6. y \in Underway(plan, K, i)
    BY <2>2, <2>3, <2>4, <2>5 DEF Underway
  <2> QED
    BY <2>6 DEF y
<1>5. ASSUME NEW i \in 1 .. n, NEW x \in T[i - 1]
      PROVE  /\ [x EXCEPT !.withheld = TRUE] \in T[i] \/ plan[i].do \notin Deletes
             /\ RunAction(x, plan[i], L, R, B, PlannedDirs(plan)) \in T[i]
  <2>1. i - 1 \in 0 .. n /\ i \in 0 .. n
    BY <1>1
  <2>2. x \in Underway(plan, K, i - 1) /\ T[i] = Underway(plan, K, i)
    BY <2>1
  <2> HIDE DEF T
  <2> QED
    BY <1>3, <1>4, <2>2
<1>6. T[n] = Underway(plan, K, n)
  BY <1>1
<1> HIDE DEF T
<1>7. RunPlan(plan, start, approve, NoFault, L, R, B) \in T[n]
  <2>1. ~NoFault.crash /\ \A i \in 1 .. n : i # NoFault.at
    BY <1>1 DEF NoFault
  <2> QED
    BY <1>1, <1>2, <1>5, <2>1, RunReaches
<1>8. ~RunPlan(plan, start, approve, NoFault, L, R, B).failed
  BY <1>6, <1>7 DEF Underway
<1> QED
  BY <1>8 DEF plan

(* No full walk plans what it cannot carry out (the order of the plan, and *)
(* the arms of execute_plan_and_commit): where the two sides give a name   *)
(* one kind, a walk nobody disturbs, whatever was cut, missed or recorded  *)
(* wrong before it, has no action that fails, unless moves are tangled.    *)
THEOREM WalksRunThrough ==
  Spec => [][OneKind /\ NeverStuck => NeverStuck']_vars
<1>1. ASSUME NInv, [Next]_vars, OneKind, NeverStuck PROVE NeverStuck'
  <2> SUFFICES ASSUME step' = "stuck" PROVE FALSE
    BY DEF NeverStuck
  <2>0. TInv /\ Shallow
    BY <1>1 DEF NInv
  <2>1. ASSUME NEW R, NEW waiting, PassOver(R, FALSE, waiting) PROVE FALSE
    BY <2>0, <2>1, PassIs DEF TInv
  <2>2. FullWalk
    <3>1. ASSUME \/ EditLocal \/ RemoteCreate \/ RemoteRevise \/ RemoteTrash
                 \/ RemoteMove \/ RemoteMoveOut \/ RemoteMoveIn
          PROVE  step' = "edit"
      BY <3>1 DEF EditLocal, RemoteCreate, RemoteRevise, RemoteTrash, RemoteMove,
                  RemoteMoveOut, RemoteMoveIn, RemoteStep
    <3>2. ASSUME ListingCatchesUp \/ UNCHANGED vars PROVE step' = step
      BY <3>2 DEF ListingCatchesUp, vars
    <3>3. Follow \/ FullWalk
      BY <1>1, <3>1, <3>2 DEF Next, NeverStuck
    <3> QED
      BY <2>1, <3>3 DEF Follow
  <2>3. PassOver(Listed, TRUE, behind \ ShownIds(Listed))
    BY <2>2 DEF FullWalk
  <2>4. PICK approve \in BOOLEAN :
          /\ RunPlan(Planned(disk, Listed, base), Start0(disk), approve, NoFault,
                     disk, Listed, base).failed
          /\ unlisted = {} /\ ~Tangled(Planned(disk, Listed, base))
    <3>1. edits \in Nat
      BY <2>0 DEF TInv
    <3> QED
      BY <2>3, <3>1, PassIs
  <2>5. Listed = cloud
    <3>1. cloud \in [Paths -> TidyNode]
      BY <2>0 DEF TInv, Folder
    <3> QED
      BY <2>4, <3>1 DEF Listed
  <2> DEFINE K == Alike(disk, cloud)
             start == Start0(disk)
  <2>6. /\ disk \in Folder /\ cloud \in Folder /\ base \in Records
        /\ disk \in [Paths -> TidyNode] /\ cloud \in [Paths -> TidyNode]
        /\ Flat(disk) /\ Flat(cloud) /\ Flat(base) /\ Numbered(cloud)
    BY <2>0 DEF TInv, Folder, Shallow
  <2>7. Recognised(disk, cloud)
    BY <1>1, <2>0, <2>5, ListedIsRecognised DEF OneKind, NoClash
  <2>8. /\ K \in Ranges /\ Fitting(K, disk, cloud)
        /\ \A q \in Paths : disk[q].kind \in K[q] /\ cloud[q].kind \in K[q]
    BY <1>1, <2>0, <2>6, <2>7, AlikeFits
  <2>9. OneOf(K)
    BY DEF OneOf, Alike
  <2> HIDE DEF K
  <2>10. /\ start \in Running /\ start.disk = disk /\ start.cloud = cloud /\ start.base = base
         /\ ~start.bad /\ ~start.failed
    BY <2>0, <2>6 DEF Start0, Running, TInv, Events
  <2>11. Trees(disk, cloud, base)
    BY <2>6 DEF Trees, Records, StoredRow
  <2> HIDE DEF start
  <2>12. start \in Within(K)
    BY <2>6, <2>8, <2>10 DEF Within, Numbered, Flat
  <2>13. ~Tangled(Planned(disk, cloud, base))
    BY <2>4, <2>5
  <2>14. ~RunPlan(Planned(disk, cloud, base), start, approve, NoFault, disk, cloud, base).failed
    BY <2>6, <2>8, <2>9, <2>10, <2>11, <2>12, <2>13, PlanRunsThrough
  <2> QED
    BY <2>4, <2>5, <2>14 DEF start
<1> QED
  BY <1>1, NInvHolds, PTL DEF Spec

(* So no walk ever gets stuck while no path is a file on one side and a    *)
(* directory on the other.                                                 *)
THEOREM NeverStuckAlike ==
  Spec /\ []OneKind => []NeverStuck
<1>1. Init => NeverStuck
  BY DEF Init, NeverStuck
<1>2. OneKind /\ NeverStuck /\ [OneKind /\ NeverStuck => NeverStuck']_vars => NeverStuck'
  BY DEF vars, NeverStuck
<1> QED
  BY <1>1, <1>2, WalksRunThrough, PTL DEF Spec

(* What two things are alike in: kind and content.                         *)
Like(a, b) == a.kind = b.kind /\ a.hash = b.hash

(* What a record tells of the remote node, and what a row left alone in a  *)
(* conflict excuses.                                                       *)
Tells(row, node) == Like(row, node) /\ (node.kind # "none" => row.id = node.id)

(* What a decision rests on, where the two sides agree on kinds.           *)
Warranted(a, L, R, B) ==
  LET p == a.path
  IN /\ a.do \in {"upload", "conflict", "conflict_local"} => L[p].kind = "file"
     /\ a.do = "download" => R[p].kind = "file"
     /\ a.do = "create_remote_dir" => L[p].kind = "dir" /\ R[p].kind = "none"
     /\ a.do = "create_local_dir" =>
          L[p].kind = "none" /\ R[p].kind = "dir" /\ a.id = R[p].id
     /\ a.do = "auto_link" =>
          /\ Like(L[p], R[p])
          /\ IF a.kind = "dir" THEN R[p].kind = "dir" /\ a.id = R[p].id
             ELSE R[p].kind = "file" /\ RemoteId(R[p], B[p]) = R[p].id
     /\ a.do = "local_delete" =>
          a.kind \in {"file", "dir"} /\ L[p].kind = a.kind /\ R[p].kind = "none"
     /\ a.do = "remote_delete" =>
          a.kind \in {"file", "dir"} /\ R[p].kind = a.kind /\ L[p].kind = "none"
     /\ a.do = "purge" => L[p].kind = "none" /\ R[p].kind = "none"
     /\ a.do \in {"upload", "download", "conflict", "conflict_local", "create_remote_dir",
                  "create_local_dir", "auto_link", "local_delete", "remote_delete", "purge"}

(* Where the planner does nothing, nothing is to be done.                  *)
AtRest(L, R, B, p) ==
  \/ B[p].status = "conflict" /\ "dir" \notin {L[p].kind, R[p].kind}
  \/ Like(L[p], R[p]) /\ Tells(B[p], R[p])

(* The planner, file by file.                                              *)
LEMMA FileWarranted ==
  ASSUME NEW L, NEW R, NEW B, Trees(L, R, B), NEW p \in Paths, NEW row \in {NoRow, B[p]},
         row.kind # "dir", L[p].kind # "dir", R[p].kind # "dir",
         row.status # "modified", R[p].kind # "none" => R[p].id # 0
  PROVE  LET a == PlanFileAt(L, R, row, p)
         IN /\ a.do # "none" => Warranted(a, L, R, B)
            /\ a.do = "none" =>
                 \/ row.status = "conflict"
                 \/ Like(L[p], R[p]) /\ Tells(row, R[p])
<1> DEFINE a == PlanFileAt(L, R, row, p)
           e == AsEntity(R[p])
           r == AsRecord(row)
           do == PlanFile(L[p].hash, e, r)
<1>1. /\ L[p].kind = "none" <=> L[p].hash = 0
      /\ R[p].kind = "none" <=> R[p].hash = 0
      /\ row.kind = "none" <=> row.hash = 0
      /\ L[p].kind \in {"none", "file"} /\ R[p].kind \in {"none", "file"}
      /\ row.kind \in {"none", "file"} /\ R[p].digest = "sha1"
  BY AsFilePlan DEF TidyNode, TidyRow, Node, TreeRecord, Kinds
<1>2. /\ L[p].hash \in Content /\ e \in Entity /\ r \in Row /\ a.do = do
      /\ (Exists(e) <=> R[p].hash # 0) /\ e.hash = R[p].hash /\ r.hash = row.hash
  BY AsFilePlan
<1>3. e.digest = "sha1" /\ e.id = R[p].id /\ r.status = row.status /\ r.id = row.id
  BY <1>1 DEF AsEntity, AsRecord
<1>4. a.path = p /\ a.kind = "file"
  BY DEF PlanFileAt, Action
<1>5. /\ RemoteId(R[p], B[p]) = IF R[p].hash # 0 THEN R[p].id ELSE B[p].id
  BY DEF RemoteId, Exists
<1> HIDE DEF a, e, r
<1>6. /\ do # "skip"
      /\ do = "none" =>
           \/ r.status = "conflict"
           \/ /\ L[p].hash = e.hash /\ L[p].hash = r.hash
              /\ Exists(e) => e.id = r.id
      /\ do = "auto_link" => L[p].hash = e.hash /\ Exists(e)
      /\ do = "conflict_local" => ~Exists(e)
  BY <1>1, <1>2, <1>3, RestingPlan
<1>7. /\ do \in Actions
      /\ do = "upload" => L[p].hash # 0
      /\ do = "download" => Exists(e)
      /\ do = "local_delete" => L[p].hash # 0 /\ ~Exists(e)
      /\ do = "remote_delete" => L[p].hash = 0 /\ Exists(e)
      /\ do = "purge" => L[p].hash = 0 /\ ~Exists(e)
      /\ do \in {"conflict", "auto_link", "conflict_local"} => L[p].hash # 0
  BY <1>2, PlanLegal
<1> HIDE DEF do
<1>8. ASSUME do # "none" PROVE Warranted(a, L, R, B)
  BY <1>1, <1>2, <1>3, <1>4, <1>5, <1>6, <1>7, <1>8 DEF Warranted, Actions, Like
<1>9. ASSUME do = "none", row.status # "conflict" PROVE Like(L[p], R[p]) /\ Tells(row, R[p])
  BY <1>1, <1>2, <1>3, <1>6, <1>9 DEF Tells, Like
<1> QED
  BY <1>2, <1>8, <1>9 DEF a

(* And path by path.                                                       *)
LEMMA DecisionWarranted ==
  ASSUME NEW L, NEW R, NEW B \in Records, Trees(L, R, B), Numbered(R),
         NEW p \in Paths, ~Clash(L, R, p), NEW proved \in BOOLEAN,
         NEW a, a = PlanEntity(L, R, B, p, proved)
  PROVE  /\ a.do # "none" => a.path = p /\ Warranted(a, L, R, B)
         /\ a.do = "none" => AtRest(L, R, B, p)
<1>1. /\ L[p].kind \in Kinds /\ R[p].kind \in Kinds /\ B[p].kind \in Kinds
      /\ L[p].kind = "file" <=> L[p].hash # 0
      /\ R[p].kind = "file" <=> R[p].hash # 0
      /\ B[p].kind = "file" <=> B[p].hash # 0
  BY TidyParts DEF Trees
<1>2. /\ B[p].status # "modified" /\ (B[p].kind = "none" => B[p] = NoRow)
      /\ R[p].kind # "none" => R[p].id # 0
  BY DEF Records, StoredRow, TidyRow, Numbered
<1>3. /\ NoRow.kind = "none" /\ NoRow.hash = 0 /\ NoRow.status = "none"
      /\ Nothing.do = "none"
  BY DEF NoRow, Nothing, Action
<1>4. a.do # "none" => a.path = p
  BY DecisionShape
<1>5. ~Reconciled(L, R, B, p) /\ (L[p].kind = "file" => R[p].kind # "dir")
      /\ (L[p].kind = "dir" => R[p].kind # "file")
  BY ClashIs DEF Reconciled
<1>6. CASE B[p].kind = "none" \/ StaleKind(L, R, B, p)
  <2>1. a = PlanFresh(L, R, p)
    BY <1>5, <1>6 DEF PlanEntity
  <2>2. CASE "file" \in {L[p].kind, R[p].kind}
    <3>1. a = PlanFileAt(L, R, NoRow, p)
      BY <2>1, <2>2 DEF PlanFresh
    <3>2. L[p].kind # "dir" /\ R[p].kind # "dir"
      BY <1>5, <2>2
    <3>3. /\ a.do # "none" => Warranted(a, L, R, B)
          /\ a.do = "none" => Like(L[p], R[p]) /\ Tells(NoRow, R[p])
      BY <1>2, <1>3, <3>1, <3>2, FileWarranted
    <3>4. a.do # "none"
      BY <1>1, <1>3, <2>2, <3>3 DEF Like, Tells
    <3> QED
      BY <1>4, <3>3, <3>4
  <2>3. CASE "file" \notin {L[p].kind, R[p].kind}
    <3>1. a \in {Action("auto_link", p, "dir", R[p].id), Action("create_remote_dir", p, "dir", R[p].id),
                 Action("create_local_dir", p, "dir", R[p].id), Nothing}
          /\ (L[p].kind = "dir" /\ R[p].kind = "dir" => a = Action("auto_link", p, "dir", R[p].id))
          /\ (L[p].kind = "dir" /\ R[p].kind # "dir" => a = Action("create_remote_dir", p, "dir", R[p].id))
          /\ (L[p].kind # "dir" /\ R[p].kind = "dir" => a = Action("create_local_dir", p, "dir", R[p].id))
          /\ (L[p].kind # "dir" /\ R[p].kind # "dir" => a = Nothing)
      BY <2>1, <2>3 DEF PlanFresh
    <3>2. CASE L[p].kind = "dir" \/ R[p].kind = "dir"
      <4>1. a.do # "none" /\ Warranted(a, L, R, B)
        BY <1>1, <2>3, <3>1, <3>2 DEF Warranted, Action, Like, Kinds
      <4> QED
        BY <1>4, <4>1
    <3>3. CASE L[p].kind # "dir" /\ R[p].kind # "dir"
      <4>1. L[p].kind = "none" /\ R[p].kind = "none" /\ a = Nothing
        BY <1>1, <2>3, <3>1, <3>3 DEF Kinds
      <4>2. B[p].kind = "none"
        BY <1>6, <4>1 DEF StaleKind
      <4> QED
        BY <1>1, <1>2, <1>3, <4>1, <4>2 DEF AtRest, Like, Tells
    <3> QED
      BY <3>2, <3>3
  <2> QED
    BY <2>2, <2>3
<1>7. CASE ~(B[p].kind = "none" \/ StaleKind(L, R, B, p))
  <2>1. L[p].kind \in {"none", B[p].kind} /\ R[p].kind \in {"none", B[p].kind}
    BY <1>7 DEF StaleKind
  <2>2. CASE B[p].kind = "dir"
    <3>1. a = PlanDir(L, R, B, p, proved)
      BY <1>5, <1>7, <2>2, ClashIs DEF PlanEntity
    <3>2. CASE L[p].kind = "dir" /\ R[p].kind = "dir"
      <4>1. CASE R[p].id \in {0, B[p].id}
        <5>1. a = Nothing /\ R[p].id = B[p].id
          BY <1>2, <3>1, <3>2, <4>1 DEF PlanDir
        <5> QED
          BY <1>1, <1>3, <2>2, <3>2, <5>1 DEF AtRest, Like, Tells
      <4>2. CASE R[p].id \notin {0, B[p].id}
        <5>1. a = Action("auto_link", p, "dir", R[p].id)
          BY <3>1, <3>2, <4>2 DEF PlanDir
        <5> QED
          BY <1>1, <3>2, <5>1 DEF Warranted, Action, Like
      <4> QED
        BY <4>1, <4>2
    <3>3. CASE L[p].kind = "dir" /\ R[p].kind # "dir"
      <4>1. a \in {Action("local_delete", p, "dir", B[p].id), Action("create_remote_dir", p, "dir", B[p].id)}
        BY <3>1, <3>3 DEF PlanDir
      <4>2. R[p].kind = "none"
        BY <2>1, <2>2, <3>3
      <4> QED
        BY <3>3, <4>1, <4>2 DEF Warranted, Action
    <3>4. CASE L[p].kind # "dir" /\ R[p].kind = "dir"
      <4>1. a \in {Action("remote_delete", p, "dir", R[p].id), Action("create_local_dir", p, "dir", R[p].id)}
        BY <1>2, <3>1, <3>4 DEF PlanDir
      <4>2. L[p].kind = "none"
        BY <2>1, <2>2, <3>4
      <4> QED
        BY <3>4, <4>1, <4>2 DEF Warranted, Action
    <3>5. CASE L[p].kind # "dir" /\ R[p].kind # "dir"
      <4>1. a = Action("purge", p, "dir", B[p].id) /\ L[p].kind = "none" /\ R[p].kind = "none"
        BY <2>1, <2>2, <3>1, <3>5 DEF PlanDir
      <4> QED
        BY <4>1 DEF Warranted, Action
    <3> QED
      BY <3>2, <3>3, <3>4, <3>5
  <2>3. CASE B[p].kind # "dir"
    <3>1. a = PlanFileAt(L, R, B[p], p)
      BY <1>5, <1>7, <2>3, ClashIs DEF PlanEntity
    <3>2. L[p].kind # "dir" /\ R[p].kind # "dir"
      BY <2>1, <2>3
    <3>3. /\ a.do # "none" => Warranted(a, L, R, B)
          /\ a.do = "none" =>
               \/ B[p].status = "conflict"
               \/ Like(L[p], R[p]) /\ Tells(B[p], R[p])
      BY <1>2, <2>3, <3>1, <3>2, FileWarranted
    <3> QED
      BY <1>4, <3>2, <3>3 DEF AtRest
  <2> QED
    BY <2>2, <2>3
<1> QED
  BY <1>6, <1>7

-----------------------------------------------------------------------------
(* The paths an action is about.  No two actions are about one path, but   *)
(* for moves to one destination.                                           *)
Scope(a) ==
  IF IsMove(a) THEN {a.path, a.to}
  ELSE IF a.kind = "dir" /\ a.do \in Deletes THEN Subtree(a.path) ELSE {a.path}

(* A folder is deleted with the proof for all that is below it.            *)
LEMMA DeletedWhole ==
  ASSUME NEW L, NEW R, NEW B, NEW p \in Paths, NEW proved \in BOOLEAN,
         NEW a, a = PlanEntity(L, R, B, p, proved), a.kind = "dir", a.do \in Deletes
  PROVE  proved
<1>1. PlanFresh(L, R, p).do \notin Deletes \/ PlanFresh(L, R, p).kind # "dir"
  <2>1. PlanFileAt(L, R, NoRow, p).kind # "dir"
    BY DEF PlanFileAt, Action
  <2> QED
    BY <2>1 DEF PlanFresh, Action, Deletes, Nothing
<1>2. PlanFileAt(L, R, B[p], p).kind # "dir"
  BY DEF PlanFileAt, Action
<1>3. Nothing.do \notin Deletes
      /\ Action("type_conflict", p, L[p].kind, R[p].id).do \notin Deletes
  BY DEF Nothing, Action, Deletes
<1>4. a = PlanDir(L, R, B, p, proved)
  BY <1>1, <1>2, <1>3 DEF PlanEntity
<1> QED
  BY <1>3, <1>4 DEF PlanDir, Action, Deletes

(* Where the actions of a plan come from.                                  *)
LEMMA PlanComes ==
  ASSUME NEW L, NEW R, NEW B, Trees(L, R, B),
         NEW i \in 1 .. Len(Planned(L, R, B)), NEW a, a = Planned(L, R, B)[i]
  PROVE  /\ a.path \in Paths
         /\ IsMove(a) =>
              /\ a \in MovesOf(L, R, B) /\ {a.path, a.to} \subseteq Settled(L, R, B)
              /\ a.to \in Paths /\ B[a.path].kind = a.kind /\ B[a.to].kind = "none"
              /\ a.kind \in {"file", "dir"}
         /\ ~IsMove(a) =>
              /\ a.path \notin Settled(L, R, B) /\ a = Decided(L, R, B, a.path)
              /\ a.do # "none"
              /\ a.kind = "dir" /\ a.do \in Deletes =>
                   Proved(L, R, B, Settled(L, R, B), a.path)
<1>1. CASE a \in MovesPlanned(L, R, B)
  <2>1. a \in MovesOf(L, R, B) /\ Suppressed(B, a) \subseteq Settled(L, R, B)
    BY <1>1 DEF MovesPlanned
  <2>2. /\ a.path \in Paths /\ a.to \in Paths /\ IsMove(a) /\ a.kind \in {"file", "dir"}
        /\ a = Transition(L, R, B, a.path) /\ a # Nothing
    BY <2>1, MoveShape DEF IsMove
  <2>3. B[a.path].kind = a.kind /\ B[a.to].kind = "none"
    BY <2>2, MovesGoToFreePlaces
  <2> QED
    BY <2>1, <2>2, <2>3 DEF Suppressed
<1>2. CASE a \notin MovesPlanned(L, R, B)
  <2>1. PICK p \in Paths \ Settled(L, R, B) : a = Decided(L, R, B, p) /\ a.do # "none"
    BY <1>2, PlanShape
  <2>2. Proved(L, R, B, Settled(L, R, B), p) \in BOOLEAN
    BY DEF Proved
  <2>3. a.path = p /\ ~IsMove(a)
    BY <2>1, <2>2, DecisionShape DEF Decided, IsMove
  <2>4. a.kind = "dir" /\ a.do \in Deletes => Proved(L, R, B, Settled(L, R, B), p)
    BY <2>1, <2>2, DeletedWhole DEF Decided
  <2> QED
    BY <2>1, <2>3, <2>4
<1> QED
  BY <1>1, <1>2

LEMMA ScopesApart ==
  ASSUME NEW L, NEW R, NEW B, Trees(L, R, B),
         NEW i \in 1 .. Len(Planned(L, R, B)), NEW j \in 1 .. Len(Planned(L, R, B)), i < j,
         NEW a, a = Planned(L, R, B)[i], NEW b, b = Planned(L, R, B)[j],
         NEW c \in Paths, c \in Scope(a), c \in Scope(b)
  PROVE  IsMove(a) /\ b.do = a.do /\ c = a.to /\ c = b.to
<1>1. /\ IsMove(b) => IsMove(a) /\ b.path \notin Suppressed(B, a)
      /\ ~IsMove(a) => a.path # b.path /\ ~Below(b.path, a.path)
      /\ a.kind = "dir" /\ a.do \in Deletes => ~Below(a.path, b.path)
      /\ b.kind = "dir" /\ b.do \in Deletes => ~Below(b.path, a.path)
  BY PlanOrder
<1>2. a.path \in Paths /\ b.path \in Paths
  BY PlanComes
<1>3. CASE IsMove(b)
  <2>1. IsMove(a) /\ c # b.path /\ c \in {a.path, a.to} /\ c \in {b.path, b.to}
    BY <1>1, <1>3 DEF Suppressed, Scope
  <2>2. /\ B[a.path].kind = a.kind /\ a.kind \in {"file", "dir"} /\ B[b.to].kind = "none"
        /\ a \in MovesOf(L, R, B) /\ b \in MovesOf(L, R, B)
    BY <1>3, <2>1, PlanComes
  <2>3. c = a.to /\ c = b.to
    BY <2>1, <2>2
  <2>4. /\ a = Transition(L, R, B, a.path) /\ a # Nothing
        /\ b = Transition(L, R, B, b.path) /\ b # Nothing
        /\ b.kind \in {"file", "dir"}
    BY <2>2, MoveShape
  <2>5. \A m \in {a, b} : /\ m.do = "move_local" => R[m.to].kind # "none"
                          /\ m.do = "move_remote" => R[m.to].kind = "none"
    BY <1>2, <2>2, <2>4, MovesGoToFreePlaces
  <2> QED
    BY <1>3, <2>1, <2>3, <2>5 DEF IsMove
<1>4. CASE ~IsMove(b) /\ IsMove(a)
  <2>1. c \in Settled(L, R, B) /\ c \in {a.path, a.to}
    BY <1>4, PlanComes DEF Scope
  <2>2. b.path \notin Settled(L, R, B)
    BY <1>4, PlanComes
  <2>3. /\ b.kind = "dir" /\ b.do \in Deletes /\ Below(b.path, c)
        /\ Proved(L, R, B, Settled(L, R, B), b.path)
    <3>1. c # b.path
      BY <2>1, <2>2
    <3>2. b.kind = "dir" /\ b.do \in Deletes /\ c \in Subtree(b.path)
      BY <1>4, <3>1 DEF Scope
    <3> QED
      BY <1>2, <1>4, <3>1, <3>2, PlanComes, SubtreeIs
  <2>4. c \notin Held(L) \cup Held(R) \cup Held(B)
    BY <2>1, <2>3 DEF Proved
  <2>5. /\ B[a.path].kind = a.kind /\ a.kind \in {"file", "dir"} /\ a \in MovesOf(L, R, B)
    BY <1>4, PlanComes
  <2>6. a = Transition(L, R, B, a.path) /\ a # Nothing
    BY <2>5, MoveShape
  <2>7. \/ R[a.to].kind # "none"
        \/ L[a.to].kind # "none"
    BY <1>2, <1>4, <2>5, <2>6, MovesGoToFreePlaces DEF IsMove
  <2> QED
    BY <2>1, <2>4, <2>5, <2>7 DEF Held
<1>5. CASE ~IsMove(b) /\ ~IsMove(a)
  <2>1. c = a.path \/ (a.kind = "dir" /\ a.do \in Deletes /\ Below(a.path, c))
    BY <1>2, <1>5, SubtreeIs DEF Scope
  <2>2. c = b.path \/ (b.kind = "dir" /\ b.do \in Deletes /\ Below(b.path, c))
    BY <1>2, <1>5, SubtreeIs DEF Scope
  <2>3. Below(a.path, c) /\ Below(b.path, c) => a.path = b.path
    BY <1>2, Parents
  <2> QED
    BY <1>1, <1>5, <2>1, <2>2, <2>3
<1> QED
  BY <1>3, <1>4, <1>5

(* Nothing found or decided is left out of the plan, but for what the      *)
(* deletion of a folder covers.                                            *)
LEMMA PlanHolds ==
  ASSUME NEW L, NEW R, NEW B, Trees(L, R, B), NEW a,
         \/ \E k \in 1 .. Len(Moves(L, R, B).moves) : a = Moves(L, R, B).moves[k]
         \/ \E p \in Paths \ Settled(L, R, B) : a = Decided(L, R, B, p) /\ a.do # "none",
         \A q \in Paths \ Settled(L, R, B) :
           LET d == Decided(L, R, B, q)
           IN d.kind = "dir" /\ d.do \in Deletes => ~Below(d.path, a.path)
  PROVE  \E i \in 1 .. Len(Planned(L, R, B)) : Planned(L, R, B)[i] = a
<1> DEFINE found == Moves(L, R, B)
           hidden == Settled(L, R, B)
           entity(p) == IF p \in hidden THEN Nothing ELSE Decided(L, R, B, p)
           rest == [i \in DOMAIN Order |-> entity(Order[i])]
           all == found.moves \o rest
           Y == MovesOf(L, R, B) \cup {entity(p) : p \in Paths}
           chosen == {i \in DOMAIN all : all[i].do # "none" /\ ~Covered(all, all[i])}
           plan == Planned(L, R, B)
           m == Len(found.moves)
<1>1. plan = Chosen(all, chosen)
  BY DEF Planned, Settled, Decided
<1>2. found.moves \in Seq(MovesOf(L, R, B))
  BY MovesAre
<1>3. Len(Order) \in Nat /\ DOMAIN Order = 1 .. Len(Order)
      /\ \A i \in 1 .. Len(Order) : Order[i] \in Paths
  BY PathsTyped DEF Paths
<1>4. rest \in Seq({entity(p) : p \in Paths}) /\ Len(rest) = Len(Order)
      /\ \A i \in 1 .. Len(Order) : rest[i] = entity(Order[i])
  <2> HIDE DEF entity
  <2>1. rest \in [1 .. Len(Order) -> {entity(p) : p \in Paths}]
    BY <1>3
  <2> QED
    BY <1>3, <2>1
<1>5. ASSUME NEW k \in 1 .. m PROVE IsMove(found.moves[k])
  <2>1. found.moves[k] \in MovesOf(L, R, B)
    BY <1>2, ElementOfSeq
  <2> QED
    BY <2>1, MoveShape DEF IsMove
<1>6. ASSUME NEW q \in Paths, entity(q).kind = "dir", entity(q).do \in Deletes
      PROVE  ~Below(entity(q).path, a.path)
  <2>1. q \notin hidden
    BY <1>6 DEF Nothing, Action, Deletes
  <2> QED
    BY <1>6, <2>1
<1>7. \/ \E k \in 1 .. m : a = found.moves[k]
      \/ \E p \in Paths : a = entity(p) /\ a.do # "none"
  OBVIOUS
<1> HIDE DEF found, entity, rest
<1>8. /\ all \in Seq(Y) /\ Len(all) = m + Len(rest)
      /\ Len(all) \in Nat /\ m \in Nat /\ Len(rest) \in Nat /\ DOMAIN all = 1 .. Len(all)
      /\ \A i \in 1 .. Len(all) :
           all[i] = IF i <= m THEN found.moves[i] ELSE rest[i - m]
  <2>1. found.moves \in Seq(Y) /\ rest \in Seq(Y)
    BY <1>2, <1>4, SeqMonotonic
  <2> HIDE DEF Y
  <2> QED
    BY <2>1, ConcatProperties, LenProperties
<1> HIDE DEF all, Y
<1>9. PICK k \in 1 .. Len(all) : all[k] = a
  <2>1. CASE \E k \in 1 .. m : a = found.moves[k]
    <3>1. PICK k \in 1 .. m : a = found.moves[k]
      BY <2>1
    <3>2. k \in 1 .. Len(all) /\ k <= m
      BY <1>8
    <3> QED
      BY <1>8, <3>1, <3>2
  <2>2. CASE \E p \in Paths : a = entity(p) /\ a.do # "none"
    <3>1. PICK p \in Paths : a = entity(p)
      BY <2>2
    <3>2. PICK l \in 1 .. Len(Order) : Order[l] = p
      BY <1>3 DEF Paths
    <3>3. m + l \in 1 .. Len(all) /\ ~(m + l <= m) /\ (m + l) - m = l
      BY <1>3, <1>4, <1>8
    <3> QED
      BY <1>4, <1>8, <3>1, <3>2, <3>3
  <2> QED
    BY <1>7, <2>1, <2>2
<1>10. all[k].do # "none"
  <2>1. \A l \in 1 .. m : found.moves[l].do # "none"
    BY <1>5 DEF IsMove
  <2> QED
    BY <1>7, <1>9, <2>1
<1>11. ASSUME NEW l \in 1 .. Len(all), all[l].kind = "dir", all[l].do \in Deletes
       PROVE  ~Below(all[l].path, a.path)
  <2>1. ~(l <= m)
    <3>1. ASSUME l <= m PROVE FALSE
      <4>1. l \in 1 .. m /\ all[l] = found.moves[l]
        BY <1>8, <3>1
      <4> QED
        BY <1>5, <1>11, <4>1 DEF IsMove, Deletes
    <3> QED
      BY <3>1
  <2>2. l - m \in 1 .. Len(Order) /\ all[l] = rest[l - m]
    BY <1>4, <1>8, <2>1
  <2>3. all[l] = entity(Order[l - m]) /\ Order[l - m] \in Paths
    BY <1>3, <1>4, <2>2
  <2> QED
    BY <1>6, <1>11, <2>3
<1>12. k \in chosen
  <2>1. ~Covered(all, all[k])
    BY <1>8, <1>9, <1>11 DEF Covered
  <2> QED
    BY <1>8, <1>10, <2>1
<1> HIDE DEF chosen, plan
<1>13. \E i \in 1 .. Len(Chosen(all, chosen)) : Chosen(all, chosen)[i] = all[k]
  <2>1. all \in Seq(Y)
    BY <1>8
  <2> DEFINE t == Chosen(all, chosen)
             Picks(x) == \A l \in 1 .. Len(all) :
                           l \in chosen => \E i \in 1 .. Len(x) : x[i] = all[l]
  <2>2. Picks(t)
    BY <2>1, ChosenInOrder
  <2> HIDE DEF t
  <2>3. \E i \in 1 .. Len(t) : t[i] = all[k]
    BY <1>12, <2>2
  <2> QED
    BY <2>3 DEF t
<1> QED
  BY <1>1, <1>9, <1>13 DEF plan

(* While no folder moves, a plan is about every path where something is to *)
(* be done.                                                                *)
MovesDir(a) == a.do = "move_local" /\ a.kind = "dir"

LEMMA PlanCovers ==
  ASSUME NEW L, NEW R, NEW B \in Records, Trees(L, R, B), Numbered(R), NoClash(L, R),
         \A i \in 1 .. Len(Planned(L, R, B)) : ~MovesDir(Planned(L, R, B)[i]),
         NEW p \in Paths, ~AtRest(L, R, B, p)
  PROVE  \E i \in 1 .. Len(Planned(L, R, B)) : p \in Scope(Planned(L, R, B)[i])
<1> DEFINE plan == Planned(L, R, B)
           moves == Moves(L, R, B).moves
           hidden == Settled(L, R, B)
<1>0. moves \in Seq(MovesOf(L, R, B)) /\ Len(moves) \in Nat
  BY MovesAre, LenProperties
<1>1. ASSUME NEW q \in Paths \ hidden
      PROVE  LET d == Decided(L, R, B, q)
             IN /\ d.do # "none" => d.path = q /\ ~IsMove(d)
                /\ d.do = "none" => AtRest(L, R, B, q)
                /\ d.kind = "dir" /\ d.do \in Deletes =>
                     d.do # "none" /\ Proved(L, R, B, hidden, q)
  <2> DEFINE d == Decided(L, R, B, q)
  <2>1. Proved(L, R, B, hidden, q) \in BOOLEAN /\ ~Clash(L, R, q)
    BY DEF Proved, NoClash
  <2>2. d = PlanEntity(L, R, B, q, Proved(L, R, B, hidden, q))
    BY DEF Decided
  <2>3. d.do \in Deletes => d.do # "none"
    BY DEF Deletes
  <2> HIDE DEF d, hidden
  <2>4. /\ d.do # "none" => d.path = q
        /\ d.do = "none" => AtRest(L, R, B, q)
    BY <2>1, <2>2, DecisionWarranted
  <2>5. d.do # "none" => ~IsMove(d)
    BY <2>1, <2>2, DecisionShape DEF IsMove
  <2>6. d.kind = "dir" /\ d.do \in Deletes => Proved(L, R, B, hidden, q)
    BY <2>1, <2>2, DeletedWhole
  <2> QED
    BY <2>3, <2>4, <2>5, <2>6 DEF d
<1>2. ASSUME NEW k \in 1 .. Len(moves) PROVE \E i \in 1 .. Len(plan) : plan[i] = moves[k]
  <2> DEFINE a == moves[k]
  <2>1. a \in MovesOf(L, R, B)
    BY <1>0, ElementOfSeq
  <2>2. a.path \in Paths /\ a = Transition(L, R, B, a.path) /\ a # Nothing
        /\ a.kind \in {"file", "dir"}
    BY <2>1, MoveShape
  <2>3. B[a.path].kind = a.kind
    BY <2>2, MovesGoToFreePlaces
  <2>4. a.path \in hidden
    <3>1. k \in DOMAIN moves
      BY <1>0, LenProperties
    <3> QED
      BY <3>1, MovesAre DEF Settled, Suppressed
  <2>5. a.path \in Held(B)
    BY <2>2, <2>3 DEF Held
  <2>6. \A q \in Paths \ hidden :
          LET d == Decided(L, R, B, q)
          IN d.kind = "dir" /\ d.do \in Deletes => ~Below(d.path, a.path)
    BY <1>1, <2>4, <2>5 DEF Proved
  <2> HIDE DEF moves
  <2>7. \E l \in 1 .. Len(Moves(L, R, B).moves) : a = Moves(L, R, B).moves[l]
    BY DEF moves
  <2> HIDE DEF a, plan
  <2>8. \E i \in 1 .. Len(plan) : plan[i] = a
    BY <2>6, <2>7, PlanHolds DEF plan
  <2> QED
    BY <2>8 DEF a
<1>3. ASSUME NEW k \in 1 .. Len(moves) PROVE IsMove(moves[k]) /\ moves[k].kind = "file"
  <2>1. moves[k] \in MovesOf(L, R, B)
    BY <1>0, ElementOfSeq
  <2>2. PICK i \in 1 .. Len(plan) : plan[i] = moves[k]
    BY <1>2
  <2>3. ~MovesDir(moves[k])
    BY <2>2
  <2> QED
    BY <2>1, <2>3, MoveShape DEF IsMove, MovesDir
<1>4. CASE p \in hidden
  <2>1. p \notin CarriedAlong(L, B, moves)
    BY <1>0, <1>3, LenProperties DEF CarriedAlong
  <2>2. p \in Moves(L, R, B).hidden
    BY <1>4, <2>1 DEF Settled
  <2>3. PICK k \in 1 .. Len(moves) : p \in Suppressed(B, moves[k])
    BY <2>2, MovesInOrder
  <2>4. p \in Scope(moves[k])
    BY <1>3, <2>3 DEF Suppressed, Scope
  <2> QED
    BY <1>2, <2>4
<1>5. CASE p \notin hidden
  <2> DEFINE a == Decided(L, R, B, p)
  <2>1. a.do # "none" /\ a.path = p
    BY <1>1, <1>5
  <2>2. CASE \A q \in Paths \ hidden :
               LET d == Decided(L, R, B, q)
               IN d.kind = "dir" /\ d.do \in Deletes => ~Below(d.path, a.path)
    <3>1. PICK i \in 1 .. Len(plan) : plan[i] = a
      <4> HIDE DEF plan
      <4>1. \E i \in 1 .. Len(plan) : plan[i] = a
        BY <1>5, <2>1, <2>2, PlanHolds DEF plan
      <4> QED
        BY <4>1
    <3>2. p \in Scope(a)
      BY <2>1, SubtreeIs DEF Scope
    <3> QED
      BY <3>1, <3>2
  <2>3. CASE \E q \in Paths \ hidden :
               LET d == Decided(L, R, B, q)
               IN d.kind = "dir" /\ d.do \in Deletes /\ Below(d.path, a.path)
    <3>1. PICK q \in Paths \ hidden :
            LET d == Decided(L, R, B, q)
            IN d.kind = "dir" /\ d.do \in Deletes /\ Below(d.path, a.path)
      BY <2>3
    <3> DEFINE d == Decided(L, R, B, q)
    <3>2. d.path = q /\ d.do # "none" /\ ~IsMove(d) /\ Below(q, p)
      BY <1>1, <2>1, <3>1
    <3>3. \A r \in Paths \ hidden :
            LET e == Decided(L, R, B, r)
            IN e.kind = "dir" /\ e.do \in Deletes => ~Below(e.path, d.path)
      <4>1. ASSUME NEW r \in Paths \ hidden, Decided(L, R, B, r).kind = "dir",
                   Decided(L, R, B, r).do \in Deletes, Below(Decided(L, R, B, r).path, d.path)
            PROVE  FALSE
        <5>1. Decided(L, R, B, r).path = r
          BY <1>1, <4>1
        <5>2. Len(q) = 2 /\ Len(q) = 1
          BY <3>2, <4>1, <5>1, Parents
        <5> QED
          BY <5>2
      <4> QED
        BY <4>1
    <3>4. PICK i \in 1 .. Len(plan) : plan[i] = d
      <4> HIDE DEF plan
      <4>1. \E i \in 1 .. Len(plan) : plan[i] = d
        BY <3>2, <3>3, PlanHolds DEF plan
      <4> QED
        BY <4>1
    <3>5. p \in Scope(d)
      BY <3>1, <3>2, SubtreeIs DEF Scope
    <3> QED
      BY <3>4, <3>5
  <2> QED
    BY <2>2, <2>3
<1> QED
  BY <1>4, <1>5

-----------------------------------------------------------------------------
(* What the arms do, once more, to the end that what they set right can be *)
(* told: Clean is what none of them has cut short.                         *)
Clean(x) == ~x.failed /\ ~x.vanished /\ ~x.withheld /\ ~x.rescan

(* Nothing is undone: not a mark, not a change of the cloud that is told.  *)
Later(x, y) ==
  /\ Clean(y) => Clean(x)
  /\ ~y.bad => ~x.bad
  /\ y.told = <<>> => x.told = <<>> /\ y.cloud = x.cloud

LEMMA LaterSteps ==
  ASSUME NEW x \in Running, NEW p \in Paths
  PROVE  /\ Later(x, x) /\ Bad(x).bad /\ ~Clean(Vanish(x))
         /\ \A row : Later(x, Write(x, p, row)) /\ Write(x, p, row).told = x.told
         /\ \A id : Later(x, Misnames(x, p, id)) /\ Misnames(x, p, id).told = x.told
         /\ Later(x, Forget(x, p)) /\ Forget(x, p).told = x.told
         /\ \A node, type :
              LET y == PutRemote(x, p, node, type)
              IN Later(x, y) /\ (type \in EventTypes /\ node \in TidyNode => y.told # <<>>)
<1>1. Later(x, x) /\ Bad(x).bad /\ ~Clean(Vanish(x))
  BY DEF Later, Bad, Vanish, Clean, Running
<1>2. ASSUME NEW row PROVE Later(x, Write(x, p, row)) /\ Write(x, p, row).told = x.told
  BY DEF Later, Write, Clean, Running
<1>3. ASSUME NEW id PROVE Later(x, Misnames(x, p, id)) /\ Misnames(x, p, id).told = x.told
  BY DEF Later, Misnames, Clean, Running
<1>4. Later(x, Forget(x, p)) /\ Forget(x, p).told = x.told
  BY DEF Later, Forget, Clean, Running
<1>5. ASSUME NEW node, NEW type
      PROVE  LET y == PutRemote(x, p, node, type)
             IN Later(x, y) /\ (type \in EventTypes /\ node \in TidyNode => y.told # <<>>)
  <2> DEFINE tree == [x.cloud EXCEPT ![p] = node]
             e == Told(type, tree, p)
             y == PutRemote(x, p, node, type)
  <2>1. x.told \in Seq([type : EventTypes, id : Nat, parent : Nat])
    BY DEF Running, Events
  <2>2. Append(x.told, e) # <<>>
    BY <2>1, SMTT(30)
  <2> HIDE DEF tree, e
  <2>3. /\ y.told = Append(x.told, e) /\ y.failed = x.failed /\ y.vanished = x.vanished
        /\ y.withheld = x.withheld /\ y.rescan = x.rescan /\ y.bad = x.bad
    BY DEF PutRemote, Running, tree, e
  <2> HIDE DEF y
  <2>4. Later(x, y) /\ y.told # <<>>
    BY <2>2, <2>3 DEF Later, Clean
  <2> QED
    BY <2>4 DEF y
<1> QED
  BY <1>1, <1>2, <1>3, <1>4, <1>5

LEMMA LaterThan ==
  ASSUME NEW x, NEW y, NEW z, Later(x, y), Later(y, z)
  PROVE  Later(x, z)
BY DEF Later

LEMMA EnsuringIsLater ==
  ASSUME NEW x \in Running, NEW d \in Tops
  PROVE  Later(x, EnsureRemote(x, d)) /\ Later(x, EnsureLocal(x, d))
<1>1. d = Beginning \/ (d \in Paths /\ Len(d) = 1)
  BY DEF Tops
<1>2. Later(x, EnsureRemote(x, d))
  <2>1. EnsureRemote(x, d) = IF d = Beginning THEN x ELSE Making(x, d)
    BY <1>1, EnsureRemoteIs
  <2>2. Later(x, x)
    BY DEF Later
  <2>3. Later(x, Bad(x))
    BY DEF Later, Bad, Clean, Running
  <2>4. d \in Paths => Later(x, PutRemote(x, d, Dir(x.lastId + 1), "created"))
    BY LaterSteps
  <2> QED
    BY <1>1, <2>1, <2>2, <2>3, <2>4 DEF Making
<1>3. Later(x, EnsureLocal(x, d))
  BY DEF Later, EnsureLocal, Bad, Clean, Running
<1> QED
  BY <1>2, <1>3

(* Where an action makes something, here and there.                        *)
Into(a) == IF IsMove(a) THEN a.to ELSE a.path
Here(a) ==
  IF a.do \in {"download", "create_local_dir", "move_local", "local_delete"} THEN Scope(a) ELSE {}
There(a) ==
  IF a.do \in {"upload", "create_remote_dir", "move_remote", "remote_delete"} THEN Scope(a) ELSE {}

(* What is not in its scope it leaves alone, but for a missing folder on   *)
(* the way, and for records below a file, where nothing is.                *)
Beyond(x, a, y) ==
  /\ \A q \in Paths \ Here(a) :
       \/ Like(y.disk[q], x.disk[q])
       \/ /\ a.do \in {"download", "move_local"} /\ q = Parent(Into(a))
          /\ x.disk[q].kind = "none" /\ y.disk[q].kind = "dir"
  /\ \A q \in Paths \ There(a) :
       \/ Like(y.cloud[q], x.cloud[q])
       \/ /\ a.do \in {"upload", "move_remote"} /\ q = Parent(Into(a))
          /\ x.cloud[q].kind = "none" /\ y.cloud[q].kind = "dir"
  /\ \A q \in Paths \ Scope(a) :
       \/ y.base[q] = x.base[q]
       \/ /\ y.base[q] = NoRow /\ Below(a.path, q)
          /\ x.disk[a.path].kind # "dir" /\ x.cloud[a.path].kind # "dir"

(* And what it does in its scope.                                          *)
Sets(x, a, y, L, R, B) ==
  LET p == a.path
  IN /\ a.do = "upload" =>
          /\ Like(y.cloud[p], x.disk[p]) /\ x.disk[p].kind = "file"
          /\ y.base[p].kind = "file" /\ y.base[p].hash = L[p].hash /\ y.told # <<>>
     /\ a.do = "download" =>
          /\ Like(y.disk[p], x.cloud[p]) /\ x.cloud[p].kind = "file"
          /\ y.base[p] = FileRow(x.cloud[p].hash, R[p].id, "synced")
     /\ a.do \in {"conflict", "conflict_local"} => y.base[p].status = "conflict"
     /\ a.do = "create_remote_dir" => y.cloud[p].kind = "dir" /\ y.base[p].kind = "dir"
     /\ a.do = "create_local_dir" => y.disk[p].kind = "dir" /\ y.base[p] = DirRow(a.id)
     /\ a.do = "move_local" =>
          /\ Like(y.disk[a.to], x.disk[p]) /\ x.disk[p].kind = "file"
          /\ y.disk[p].kind = "none" /\ y.base[p] = NoRow
          /\ y.base[a.to] = FileRow(x.disk[p].hash, a.id, "synced")
     /\ a.do = "move_remote" =>
          /\ Like(y.cloud[a.to], x.cloud[p]) /\ x.cloud[p].kind = "file"
          /\ y.cloud[p].kind = "none" /\ y.base[p] = NoRow
          /\ y.base[a.to] = FileRow(L[a.to].hash, a.id, "synced") /\ y.told # <<>>
     /\ a.do = "auto_link" =>
          y.base[p] = IF a.kind = "dir" THEN DirRow(a.id)
                      ELSE FileRow(L[p].hash, RemoteId(R[p], B[p]), "synced")
     /\ a.do = "remote_delete" =>
          /\ \A q \in Scope(a) : y.cloud[q].kind = "none" /\ y.base[q] = NoRow
          /\ y.told # <<>>
     /\ a.do = "local_delete" =>
          \A q \in Scope(a) : y.disk[q].kind = "none" /\ y.base[q] = NoRow
     /\ a.do = "purge" => y.base[p] = NoRow

(* What it has to find for that: files where it is planned for files.      *)
Tame(x, a) ==
  /\ a.path \in Paths /\ a.id \in Nat /\ ~MovesDir(a)
  /\ a.do \in {"create_remote_dir", "create_local_dir"} => Len(a.path) = 1
  /\ (IsMove(a) \/ a.do \in Deletes) /\ a.kind # "dir" =>
       x.disk[a.path].kind # "dir" /\ x.cloud[a.path].kind # "dir"
  /\ IsMove(a) => /\ a.to \in Paths /\ a.to # a.path /\ a.kind = "file"
                  /\ Parent(a.to) # a.path

Works(x, a, y, L, R, B) ==
  /\ Later(x, y)
  /\ ~y.bad /\ Clean(y) => Beyond(x, a, y) /\ Sets(x, a, y, L, R, B)

(* Whoever only writes records in its scope leaves the rest alone.         *)
LEMMA OnlyRecords ==
  ASSUME NEW x, NEW a, NEW y, y.disk = x.disk, y.cloud = x.cloud,
         \A q \in Paths \ Scope(a) : y.base[q] = x.base[q]
  PROVE  Beyond(x, a, y)
BY DEF Beyond, Like

LEMMA UploadWorks ==
  ASSUME NEW x \in Running, NEW a, Tame(x, a), a.do = "upload", NEW plannedDirs,
         NEW L \in [Paths -> TidyNode], NEW R \in [Paths -> TidyNode], NEW B \in Records,
         L[a.path].kind = "file"
  PROVE  Works(x, a, Upload(x, a.path, L, R, B, plannedDirs), L, R, B)
<1> DEFINE p == a.path
           y == IF Parent(p) \in plannedDirs THEN x ELSE EnsureRemote(x, Parent(p))
           old == y.cloud[p]
           sent == y.disk[p].hash
           z == IF old.kind = "file"
                THEN PutRemote(y, p, File(sent, old.id), "updated")
                ELSE PutRemote(y, p, File(sent, y.lastId + 1), "created")
           row == RecordAfter("upload", L[p].hash, 0, R[p], B[p])
           v == Upload(x, p, L, R, B, plannedDirs)
<1>1. p \in Paths /\ p # Parent(p) /\ Parent(p) \in Tops /\ Parent(p) \in Paths \cup {Beginning}
      /\ Scope(a) = {p} /\ There(a) = {p} /\ Here(a) = {} /\ Into(a) = p
  <2>1. p \in Paths
    BY DEF Tame
  <2> QED
    BY <2>1, ParentIsTop DEF Scope, There, Here, Into, IsMove, Deletes
<1>2. /\ y \in Running /\ y.disk = x.disk /\ y.base = x.base /\ Later(x, y)
      /\ \A q \in Paths :
           y.cloud[q] = x.cloud[q]
             \/ (q = Parent(p) /\ x.cloud[q].kind = "none" /\ y.cloud[q].kind = "dir")
  <2>1. CASE Parent(p) \in plannedDirs
    BY <1>1, <2>1, LaterSteps
  <2>2. CASE Parent(p) \notin plannedDirs
    <3>1. y = EnsureRemote(x, Parent(p))
      BY <2>2
    <3> HIDE DEF y
    <3>2. y \in Running /\ y.disk = x.disk /\ y.base = x.base
      BY <1>1, <3>1, EnsuringRemote
    <3>3. \A q \in Paths :
            y.cloud[q] = x.cloud[q]
              \/ (q = Parent(p) /\ x.cloud[q].kind = "none" /\ y.cloud[q].kind = "dir")
      BY <1>1, <3>1, EnsuringTop
    <3>4. Later(x, y)
      BY <1>1, <3>1, EnsuringIsLater
    <3> QED
      BY <3>2, <3>3, <3>4
  <2> QED
    BY <2>1, <2>2
<1> HIDE DEF y
<1>3. CASE y.bad \/ y.disk[p].kind # "file" \/ old.kind = "dir" \/ ~InFolder(y.cloud, p)
  <2>1. v = Bad(y)
    BY <1>3 DEF Upload, y
  <2>2. v.bad /\ Later(y, v)
    BY <1>2, <2>1 DEF Later, Bad, Clean, Running
  <2> HIDE DEF v
  <2>3. Works(x, a, v, L, R, B)
    BY <1>2, <2>2, LaterThan DEF Works
  <2> QED
    BY <2>3 DEF v
<1>4. CASE ~(y.bad \/ y.disk[p].kind # "file" \/ old.kind = "dir" \/ ~InFolder(y.cloud, p))
  <2>1. v = Write(Misnames(z, p, row.id), p, FileRow(row.hash, row.id, "synced"))
    BY <1>4 DEF Upload, y
  <2>2. sent \in Nat \ {0} /\ old.id \in Nat /\ y.lastId + 1 \in Nat \ {0}
    BY <1>1, <1>2, <1>4, TidyParts DEF Running, Folder
  <2>3. /\ File(sent, old.id) \in TidyNode /\ File(sent, y.lastId + 1) \in TidyNode
        /\ "updated" \in EventTypes /\ "created" \in EventTypes
    BY <2>2, TidyThings DEF EventTypes
  <2>4. PICK node \in TidyNode, type \in EventTypes :
          z = PutRemote(y, p, node, type) /\ node.kind = "file" /\ node.hash = sent
    BY <2>3 DEF File
  <2> HIDE DEF z
  <2>5. /\ z \in Running /\ z.disk = y.disk /\ z.base = y.base
        /\ z.cloud = [y.cloud EXCEPT ![p] = node]
    <3>1. y \in Running /\ InFolder(y.cloud, p) /\ y.cloud[p].kind # "dir"
      BY <1>2, <1>4
    <3> QED
      BY <1>1, <2>4, <3>1, PuttingIs
  <2>6. Later(y, z) /\ z.told # <<>>
    BY <1>1, <1>2, <2>4, LaterSteps
  <2>7. row.hash = L[p].hash /\ row.id \in Nat
    <3>1. L[p] \in TidyNode /\ R[p] \in TidyNode /\ B[p] \in TidyRow
      BY <1>1 DEF Records, StoredRow
    <3> QED
      BY <3>1, StagedId
  <2> HIDE DEF row
  <2> DEFINE m == Misnames(z, p, row.id)
  <2>8. /\ m \in Running /\ m.disk = z.disk /\ m.cloud = z.cloud /\ m.base = z.base
        /\ Later(z, m) /\ m.told = z.told
    BY <1>1, <2>5, <2>7, Misnaming, Flags, LaterSteps
  <2>9. v = Write(m, p, FileRow(row.hash, row.id, "synced"))
    BY <2>1
  <2> HIDE DEF m, v
  <2>10. /\ v.disk = m.disk /\ v.cloud = m.cloud /\ Later(m, v) /\ v.told = m.told
         /\ \A q \in Paths : v.base[q] = IF q = p THEN FileRow(row.hash, row.id, "synced")
                                         ELSE m.base[q]
    <3>1. v.disk = m.disk /\ v.cloud = m.cloud
      BY <2>8, <2>9 DEF Write, Running
    <3> QED
      BY <1>1, <2>8, <2>9, <3>1, Flags, LaterSteps
  <2>11. Later(x, v)
    BY <1>2, <2>6, <2>8, <2>10, LaterThan
  <2>12. /\ v.disk = x.disk /\ v.told # <<>>
         /\ \A q \in Paths : q # p => v.base[q] = x.base[q] /\ v.cloud[q] = y.cloud[q]
         /\ v.cloud[p] = node /\ v.base[p] = FileRow(row.hash, row.id, "synced")
    <3>1. y.cloud \in [Paths -> TidyNode]
      BY <1>2 DEF Running, Folder
    <3> QED
      BY <1>1, <1>2, <2>5, <2>6, <2>8, <2>10, <3>1
  <2>13. Beyond(x, a, v)
    BY <1>1, <1>2, <2>12 DEF Beyond, Like
  <2>14. Sets(x, a, v, L, R, B)
    BY <1>1, <1>2, <1>4, <2>4, <2>7, <2>12 DEF Sets, Like, FileRow
  <2>15. Works(x, a, v, L, R, B)
    BY <2>11, <2>13, <2>14 DEF Works
  <2> QED
    BY <2>15 DEF v
<1> QED
  BY <1>3, <1>4

LEMMA DownloadWorks ==
  ASSUME NEW x \in Running, NEW a, Tame(x, a), a.do = "download",
         NEW L, NEW R \in [Paths -> TidyNode], NEW B
  PROVE  Works(x, a, Download(x, a.path, R), L, R, B)
<1> DEFINE p == a.path
           y == EnsureLocal(x, Parent(p))
           tree == [y.disk EXCEPT ![p] = File(y.cloud[p].hash, 0)]
           row == FileRow(y.cloud[p].hash, R[p].id, "synced")
           v == Download(x, p, R)
<1>1. p \in Paths /\ p # Parent(p) /\ Parent(p) \in Tops /\ Parent(p) \in Paths \cup {Beginning}
      /\ Scope(a) = {p} /\ There(a) = {} /\ Here(a) = {p} /\ Into(a) = p
  <2>1. p \in Paths
    BY DEF Tame
  <2> QED
    BY <2>1, ParentIsTop DEF Scope, There, Here, Into, IsMove, Deletes
<1>2. /\ y \in Running /\ y.cloud = x.cloud /\ y.base = x.base /\ Later(x, y)
      /\ \A q \in Paths :
           \/ Like(y.disk[q], x.disk[q])
           \/ q = Parent(p) /\ x.disk[q].kind = "none" /\ y.disk[q].kind = "dir"
  <2>1. /\ y \in Running /\ y.cloud = x.cloud /\ y.base = x.base
        /\ \A q \in Paths :
             /\ y.disk[q] = x.disk[q] \/ (q \in Way(Parent(p)) /\ y.disk[q] = Dir(0))
             /\ x.disk[q].kind = "file" => y.disk[q] = x.disk[q]
    BY <1>1, EnsuringLocal
  <2>2. Later(x, y)
    BY <1>1, EnsuringIsLater
  <2>3. \A q \in Paths : y.disk[q] = x.disk[q] \/ q = Parent(p)
    BY <1>1, EnsuringTopLocal
  <2>4. \A q \in Paths : x.disk[q].kind \in Kinds /\ (x.disk[q].kind = "file" <=> x.disk[q].hash # 0)
    BY TidyParts DEF Running, Folder
  <2> HIDE DEF y
  <2>5. ASSUME NEW q \in Paths
        PROVE  \/ Like(y.disk[q], x.disk[q])
               \/ q = Parent(p) /\ x.disk[q].kind = "none" /\ y.disk[q].kind = "dir"
    BY <2>1, <2>3, <2>4 DEF Like, Dir, Kinds
  <2> QED
    BY <2>1, <2>2, <2>5
<1> HIDE DEF y
<1>3. CASE y.bad \/ y.disk[p].kind = "dir"
  <2>1. v = Bad(y)
    BY <1>3 DEF Download, y
  <2>2. v.bad /\ Later(y, v)
    BY <1>2, <2>1 DEF Later, Bad, Clean, Running
  <2> HIDE DEF v
  <2>3. Works(x, a, v, L, R, B)
    BY <1>2, <2>2, LaterThan DEF Works
  <2> QED
    BY <2>3 DEF v
<1>4. CASE ~(y.bad \/ y.disk[p].kind = "dir") /\ y.cloud[p].kind # "file"
  <2>1. v = Vanish(y)
    BY <1>4 DEF Download, y
  <2>2. ~Clean(v) /\ Later(y, v)
    BY <1>2, <2>1 DEF Later, Vanish, Clean, Running
  <2> HIDE DEF v
  <2>3. Works(x, a, v, L, R, B)
    BY <1>2, <2>2, LaterThan DEF Works
  <2> QED
    BY <2>3 DEF v
<1>5. CASE ~(y.bad \/ y.disk[p].kind = "dir") /\ y.cloud[p].kind = "file"
  <2>1. v = Write([y EXCEPT !.disk = tree], p, row)
    BY <1>5 DEF Download, y
  <2> HIDE DEF tree, row
  <2>2. /\ v.disk = tree /\ v.cloud = y.cloud /\ v.base = [y.base EXCEPT ![p] = row]
        /\ Later(y, v)
    BY <1>2, <2>1 DEF Write, Running, Later, Clean
  <2>3. y.disk \in [Paths -> TidyNode] /\ y.base \in [Paths -> StoredRow]
    BY <1>2 DEF Running, Folder, Records
  <2> HIDE DEF v
  <2>4. /\ v.cloud = x.cloud /\ v.disk[p] = File(x.cloud[p].hash, 0)
        /\ v.base[p] = FileRow(x.cloud[p].hash, R[p].id, "synced")
        /\ \A q \in Paths : q # p => v.base[q] = x.base[q] /\ v.disk[q] = y.disk[q]
    BY <1>1, <1>2, <2>2, <2>3 DEF tree, row
  <2>5. Beyond(x, a, v)
    BY <1>1, <1>2, <2>4 DEF Beyond, Like
  <2>6. Sets(x, a, v, L, R, B)
    BY <1>1, <1>2, <1>5, <2>4 DEF Sets, Like, File
  <2>7. Works(x, a, v, L, R, B)
    BY <1>2, <2>2, <2>5, <2>6, LaterThan DEF Works
  <2> QED
    BY <2>7 DEF v
<1> QED
  BY <1>3, <1>4, <1>5

LEMMA KeepBothWorks ==
  ASSUME NEW x \in Running, NEW a, Tame(x, a), a.do \in {"conflict", "conflict_local"},
         NEW L, NEW R, NEW B
  PROVE  Works(x, a, KeepBoth(x, a.path, a.do, L, R, B), L, R, B)
<1> DEFINE p == a.path
           frozen == FileRow(L[p].hash, RecordAfter(a.do, L[p].hash, 0, R[p], B[p]).id, "conflict")
           v == KeepBoth(x, p, a.do, L, R, B)
<1>1. p \in Paths /\ Scope(a) = {p} /\ a.do \notin {"upload", "download", "move_local", "move_remote"}
  BY DEF Tame, Scope, IsMove, Deletes
<1>2. CASE v \in {Bad(x), Vanish(x)}
  <2>1. (v.bad \/ ~Clean(v)) /\ Later(x, v)
    BY <1>2 DEF Later, Vanish, Bad, Clean, Running
  <2> QED
    BY <2>1 DEF Works
<1>3. CASE v \notin {Bad(x), Vanish(x)}
  <2>1. PICK c : v = Write([x EXCEPT !.copies = c], p, frozen)
    BY <1>3 DEF KeepBoth
  <2> HIDE DEF frozen
  <2>2. /\ v.disk = x.disk /\ v.cloud = x.cloud /\ v.base = [x.base EXCEPT ![p] = frozen]
        /\ Later(x, v)
    BY <2>1 DEF Write, Running, Later, Clean
  <2>3. x.base \in [Paths -> StoredRow]
    BY DEF Running, Records
  <2> HIDE DEF v
  <2>4. v.base[p] = frozen /\ \A q \in Paths : q # p => v.base[q] = x.base[q]
    BY <1>1, <2>2, <2>3
  <2>5. Beyond(x, a, v)
    BY <1>1, <2>2, <2>4, OnlyRecords
  <2>6. Sets(x, a, v, L, R, B)
    BY <2>4 DEF Sets, FileRow, frozen
  <2>7. Works(x, a, v, L, R, B)
    BY <2>2, <2>5, <2>6 DEF Works
  <2> QED
    BY <2>7 DEF v
<1> QED
  BY <1>2, <1>3

LEMMA CreateRemoteWorks ==
  ASSUME NEW x \in Running, NEW a, Tame(x, a), a.do = "create_remote_dir",
         NEW L, NEW R, NEW B \in Records
  PROVE  Works(x, a, CreateRemoteDirectory(x, a.path, a.id, B), L, R, B)
<1> DEFINE p == a.path
           y == EnsureRemote(x, p)
           kept == IF a.id # 0 THEN a.id ELSE B[p].id
           m == Misnames(y, p, kept)
           v == CreateRemoteDirectory(x, p, a.id, B)
<1>1. p \in Paths /\ p \in Tops /\ Scope(a) = {p} /\ There(a) = {p} /\ Here(a) = {}
  BY DEF Tame, Tops, Scope, There, Here, IsMove, Deletes
<1>2. /\ y \in Running /\ y.disk = x.disk /\ y.base = x.base /\ Later(x, y)
      /\ ~y.bad => y.cloud[p].kind = "dir"
      /\ \A q \in Paths : q # p => y.cloud[q] = x.cloud[q]
  <2>1. /\ y \in Running /\ y.disk = x.disk /\ y.base = x.base
        /\ ~y.bad => \A q \in Way(p) : y.cloud[q].kind = "dir"
    BY <1>1, EnsuringRemote
  <2>2. \A q \in Paths : y.cloud[q] = x.cloud[q] \/ q = p
    BY <1>1, EnsuringTop
  <2>3. Later(x, y) /\ p \in Way(p)
    BY <1>1, EnsuringIsLater DEF Way
  <2> HIDE DEF y
  <2> QED
    BY <2>1, <2>2, <2>3
<1> HIDE DEF y
<1>3. CASE y.bad
  <2>1. v = y
    BY <1>3 DEF CreateRemoteDirectory, y
  <2> QED
    BY <1>2, <1>3, <2>1 DEF Works
<1>4. CASE ~y.bad
  <2>1. v = Write(m, p, DirRow(kept))
    BY <1>4 DEF CreateRemoteDirectory, y
  <2>2. kept \in Nat
    BY <1>1, TidyParts DEF Tame, Records
  <2> HIDE DEF kept
  <2>3. /\ m \in Running /\ m.disk = y.disk /\ m.cloud = y.cloud /\ m.base = y.base
        /\ Later(y, m)
    BY <1>1, <1>2, <2>2, Misnaming, Flags, LaterSteps
  <2> HIDE DEF m
  <2>4. /\ v.disk = m.disk /\ v.cloud = m.cloud /\ v.base = [m.base EXCEPT ![p] = DirRow(kept)]
        /\ Later(m, v)
    BY <2>1, <2>3 DEF Write, Running, Later, Clean
  <2>5. m.base \in [Paths -> StoredRow]
    BY <2>3 DEF Running, Records
  <2> HIDE DEF v
  <2>6. v.base[p] = DirRow(kept) /\ \A q \in Paths : q # p => v.base[q] = x.base[q]
    BY <1>1, <1>2, <2>3, <2>4, <2>5
  <2>7. Later(x, v)
    BY <1>2, <2>3, <2>4, LaterThan
  <2>8. Beyond(x, a, v)
    BY <1>1, <1>2, <2>3, <2>4, <2>6 DEF Beyond, Like
  <2>9. Sets(x, a, v, L, R, B)
    BY <1>2, <1>4, <2>3, <2>4, <2>6 DEF Sets, DirRow
  <2>10. Works(x, a, v, L, R, B)
    BY <2>7, <2>8, <2>9 DEF Works
  <2> QED
    BY <2>10 DEF v
<1> QED
  BY <1>3, <1>4

LEMMA CreateLocalWorks ==
  ASSUME NEW x \in Running, NEW a, Tame(x, a), a.do = "create_local_dir",
         NEW L, NEW R, NEW B
  PROVE  Works(x, a, CreateLocalDirectory(x, a.path, a.id), L, R, B)
<1> DEFINE p == a.path
           y == EnsureLocal(x, p)
           v == CreateLocalDirectory(x, p, a.id)
<1>1. p \in Paths /\ p \in Tops /\ Scope(a) = {p} /\ There(a) = {} /\ Here(a) = {p}
  BY DEF Tame, Tops, Scope, There, Here, IsMove, Deletes
<1>2. /\ y \in Running /\ y.cloud = x.cloud /\ y.base = x.base /\ Later(x, y)
      /\ ~y.bad => y.disk[p].kind = "dir"
      /\ \A q \in Paths : q # p => y.disk[q] = x.disk[q]
  <2>1. /\ y \in Running /\ y.cloud = x.cloud /\ y.base = x.base
        /\ ~y.bad => \A q \in Paths : q \in Way(p) => y.disk[q].kind = "dir"
    BY <1>1, EnsuringLocal
  <2>2. \A q \in Paths : y.disk[q] = x.disk[q] \/ q = p
    BY <1>1, EnsuringTopLocal
  <2>3. Later(x, y) /\ p \in Way(p)
    BY <1>1, EnsuringIsLater DEF Way
  <2> HIDE DEF y
  <2> QED
    BY <1>1, <2>1, <2>2, <2>3
<1> HIDE DEF y
<1>3. CASE y.bad
  <2>1. v = y
    BY <1>3 DEF CreateLocalDirectory, y
  <2> QED
    BY <1>2, <1>3, <2>1 DEF Works
<1>4. CASE ~y.bad
  <2>1. v = Write(y, p, DirRow(a.id))
    BY <1>4 DEF CreateLocalDirectory, y
  <2>2. /\ v.disk = y.disk /\ v.cloud = y.cloud /\ v.base = [y.base EXCEPT ![p] = DirRow(a.id)]
        /\ Later(y, v)
    BY <1>2, <2>1 DEF Write, Running, Later, Clean
  <2>3. y.base \in [Paths -> StoredRow]
    BY <1>2 DEF Running, Records
  <2> HIDE DEF v
  <2>4. v.base[p] = DirRow(a.id) /\ \A q \in Paths : q # p => v.base[q] = x.base[q]
    BY <1>1, <1>2, <2>2, <2>3
  <2>5. Beyond(x, a, v)
    BY <1>1, <1>2, <2>2, <2>4 DEF Beyond, Like
  <2>6. Sets(x, a, v, L, R, B)
    BY <1>2, <1>4, <2>2, <2>4 DEF Sets
  <2>7. Works(x, a, v, L, R, B)
    BY <1>2, <2>2, <2>5, <2>6, LaterThan DEF Works
  <2> QED
    BY <2>7 DEF v
<1> QED
  BY <1>3, <1>4

LEMMA RecordsWork ==
  ASSUME NEW x \in Running, NEW a, Tame(x, a), a.do \in {"auto_link", "purge"},
         NEW L, NEW R, NEW B
  PROVE  /\ a.do = "auto_link" => Works(x, a, AutoLink(x, a, L, R, B), L, R, B)
         /\ a.do = "purge" => Works(x, a, Write(x, a.path, NoRow), L, R, B)
<1> DEFINE p == a.path
           row == IF a.do = "purge" THEN NoRow
                  ELSE IF a.kind = "dir" THEN DirRow(a.id)
                  ELSE FileRow(L[p].hash, RemoteId(R[p], B[p]), "synced")
<1>1. p \in Paths /\ Scope(a) = {p}
  BY DEF Tame, Scope, IsMove, Deletes
<1>2. ASSUME NEW u, NEW v, v = Write([x EXCEPT !.untold = u], p, row)
      PROVE  Works(x, a, v, L, R, B)
  <2> HIDE DEF row
  <2>1. /\ v.disk = x.disk /\ v.cloud = x.cloud /\ v.base = [x.base EXCEPT ![p] = row]
        /\ Later(x, v)
    BY <1>2 DEF Write, Running, Later, Clean
  <2>2. x.base \in [Paths -> StoredRow]
    BY DEF Running, Records
  <2>3. v.base[p] = row /\ \A q \in Paths : q # p => v.base[q] = x.base[q]
    BY <1>1, <2>1, <2>2
  <2>4. Beyond(x, a, v)
    BY <1>1, <2>1, <2>3, OnlyRecords
  <2>5. Sets(x, a, v, L, R, B)
    BY <2>3 DEF Sets, row
  <2> QED
    BY <2>1, <2>4, <2>5 DEF Works
<1>3. x = [x EXCEPT !.untold = x.untold]
  BY DEF Running
<1>4. ASSUME a.do = "purge" PROVE Works(x, a, Write(x, p, NoRow), L, R, B)
  <2>1. Write(x, p, NoRow) = Write([x EXCEPT !.untold = x.untold], p, row)
    BY <1>3, <1>4
  <2> HIDE DEF row
  <2> QED
    BY <1>2, <2>1
<1>5. ASSUME a.do = "auto_link" PROVE Works(x, a, AutoLink(x, a, L, R, B), L, R, B)
  <2>1. CASE a.kind = "dir"
    <3> DEFINE u == IF B[p].id \in {0, a.id} THEN x.untold ELSE x.untold \cup Unshown(R, B, p)
    <3>1. AutoLink(x, a, L, R, B) = Write([x EXCEPT !.untold = u], p, row)
      BY <1>5, <2>1 DEF AutoLink
    <3> HIDE DEF row, u
    <3> QED
      BY <1>2, <3>1
  <2>2. CASE a.kind # "dir"
    <3>1. AutoLink(x, a, L, R, B) = Write([x EXCEPT !.untold = x.untold], p, row)
      BY <1>3, <1>5, <2>2 DEF AutoLink
    <3> HIDE DEF row
    <3> QED
      BY <1>2, <3>1
  <2> QED
    BY <2>1, <2>2
<1> QED
  BY <1>4, <1>5

(* Nothing is below what is no directory.                                  *)
LEMMA NothingBelow ==
  ASSUME NEW tree \in Folder, NEW p \in Paths, tree[p].kind # "dir",
         NEW q \in Paths, Below(p, q)
  PROVE  tree[q].kind = "none" /\ Like(tree[q], NoNode)
<1>1. tree[q].kind = "none"
  BY BelowADirectory
<1>2. tree[q] \in TidyNode
  BY DEF Folder
<1> QED
  BY <1>1, <1>2, TidyParts DEF Like, NoNode

LEMMA DeletesWork ==
  ASSUME NEW x \in Running, NEW a, Tame(x, a), NEW L, NEW R, NEW B
  PROVE  /\ a.do = "remote_delete" => Works(x, a, RemoteDelete(x, a), L, R, B)
         /\ a.do = "local_delete" => Works(x, a, LocalDelete(x, a.path), L, R, B)
<1> DEFINE p == a.path
           rows == [q \in Paths |-> IF q \in Subtree(p) THEN NoRow ELSE x.base[q]]
<1>1. p \in Paths
  BY DEF Tame
<1>2. a.do \in Deletes =>
        /\ ~IsMove(a) /\ Scope(a) = IF a.kind = "dir" THEN Subtree(p) ELSE {p}
        /\ a.kind # "dir" => x.disk[p].kind # "dir" /\ x.cloud[p].kind # "dir"
  BY DEF Tame, Scope, IsMove, Deletes
<1>3. x.disk \in Folder /\ x.cloud \in Folder
  BY DEF Running
<1>4. \A q \in Paths : q \in Subtree(p) <=> q = p \/ Below(p, q)
  BY <1>1, SubtreeIs
<1>5. \A q \in Paths : rows[q] = IF q \in Subtree(p) THEN NoRow ELSE x.base[q]
  OBVIOUS
<1>6. ASSUME a.do \in Deletes, NEW q \in Paths \ Scope(a)
      PROVE  \/ rows[q] = x.base[q]
             \/ /\ rows[q] = NoRow /\ Below(p, q)
                /\ x.disk[p].kind # "dir" /\ x.cloud[p].kind # "dir"
  BY <1>2, <1>4, <1>5, <1>6
<1>7. a.do \in Deletes => \A q \in Scope(a) : q \in Paths /\ q \in Subtree(p) /\ rows[q] = NoRow
  BY <1>1, <1>2, <1>4, <1>5 DEF Subtree
<1>8. ASSUME a.do \in Deletes, NEW tree \in {x.disk, x.cloud}
      PROVE  /\ \A q \in Paths \ Scope(a) : Like(Without(tree, p)[q], tree[q])
             /\ \A q \in Scope(a) : Without(tree, p)[q].kind = "none"
  <2>1. \A q \in Paths :
          Without(tree, p)[q] = IF q = p \/ Below(p, q) THEN NoNode ELSE tree[q]
    BY <1>1, <1>3, WithoutKeepsFolder
  <2>2. ASSUME NEW q \in Paths \ Scope(a) PROVE Like(Without(tree, p)[q], tree[q])
    <3>1. CASE Below(p, q)
      <4>1. tree[p].kind # "dir"
        BY <1>2, <1>4, <1>8, <2>2, <3>1
      <4>2. Like(tree[q], NoNode)
        BY <1>1, <1>3, <3>1, <4>1, NothingBelow
      <4> QED
        BY <2>1, <3>1, <4>2 DEF Like
    <3>2. CASE ~Below(p, q)
      <4>1. q # p
        BY <1>1, <1>2, <1>4, <1>8, <2>2
      <4> QED
        BY <2>1, <3>2, <4>1 DEF Like
    <3> QED
      BY <3>1, <3>2
  <2>3. ASSUME NEW q \in Scope(a) PROVE Without(tree, p)[q].kind = "none"
    <3>1. q \in Paths /\ (q = p \/ Below(p, q))
      BY <1>4, <1>7, <1>8
    <3> QED
      BY <2>1, <3>1 DEF NoNode
  <2> QED
    BY <2>2, <2>3
<1> HIDE DEF rows
<1>9. ASSUME a.do = "remote_delete" PROVE Works(x, a, RemoteDelete(x, a), L, R, B)
  <2> DEFINE v == RemoteDelete(x, a)
             tree == Without(x.cloud, p)
             told == Append(x.told, Told("removed", x.cloud, p))
  <2>1. CASE x.cloud[p].kind = "none" \/ (a.kind = "dir" /\ a.id = 0)
    <3>1. v = Bad(x)
      BY <2>1 DEF RemoteDelete
    <3>2. v.bad /\ Later(x, v)
      BY <3>1 DEF Later, Bad, Clean, Running
    <3> QED
      BY <3>2 DEF Works
  <2>2. CASE ~(x.cloud[p].kind = "none" \/ (a.kind = "dir" /\ a.id = 0))
    <3>1. v = Forget([x EXCEPT !.cloud = tree, !.told = told], p)
      BY <2>2 DEF RemoteDelete
    <3>2. told # <<>>
      <4>1. x.told \in Seq([type : EventTypes, id : Nat, parent : Nat])
        BY DEF Running, Events
      <4> QED
        BY <4>1
    <3> HIDE DEF tree, told
    <3>3. /\ v.disk = x.disk /\ v.cloud = tree /\ v.base = rows /\ v.told = told
          /\ v.failed = x.failed /\ v.vanished = x.vanished /\ v.bad = x.bad
          /\ v.withheld = x.withheld /\ v.rescan = x.rescan
      BY <3>1 DEF Forget, Running, rows
    <3> HIDE DEF v
    <3>4. Later(x, v)
      BY <3>2, <3>3 DEF Later, Clean
    <3>5. There(a) = Scope(a) /\ a.do \in Deletes
      BY <1>9 DEF There, Deletes
    <3>6. Beyond(x, a, v)
      <4>1. \A q \in Paths \ Scope(a) : Like(v.cloud[q], x.cloud[q])
        BY <1>8, <3>3, <3>5 DEF tree
      <4>2. \A q \in Paths \ Scope(a) :
              \/ v.base[q] = x.base[q]
              \/ /\ v.base[q] = NoRow /\ Below(p, q)
                 /\ x.disk[p].kind # "dir" /\ x.cloud[p].kind # "dir"
        BY <1>6, <3>3, <3>5
      <4> QED
        BY <3>3, <3>5, <4>1, <4>2 DEF Beyond, Like
    <3>7. Sets(x, a, v, L, R, B)
      <4>1. \A q \in Scope(a) : v.cloud[q].kind = "none" /\ v.base[q] = NoRow
        BY <1>7, <1>8, <3>3, <3>5 DEF tree
      <4> QED
        BY <1>9, <3>2, <3>3, <4>1 DEF Sets
    <3>8. Works(x, a, v, L, R, B)
      BY <3>4, <3>6, <3>7 DEF Works
    <3> QED
      BY <3>8 DEF v
  <2> QED
    BY <2>1, <2>2
<1>10. ASSUME a.do = "local_delete" PROVE Works(x, a, LocalDelete(x, p), L, R, B)
  <2> DEFINE v == LocalDelete(x, p)
             tree == Without(x.disk, p)
  <2>1. v = Forget([x EXCEPT !.disk = tree], p)
    BY DEF LocalDelete
  <2> HIDE DEF tree
  <2>2. v.disk = tree /\ v.cloud = x.cloud /\ v.base = rows /\ Later(x, v)
    BY <2>1 DEF Forget, Running, rows, Later, Clean
  <2> HIDE DEF v
  <2>3. Here(a) = Scope(a) /\ a.do \in Deletes
    BY <1>10 DEF Here, Deletes
  <2>4. Beyond(x, a, v)
    <3>1. \A q \in Paths \ Scope(a) : Like(v.disk[q], x.disk[q])
      BY <1>8, <2>2, <2>3 DEF tree
    <3>2. \A q \in Paths \ Scope(a) :
            \/ v.base[q] = x.base[q]
            \/ /\ v.base[q] = NoRow /\ Below(p, q)
               /\ x.disk[p].kind # "dir" /\ x.cloud[p].kind # "dir"
      BY <1>6, <2>2, <2>3
    <3> QED
      BY <2>2, <2>3, <3>1, <3>2 DEF Beyond, Like
  <2>5. Sets(x, a, v, L, R, B)
    <3>1. \A q \in Scope(a) : v.disk[q].kind = "none" /\ v.base[q] = NoRow
      BY <1>7, <1>8, <2>2, <2>3 DEF tree
    <3> QED
      BY <1>10, <3>1 DEF Sets
  <2>6. Works(x, a, v, L, R, B)
    BY <2>2, <2>4, <2>5 DEF Works
  <2> QED
    BY <2>6 DEF v
<1> QED
  BY <1>9, <1>10

LEMMA MoveLocalFileWorks ==
  ASSUME NEW x \in Running, NEW a, Tame(x, a), a.do = "move_local",
         NEW L, NEW R \in [Paths -> TidyNode], NEW B
  PROVE  Works(x, a, MoveLocalFile(x, a, R), L, R, B)
<1> DEFINE p == a.path
           y == EnsureLocal(x, Parent(a.to))
           found == x.disk[p].hash
           tree == [[y.disk EXCEPT ![p] = NoNode] EXCEPT ![a.to] = File(found, 0)]
           ids == IF found = R[a.to].hash THEN y.untold ELSE y.untold \cup {a.id}
           z == [y EXCEPT !.disk = tree, !.untold = ids]
           row == FileRow(found, a.id, "synced")
           rows == [q \in Paths |-> IF q \in Subtree(p) THEN NoRow ELSE y.base[q]]
           v == MoveLocalFile(x, a, R)
<1>1. /\ p \in Paths /\ a.to \in Paths /\ a.to # p /\ a.kind = "file" /\ Into(a) = a.to
      /\ Scope(a) = {p, a.to} /\ There(a) = {} /\ Here(a) = {p, a.to}
      /\ x.disk[p].kind # "dir" /\ x.cloud[p].kind # "dir"
      /\ Parent(a.to) \in Tops /\ Parent(a.to) \in Paths \cup {Beginning}
  <2>1. IsMove(a)
    BY DEF IsMove
  <2>2. p \in Paths /\ a.to \in Paths /\ a.to # p /\ a.kind = "file"
        /\ x.disk[p].kind # "dir" /\ x.cloud[p].kind # "dir"
    BY <2>1 DEF Tame
  <2> QED
    BY <2>1, <2>2, ParentIsTop DEF Scope, There, Here, Into
<1>2. /\ y \in Running /\ y.cloud = x.cloud /\ y.base = x.base /\ Later(x, y)
      /\ \A q \in Paths :
           \/ Like(y.disk[q], x.disk[q])
           \/ q = Parent(a.to) /\ x.disk[q].kind = "none" /\ y.disk[q].kind = "dir"
  <2>1. /\ y \in Running /\ y.cloud = x.cloud /\ y.base = x.base
        /\ \A q \in Paths :
             /\ y.disk[q] = x.disk[q] \/ (q \in Way(Parent(a.to)) /\ y.disk[q] = Dir(0))
             /\ x.disk[q].kind = "file" => y.disk[q] = x.disk[q]
    BY <1>1, EnsuringLocal
  <2>2. Later(x, y)
    BY <1>1, EnsuringIsLater
  <2>3. \A q \in Paths : y.disk[q] = x.disk[q] \/ q = Parent(a.to)
    BY <1>1, EnsuringTopLocal
  <2>4. \A q \in Paths : x.disk[q].kind \in Kinds /\ (x.disk[q].kind = "file" <=> x.disk[q].hash # 0)
    BY TidyParts DEF Running, Folder
  <2> HIDE DEF y
  <2>5. ASSUME NEW q \in Paths
        PROVE  \/ Like(y.disk[q], x.disk[q])
               \/ q = Parent(a.to) /\ x.disk[q].kind = "none" /\ y.disk[q].kind = "dir"
    BY <2>1, <2>3, <2>4 DEF Like, Dir, Kinds
  <2> QED
    BY <2>1, <2>2, <2>5
<1>3. CASE y.bad \/ x.disk[p].kind # "file" \/ y.disk[a.to].kind = "dir"
  <2>1. v = Bad(y)
    BY <1>3 DEF MoveLocalFile
  <2>2. v.bad /\ Later(y, v)
    BY <1>2, <2>1 DEF Later, Bad, Clean, Running
  <2> HIDE DEF y, v
  <2>3. Works(x, a, v, L, R, B)
    BY <1>2, <2>2, LaterThan DEF Works
  <2> QED
    BY <2>3 DEF v
<1>4. CASE ~(y.bad \/ x.disk[p].kind # "file" \/ y.disk[a.to].kind = "dir")
  <2>1. v = Write(Forget(z, p), a.to, row)
    BY <1>4 DEF MoveLocalFile
  <2>2. y.disk \in [Paths -> TidyNode]
    BY <1>2 DEF Running, Folder
  <2>3. \A q \in Paths :
          tree[q] = IF q = a.to THEN File(found, 0) ELSE IF q = p THEN NoNode ELSE y.disk[q]
    BY <1>1, <2>2
  <2>4. \A q \in Paths : rows[q] = IF q = p \/ Below(p, q) THEN NoRow ELSE y.base[q]
    BY <1>1, SubtreeIs
  <2> HIDE DEF y, v, row, tree, ids
  <2>5. v = [y EXCEPT !.disk = tree, !.untold = ids, !.base = [rows EXCEPT ![a.to] = row]]
    BY <1>2, <2>1 DEF Write, Forget, Running
  <2>6. /\ v.disk = tree /\ v.cloud = x.cloud /\ v.base = [rows EXCEPT ![a.to] = row]
        /\ Later(y, v)
    BY <1>2, <2>5 DEF Running, Later, Clean
  <2>7. \A q \in Paths : v.base[q] = IF q = a.to THEN row ELSE rows[q]
    BY <1>1, <2>6
  <2> HIDE DEF z, rows
  <2>8. /\ v.disk[p].kind = "none" /\ v.base[p] = NoRow /\ v.base[a.to] = row
        /\ v.disk[a.to] = File(found, 0)
    BY <1>1, <2>3, <2>4, <2>6, <2>7 DEF NoNode
  <2>9. Beyond(x, a, v)
    <3>1. ASSUME NEW q \in Paths \ {p, a.to}
          PROVE  /\ v.disk[q] = y.disk[q]
                 /\ v.base[q] = x.base[q] \/ (v.base[q] = NoRow /\ Below(p, q))
      BY <1>2, <2>3, <2>4, <2>6, <2>7
    <3> QED
      BY <1>1, <1>2, <2>6, <3>1 DEF Beyond, Like
  <2>10. Sets(x, a, v, L, R, B)
    BY <1>1, <1>4, <2>8 DEF Sets, Like, File, row
  <2>11. Works(x, a, v, L, R, B)
    BY <1>2, <2>6, <2>9, <2>10, LaterThan DEF Works
  <2> QED
    BY <2>11 DEF v
<1> QED
  BY <1>3, <1>4

LEMMA MoveRemoteWorks ==
  ASSUME NEW x \in Running, NEW a, Tame(x, a), a.do = "move_remote",
         NEW L \in [Paths -> TidyNode], NEW R, NEW B
  PROVE  Works(x, a, MoveRemote(x, a, L), L, R, B)
<1> DEFINE p == a.path
           y == EnsureRemote(x, Parent(a.to))
           tree == Moved(y.cloud, p, a.to)
           told == Append(y.told, Told("updated", tree, a.to))
           row == FileRow(L[a.to].hash, a.id, "synced")
           rows == [q \in Paths |-> IF q \in Subtree(p) THEN NoRow ELSE y.base[q]]
           v == MoveRemote(x, a, L)
<1>1. /\ p \in Paths /\ a.to \in Paths /\ a.to # p /\ a.kind = "file" /\ Into(a) = a.to
      /\ Scope(a) = {p, a.to} /\ There(a) = {p, a.to} /\ Here(a) = {}
      /\ x.disk[p].kind # "dir" /\ x.cloud[p].kind # "dir" /\ Parent(a.to) # p
      /\ Parent(a.to) \in Tops /\ Parent(a.to) \in Paths \cup {Beginning}
  <2>1. IsMove(a)
    BY DEF IsMove
  <2>2. p \in Paths /\ a.to \in Paths /\ a.to # p /\ a.kind = "file"
        /\ x.disk[p].kind # "dir" /\ x.cloud[p].kind # "dir" /\ Parent(a.to) # p
    BY <2>1 DEF Tame
  <2> QED
    BY <2>1, <2>2, ParentIsTop DEF Scope, There, Here, Into
<1>2. /\ y \in Running /\ y.disk = x.disk /\ y.base = x.base /\ Later(x, y)
      /\ \A q \in Paths :
           \/ y.cloud[q] = x.cloud[q]
           \/ q = Parent(a.to) /\ x.cloud[q].kind = "none" /\ y.cloud[q].kind = "dir"
  <2>1. y \in Running /\ y.disk = x.disk /\ y.base = x.base
    BY <1>1, EnsuringRemote
  <2>2. \A q \in Paths :
          y.cloud[q] = x.cloud[q]
            \/ (q = Parent(a.to) /\ x.cloud[q].kind = "none" /\ y.cloud[q].kind = "dir")
    BY <1>1, EnsuringTop
  <2>3. Later(x, y)
    BY <1>1, EnsuringIsLater
  <2> QED
    BY <2>1, <2>2, <2>3
<1>3. CASE \/ y.bad \/ y.cloud[p].kind = "none"
           \/ y.cloud[a.to].kind # "none" \/ ~Fits(y.cloud, p, a.to)
  <2>1. v = Bad(y)
    BY <1>3 DEF MoveRemote
  <2>2. v.bad /\ Later(y, v)
    BY <1>2, <2>1 DEF Later, Bad, Clean, Running
  <2> HIDE DEF y, v
  <2>3. Works(x, a, v, L, R, B)
    BY <1>2, <2>2, LaterThan DEF Works
  <2> QED
    BY <2>3 DEF v
<1>4. CASE ~(\/ y.bad \/ y.cloud[p].kind = "none"
             \/ y.cloud[a.to].kind # "none" \/ ~Fits(y.cloud, p, a.to))
  <2>1. v = Write(Forget([y EXCEPT !.cloud = tree, !.told = told], p), a.to, row)
    BY <1>4 DEF MoveRemote
  <2> HIDE DEF y, v
  <2>2. y.cloud \in Folder /\ y.cloud \in [Paths -> TidyNode]
    BY <1>2 DEF Running, Folder
  <2>3. /\ y.cloud[p] = x.cloud[p] /\ y.cloud[a.to].kind = "none"
        /\ y.cloud[p].kind # "dir" /\ x.cloud[p].kind = "file"
    <3>1. y.cloud[p] = x.cloud[p]
      BY <1>1, <1>2
    <3>2. y.cloud[p].kind \in Kinds
      BY <1>1, <2>2, TidyParts
    <3> QED
      BY <1>1, <1>4, <3>1, <3>2 DEF Kinds
  <2>4. \A r \in Paths :
          /\ r \in Subtree(a.to) /\ Rekey(r, a.to, p) \in Paths => tree[r] = y.cloud[Rekey(r, a.to, p)]
          /\ r \in Subtree(a.to) /\ Rekey(r, a.to, p) \notin Paths => tree[r] = NoNode
          /\ r \notin Subtree(a.to) /\ r \in Subtree(p) => tree[r] = NoNode
          /\ r \notin Subtree(a.to) /\ r \notin Subtree(p) => tree[r] = y.cloud[r]
    <3>1. p \in Paths /\ a.to \in Paths
      BY <1>1
    <3> HIDE DEF p
    <3> QED
      BY <2>2, <3>1, MovingIs, ZenonT(120)
  <2>5. /\ Rekey(a.to, a.to, p) = p
        /\ \A r \in Paths : Below(a.to, r) /\ Rekey(r, a.to, p) \in Paths =>
             Below(p, Rekey(r, a.to, p))
    BY <1>1, Rekeyed
  <2>6. \A r \in Paths : /\ r \in Subtree(a.to) <=> r = a.to \/ Below(a.to, r)
                         /\ r \in Subtree(p) <=> r = p \/ Below(p, r)
    BY <1>1, SubtreeIs
  <2>7. \A r \in Paths : Below(p, r) \/ Below(a.to, r) =>
          y.cloud[r].kind = "none" /\ Like(y.cloud[r], NoNode)
    BY <1>1, <2>2, <2>3, NothingBelow
  <2>8. tree[a.to] = y.cloud[p]
    BY <1>1, <2>4, <2>5, <2>6
  <2>9. tree[p] = NoNode
    <3>1. p \notin Subtree(a.to)
      BY <1>1, <2>3, <2>6, <2>7
    <3> QED
      BY <1>1, <2>4, <2>6, <3>1
  <2>10. ASSUME NEW r \in Paths \ {p, a.to} PROVE Like(tree[r], y.cloud[r])
    <3>1. CASE Below(a.to, r)
      <4>1. Like(tree[r], NoNode)
        <5>1. CASE Rekey(r, a.to, p) \in Paths
          BY <2>4, <2>5, <2>6, <2>7, <3>1, <5>1
        <5>2. CASE Rekey(r, a.to, p) \notin Paths
          BY <2>4, <2>6, <3>1, <5>2 DEF Like
        <5> QED
          BY <5>1, <5>2
      <4> QED
        BY <2>7, <3>1, <4>1 DEF Like
    <3>2. CASE ~Below(a.to, r) /\ Below(p, r)
      <4>1. tree[r] = NoNode
        BY <2>4, <2>6, <2>10, <3>2
      <4> QED
        BY <2>7, <3>2, <4>1 DEF Like
    <3>3. CASE ~Below(a.to, r) /\ ~Below(p, r)
      <4>1. tree[r] = y.cloud[r]
        BY <2>4, <2>6, <2>10, <3>3
      <4> QED
        BY <4>1 DEF Like
    <3> QED
      BY <3>1, <3>2, <3>3
  <2>11. \A q \in Paths : rows[q] = IF q = p \/ Below(p, q) THEN NoRow ELSE y.base[q]
    BY <2>6
  <2>12. told # <<>>
    <3>1. y.told \in Seq([type : EventTypes, id : Nat, parent : Nat])
      BY <1>2 DEF Running, Events
    <3> QED
      BY <3>1
  <2> HIDE DEF tree, told, row
  <2>13. v = [y EXCEPT !.cloud = tree, !.told = told, !.base = [rows EXCEPT ![a.to] = row]]
    BY <1>2, <2>1 DEF Write, Forget, Running
  <2>14. /\ v.cloud = tree /\ v.disk = x.disk /\ v.told = told
         /\ v.base = [rows EXCEPT ![a.to] = row] /\ Later(y, v)
    BY <1>2, <2>12, <2>13 DEF Running, Later, Clean
  <2>15. \A q \in Paths : v.base[q] = IF q = a.to THEN row ELSE rows[q]
    BY <1>1, <2>14
  <2> HIDE DEF rows
  <2>16. Beyond(x, a, v)
    <3>1. ASSUME NEW q \in Paths \ {p, a.to}
          PROVE  /\ Like(v.cloud[q], y.cloud[q])
                 /\ v.base[q] = x.base[q] \/ (v.base[q] = NoRow /\ Below(p, q))
      BY <1>2, <2>10, <2>11, <2>14, <2>15
    <3> QED
      BY <1>1, <1>2, <2>14, <3>1 DEF Beyond, Like
  <2>17. Sets(x, a, v, L, R, B)
    <3>1. /\ Like(v.cloud[a.to], x.cloud[p]) /\ x.cloud[p].kind = "file" /\ v.cloud[p].kind = "none"
          /\ v.base[p] = NoRow /\ v.base[a.to] = row /\ v.told # <<>>
      BY <1>1, <2>3, <2>8, <2>9, <2>11, <2>12, <2>14, <2>15 DEF Like, NoNode
    <3> QED
      BY <1>1, <3>1 DEF Sets, row
  <2>18. Works(x, a, v, L, R, B)
    BY <1>2, <2>14, <2>16, <2>17, LaterThan DEF Works
  <2> QED
    BY <2>18 DEF v
<1> QED
  BY <1>3, <1>4

(* Every arm.                                                              *)
LEMMA PerformWorks ==
  ASSUME NEW x \in Running, NEW a, Tame(x, a), NEW plannedDirs,
         NEW L \in [Paths -> TidyNode], NEW R \in [Paths -> TidyNode], NEW B \in Records,
         IsMove(a) \/ Warranted(a, L, R, B)
  PROVE  Works(x, a, Perform(x, a, L, R, B, plannedDirs), L, R, B)
<1>1. CASE a.do = "upload"
  BY <1>1, UploadWorks DEF Perform, Warranted, IsMove
<1>2. CASE a.do = "download"
  BY <1>2, DownloadWorks DEF Perform
<1>3. CASE a.do \in {"conflict", "conflict_local"}
  BY <1>3, KeepBothWorks DEF Perform
<1>4. CASE a.do = "create_remote_dir"
  BY <1>4, CreateRemoteWorks DEF Perform
<1>5. CASE a.do = "create_local_dir"
  BY <1>5, CreateLocalWorks DEF Perform
<1>6. CASE a.do = "move_local"
  <2>1. a.kind = "file"
    BY <1>6 DEF Tame, MovesDir, IsMove
  <2> QED
    BY <1>6, <2>1, MoveLocalFileWorks DEF Perform
<1>7. CASE a.do = "move_remote"
  BY <1>7, MoveRemoteWorks DEF Perform
<1>8. CASE a.do \in {"auto_link", "purge"}
  BY <1>8, RecordsWork DEF Perform
<1>9. CASE a.do \in {"remote_delete", "local_delete"}
  BY <1>9, DeletesWork DEF Perform
<1>10. a.do \in {"upload", "download", "conflict", "conflict_local", "create_remote_dir",
                 "create_local_dir", "move_local", "move_remote", "auto_link", "purge",
                 "remote_delete", "local_delete"}
  BY DEF Warranted, IsMove
<1> QED
  BY <1>1, <1>2, <1>3, <1>4, <1>5, <1>6, <1>7, <1>8, <1>9, <1>10

-----------------------------------------------------------------------------
(* What a walk starts from, as the invariant has it.                       *)
FittingWalk(K, L, R, B) ==
  /\ L \in Folder /\ R \in Folder /\ B \in Records
  /\ Flat(L) /\ Flat(R) /\ Flat(B) /\ Numbered(R)
  /\ K \in Ranges /\ OneOf(K) /\ Fitting(K, L, R)

LEMMA WalkIs ==
  ASSUME NEW K, NEW L, NEW R, NEW B, FittingWalk(K, L, R, B)
  PROVE  /\ L \in [Paths -> TidyNode] /\ R \in [Paths -> TidyNode] /\ B \in Records
         /\ Trees(L, R, B) /\ NoClash(L, R)
         /\ \A q \in Paths : K[q] \in {{"none", "file"}, {"none", "dir"}}
         /\ \A q \in Paths : L[q].kind \in K[q] /\ R[q].kind \in K[q]
<1>1. /\ L \in [Paths -> TidyNode] /\ R \in [Paths -> TidyNode] /\ B \in Records
      /\ \A q \in Paths : K[q] \in {{"none", "file"}, {"none", "dir"}}
      /\ \A q \in Paths : L[q].kind \in K[q] /\ R[q].kind \in K[q]
  BY DEF FittingWalk, Folder, OneOf, Fitting
<1>2. Trees(L, R, B)
  BY <1>1, TidyParts DEF Trees, Records
<1>3. NoClash(L, R)
  BY <1>1, ClashIs DEF NoClash
<1> QED
  BY <1>1, <1>2, <1>3

LEMMA PlannedTame ==
  ASSUME NEW K, NEW L, NEW R, NEW B, FittingWalk(K, L, R, B), NEW x \in Within(K),
         NEW i \in 1 .. Len(Planned(L, R, B)), NEW a, a = Planned(L, R, B)[i], ~MovesDir(a)
  PROVE  Tame(x, a)
<1>1. /\ Trees(L, R, B) /\ Flat(L) /\ Flat(R) /\ Numbered(R) /\ K \in Ranges /\ Fitting(K, L, R)
      /\ \A q \in Paths : K[q] \in {{"none", "file"}, {"none", "dir"}}
      /\ \A q \in Paths : L[q].kind \in K[q] /\ R[q].kind \in K[q]
  BY WalkIs DEF FittingWalk
<1>2. Sees(a, L, R) /\ Suits(a, K)
  BY <1>1, PlanSees, PlanSuits
<1>3. Orderly(a, L)
  BY <1>1, PlanShape
<1>4. a.path \in Paths /\ a.id \in Nat
  BY <1>2, <1>3 DEF Sees, Orderly
<1>5. \A q \in Paths : "file" \in {L[q].kind, R[q].kind} =>
        "dir" \notin K[q] /\ x.disk[q].kind # "dir" /\ x.cloud[q].kind # "dir"
  BY <1>1 DEF Within
<1>6. a.do \in {"create_remote_dir", "create_local_dir"} => Len(a.path) = 1
  BY <1>2, <1>4, Parents DEF Suits, Allowed
<1>7. ASSUME IsMove(a)
      PROVE  /\ a.to \in Paths /\ a.to # a.path /\ a.kind = "file" /\ Parent(a.to) # a.path
             /\ x.disk[a.path].kind # "dir" /\ x.cloud[a.path].kind # "dir"
  <2>1. a.kind = "file" /\ a.to \in Paths /\ "dir" \notin K[a.path]
        /\ x.disk[a.path].kind # "dir" /\ x.cloud[a.path].kind # "dir" /\ a.to # a.path
    <3>1. a.kind = "file"
      <4>1. a \in MovesOf(L, R, B)
        BY <1>1, <1>7, PlanComes
      <4> QED
        BY <1>1, <1>7, <4>1, MoveShape DEF MovesDir, IsMove
    <3> QED
      BY <1>2, <1>4, <1>5, <1>7, <3>1 DEF Sees, IsMove
  <2>2. Len(a.to) = 2 => "dir" \in K[Parent(a.to)]
    BY <1>2, <1>7, <2>1 DEF Suits, Allowed, IsMove
  <2> QED
    BY <1>4, <2>1, <2>2, ParentIsTop
<1>8. a.do \in Deletes /\ a.kind # "dir" =>
        x.disk[a.path].kind # "dir" /\ x.cloud[a.path].kind # "dir"
  BY <1>2, <1>4, <1>5 DEF Sees, Deletes
<1> QED
  BY <1>4, <1>6, <1>7, <1>8 DEF Tame

(* Where a folder is deleted, nothing is made in it.                       *)
LEMMA NothingMadeBelow ==
  ASSUME NEW L, NEW R, NEW B, Trees(L, R, B), Numbered(R),
         NEW i \in 1 .. Len(Planned(L, R, B)), NEW j \in 1 .. Len(Planned(L, R, B)),
         NEW a, a = Planned(L, R, B)[i], a.kind = "dir", a.do \in Deletes,
         NEW b, b = Planned(L, R, B)[j], NEW q \in Scope(a)
  PROVE  ~Below(q, Into(b))
<1>1. /\ a.path \in Paths /\ ~IsMove(a) /\ Proved(L, R, B, Settled(L, R, B), a.path)
  BY PlanComes DEF IsMove, Deletes
<1>2. Into(b) \in Paths
  BY PlanComes DEF Into
<1>3. ~Below(a.path, Into(b))
  <2>1. CASE ~IsMove(b)
    BY <2>1, PlanOrder DEF Into
  <2>2. CASE IsMove(b)
    <3>1. b.to \in Settled(L, R, B) /\ Into(b) = b.to
      BY <2>2, PlanComes DEF Into
    <3>2. L[b.to].kind # "none" \/ R[b.to].kind # "none"
      BY <2>2, PlanSees DEF Sees, IsMove
    <3> QED
      BY <1>1, <1>2, <3>1, <3>2 DEF Proved, Held
  <2> QED
    BY <2>1, <2>2
<1>4. q \in Paths /\ (q = a.path \/ Below(a.path, q))
  <2>1. q \in Subtree(a.path)
    BY <1>1 DEF Scope
  <2>2. q \in Paths
    BY <2>1 DEF Subtree
  <2> QED
    BY <1>1, <2>1, <2>2, SubtreeIs
<1>5. ASSUME Below(a.path, q), Below(q, Into(b)) PROVE FALSE
  <2>1. Len(q) = 2 /\ Len(q) = 1
    BY <1>1, <1>2, <1>4, <1>5, Parents
  <2> QED
    BY <2>1
<1> QED
  BY <1>3, <1>4, <1>5

(* What a path comes to that an action is about: agreement and the record  *)
(* of it, of the remote node itself while nothing was sent.                *)
Right(x, R, p) ==
  \/ x.base[p].status = "conflict"
  \/ /\ Like(x.disk[p], x.cloud[p]) /\ Like(x.base[p], x.cloud[p])
     /\ x.told = <<>> /\ R[p].kind # "none" => x.base[p].id = R[p].id

(* What is not yet dealt with is as it was seen, but for folders made on   *)
(* the way to what is in them, and for records of what is nowhere.         *)
OnTheWay(plan, i, p) == \E j \in 1 .. i : Below(p, Into(plan[j]))
SeenHere(x, plan, i, L, R, p) ==
  \/ Like(x.disk[p], L[p])
  \/ /\ L[p].kind = "none" /\ R[p].kind = "dir"
     /\ x.disk[p].kind = "dir" /\ OnTheWay(plan, i, p)
SeenThere(x, plan, i, L, R, p) ==
  \/ Like(x.cloud[p], R[p])
  \/ /\ R[p].kind = "none" /\ L[p].kind = "dir"
     /\ x.cloud[p].kind = "dir" /\ OnTheWay(plan, i, p)
SeenRow(x, L, R, B, p) ==
  \/ x.base[p] = B[p]
  \/ x.base[p] = NoRow /\ L[p].kind = "none" /\ R[p].kind = "none"
Stands(x, plan, i, L, R, B, p) ==
  /\ (\A j \in 1 .. i : p \notin Here(plan[j])) => SeenHere(x, plan, i, L, R, p)
  /\ (\A j \in 1 .. i : p \notin There(plan[j])) => SeenThere(x, plan, i, L, R, p)
  /\ (\A j \in 1 .. i : p \notin Scope(plan[j])) => SeenRow(x, L, R, B, p)

LEMMA StillSeen ==
  ASSUME NEW L, NEW R, NEW B, Trees(L, R, B), NEW plan, plan = Planned(L, R, B),
         NEW i \in 1 .. Len(plan), NEW a, a = plan[i], NEW x,
         \A q \in Paths : Stands(x, plan, i - 1, L, R, B, q), NEW p \in Paths \cap Scope(a)
  PROVE  /\ ~IsMove(a) \/ p = a.path =>
              /\ SeenHere(x, plan, i - 1, L, R, p) /\ SeenThere(x, plan, i - 1, L, R, p)
              /\ SeenRow(x, L, R, B, p)
         /\ a.do = "move_local" => SeenThere(x, plan, i - 1, L, R, p)
         /\ a.do = "move_remote" => SeenHere(x, plan, i - 1, L, R, p)
<1>1. /\ Len(plan) \in Nat /\ i \in Nat /\ i - 1 \in Nat
      /\ \A j \in 1 .. i - 1 : j \in 1 .. Len(plan) /\ j < i
  BY PlanShape
<1>2. \A j \in 1 .. i - 1 :
        p \in Scope(plan[j]) =>
          IsMove(plan[j]) /\ a.do = plan[j].do /\ p = plan[j].to /\ p = a.to
  BY <1>1, ScopesApart
<1>3. \A b : Here(b) \subseteq Scope(b) /\ There(b) \subseteq Scope(b)
  BY DEF Here, There
<1>4. IsMove(a) => a.path # a.to
  <2>1. IsMove(a) => /\ B[a.path].kind = a.kind /\ B[a.to].kind = "none"
                     /\ a.kind \in {"file", "dir"}
    BY PlanComes
  <2> QED
    BY <2>1
<1>5. Stands(x, plan, i - 1, L, R, B, p)
  OBVIOUS
<1>6. CASE ~IsMove(a) \/ p = a.path
  <2>1. \A j \in 1 .. i - 1 : p \notin Scope(plan[j])
    BY <1>2, <1>4, <1>6 DEF IsMove
  <2> QED
    BY <1>3, <1>5, <2>1 DEF Stands
<1>7. ASSUME a.do = "move_local" PROVE SeenThere(x, plan, i - 1, L, R, p)
  <2>1. \A j \in 1 .. i - 1 : p \notin There(plan[j])
    <3>1. ASSUME NEW j \in 1 .. i - 1, p \in There(plan[j]) PROVE FALSE
      <4>1. p \in Scope(plan[j])
        BY <1>3, <3>1
      <4>2. plan[j].do = "move_local"
        BY <1>2, <1>7, <4>1
      <4> QED
        BY <3>1, <4>2 DEF There
    <3> QED
      BY <3>1
  <2> QED
    BY <1>5, <2>1 DEF Stands
<1>8. ASSUME a.do = "move_remote" PROVE SeenHere(x, plan, i - 1, L, R, p)
  <2>1. \A j \in 1 .. i - 1 : p \notin Here(plan[j])
    <3>1. ASSUME NEW j \in 1 .. i - 1, p \in Here(plan[j]) PROVE FALSE
      <4>1. p \in Scope(plan[j])
        BY <1>3, <3>1
      <4>2. plan[j].do = "move_remote"
        BY <1>2, <1>8, <4>1
      <4> QED
        BY <3>1, <4>2 DEF Here
    <3> QED
      BY <3>1
  <2> QED
    BY <1>5, <2>1 DEF Stands
<1> QED
  BY <1>6, <1>7, <1>8 DEF IsMove

(* A step of a walk: what an action that is planned and goes well comes    *)
(* from and does.                                                          *)
Well(x, plan, i, a, y, K, L, R, B) ==
  /\ FittingWalk(K, L, R, B) /\ plan = Planned(L, R, B) /\ i \in 1 .. Len(plan) /\ a = plan[i]
  /\ x \in Within(K) /\ y \in Within(K)
  /\ \A q \in Paths : Stands(x, plan, i - 1, L, R, B, q)
  /\ Tame(x, a) /\ Beyond(x, a, y) /\ Sets(x, a, y, L, R, B)
  /\ y.told = <<>> => y.cloud = R

(* The places an action is about, by what it does.                         *)
LEMMA ScopeIs ==
  ASSUME NEW x, NEW a, Tame(x, a)
  PROVE  /\ Scope(a) \subseteq Paths /\ a.path \in Scope(a)
         /\ ~IsMove(a) /\ ~(a.kind = "dir" /\ a.do \in Deletes) => Scope(a) = {a.path}
         /\ IsMove(a) => Scope(a) = {a.path, a.to} /\ a.path # a.to
         /\ a.kind = "dir" /\ a.do \in Deletes => Scope(a) = Subtree(a.path)
<1>1. a.path \in Paths /\ (IsMove(a) => a.to \in Paths /\ a.to # a.path)
  BY DEF Tame
<1>2. a.path \in Subtree(a.path) /\ Subtree(a.path) \subseteq Paths
  BY <1>1, SubtreeIs DEF Subtree
<1>3. a.do \in Deletes => ~IsMove(a)
  BY DEF Deletes, IsMove
<1> QED
  BY <1>1, <1>2, <1>3 DEF Scope

LEMMA WhatIsThere ==
  ASSUME NEW x, NEW plan, NEW i, NEW a, NEW y, NEW K, NEW L, NEW R, NEW B,
         Well(x, plan, i, a, y, K, L, R, B)
  PROVE  /\ \A q \in Paths : \A z \in {x, y} :
              /\ z.disk[q] \in TidyNode /\ z.cloud[q] \in TidyNode /\ z.base[q] \in TidyRow
         /\ \A q \in Paths : L[q] \in TidyNode /\ R[q] \in TidyNode /\ B[q] \in TidyRow
         /\ x.disk \in Folder /\ x.cloud \in Folder
         /\ ~IsMove(a) => Warranted(a, L, R, B)
         /\ IsMove(a) =>
              /\ a.to \in Paths /\ a.to # a.path
              /\ a.do = "move_local" =>
                   /\ L[a.path].kind = "file" /\ R[a.path].kind = "none"
                   /\ L[a.to].kind = "none" /\ R[a.to].kind = "file"
                   /\ L[a.path].hash = R[a.to].hash /\ a.id = R[a.to].id
              /\ a.do = "move_remote" =>
                   /\ R[a.path].kind = "file" /\ L[a.path].kind = "none"
                   /\ R[a.to].kind = "none" /\ L[a.to].kind = "file"
                   /\ R[a.path].hash = L[a.to].hash
<1>1. /\ FittingWalk(K, L, R, B) /\ plan = Planned(L, R, B) /\ i \in 1 .. Len(plan) /\ a = plan[i]
      /\ x \in Running /\ y \in Running /\ Tame(x, a)
  BY DEF Well, Within
<1>2. L \in Folder /\ R \in Folder /\ B \in Records /\ Numbered(R) /\ Trees(L, R, B) /\ NoClash(L, R)
  BY <1>1, WalkIs DEF FittingWalk
<1>3. /\ \A q \in Paths : \A z \in {x, y} :
           /\ z.disk[q] \in TidyNode /\ z.cloud[q] \in TidyNode /\ z.base[q] \in TidyRow
      /\ x.disk \in Folder /\ x.cloud \in Folder
  BY <1>1, TidyParts DEF Running, Folder, Records
<1>4. \A q \in Paths : L[q] \in TidyNode /\ R[q] \in TidyNode /\ B[q] \in TidyRow
  BY <1>2 DEF Trees
<1>5. ASSUME ~IsMove(a) PROVE Warranted(a, L, R, B)
  <2>1. /\ a.path \in Paths /\ a = Decided(L, R, B, a.path) /\ a.do # "none"
    BY <1>1, <1>2, <1>5, PlanComes
  <2>2. Proved(L, R, B, Settled(L, R, B), a.path) \in BOOLEAN
    BY DEF Proved
  <2>3. a = PlanEntity(L, R, B, a.path, Proved(L, R, B, Settled(L, R, B), a.path))
    BY <2>1 DEF Decided
  <2>4. ~Clash(L, R, a.path)
    BY <1>2, <2>1 DEF NoClash
  <2> QED
    BY <1>2, <2>1, <2>2, <2>3, <2>4, DecisionWarranted
<1>6. ASSUME IsMove(a)
      PROVE  /\ a.to \in Paths /\ a.to # a.path
             /\ a.do = "move_local" =>
                  /\ L[a.path].kind = "file" /\ R[a.path].kind = "none"
                  /\ L[a.to].kind = "none" /\ R[a.to].kind = "file"
                  /\ L[a.path].hash = R[a.to].hash /\ a.id = R[a.to].id
             /\ a.do = "move_remote" =>
                  /\ R[a.path].kind = "file" /\ L[a.path].kind = "none"
                  /\ R[a.to].kind = "none" /\ L[a.to].kind = "file"
                  /\ R[a.path].hash = L[a.to].hash
  <2>1. a \in MovesOf(L, R, B) /\ a.path \in Paths
    BY <1>1, <1>2, <1>6, PlanComes
  <2>2. a = Transition(L, R, B, a.path) /\ a # Nothing
    BY <1>2, <2>1, MoveShape
  <2>3. a.to \in Paths /\ a.to # a.path /\ a.kind = "file"
    BY <1>1, <1>6 DEF Tame
  <2>4. a.do = "move_local" => a.id = R[a.to].id
    BY <1>2, <2>1, <2>3, MoveShape
  <2> QED
    BY <2>1, <2>2, <2>3, <2>4, MovesGoToFreePlaces
<1> QED
  BY <1>3, <1>4, <1>5, <1>6

LEMMA ComesRight ==
  ASSUME NEW x, NEW plan, NEW i, NEW a, NEW y, NEW K, NEW L, NEW R, NEW B,
         Well(x, plan, i, a, y, K, L, R, B), NEW p \in Scope(a)
  PROVE  Right(y, R, p)
<1>1. /\ FittingWalk(K, L, R, B) /\ plan = Planned(L, R, B) /\ i \in 1 .. Len(plan) /\ a = plan[i]
      /\ \A q \in Paths : Stands(x, plan, i - 1, L, R, B, q)
      /\ Tame(x, a) /\ Beyond(x, a, y) /\ Sets(x, a, y, L, R, B)
      /\ y.told = <<>> => y.cloud = R
  BY DEF Well
<1>2. Trees(L, R, B) /\ Numbered(R) /\ L \in Folder /\ R \in Folder
  BY <1>1, WalkIs DEF FittingWalk
<1>3. p \in Paths /\ a.path \in Scope(a) /\ a.path \in Paths
  BY <1>1, ScopeIs
<1>4. /\ ~IsMove(a) \/ p = a.path =>
           SeenHere(x, plan, i - 1, L, R, p) /\ SeenThere(x, plan, i - 1, L, R, p)
      /\ a.do = "move_local" => SeenThere(x, plan, i - 1, L, R, p)
      /\ a.do = "move_remote" => SeenHere(x, plan, i - 1, L, R, p)
      /\ SeenHere(x, plan, i - 1, L, R, a.path) /\ SeenThere(x, plan, i - 1, L, R, a.path)
  BY <1>1, <1>2, <1>3, StillSeen
<1>5. /\ \A q \in Paths : \A z \in {x, y} :
           /\ z.disk[q].kind \in Kinds /\ (z.disk[q].kind = "file" <=> z.disk[q].hash # 0)
           /\ z.cloud[q].kind \in Kinds /\ (z.cloud[q].kind = "file" <=> z.cloud[q].hash # 0)
           /\ z.base[q].kind \in Kinds /\ (z.base[q].kind = "file" <=> z.base[q].hash # 0)
      /\ \A q \in Paths :
           /\ L[q].kind \in Kinds /\ (L[q].kind = "file" <=> L[q].hash # 0)
           /\ R[q].kind \in Kinds /\ (R[q].kind = "file" <=> R[q].hash # 0)
           /\ L[q].hash \in Nat /\ R[q].hash \in Nat
  BY WhatIsThere, TidyParts
<1>6. /\ ~IsMove(a) => Warranted(a, L, R, B)
      /\ IsMove(a) =>
           /\ a.to \in Paths /\ a.to # a.path
           /\ a.do = "move_local" =>
                /\ L[a.path].kind = "file" /\ R[a.path].kind = "none"
                /\ L[a.to].kind = "none" /\ R[a.to].kind = "file"
                /\ L[a.path].hash = R[a.to].hash /\ a.id = R[a.to].id
           /\ a.do = "move_remote" =>
                /\ R[a.path].kind = "file" /\ L[a.path].kind = "none"
                /\ R[a.to].kind = "none" /\ L[a.to].kind = "file"
                /\ R[a.path].hash = L[a.to].hash
  BY WhatIsThere
<1>7. /\ ~IsMove(a) /\ ~(a.kind = "dir" /\ a.do \in Deletes) => p = a.path
      /\ IsMove(a) => p \in {a.path, a.to}
  BY <1>1, ScopeIs
<1>8. NoRow.kind = "none" /\ NoRow.hash = 0
  BY DEF NoRow
<1>9. CASE a.do = "upload"
  <2>1. ~IsMove(a) /\ p = a.path /\ L[p].kind = "file" /\ Here(a) = {}
    BY <1>6, <1>7, <1>9 DEF IsMove, Deletes, Warranted, Here
  <2>2. Like(x.disk[p], L[p])
    BY <1>4, <2>1 DEF SeenHere
  <2>3. Like(y.disk[p], x.disk[p])
    BY <1>1, <1>3, <1>9, <2>1 DEF Beyond
  <2>4. /\ Like(y.cloud[p], x.disk[p]) /\ x.disk[p].kind = "file" /\ y.base[p].kind = "file"
        /\ y.base[p].hash = L[p].hash /\ y.told # <<>>
    BY <1>1, <1>9, <2>1 DEF Sets
  <2> QED
    BY <2>2, <2>3, <2>4 DEF Right, Like
<1>10. CASE a.do = "download"
  <2>1. ~IsMove(a) /\ p = a.path /\ There(a) = {}
    BY <1>7, <1>10 DEF IsMove, Deletes, There
  <2>2. Like(y.cloud[p], x.cloud[p])
    BY <1>1, <1>3, <1>10, <2>1 DEF Beyond
  <2>3. /\ Like(y.disk[p], x.cloud[p]) /\ x.cloud[p].kind = "file"
        /\ y.base[p] = FileRow(x.cloud[p].hash, R[p].id, "synced")
    BY <1>1, <1>10, <2>1 DEF Sets
  <2> QED
    BY <2>2, <2>3 DEF Right, Like, FileRow
<1>11. CASE a.do \in {"conflict", "conflict_local"}
  <2>1. p = a.path
    BY <1>7, <1>11 DEF IsMove, Deletes
  <2> QED
    BY <1>1, <1>11, <2>1 DEF Sets, Right
<1>12. CASE a.do = "create_remote_dir"
  <2>1. /\ ~IsMove(a) /\ p = a.path /\ Here(a) = {}
        /\ L[p].kind = "dir" /\ R[p].kind = "none"
    BY <1>6, <1>7, <1>12 DEF IsMove, Deletes, Warranted, Here
  <2>2. Like(x.disk[p], L[p])
    BY <1>4, <2>1 DEF SeenHere
  <2>3. Like(y.disk[p], x.disk[p])
    BY <1>1, <1>3, <1>12, <2>1 DEF Beyond
  <2>4. y.cloud[p].kind = "dir" /\ y.base[p].kind = "dir"
    BY <1>1, <1>12, <2>1 DEF Sets
  <2> QED
    BY <1>3, <1>5, <2>1, <2>2, <2>3, <2>4 DEF Right, Like
<1>13. CASE a.do = "create_local_dir"
  <2>1. /\ ~IsMove(a) /\ p = a.path /\ There(a) = {}
        /\ L[p].kind = "none" /\ R[p].kind = "dir" /\ a.id = R[p].id
    BY <1>6, <1>7, <1>13 DEF IsMove, Deletes, Warranted, There
  <2>2. Like(x.cloud[p], R[p])
    BY <1>4, <2>1 DEF SeenThere
  <2>3. Like(y.cloud[p], x.cloud[p])
    BY <1>1, <1>3, <1>13, <2>1 DEF Beyond
  <2>4. y.disk[p].kind = "dir" /\ y.base[p] = DirRow(a.id)
    BY <1>1, <1>13, <2>1 DEF Sets
  <2> QED
    BY <1>3, <1>5, <2>1, <2>2, <2>3, <2>4 DEF Right, Like, DirRow
<1>14. CASE a.do = "auto_link"
  <2>1. /\ ~IsMove(a) /\ p = a.path /\ Here(a) = {} /\ There(a) = {} /\ Like(L[p], R[p])
        /\ IF a.kind = "dir" THEN R[p].kind = "dir" /\ a.id = R[p].id
           ELSE R[p].kind = "file" /\ RemoteId(R[p], B[p]) = R[p].id
    BY <1>6, <1>7, <1>14 DEF IsMove, Deletes, Warranted, Here, There
  <2>2. Like(x.disk[p], L[p]) /\ Like(x.cloud[p], R[p])
    BY <1>4, <2>1 DEF SeenHere, SeenThere, Like
  <2>3. Like(y.disk[p], x.disk[p]) /\ Like(y.cloud[p], x.cloud[p])
    BY <1>1, <1>3, <1>14, <2>1 DEF Beyond
  <2>4. y.base[p] = IF a.kind = "dir" THEN DirRow(a.id)
                    ELSE FileRow(L[p].hash, RemoteId(R[p], B[p]), "synced")
    BY <1>1, <1>14, <2>1 DEF Sets
  <2> QED
    BY <1>3, <1>5, <2>1, <2>2, <2>3, <2>4 DEF Right, Like, DirRow, FileRow
<1>15. CASE a.do = "purge"
  <2>1. /\ ~IsMove(a) /\ p = a.path /\ Here(a) = {} /\ There(a) = {}
        /\ L[p].kind = "none" /\ R[p].kind = "none"
    BY <1>6, <1>7, <1>15 DEF IsMove, Deletes, Warranted, Here, There
  <2>2. Like(x.disk[p], L[p]) /\ Like(x.cloud[p], R[p])
    BY <1>4, <2>1 DEF SeenHere, SeenThere
  <2>3. Like(y.disk[p], x.disk[p]) /\ Like(y.cloud[p], x.cloud[p])
    BY <1>1, <1>3, <1>15, <2>1 DEF Beyond
  <2>4. y.base[p] = NoRow
    BY <1>1, <1>15, <2>1 DEF Sets
  <2> QED
    BY <1>3, <1>5, <1>8, <2>1, <2>2, <2>3, <2>4 DEF Right, Like
<1>16. CASE a.do \in {"local_delete", "remote_delete"}
  <2>1. /\ a.do \in Deletes /\ ~IsMove(a) /\ (a.kind = "dir" => Scope(a) = Subtree(a.path))
        /\ a.kind \in {"file", "dir"}
    BY <1>1, <1>6, <1>16, ScopeIs DEF IsMove, Deletes, Warranted
  <2>2. p = a.path \/ (a.kind = "dir" /\ Below(a.path, p))
    BY <1>3, <1>7, <2>1, SubtreeIs
  <2>3. a.kind = "dir" => ~OnTheWay(plan, i - 1, p)
    <3>1. Len(plan) \in Nat /\ i \in Nat
      BY <1>1, <1>2, PlanShape
    <3>2. \A j \in 1 .. i - 1 : j \in 1 .. Len(plan)
      BY <1>1, <3>1
    <3> QED
      BY <1>1, <1>2, <2>1, <3>2, NothingMadeBelow DEF OnTheWay
  <2>4. CASE a.do = "local_delete"
    <3>1. R[p].kind = "none" /\ L[a.path].kind = a.kind
      <4>1. R[a.path].kind = "none" /\ L[a.path].kind = a.kind
        BY <1>6, <2>1, <2>4 DEF Warranted
      <4> QED
        BY <1>2, <1>3, <2>2, <4>1, NothingBelow
    <3>2. Like(x.cloud[p], R[p])
      BY <1>4, <2>1, <2>2, <2>3, <3>1 DEF SeenThere
    <3>3. Like(y.cloud[p], x.cloud[p])
      <4>1. There(a) = {}
        BY <2>4 DEF There
      <4> QED
        BY <1>1, <1>3, <2>4, <4>1 DEF Beyond
    <3>4. y.disk[p].kind = "none" /\ y.base[p] = NoRow
      BY <1>1, <2>4 DEF Sets
    <3> QED
      BY <1>3, <1>5, <1>8, <3>1, <3>2, <3>3, <3>4 DEF Right, Like
  <2>5. CASE a.do = "remote_delete"
    <3>1. L[p].kind = "none" /\ R[a.path].kind = a.kind
      <4>1. L[a.path].kind = "none" /\ R[a.path].kind = a.kind
        BY <1>6, <2>1, <2>5 DEF Warranted
      <4> QED
        BY <1>2, <1>3, <2>2, <4>1, NothingBelow
    <3>2. Like(x.disk[p], L[p])
      BY <1>4, <2>1, <2>2, <2>3, <3>1 DEF SeenHere
    <3>3. Like(y.disk[p], x.disk[p])
      <4>1. Here(a) = {}
        BY <2>5 DEF Here
      <4> QED
        BY <1>1, <1>3, <2>5, <4>1 DEF Beyond
    <3>4. y.cloud[p].kind = "none" /\ y.base[p] = NoRow /\ y.told # <<>>
      BY <1>1, <2>5 DEF Sets
    <3> QED
      BY <1>3, <1>5, <1>8, <3>1, <3>2, <3>3, <3>4 DEF Right, Like
  <2> QED
    BY <1>16, <2>4, <2>5
<1>17. CASE a.do = "move_local"
  <2>1. /\ IsMove(a) /\ There(a) = {}
        /\ L[a.path].kind = "file" /\ R[a.path].kind = "none"
        /\ L[a.to].kind = "none" /\ R[a.to].kind = "file"
        /\ L[a.path].hash = R[a.to].hash /\ a.id = R[a.to].id
    BY <1>6, <1>17 DEF IsMove, There
  <2>2. Like(x.disk[a.path], L[a.path])
    BY <1>4, <2>1 DEF SeenHere
  <2>3. Like(x.cloud[p], R[p])
    BY <1>4, <1>7, <1>17, <2>1 DEF SeenThere
  <2>4. Like(y.cloud[p], x.cloud[p])
    BY <1>1, <1>3, <1>17, <2>1 DEF Beyond
  <2>5. /\ Like(y.disk[a.to], x.disk[a.path]) /\ x.disk[a.path].kind = "file"
        /\ y.disk[a.path].kind = "none" /\ y.base[a.path] = NoRow
        /\ y.base[a.to] = FileRow(x.disk[a.path].hash, a.id, "synced")
    BY <1>1, <1>17 DEF Sets
  <2>6. CASE p = a.path
    BY <1>3, <1>5, <1>8, <2>1, <2>3, <2>4, <2>5, <2>6 DEF Right, Like
  <2>7. CASE p = a.to
    BY <1>3, <1>5, <2>1, <2>2, <2>3, <2>4, <2>5, <2>7 DEF Right, Like, FileRow
  <2> QED
    BY <1>7, <2>1, <2>6, <2>7
<1>18. CASE a.do = "move_remote"
  <2>1. /\ IsMove(a) /\ Here(a) = {}
        /\ R[a.path].kind = "file" /\ L[a.path].kind = "none"
        /\ R[a.to].kind = "none" /\ L[a.to].kind = "file"
        /\ R[a.path].hash = L[a.to].hash
    BY <1>6, <1>18 DEF IsMove, Here
  <2>2. Like(x.cloud[a.path], R[a.path])
    BY <1>4, <2>1 DEF SeenThere
  <2>3. Like(x.disk[p], L[p])
    BY <1>4, <1>7, <1>18, <2>1 DEF SeenHere
  <2>4. Like(y.disk[p], x.disk[p])
    BY <1>1, <1>3, <1>18, <2>1 DEF Beyond
  <2>5. /\ Like(y.cloud[a.to], x.cloud[a.path]) /\ x.cloud[a.path].kind = "file"
        /\ y.cloud[a.path].kind = "none" /\ y.base[a.path] = NoRow
        /\ y.base[a.to] = FileRow(L[a.to].hash, a.id, "synced") /\ y.told # <<>>
    BY <1>1, <1>18 DEF Sets
  <2>6. CASE p = a.path
    BY <1>3, <1>5, <1>8, <2>1, <2>3, <2>4, <2>5, <2>6 DEF Right, Like
  <2>7. CASE p = a.to
    BY <1>3, <1>5, <2>1, <2>2, <2>3, <2>4, <2>5, <2>7 DEF Right, Like, FileRow
  <2> QED
    BY <1>7, <2>1, <2>6, <2>7
<1>19. a.do \in {"upload", "download", "conflict", "conflict_local", "create_remote_dir",
                 "create_local_dir", "auto_link", "local_delete", "remote_delete", "purge",
                 "move_local", "move_remote"}
  BY <1>6 DEF Warranted, IsMove
<1> QED
  BY <1>9, <1>10, <1>11, <1>12, <1>13, <1>14, <1>15, <1>16, <1>17, <1>18, <1>19

(* A folder is made on the way only where none of the two sides has been   *)
(* settled: what is to come into it is held, here or there.                *)
LEMMA WayIsOpen ==
  ASSUME NEW x, NEW plan, NEW i, NEW a, NEW y, NEW K, NEW L, NEW R, NEW B,
         Well(x, plan, i, a, y, K, L, R, B), NEW p \in Paths, p = Parent(Into(a))
  PROVE  /\ a.do \in {"download", "move_local"} => x.cloud[p].kind = "dir" /\ R[p].kind = "dir"
         /\ a.do \in {"upload", "move_remote"} => x.disk[p].kind = "dir" /\ L[p].kind = "dir"
         /\ Len(p) = 1 /\ (a.do \in {"upload", "download", "move_local", "move_remote"} => Below(p, Into(a)))
<1>1. /\ FittingWalk(K, L, R, B) /\ plan = Planned(L, R, B) /\ i \in 1 .. Len(plan) /\ a = plan[i]
      /\ \A q \in Paths : Stands(x, plan, i - 1, L, R, B, q)
      /\ Tame(x, a) /\ Sets(x, a, y, L, R, B)
  BY DEF Well
<1>2. Trees(L, R, B) /\ L \in Folder /\ R \in Folder
  BY <1>1, WalkIs DEF FittingWalk
<1>3. /\ a.path \in Paths /\ (IsMove(a) => a.to \in Paths)
      /\ a.path \in Scope(a) /\ (IsMove(a) => a.to \in Scope(a))
  BY <1>1, ScopeIs DEF Tame
<1>4. Into(a) \in Paths
  BY <1>3 DEF Into
<1>5. Len(Into(a)) = 2 /\ Len(p) = 1 /\ Below(p, Into(a))
  <2>1. Len(Into(a)) = 2
    BY <1>4, ParentIsTop
  <2> QED
    BY <1>4, <2>1, Parents
<1>6. x.disk \in Folder /\ x.cloud \in Folder
  BY WhatIsThere
<1>7. ASSUME a.do \in {"download", "move_local"}
      PROVE  x.cloud[Into(a)].kind # "none" /\ R[Into(a)].kind # "none"
  <2>1. CASE a.do = "download"
    <3>1. Into(a) = a.path /\ R[a.path].kind = "file"
      BY <2>1, WhatIsThere DEF Into, IsMove, Warranted
    <3>2. x.cloud[a.path].kind = "file"
      BY <1>1, <2>1 DEF Sets
    <3> QED
      BY <3>1, <3>2
  <2>2. CASE a.do = "move_local"
    <3>1. Into(a) = a.to /\ R[a.to].kind = "file" /\ a.to \in Scope(a) /\ a.to \in Paths
      BY <1>3, <2>2, WhatIsThere DEF Into, IsMove
    <3>2. SeenThere(x, plan, i - 1, L, R, a.to)
      BY <1>1, <1>2, <2>2, <3>1, StillSeen
    <3> QED
      BY <3>1, <3>2 DEF SeenThere, Like
  <2> QED
    BY <1>7, <2>1, <2>2
<1>8. ASSUME a.do \in {"upload", "move_remote"}
      PROVE  x.disk[Into(a)].kind # "none" /\ L[Into(a)].kind # "none"
  <2>1. CASE a.do = "upload"
    <3>1. Into(a) = a.path /\ L[a.path].kind = "file"
      BY <2>1, WhatIsThere DEF Into, IsMove, Warranted
    <3>2. x.disk[a.path].kind = "file"
      BY <1>1, <2>1 DEF Sets
    <3> QED
      BY <3>1, <3>2
  <2>2. CASE a.do = "move_remote"
    <3>1. Into(a) = a.to /\ L[a.to].kind = "file" /\ a.to \in Scope(a) /\ a.to \in Paths
      BY <1>3, <2>2, WhatIsThere DEF Into, IsMove
    <3>2. SeenHere(x, plan, i - 1, L, R, a.to)
      BY <1>1, <1>2, <2>2, <3>1, StillSeen
    <3> QED
      BY <3>1, <3>2 DEF SeenHere, Like
  <2> QED
    BY <1>8, <2>1, <2>2
<1> QED
  BY <1>2, <1>4, <1>5, <1>6, <1>7, <1>8, BelowADirectory

(* Below a file nothing is.                                                *)
LEMMA DroppedIsGone ==
  ASSUME NEW x, NEW plan, NEW i, NEW a, NEW y, NEW K, NEW L, NEW R, NEW B,
         Well(x, plan, i, a, y, K, L, R, B), NEW p \in Paths \ Scope(a), y.base[p] # x.base[p]
  PROVE  /\ y.base[p] = NoRow /\ Like(NoRow, NoNode)
         /\ Like(x.disk[p], NoNode) /\ Like(x.cloud[p], NoNode)
         /\ Like(y.disk[p], NoNode) /\ Like(y.cloud[p], NoNode)
<1>1. Tame(x, a) /\ Beyond(x, a, y)
  BY DEF Well
<1>2. /\ y.base[p] = NoRow /\ Below(a.path, p)
      /\ x.disk[a.path].kind # "dir" /\ x.cloud[a.path].kind # "dir"
  BY <1>1 DEF Beyond
<1>3. x.disk \in Folder /\ x.cloud \in Folder /\ a.path \in Paths
  BY <1>1, WhatIsThere DEF Tame
<1>4. Like(x.disk[p], NoNode) /\ Like(x.cloud[p], NoNode)
  BY <1>2, <1>3, NothingBelow
<1>5. p # Parent(Into(a))
  <2>1. Len(p) = 2
    BY <1>2, <1>3, Parents
  <2> QED
    BY <2>1, WayIsOpen
<1>6. p \notin Here(a) /\ p \notin There(a)
  BY DEF Here, There
<1>7. Like(y.disk[p], x.disk[p]) /\ Like(y.cloud[p], x.cloud[p])
  BY <1>1, <1>5, <1>6 DEF Beyond
<1> QED
  BY <1>2, <1>4, <1>7 DEF Like, NoRow, NoNode

LEMMA StaysRight ==
  ASSUME NEW x, NEW plan, NEW i, NEW a, NEW y, NEW K, NEW L, NEW R, NEW B,
         Well(x, plan, i, a, y, K, L, R, B), Later(x, y),
         NEW p \in Paths \ Scope(a), Right(x, R, p)
  PROVE  Right(y, R, p)
<1>1. Tame(x, a) /\ Beyond(x, a, y) /\ (y.told = <<>> => y.cloud = R)
  BY DEF Well
<1>2. y.told = <<>> => x.told = <<>>
  BY DEF Later
<1>3. CASE y.base[p] # x.base[p]
  <2>1. /\ y.base[p] = NoRow /\ Like(NoRow, NoNode)
        /\ Like(y.disk[p], NoNode) /\ Like(y.cloud[p], NoNode)
    BY <1>3, DroppedIsGone
  <2>2. y.cloud[p].kind = "none"
    BY <2>1 DEF Like, NoNode
  <2> QED
    BY <1>1, <2>1, <2>2 DEF Right, Like
<1>4. CASE y.base[p] = x.base[p]
  <2>1. CASE x.base[p].status = "conflict"
    BY <1>4, <2>1 DEF Right
  <2>2. CASE x.base[p].status # "conflict"
    <3>1. Like(x.disk[p], x.cloud[p]) /\ Like(x.base[p], x.cloud[p])
      BY <2>2 DEF Right
    <3>2. p \notin Here(a) /\ p \notin There(a)
      BY DEF Here, There
    <3>3. Like(y.disk[p], x.disk[p])
      <4>1. p = Parent(Into(a)) /\ a.do \in {"download", "move_local"} => x.disk[p].kind # "none"
        BY <3>1, WayIsOpen DEF Like
      <4> QED
        BY <1>1, <3>2, <4>1 DEF Beyond
    <3>4. Like(y.cloud[p], x.cloud[p])
      <4>1. p = Parent(Into(a)) /\ a.do \in {"upload", "move_remote"} => x.cloud[p].kind # "none"
        BY <3>1, WayIsOpen DEF Like
      <4> QED
        BY <1>1, <3>2, <4>1 DEF Beyond
    <3> QED
      BY <1>2, <1>4, <2>2, <3>1, <3>3, <3>4 DEF Right, Like
  <2> QED
    BY <2>1, <2>2
<1> QED
  BY <1>3, <1>4

LEMMA StandsOn ==
  ASSUME NEW x, NEW plan, NEW i, NEW a, NEW y, NEW K, NEW L, NEW R, NEW B,
         Well(x, plan, i, a, y, K, L, R, B), NEW p \in Paths
  PROVE  Stands(y, plan, i, L, R, B, p)
<1>1. /\ Tame(x, a) /\ Beyond(x, a, y) /\ a = plan[i]
      /\ Stands(x, plan, i - 1, L, R, B, p)
  BY DEF Well
<1>2. i \in Nat \ {0} /\ i \in 1 .. i /\ \A j \in 1 .. i - 1 : j \in 1 .. i
  <2>1. Len(plan) \in Nat /\ i \in 1 .. Len(plan)
    BY PlanShape, WalkIs DEF Well
  <2> QED
    BY <2>1
<1>3. OnTheWay(plan, i - 1, p) => OnTheWay(plan, i, p)
  BY <1>2 DEF OnTheWay
<1>4. ASSUME \A j \in 1 .. i : p \notin Here(plan[j]) PROVE SeenHere(y, plan, i, L, R, p)
  <2>1. p \notin Here(a) /\ SeenHere(x, plan, i - 1, L, R, p)
    BY <1>1, <1>2, <1>4 DEF Stands
  <2>2. CASE Like(y.disk[p], x.disk[p])
    BY <1>3, <2>1, <2>2 DEF SeenHere, Like
  <2>3. CASE ~Like(y.disk[p], x.disk[p])
    <3>1. /\ a.do \in {"download", "move_local"} /\ p = Parent(Into(a))
          /\ x.disk[p].kind = "none" /\ y.disk[p].kind = "dir"
      BY <1>1, <2>1, <2>3 DEF Beyond
    <3>2. R[p].kind = "dir" /\ Below(p, Into(a))
      BY <3>1, WayIsOpen
    <3>3. L[p].kind = "none"
      BY <2>1, <3>1 DEF SeenHere, Like
    <3>4. OnTheWay(plan, i, p)
      BY <1>1, <1>2, <3>2 DEF OnTheWay
    <3> QED
      BY <3>1, <3>2, <3>3, <3>4 DEF SeenHere
  <2> QED
    BY <2>2, <2>3
<1>5. ASSUME \A j \in 1 .. i : p \notin There(plan[j]) PROVE SeenThere(y, plan, i, L, R, p)
  <2>1. p \notin There(a) /\ SeenThere(x, plan, i - 1, L, R, p)
    BY <1>1, <1>2, <1>5 DEF Stands
  <2>2. CASE Like(y.cloud[p], x.cloud[p])
    BY <1>3, <2>1, <2>2 DEF SeenThere, Like
  <2>3. CASE ~Like(y.cloud[p], x.cloud[p])
    <3>1. /\ a.do \in {"upload", "move_remote"} /\ p = Parent(Into(a))
          /\ x.cloud[p].kind = "none" /\ y.cloud[p].kind = "dir"
      BY <1>1, <2>1, <2>3 DEF Beyond
    <3>2. L[p].kind = "dir" /\ Below(p, Into(a))
      BY <3>1, WayIsOpen
    <3>3. R[p].kind = "none"
      BY <2>1, <3>1 DEF SeenThere, Like
    <3>4. OnTheWay(plan, i, p)
      BY <1>1, <1>2, <3>2 DEF OnTheWay
    <3> QED
      BY <3>1, <3>2, <3>3, <3>4 DEF SeenThere
  <2> QED
    BY <2>2, <2>3
<1>6. ASSUME \A j \in 1 .. i : p \notin Scope(plan[j]) PROVE SeenRow(y, L, R, B, p)
  <2>1. p \notin Scope(a) /\ SeenRow(x, L, R, B, p)
    BY <1>1, <1>2, <1>6 DEF Stands
  <2>2. SeenHere(x, plan, i - 1, L, R, p) /\ SeenThere(x, plan, i - 1, L, R, p)
    <3>1. \A b : Here(b) \subseteq Scope(b) /\ There(b) \subseteq Scope(b)
      BY DEF Here, There
    <3> QED
      BY <1>1, <1>2, <1>6, <3>1 DEF Stands
  <2>3. CASE y.base[p] = x.base[p]
    BY <2>1, <2>3 DEF SeenRow
  <2>4. CASE y.base[p] # x.base[p]
    <3>1. y.base[p] = NoRow /\ Like(x.disk[p], NoNode) /\ Like(x.cloud[p], NoNode)
      BY <2>1, <2>4, DroppedIsGone
    <3> QED
      BY <2>2, <3>1 DEF SeenRow, SeenHere, SeenThere, Like, NoNode
  <2> QED
    BY <2>3, <2>4
<1> QED
  BY <1>4, <1>5, <1>6 DEF Stands

-----------------------------------------------------------------------------
(* A walk underway: what is behind it is right, what is before it is as it *)
(* was seen, as long as nothing was cut short.                             *)
Midway(plan, K, i, L, R, B) ==
  {x \in Within(K) :
     /\ ~x.bad
     /\ Clean(x) =>
          /\ x.told = <<>> => x.cloud = R
          /\ \A j \in 1 .. i : ~MovesDir(plan[j])
          /\ \A p \in Paths : Stands(x, plan, i, L, R, B, p)
          /\ \A p \in Paths : (\E j \in 1 .. i : p \in Scope(plan[j])) => Right(x, R, p)}

(* A folder that moves asks for another walk.                              *)
LEMMA MovingDirMarks ==
  ASSUME NEW x \in Running, NEW a, a.path \in Paths, a.to \in Paths, MovesDir(a),
         NEW plannedDirs, NEW L, NEW R, NEW B
  PROVE  LET y == Perform(x, a, L, R, B, plannedDirs) IN y.bad \/ ~Clean(y)
<1> DEFINE z == EnsureLocal(x, Parent(a.to))
           y == MoveLocalDir(x, a, R, B)
<1>1. Perform(x, a, L, R, B, plannedDirs) = y
  BY DEF Perform, MovesDir
<1>2. z \in Running
  <2>1. Parent(a.to) \in Paths \cup {Beginning}
    BY ParentIsTop
  <2> QED
    BY <2>1, EnsuringLocal
<1> HIDE DEF z
<1>3. y = Bad(z) \/ \E d, u, b : y = Rescan([z EXCEPT !.disk = d, !.untold = u, !.base = b], a)
  BY DEF MoveLocalDir, z
<1> HIDE DEF y
<1>4. y.bad \/ y.rescan
  BY <1>2, <1>3 DEF Bad, Rescan, Running
<1> QED
  BY <1>1, <1>4 DEF Clean

LEMMA CutShort ==
  ASSUME NEW K \in Ranges, NEW plan, NEW i, NEW L, NEW R, NEW B,
         NEW x \in Within(K), NEW y \in Within(K), ~x.bad
  PROVE  /\ [x EXCEPT !.withheld = TRUE] \in Midway(plan, K, i, L, R, B)
         /\ Failed(x, y) \in Midway(plan, K, i, L, R, B)
<1>0. x \in Running /\ y \in Running
  BY DEF Within
<1>1. [x EXCEPT !.withheld = TRUE] \in Midway(plan, K, i, L, R, B)
  <2> DEFINE z == [x EXCEPT !.withheld = TRUE]
  <2>1. /\ z \in Running /\ z.disk = x.disk /\ z.cloud = x.cloud /\ z.base = x.base
        /\ z.bad = x.bad /\ z.withheld
    BY <1>0 DEF Running
  <2> HIDE DEF z
  <2>2. z \in Within(K)
    BY <2>1, StaysWithin
  <2>3. z \in Midway(plan, K, i, L, R, B)
    BY <2>1, <2>2 DEF Midway, Clean
  <2> QED
    BY <2>3 DEF z
<1>2. Failed(x, y) \in Midway(plan, K, i, L, R, B)
  <2> DEFINE z == Failed(x, y)
  <2>1. /\ z \in Running /\ z.disk = y.disk /\ z.cloud = y.cloud /\ z.base = x.base
        /\ ~z.bad /\ z.failed
    BY <1>0 DEF Failed, Running
  <2> HIDE DEF z
  <2>2. z \in Within(K)
    BY <2>1 DEF Within
  <2>3. z \in Midway(plan, K, i, L, R, B)
    BY <2>1, <2>2 DEF Midway, Clean
  <2> QED
    BY <2>3 DEF z
<1> QED
  BY <1>1, <1>2

LEMMA ActionOnTheWay ==
  ASSUME NEW K, NEW L, NEW R, NEW B, FittingWalk(K, L, R, B), NEW plan, plan = Planned(L, R, B),
         NEW i \in 1 .. Len(plan), NEW x \in Midway(plan, K, i - 1, L, R, B)
  PROVE  LET y == RunAction(x, plan[i], L, R, B, PlannedDirs(plan))
         IN y \in Within(K) /\ ~y.bad /\ y \in Midway(plan, K, i, L, R, B)
<1> DEFINE a == plan[i]
           y == Perform(x, a, L, R, B, PlannedDirs(plan))
           v == RunAction(x, a, L, R, B, PlannedDirs(plan))
<1>1. x \in Within(K) /\ x \in Running /\ ~x.bad
  BY DEF Midway, Within
<1>2. /\ Trees(L, R, B) /\ Flat(L) /\ Flat(R) /\ Flat(B) /\ Numbered(R) /\ K \in Ranges
      /\ L \in [Paths -> TidyNode] /\ R \in [Paths -> TidyNode] /\ B \in Records
      /\ Fitting(K, L, R) /\ NoClash(L, R)
  BY WalkIs DEF FittingWalk
<1>3. Sees(a, L, R) /\ Suits(a, K) /\ Orderly(a, L) /\ Len(plan) \in Nat
  BY <1>2, PlanSees, PlanSuits, PlanShape
<1>4. y \in Within(K)
  <2>1. \A q \in Paths : Len(q) = 2 => B[q].kind # "dir"
    BY <1>2 DEF Flat
  <2> HIDE DEF a
  <2>2. Goes(x, a, y, K, PlannedDirs(plan))
    BY <1>1, <1>2, <1>3, <2>1, PerformGoes
  <2> QED
    BY <2>2 DEF Goes
<1>5. v = IF y.bad THEN Failed(x, y) ELSE y
  BY DEF RunAction
<1>6. a = Planned(L, R, B)[i] /\ i \in 1 .. Len(Planned(L, R, B))
  OBVIOUS
<1> HIDE DEF a, y, v
<1>7. CASE y.bad
  <2>1. v = Failed(x, y) /\ v \in Midway(plan, K, i, L, R, B)
    BY <1>1, <1>2, <1>4, <1>5, <1>7, CutShort
  <2> QED
    BY <2>1 DEF Midway, v, a
<1>8. CASE ~y.bad
  <2>1. SUFFICES ASSUME Clean(y)
                 PROVE  /\ y.told = <<>> => y.cloud = R
                        /\ \A j \in 1 .. i : ~MovesDir(plan[j])
                        /\ \A p \in Paths : Stands(y, plan, i, L, R, B, p)
                        /\ \A p \in Paths :
                             (\E j \in 1 .. i : p \in Scope(plan[j])) => Right(y, R, p)
    BY <1>4, <1>5, <1>8 DEF Midway, v, a
  <2>2. ~MovesDir(a)
    <3>1. MovesDir(a) => a.path \in Paths /\ a.to \in Paths
      BY <1>3 DEF MovesDir, Sees
    <3> QED
      BY <1>1, <1>8, <2>1, <3>1, MovingDirMarks DEF y
  <2>3. Tame(x, a)
    BY <1>1, <1>6, <2>2, PlannedTame
  <2>4. IsMove(a) \/ Warranted(a, L, R, B)
    <3> SUFFICES ASSUME ~IsMove(a) PROVE Warranted(a, L, R, B)
      OBVIOUS
    <3>1. /\ a.path \in Paths /\ a = Decided(L, R, B, a.path) /\ a.do # "none"
      BY <1>2, <1>6, PlanComes
    <3>2. Proved(L, R, B, Settled(L, R, B), a.path) \in BOOLEAN
      BY DEF Proved
    <3>3. a = PlanEntity(L, R, B, a.path, Proved(L, R, B, Settled(L, R, B), a.path))
      BY <3>1 DEF Decided
    <3>4. ~Clash(L, R, a.path)
      BY <1>2, <3>1 DEF NoClash
    <3> QED
      BY <1>2, <3>1, <3>2, <3>3, <3>4, DecisionWarranted
  <2>5. Works(x, a, y, L, R, B)
    BY <1>1, <1>2, <2>3, <2>4, PerformWorks DEF y
  <2>6. Later(x, y) /\ Beyond(x, a, y) /\ Sets(x, a, y, L, R, B) /\ Clean(x)
    BY <1>8, <2>1, <2>5 DEF Works, Later
  <2>7. /\ x.told = <<>> => x.cloud = R
        /\ \A j \in 1 .. i - 1 : ~MovesDir(plan[j])
        /\ \A p \in Paths : Stands(x, plan, i - 1, L, R, B, p)
        /\ \A p \in Paths : (\E j \in 1 .. i - 1 : p \in Scope(plan[j])) => Right(x, R, p)
    BY <2>6 DEF Midway
  <2>8. y.told = <<>> => y.cloud = R
    BY <2>6, <2>7 DEF Later
  <2>9. Well(x, plan, i, a, y, K, L, R, B)
    BY <1>1, <1>4, <2>3, <2>6, <2>7, <2>8 DEF Well, a
  <2>10. \A j \in 1 .. i : j = i \/ j \in 1 .. i - 1
    BY <1>3
  <2>11. \A j \in 1 .. i : ~MovesDir(plan[j])
    BY <2>2, <2>7, <2>10 DEF a
  <2>12. ASSUME NEW p \in Paths, NEW j \in 1 .. i, p \in Scope(plan[j]) PROVE Right(y, R, p)
    <3>1. CASE p \in Scope(a)
      BY <2>9, <3>1, ComesRight
    <3>2. CASE p \notin Scope(a)
      <4>1. j \in 1 .. i - 1
        BY <2>10, <2>12, <3>2 DEF a
      <4>2. Right(x, R, p)
        BY <2>7, <2>12, <4>1
      <4> QED
        BY <2>6, <2>9, <3>2, <4>2, StaysRight
    <3> QED
      BY <3>1, <3>2
  <2>13. \A p \in Paths : Stands(y, plan, i, L, R, B, p)
    BY <2>9, StandsOn
  <2> QED
    BY <2>8, <2>11, <2>12, <2>13
<1> QED
  BY <1>7, <1>8 DEF v, a

(* A walk that is done with its plan.                                      *)
LEMMA PlanDone ==
  ASSUME NEW K, NEW L, NEW R, NEW B, FittingWalk(K, L, R, B), NEW start \in Within(K),
         start.disk = L, start.cloud = R, start.base = B, ~start.bad,
         NEW approve \in BOOLEAN, NEW fault, ~fault.crash
  PROVE  LET x == RunPlan(Planned(L, R, B), start, approve, fault, L, R, B)
         IN /\ x \in Within(K)
            /\ Clean(x) =>
                 /\ x.told = <<>> => x.cloud = R
                 /\ \A p \in Paths : Right(x, R, p)
<1> DEFINE plan == Planned(L, R, B)
           n == Len(plan)
           T == [i \in 0 .. n |-> Midway(plan, K, i, L, R, B)]
           x == RunPlan(plan, start, approve, fault, L, R, B)
<1>1. /\ n \in Nat /\ Trees(L, R, B) /\ Numbered(R) /\ NoClash(L, R) /\ B \in Records
      /\ K \in Ranges /\ L \in Folder /\ R \in Folder
  BY WalkIs, PlanShape DEF FittingWalk
<1> HIDE DEF plan
<1>2. start \in T[0]
  <2>1. \A p \in Paths : Stands(start, plan, 0, L, R, B, p)
    BY DEF Stands, SeenHere, SeenThere, SeenRow, Like
  <2>2. start \in Midway(plan, K, 0, L, R, B)
    BY <2>1 DEF Midway
  <2> QED
    BY <1>1, <2>2
<1>3. ASSUME NEW i \in 1 .. n, NEW z \in T[i - 1]
      PROVE  LET y == RunAction(z, plan[i], L, R, B, PlannedDirs(plan))
             IN /\ [z EXCEPT !.withheld = TRUE] \in T[i] \/ plan[i].do \notin Deletes
                /\ y \in T[i]
                /\ i = fault.at => Failed(z, z) \in T[i] /\ Failed(z, y) \in T[i]
  <2>1. i - 1 \in 0 .. n /\ i \in 0 .. n
    BY <1>1
  <2>2. z \in Midway(plan, K, i - 1, L, R, B) /\ T[i] = Midway(plan, K, i, L, R, B)
    BY <2>1
  <2> HIDE DEF T
  <2> DEFINE y == RunAction(z, plan[i], L, R, B, PlannedDirs(plan))
  <2>3. y \in Within(K) /\ y \in Midway(plan, K, i, L, R, B)
    BY <2>2, ActionOnTheWay DEF plan
  <2>4. z \in Within(K) /\ ~z.bad
    BY <2>2 DEF Midway
  <2> HIDE DEF y
  <2>5. /\ [z EXCEPT !.withheld = TRUE] \in T[i] /\ y \in T[i]
        /\ Failed(z, z) \in T[i] /\ Failed(z, y) \in T[i]
    <3>1. ASSUME NEW w \in Within(K)
          PROVE  /\ [z EXCEPT !.withheld = TRUE] \in Midway(plan, K, i, L, R, B)
                 /\ Failed(z, w) \in Midway(plan, K, i, L, R, B)
      BY <1>1, <2>4, CutShort, ZenonT(30)
    <3> QED
      BY <2>2, <2>3, <2>4, <3>1, ZenonT(30)
  <2> QED
    BY <2>5 DEF y
<1>4. T[n] = Midway(plan, K, n, L, R, B)
  BY <1>1
<1> HIDE DEF T
<1>5. x \in Midway(plan, K, n, L, R, B)
  <2>1. x \in T[n]
    BY <1>1, <1>2, <1>3, RunReaches
  <2> QED
    BY <1>4, <2>1
<1> HIDE DEF x
<1>6. ASSUME Clean(x), NEW p \in Paths PROVE Right(x, R, p)
  <2>1. /\ x.told = <<>> => x.cloud = R
        /\ \A j \in 1 .. n : ~MovesDir(plan[j])
        /\ Stands(x, plan, n, L, R, B, p)
        /\ (\E j \in 1 .. n : p \in Scope(plan[j])) => Right(x, R, p)
    BY <1>5, <1>6 DEF Midway
  <2>2. CASE \A j \in 1 .. n : p \notin Scope(plan[j])
    <3>1. AtRest(L, R, B, p)
      BY <1>1, <2>1, <2>2, PlanCovers DEF plan
    <3>2. SeenHere(x, plan, n, L, R, p) /\ SeenThere(x, plan, n, L, R, p) /\ SeenRow(x, L, R, B, p)
      <4>1. \A b : Here(b) \subseteq Scope(b) /\ There(b) \subseteq Scope(b)
        BY DEF Here, There
      <4> QED
        BY <2>1, <2>2, <4>1 DEF Stands
    <3>3. CASE x.base[p] = B[p]
      <4>1. CASE B[p].status = "conflict"
        BY <3>3, <4>1 DEF Right
      <4>2. CASE B[p].status # "conflict"
        <5>1. Like(L[p], R[p]) /\ Tells(B[p], R[p])
          BY <3>1, <4>2 DEF AtRest
        <5>2. Like(x.disk[p], L[p]) /\ Like(x.cloud[p], R[p])
          BY <3>2, <5>1 DEF SeenHere, SeenThere, Like
        <5> QED
          BY <3>3, <5>1, <5>2 DEF Right, Like, Tells
      <4> QED
        BY <4>1, <4>2
    <3>4. CASE x.base[p] # B[p]
      <4>1. x.base[p] = NoRow /\ L[p].kind = "none" /\ R[p].kind = "none"
        BY <3>2, <3>4 DEF SeenRow
      <4>2. Like(x.disk[p], L[p]) /\ Like(x.cloud[p], R[p])
        BY <3>2, <4>1 DEF SeenHere, SeenThere
      <4>3. L[p].hash = 0 /\ R[p].hash = 0
        BY <1>1, <4>1, TidyParts DEF Folder
      <4> QED
        BY <4>1, <4>2, <4>3 DEF Right, Like, NoRow
    <3> QED
      BY <3>3, <3>4
  <2> QED
    BY <2>1, <2>2
<1>7. /\ x \in Within(K)
      /\ Clean(x) => (x.told = <<>> => x.cloud = R)
  BY <1>5 DEF Midway
<1> QED
  BY <1>6, <1>7 DEF x, plan

(* A full pass after which no scan is asked for and none is owed was not   *)
(* raced, cut or held up, and missed nothing.                              *)
LEMMA WholePassIs ==
  ASSUME NEW R, NEW waiting, PassOver(R, TRUE, waiting), ~awake', ~owed'
  PROVE  /\ unlisted = {}
         /\ \E approve \in BOOLEAN, fault \in FaultsOf(Planned(disk, R, base)) :
              LET x == RunPlan(Planned(disk, R, base), Start0(disk), approve, fault, disk, R, base)
              IN /\ disk' = x.disk /\ cloud' = x.cloud /\ base' = x.base
                 /\ ~fault.crash /\ Clean(x) /\ delta' = x.told
<1> DEFINE plan == Planned(disk, R, base)
           x(raced, approve, fault) ==
             RunPlan(plan, Start0(raced), approve, fault, disk, R, base)
           held(z) == z.failed \/ z.vanished \/ z.withheld \/ waiting # {}
<1>1. PICK approve \in BOOLEAN,
           raced \in {disk} \cup (IF Races /\ edits > 0 THEN LocalEdits(disk) ELSE {}),
           fault \in FaultsOf(plan) :
        LET z == x(raced, approve, fault)
        IN /\ disk' = z.disk /\ cloud' = z.cloud /\ base' = z.base
           /\ fault.crash => awake' = TRUE
           /\ ~fault.crash =>
                /\ delta' = IF held(z) THEN delta \o z.told ELSE z.told
                /\ owed' = (held(z) \/ unlisted # {})
                /\ awake' = (z.rescan \/ z.withheld \/ raced # disk)
  BY DEF PassOver
<1> HIDE DEF plan, x
<1>2. ~fault.crash
  BY <1>1
<1>3. ~held(x(raced, approve, fault)) /\ unlisted = {}
  BY <1>1, <1>2
<1>4. raced = disk /\ ~x(raced, approve, fault).rescan
  BY <1>1, <1>2
<1>5. Clean(x(disk, approve, fault)) /\ delta' = x(disk, approve, fault).told
  BY <1>1, <1>2, <1>3, <1>4 DEF Clean
<1> QED
  BY <1>1, <1>2, <1>3, <1>4, <1>5 DEF plan, x

LEMMA WalkEnds ==
  ASSUME NInv, FullWalk, OneKind, ~awake', ~owed'
  PROVE  /\ base' \in Records
         /\ \A p \in Paths :
              \/ base'[p].status = "conflict"
              \/ /\ Like(disk'[p], cloud'[p]) /\ Like(base'[p], cloud'[p])
                 /\ delta' = <<>> /\ cloud'[p].kind # "none" => base'[p].id = cloud'[p].id
<1>0. TInv /\ Shallow
  BY DEF NInv
<1>1. PassOver(Listed, TRUE, behind \ ShownIds(Listed))
  BY DEF FullWalk
<1>2. unlisted = {}
  BY <1>1, WholePassIs
<1>3. Listed = cloud
  <2>1. cloud \in [Paths -> TidyNode]
    BY <1>0 DEF TInv, Folder
  <2> QED
    BY <1>2, <2>1 DEF Listed
<1>4. PICK approve \in BOOLEAN, fault \in FaultsOf(Planned(disk, cloud, base)) :
        LET x == RunPlan(Planned(disk, cloud, base), Start0(disk), approve, fault,
                         disk, cloud, base)
        IN /\ disk' = x.disk /\ cloud' = x.cloud /\ base' = x.base
           /\ ~fault.crash /\ Clean(x) /\ delta' = x.told
  BY <1>1, <1>3, WholePassIs
<1> DEFINE K == Alike(disk, cloud)
           start == Start0(disk)
           x == RunPlan(Planned(disk, cloud, base), start, approve, fault, disk, cloud, base)
<1>5. /\ disk \in Folder /\ cloud \in Folder /\ base \in Records
      /\ disk \in [Paths -> TidyNode] /\ cloud \in [Paths -> TidyNode]
      /\ Flat(disk) /\ Flat(cloud) /\ Flat(base) /\ Numbered(cloud)
  BY <1>0 DEF TInv, Folder, Shallow
<1>6. Recognised(disk, cloud)
  BY <1>0, <1>3, ListedIsRecognised DEF OneKind, NoClash
<1>7. /\ K \in Ranges /\ Fitting(K, disk, cloud)
      /\ \A q \in Paths : disk[q].kind \in K[q] /\ cloud[q].kind \in K[q]
  BY <1>0, <1>5, <1>6, AlikeFits
<1>8. OneOf(K)
  BY DEF OneOf, Alike
<1> HIDE DEF K
<1>9. FittingWalk(K, disk, cloud, base)
  BY <1>5, <1>7, <1>8 DEF FittingWalk
<1>10. /\ start \in Running /\ start.disk = disk /\ start.cloud = cloud /\ start.base = base
       /\ ~start.bad
  BY <1>0, <1>5 DEF Start0, Running, TInv, Events
<1> HIDE DEF start
<1>11. start \in Within(K)
  BY <1>5, <1>7, <1>10 DEF Within, Numbered, Flat
<1>12. /\ disk' = x.disk /\ cloud' = x.cloud /\ base' = x.base
       /\ ~fault.crash /\ Clean(x) /\ delta' = x.told
  BY <1>4 DEF start
<1>13. /\ x \in Within(K)
       /\ Clean(x) =>
            /\ x.told = <<>> => x.cloud = cloud
            /\ \A p \in Paths : Right(x, cloud, p)
  BY <1>9, <1>10, <1>11, <1>12, PlanDone
<1> HIDE DEF x
<1>14. base' \in Records
  BY <1>12, <1>13 DEF Within, Running
<1>15. ASSUME NEW p \in Paths
       PROVE  \/ base'[p].status = "conflict"
              \/ /\ Like(disk'[p], cloud'[p]) /\ Like(base'[p], cloud'[p])
                 /\ delta' = <<>> /\ cloud'[p].kind # "none" => base'[p].id = cloud'[p].id
  <2>1. Right(x, cloud, p) /\ (x.told = <<>> => x.cloud = cloud)
    BY <1>12, <1>13
  <2> QED
    BY <1>12, <2>1 DEF Right
<1> QED
  BY <1>14, <1>15

(* A full walk brings the two sides together (execute_plan_and_commit, for *)
(* a plan of plan_sync): where they give every name one kind, a walk that  *)
(* is neither raced nor cut, holds nothing back, misses no node and moves  *)
(* no folder, so that no other is asked for or owed, leaves every path     *)
(* with one content on both sides and recorded as such, or in conflict.    *)
THEOREM WalksEndInStep ==
  Spec => [][FullWalk /\ OneKind /\ ~awake' /\ ~owed' =>
               \A p \in Paths :
                 \/ base'[p].status = "conflict"
                 \/ /\ Agree(p)'
                    /\ base'[p].kind = cloud'[p].kind /\ base'[p].hash = cloud'[p].hash]_vars
<1> DEFINE Together == \A p \in Paths :
             \/ base'[p].status = "conflict"
             \/ /\ Agree(p)'
                /\ base'[p].kind = cloud'[p].kind /\ base'[p].hash = cloud'[p].hash
<1>1. ASSUME NInv, FullWalk, OneKind, ~awake', ~owed' PROVE Together
  BY <1>1, WalkEnds DEF Agree, Like
<1>2. NInv => (FullWalk /\ OneKind /\ ~awake' /\ ~owed' => Together)
  BY <1>1
<1>3. Spec => [][FullWalk /\ OneKind /\ ~awake' /\ ~owed' => Together]_vars
  <2> HIDE DEF Together
  <2> QED
    BY <1>2, NInvHolds, PTL DEF Spec
<1> QED
  BY <1>3

(* So what an idle pass relies on holds whenever a walk has been the last  *)
(* to change anything (try_incremental_reconcile, which then skips the     *)
(* scan), and so does what the next map of the remote is built on, but for *)
(* the pass a moved folder or a race asks for.                             *)
THEOREM WalksSetRight ==
  Spec => [][FullWalk /\ OneKind => IdleMeansAgreed' /\ (~awake' => RecordsAreRemote')]_vars
<1>1. ASSUME NInv, FullWalk, OneKind PROVE IdleMeansAgreed'
  <2> SUFFICES ASSUME ~awake', ~owed', NEW p \in Paths PROVE Agree(p)' \/ Excused(p)'
    BY DEF IdleMeansAgreed
  <2> QED
    BY <1>1, WalkEnds DEF Agree, Excused, Like
<1>2. ASSUME NInv, FullWalk, OneKind, ~awake' PROVE RecordsAreRemote'
  <2> SUFFICES ASSUME Quiet', ~owed', NEW p \in Paths, base'[p].status = "synced"
               PROVE  ~Misstates(base[p], cloud[p])'
    BY DEF RecordsAreRemote
  <2>1. /\ base' \in Records
        /\ Like(base'[p], cloud'[p])
        /\ delta' = <<>> /\ cloud'[p].kind # "none" => base'[p].id = cloud'[p].id
    BY <1>2, WalkEnds
  <2>2. delta' = <<>>
    BY DEF Quiet
  <2>3. base'[p].kind # "none"
    BY <2>1 DEF Records, StoredRow, TidyRow, NoRow
  <2> QED
    BY <2>1, <2>2, <2>3 DEF Misstates, Like
<1> QED
  BY <1>1, <1>2, NInvHolds, PTL DEF Spec
=============================================================================
