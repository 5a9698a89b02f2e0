----------------------------- MODULE Induction ------------------------------
(***************************************************************************)
(* Induction over the natural numbers without an operator parameter: a set *)
(* takes the place of the predicate.  It rests on the well-foundedness of  *)
(* strict inclusion between finite sets of numbers.                        *)
(***************************************************************************)
EXTENDS FiniteSetTheorems, TLAPS

(* A set of natural numbers that is not empty has a least element.         *)
LEMMA LeastNatural ==
  ASSUME NEW T \in SUBSET Nat, T # {}
  PROVE  \E x \in T : \A y \in T : x <= y
<1> DEFINE R == StrictSubsetOrdering(Nat)
           F == FiniteSubsetsOf(Nat)
           Up == {0 .. x : x \in T}
<1>1. \A x \in T : 0 .. x \in F
  BY FS_Interval DEF FiniteSubsetsOf
<1>2. PICK S \in Up : \A U \in Up : ~ (<<U, S>> \in R)
  <2>1. IsWellFoundedOn(R, F)
    BY FS_StrictSubsetOrderingWellFounded
  <2>2. Up \subseteq F /\ Up # {}
    BY <1>1
  <2> HIDE DEF R, F, Up
  <2> QED
    BY <2>1, <2>2, WFMin
<1>3. PICK x \in T : S = 0 .. x
  OBVIOUS
<1>4. ASSUME NEW y \in T, y < x PROVE FALSE
  <2>1. 0 .. y \subseteq 0 .. x /\ x \in 0 .. x /\ x \notin 0 .. y
    BY <1>4
  <2>2. 0 .. y # 0 .. x /\ 0 .. y \in Up
    BY <2>1
  <2>3. <<0 .. y, 0 .. x>> \in R
    BY <2>1, <2>2 DEF StrictSubsetOrdering
  <2> QED
    BY <1>2, <1>3, <2>2, <2>3
<1> QED
  BY <1>4

(* A set of positions that is not empty has a last one.                    *)
LEMMA GreatestBelow ==
  ASSUME NEW n \in Nat, NEW T \in SUBSET (0 .. n), T # {}
  PROVE  \E x \in T : \A y \in T : y <= x
<1> DEFINE Distances == {n - x : x \in T}
<1>1. Distances \in SUBSET Nat /\ Distances # {}
  <2>1. PICK x \in T : TRUE
    OBVIOUS
  <2>2. n - x \in Distances
    BY <2>1
  <2> QED
    BY <2>2
<1>2. PICK d \in Distances : \A e \in Distances : d <= e
  <2> HIDE DEF Distances
  <2> QED
    BY <1>1, LeastNatural
<1>3. PICK x \in T : d = n - x
  BY <1>2
<1>4. ASSUME NEW y \in T PROVE y <= x
  <2>1. n - y \in Distances
    OBVIOUS
  <2> QED
    BY <1>2, <1>3, <2>1
<1> QED
  BY <1>4

(* Induction up to a bound.                                                *)
LEMMA Climb ==
  ASSUME NEW S, NEW n \in Nat, 0 \in S,
         \A i \in 0 .. n - 1 : i \in S => i + 1 \in S
  PROVE  \A i \in 0 .. n : i \in S
<1> DEFINE T == {i \in 0 .. n : i \notin S}
<1> SUFFICES ASSUME T # {} PROVE FALSE
  OBVIOUS
<1>1. PICK i \in T : \A j \in T : i <= j
  <2>1. T \in SUBSET Nat
    OBVIOUS
  <2> HIDE DEF T
  <2> QED
    BY <2>1, LeastNatural
<1>2. i # 0 /\ i - 1 \notin T
  BY <1>1
<1> QED
  BY <1>1, <1>2

(* A function on finitely many numbers takes a least value.                *)
LEMMA LeastValue ==
  ASSUME NEW n \in Nat, NEW f \in [0 .. n -> Int]
  PROVE  \E p \in 0 .. n : \A q \in 0 .. n : f[p] <= f[q]
<1> DEFINE S == {m \in 0 .. n : \E p \in 0 .. m : \A q \in 0 .. m : f[p] <= f[q]}
<1>1. 0 \in S
  OBVIOUS
<1>2. ASSUME NEW m \in 0 .. n - 1, m \in S PROVE m + 1 \in S
  <2>1. PICK p \in 0 .. m : \A q \in 0 .. m : f[p] <= f[q]
    BY <1>2
  <2>2. \A q \in 0 .. m + 1 : q \in 0 .. m \/ q = m + 1
    OBVIOUS
  <2>3. CASE f[p] <= f[m + 1]
    <3>1. p \in 0 .. m + 1 /\ \A q \in 0 .. m + 1 : f[p] <= f[q]
      BY <2>1, <2>2, <2>3
    <3> QED
      BY <3>1
  <2>4. CASE f[m + 1] < f[p]
    <3>1. \A q \in 0 .. m + 1 : f[m + 1] <= f[q]
      BY <2>1, <2>2, <2>4
    <3> QED
      BY <3>1
  <2> QED
    BY <2>3, <2>4
<1>3. n \in S
  <2>1. n \in 0 .. n
    OBVIOUS
  <2> HIDE DEF S
  <2> QED
    BY <1>1, <1>2, <2>1, Climb
<1> QED
  BY <1>3

(* A recursion over the numbers up to a bound, whose steps are functions g *)
(* on some set of values, defines its values.                              *)
Chains(n, S, init, g) ==
  {f \in [0 .. n -> S] : f[0] = init /\ \A i \in 1 .. n : f[i] = g[i][f[i - 1]]}

LEMMA Recursion ==
  ASSUME NEW n \in Nat, NEW S, NEW init \in S, NEW g \in [1 .. n -> [S -> S]]
  PROVE  \E f : f \in Chains(n, S, init, g)
<1> DEFINE Starts(f, m) ==
             f[0] = init /\ \A i \in 1 .. m : f[i] = g[i][f[i - 1]]
           T == {m \in 0 .. n : \E f \in [0 .. m -> S] : Starts(f, m)}
<1>1. 0 \in T
  <2> DEFINE f == [i \in 0 .. 0 |-> init]
  <2>1. f \in [0 .. 0 -> S] /\ Starts(f, 0)
    OBVIOUS
  <2>2. \E h \in [0 .. 0 -> S] : Starts(h, 0)
    BY <2>1
  <2> QED
    BY <2>2
<1>2. ASSUME NEW m \in 0 .. n - 1, m \in T PROVE m + 1 \in T
  <2>1. PICK f \in [0 .. m -> S] : Starts(f, m)
    BY <1>2
  <2> DEFINE next == g[m + 1][f[m]]
             h == [i \in 0 .. m + 1 |-> IF i = m + 1 THEN next ELSE f[i]]
  <2>2. f[m] \in S /\ m + 1 \in 1 .. n
    OBVIOUS
  <2>3. next \in S
    BY <2>2
  <2> HIDE DEF next
  <2>4. h \in [0 .. m + 1 -> S]
    BY <2>3
  <2>5. h[0] = init
    BY <2>1
  <2>6. ASSUME NEW i \in 1 .. m + 1 PROVE h[i] = g[i][h[i - 1]]
    <3>1. CASE i = m + 1
      <4>1. h[i] = next /\ h[i - 1] = f[m]
        BY <3>1
      <4> QED
        BY <3>1, <4>1 DEF next
    <3>2. CASE i # m + 1
      <4>1. i \in 1 .. m /\ h[i] = f[i] /\ h[i - 1] = f[i - 1]
        BY <3>2
      <4> QED
        BY <2>1, <4>1
    <3> QED
      BY <3>1, <3>2
  <2> HIDE DEF h
  <2>7. \E k \in [0 .. m + 1 -> S] : Starts(k, m + 1)
    BY <2>4, <2>5, <2>6
  <2>8. m + 1 \in 0 .. n
    OBVIOUS
  <2> HIDE DEF Starts
  <2> QED
    BY <2>7, <2>8
<1>3. n \in T
  <2>1. n \in 0 .. n
    OBVIOUS
  <2> HIDE DEF T
  <2> QED
    BY <1>1, <1>2, <2>1, Climb
<1> QED
  BY <1>3 DEF Chains

(* What every step keeps, the last value has.                              *)
LEMMA LastValue ==
  ASSUME NEW n \in Nat, NEW S, NEW f, f[0] \in S,
         \A i \in 1 .. n : f[i - 1] \in S => f[i] \in S
  PROVE  f[n] \in S
<1> DEFINE T == {i \in 0 .. n : f[i] \in S}
<1>1. 0 \in T
  OBVIOUS
<1>2. ASSUME NEW i \in 0 .. n - 1, i \in T PROVE i + 1 \in T
  <2>1. i + 1 \in 1 .. n /\ (i + 1) - 1 = i /\ i + 1 \in 0 .. n
    OBVIOUS
  <2>2. f[(i + 1) - 1] \in S
    BY <1>2, <2>1
  <2>3. f[i + 1] \in S
    BY <2>1, <2>2
  <2> QED
    BY <2>1, <2>3
<1>3. n \in T
  <2>1. n \in 0 .. n
    OBVIOUS
  <2> HIDE DEF T
  <2> QED
    BY <1>1, <1>2, <2>1, Climb
<1> QED
  BY <1>3
=============================================================================
