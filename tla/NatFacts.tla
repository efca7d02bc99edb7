------------------------------- MODULE NatFacts ------------------------------
(***************************************************************************)
(* Facts about the natural numbers that the proofs need and that the       *)
(* library states only with an operator as a parameter, which the provers  *)
(* cannot instantiate.  Here a predicate is a set and a step is a function.*)
(***************************************************************************)
EXTENDS Integers, TLAPS, WellFoundedInduction

\* What is left of an integer in a range of 2 * h integers around 0.
LEMMA WrapAround ==
  ASSUME NEW h \in Nat \ {0}, NEW x \in Int
  PROVE  /\ ((x + h) % (2 * h)) - h \in Int
         /\ -h <= x /\ x < h => ((x + h) % (2 * h)) - h = x
<1>1. (x + h) % (2 * h) \in Int
  OBVIOUS
<1>2. -h <= x /\ x < h => (x + h) % (2 * h) = x + h
  OBVIOUS
<1>. QED  BY <1>1, <1>2

\* A set of naturals has a least element.
LEMMA LeastExists ==
  ASSUME NEW S, S \subseteq Nat, S # {}
  PROVE  \E t \in S : \A u \in S : t <= u
<1>1. PICK t \in S : \A u \in S : ~(<<u, t>> \in OpToRel(<, Nat))
  BY NatLessThanWellFounded, WFMin, Zenon
<1>2. ASSUME NEW u \in S PROVE t <= u
  <2>1. ~(<<u, t>> \in {ss \in Nat \X Nat : ss[1] < ss[2]})
    BY <1>1 DEF OpToRel
  <2>. QED  BY <2>1
<1>. QED  BY <1>2

\* Induction, for a set that 0 is in and that n + 1 is in with n.
LEMMA SetInduction ==
  ASSUME NEW S, 0 \in S, \A n \in Nat : n \in S => n + 1 \in S
  PROVE  \A n \in Nat : n \in S
<1>. SUFFICES ASSUME Nat \ S # {} PROVE FALSE
  OBVIOUS
<1>1. PICK n \in Nat \ S : \A u \in Nat \ S : n <= u
  BY LeastExists
<1>2. n # 0 /\ n - 1 \in Nat /\ n - 1 \in S
  BY <1>1
<1>3. (n - 1) + 1 \in S
  BY <1>2
<1>. QED  BY <1>1, <1>2, <1>3

\* d is defined by recursion: step k, a function, leads from d[k] to d[k + 1].
IsRecursion(d, V, base, step) ==
  d \in [Nat -> V] /\ d[0] = base /\ \A k \in Nat : d[k + 1] = step[k][d[k]]

\* There is one: what a recursive definition of a function on Nat denotes.
LEMMA Recursion ==
  ASSUME NEW V, NEW base \in V, NEW step \in [Nat -> [V -> V]]
  PROVE  \E d : IsRecursion(d, V, base, step)
<1>. DEFINE Upto(n, f) == f[0] = base /\ \A k \in 0 .. n - 1 : f[k + 1] = step[k][f[k]]
            Found      == {n \in Nat : \E f \in [0 .. n -> V] : Upto(n, f)}
            Agreed     == {k \in Nat : \A m, n \in Nat : k <= m /\ k <= n =>
                             \A f \in [0 .. m -> V], g \in [0 .. n -> V] :
                               Upto(m, f) /\ Upto(n, g) => f[k] = g[k]}
<1>1. \A n \in Nat : n \in Found
  <2>1. 0 \in Found
    <3>. DEFINE f == [x \in 0 .. 0 |-> base]
    <3>1. f \in [0 .. 0 -> V] /\ Upto(0, f)
      OBVIOUS
    <3>. QED  BY <3>1
  <2>2. ASSUME NEW n \in Nat, n \in Found PROVE n + 1 \in Found
    <3>1. PICK f \in [0 .. n -> V] : Upto(n, f)
      BY <2>2
    <3>. DEFINE g == [x \in 0 .. n + 1 |-> IF x = n + 1 THEN step[n][f[n]] ELSE f[x]]
    <3>2. g \in [0 .. n + 1 -> V]
      OBVIOUS
    <3>3. Upto(n + 1, g)
      <4>1. g[0] = base
        BY <3>1
      <4>2. ASSUME NEW k \in 0 .. (n + 1) - 1 PROVE g[k + 1] = step[k][g[k]]
        <5>1. CASE k = n
          BY <5>1
        <5>2. CASE k < n
          BY <3>1, <5>2
        <5>. QED  BY <5>1, <5>2
      <4>. QED  BY <4>1, <4>2
    <3>. HIDE DEF g, Upto
    <3>. QED  BY <3>2, <3>3
  <2>. HIDE DEF Found
  <2>. QED  BY <2>1, <2>2, SetInduction
<1>2. \A k \in Nat : k \in Agreed
  <2>1. 0 \in Agreed
    OBVIOUS
  <2>2. ASSUME NEW k \in Nat, k \in Agreed PROVE k + 1 \in Agreed
    <3>1. ASSUME NEW m \in Nat, NEW n \in Nat, k + 1 <= m, k + 1 <= n,
                 NEW f \in [0 .. m -> V], NEW g \in [0 .. n -> V],
                 Upto(m, f), Upto(n, g)
          PROVE  f[k + 1] = g[k + 1]
      <4>1. f[k] = g[k]
        <5>1. k <= m /\ k <= n
          BY <3>1
        <5>. HIDE DEF Upto
        <5>. QED  BY <2>2, <3>1, <5>1
      <4>2. k \in 0 .. m - 1 /\ k \in 0 .. n - 1
        BY <3>1
      <4>. QED  BY <3>1, <4>1, <4>2
    <3>. HIDE DEF Upto
    <3>. QED  BY <3>1
  <2>. HIDE DEF Agreed
  <2>. QED  BY <2>1, <2>2, SetInduction
<1>. DEFINE F == [n \in Nat |-> CHOOSE f \in [0 .. n -> V] : Upto(n, f)]
            d == [n \in Nat |-> F[n][n]]
<1>3. ASSUME NEW n \in Nat PROVE F[n] \in [0 .. n -> V] /\ Upto(n, F[n])
  <2>1. \E f \in [0 .. n -> V] : Upto(n, f)
    BY <1>1
  <2>. HIDE DEF Upto
  <2>. QED  BY <2>1
<1>. HIDE DEF F
<1>4. d \in [Nat -> V]
  BY <1>3
<1>5. d[0] = base
  BY <1>3
<1>6. ASSUME NEW k \in Nat PROVE d[k + 1] = step[k][d[k]]
  <2>1. F[k + 1][k + 1] = step[k][F[k + 1][k]]
    BY <1>3
  <2>2. F[k + 1][k] = F[k][k]
    <3>0. k <= k + 1 /\ k <= k
      OBVIOUS
    <3>1. k \in Agreed
      BY <1>2, Zenon
    <3>2. F[k] \in [0 .. k -> V] /\ Upto(k, F[k])
      BY <1>3
    <3>3. F[k + 1] \in [0 .. k + 1 -> V] /\ Upto(k + 1, F[k + 1])
      BY <1>3
    <3>. HIDE DEF Upto
    <3>. QED  BY <3>0, <3>1, <3>2, <3>3
  <2>. QED  BY <2>1, <2>2
<1>. QED  BY <1>4, <1>5, <1>6 DEF IsRecursion

\* The same when every step is the same.
IsIteration(d, V, base, step) ==
  d \in [Nat -> V] /\ d[0] = base /\ \A k \in Nat : d[k + 1] = step[d[k]]

\* There is such a d as well.
LEMMA Iterates ==
  ASSUME NEW V, NEW base \in V, NEW step \in [V -> V]
  PROVE  \E d : IsIteration(d, V, base, step)
<1>. DEFINE steps == [k \in Nat |-> step]
<1>1. steps \in [Nat -> [V -> V]] /\ \A k \in Nat : steps[k] = step
  OBVIOUS
<1>. HIDE DEF steps
<1>2. PICK d : IsRecursion(d, V, base, steps)
  BY <1>1, Recursion, Zenon
<1>. QED  BY <1>1, <1>2 DEF IsRecursion, IsIteration
=============================================================================
