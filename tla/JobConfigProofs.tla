--------------------------- MODULE JobConfigProofs ---------------------------
(***************************************************************************)
(* Proofs about the configuration of a job and the waits it leads to, for  *)
(* any requests, defaults, limits and environments.                        *)
(***************************************************************************)
EXTENDS JobConfig, NatFacts

-----------------------------------------------------------------------------
(* The recursive functions of Backoff.                                     *)

\* Every one of them is defined, and satisfies its equation.
LEMMA PowerDef ==
  /\ Power \in [Nat -> Nat \ {0}]
  /\ Power[0] = 1 /\ \A i \in Nat : Power[i + 1] = 2 * Power[i]
<1>. DEFINE Eq(d) == d = [i \in Nat |-> IF i = 0 THEN 1 ELSE 2 * d[i - 1]]
            V     == Nat \ {0}
            step  == [x \in V |-> 2 * x]
<1>1. PICK d : IsIteration(d, V, 1, step)
  <2>1. 1 \in V /\ step \in [V -> V]
    OBVIOUS
  <2>. HIDE DEF V, step
  <2>. QED  BY <2>1, Iterates, Zenon
<1>2. \A i \in Nat : i # 0 => d[i] = 2 * d[i - 1]
  <2>1. ASSUME NEW i \in Nat, i # 0 PROVE d[i] = 2 * d[i - 1]
    <3>1. i - 1 \in Nat /\ (i - 1) + 1 = i
      BY <2>1
    <3>. QED  BY <1>1, <3>1 DEF IsIteration
  <2>. QED  BY <2>1
<1>3. Eq(d)
  BY <1>1, <1>2 DEF IsIteration
<1>4. Eq(Power)
  BY <1>3 DEF Power
<1>5. Power[0] = 1 /\ \A i \in Nat : Power[i + 1] = 2 * Power[i]
  BY <1>4
<1>6. \A i \in Nat : i \in {k \in Nat : Power[k] \in Nat \ {0}}
  <2>. DEFINE S == {k \in Nat : Power[k] \in Nat \ {0}}
  <2>1. 0 \in S /\ \A n \in Nat : n \in S => n + 1 \in S
    BY <1>5
  <2>. HIDE DEF S
  <2>2. \A n \in Nat : n \in S
    BY <2>1, SetInduction
  <2>. QED  BY <2>2 DEF S
<1>. QED  BY <1>4, <1>5, <1>6

\* What fits a Duration is stored as it is.
LEMMA WrapFacts ==
  ASSUME NEW x \in Int
  PROVE  /\ Wrap(x) \in Int /\ Half \in Nat \ {0}
         /\ Fit(x) => Wrap(x) = x
         /\ x >= 0 /\ x < Half => Fit(x)
BY HalfAssumption, WrapAround DEF Wrap, Fit

\* d holds the delays of worker.backoff before the limit is applied.
IsDelay(d, initial, max, n) ==
  /\ d \in [Nat -> Int] /\ d[0] = initial /\ \A k \in Nat : d[k + 1] = Wrap(2 * d[k])
  /\ WorkerBackoff(initial, max, n) =
       IF \E i \in 1 .. n - 1 : d[i] > max THEN max ELSE d[n - 1]

\* The loop of worker.backoff defines a function.
LEMMA DelayDef ==
  ASSUME NEW initial \in Int, NEW max, NEW n
  PROVE  \E d : IsDelay(d, initial, max, n)
<1>. DEFINE Eq(d) == d = [i \in Nat |-> IF i = 0 THEN initial ELSE Wrap(2 * d[i - 1])]
            step  == [x \in Int |-> Wrap(2 * x)]
            delay == CHOOSE d : Eq(d)
<1>1. PICK d : IsIteration(d, Int, initial, step)
  <2>1. step \in [Int -> Int]
    BY WrapFacts
  <2>. HIDE DEF step
  <2>. QED  BY <2>1, Iterates, Zenon
<1>2. ASSUME NEW i \in Nat, i # 0 PROVE d[i] = Wrap(2 * d[i - 1])
  <2>1. i - 1 \in Nat /\ (i - 1) + 1 = i
    BY <1>2
  <2>. QED  BY <1>1, <2>1 DEF IsIteration
<1>3. Eq(d)
  BY <1>1, <1>2 DEF IsIteration
<1>4. Eq(delay)
  BY <1>3
<1>5. WorkerBackoff(initial, max, n) =
        IF \E i \in 1 .. n - 1 : delay[i] > max THEN max ELSE delay[n - 1]
  BY DEF WorkerBackoff
<1>. HIDE DEF delay
<1>6. delay[0] = initial /\ \A k \in Nat : delay[k + 1] = Wrap(2 * delay[k])
  BY <1>4
<1>7. \A k \in Nat : k \in {i \in Nat : delay[i] \in Int}
  <2>. DEFINE S == {i \in Nat : delay[i] \in Int}
  <2>1. 0 \in S /\ \A k \in Nat : k \in S => k + 1 \in S
    BY <1>6, WrapFacts
  <2>. HIDE DEF S
  <2>2. \A k \in Nat : k \in S
    BY <2>1, SetInduction
  <2>. QED  BY <2>2 DEF S
<1>. QED  BY <1>4, <1>5, <1>6, <1>7 DEF IsDelay

\* Min of two integers.
LEMMA LeastOfTwo ==
  ASSUME NEW a \in Int, NEW b \in Int
  PROVE  Min({a, b}) = IF a <= b THEN a ELSE b
<1>. DEFINE m == IF a <= b THEN a ELSE b
<1>1. m \in {a, b} /\ \A y \in {a, b} : m <= y
  OBVIOUS
<1>2. \A x \in {a, b} : (\A y \in {a, b} : x <= y) => x = m
  OBVIOUS
<1>. HIDE DEF m
<1>3. Min({a, b}) = m
  BY <1>1, <1>2 DEF Min
<1>. QED  BY <1>3 DEF m

\* Max of two integers.
LEMMA GreatestOfTwo ==
  ASSUME NEW a \in Int, NEW b \in Int
  PROVE  Max({a, b}) = IF a >= b THEN a ELSE b
<1>. DEFINE m == IF a >= b THEN a ELSE b
<1>1. m \in {a, b} /\ \A y \in {a, b} : m >= y
  OBVIOUS
<1>2. \A x \in {a, b} : (\A y \in {a, b} : x >= y) => x = m
  OBVIOUS
<1>. HIDE DEF m
<1>3. Max({a, b}) = m
  BY <1>1, <1>2 DEF Max
<1>. QED  BY <1>3 DEF m

\* base * 2^i grows with i.
LEMMA ProductGrows ==
  ASSUME NEW base \in Nat
  PROVE  \A n \in Nat : \A i \in 0 .. n : /\ base * Power[i] \in Nat
                                          /\ base * Power[i] <= base * Power[n]
<1>. DEFINE S == {n \in Nat : \A i \in 0 .. n : /\ base * Power[i] \in Nat
                                                /\ base * Power[i] <= base * Power[n]}
<1>1. 0 \in S
  BY PowerDef
<1>2. ASSUME NEW n \in Nat, n \in S PROVE n + 1 \in S
  <2>1. Power[n] \in Nat /\ Power[n + 1] = 2 * Power[n]
    BY PowerDef
  <2>2. base * Power[n] \in Nat /\ base * Power[n + 1] = 2 * (base * Power[n])
    BY <2>1
  <2>3. \A i \in 0 .. n + 1 : i = n + 1 \/ i \in 0 .. n
    OBVIOUS
  <2>4. \A i \in 0 .. n : base * Power[i] \in Nat /\ base * Power[i] <= base * Power[n]
    BY <1>2
  <2>. QED  BY <2>2, <2>3, <2>4
<1>. HIDE DEF S
<1>3. \A n \in Nat : n \in S
  BY <1>1, <1>2, SetInduction
<1>. QED  BY <1>3 DEF S

\* The wait before retry n, in closed form.
Closed(initial, max, n) == IF n = 1 THEN initial ELSE Min({max, initial * Power[n - 1]})

\* The powers of 2, once more, times an integer.
LEMMA ProductDoubles ==
  ASSUME NEW base \in Int, NEW k \in Nat
  PROVE  /\ base * Power[k] \in Int /\ base * Power[k + 1] = 2 * (base * Power[k])
         /\ base >= 0 => base * Power[k] >= base
         /\ base < 0 => base * Power[k] < 0
<1>1. Power[k] \in Nat \ {0} /\ Power[k + 1] = 2 * Power[k]
  BY PowerDef
<1>. QED  BY <1>1

\* Of the products of a negative integer the last is the least.
LEMMA ProductFalls ==
  ASSUME NEW base \in Int, base < 0, NEW n \in Nat, NEW i \in 0 .. n
  PROVE  base * Power[n] <= base * Power[i]
<1>. DEFINE b == -base
<1>1. b \in Nat /\ i \in Nat
  OBVIOUS
<1>2. b * Power[i] <= b * Power[n]
  BY <1>1, ProductGrows
<1>3. /\ Power[i] \in Nat /\ Power[n] \in Nat
      /\ b * Power[i] = -(base * Power[i]) /\ b * Power[n] = -(base * Power[n])
  <2>1. Power[i] \in Nat /\ Power[n] \in Nat
    BY <1>1, PowerDef
  <2>. QED  BY <2>1
<1>4. base * Power[i] \in Int /\ base * Power[n] \in Int
  BY <1>1, ProductDoubles
<1>. HIDE DEF b
<1>. QED  BY <1>2, <1>3, <1>4

\* worker.backoff: as long as the two delays and the result leave room for one
\* more doubling, the loop with its early return computes the closed formula.
LEMMA WorkerWait ==
  ASSUME NEW initial \in Int, NEW max \in Int, initial >= 0 \/ max >= 0, NEW n \in Nat \ {0},
         Fit(2 * initial), Fit(2 * max), Fit(2 * Closed(initial, max, n))
  PROVE  WorkerBackoff(initial, max, n) = Closed(initial, max, n)
<1>. DEFINE E(i) == initial * Power[i]
<1>0. PICK d : IsDelay(d, initial, max, n)
  BY DelayDef
<1>1. /\ d \in [Nat -> Int] /\ d[0] = initial /\ \A k \in Nat : d[k + 1] = Wrap(2 * d[k])
      /\ WorkerBackoff(initial, max, n) =
           IF \E i \in 1 .. n - 1 : d[i] > max THEN max ELSE d[n - 1]
  BY <1>0 DEF IsDelay
<1>2. CASE n = 1
  BY <1>1, <1>2 DEF Closed
<1>3. CASE n # 1
  <2>. DEFINE Below(k) == d[k] = E(k) /\ \A i \in 1 .. k : d[i] <= max
              Above(k) == E(k) > max /\ \E i \in 1 .. k : d[i] > max
              S == {k \in Nat : k <= n - 1 => Below(k) \/ Above(k)}
  <2>1. n - 1 \in Nat /\ n - 1 >= 1 /\ Half \in Nat
    BY <1>3, WrapFacts
  <2>2. E(n - 1) \in Int /\ Min({max, E(n - 1)}) = IF max <= E(n - 1) THEN max ELSE E(n - 1)
    BY <2>1, ProductDoubles, LeastOfTwo
  <2>3. Closed(initial, max, n) = Min({max, E(n - 1)})
    BY <1>3 DEF Closed
  <2>4. 0 \in S
    BY <1>1, PowerDef
  <2>5. ASSUME NEW k \in Nat, k \in S PROVE k + 1 \in S
    <3>. SUFFICES ASSUME k + 1 <= n - 1 PROVE Below(k + 1) \/ Above(k + 1)
      OBVIOUS
    <3>1. /\ E(k) \in Int /\ E(k + 1) \in Int /\ E(k + 1) = 2 * E(k)
          /\ initial >= 0 => E(k) >= initial
          /\ initial < 0 => E(k) < 0
      BY ProductDoubles
    <3>2. k <= n - 1 /\ d[k + 1] \in Int /\ d[k + 1] = Wrap(2 * d[k])
      BY <1>1
    <3>3. \A i \in 1 .. k + 1 : i = k + 1 \/ i \in 1 .. k
      OBVIOUS
    <3>4. CASE Below(k)
      <4>1. Fit(E(k + 1))
        <5>1. CASE initial >= 0 /\ k = 0
          <6>1. E(k) = initial
            BY <5>1, PowerDef
          <6>. QED  BY <3>1, <6>1
        <5>2. CASE initial >= 0 /\ k # 0
          <6>1. E(k) <= max
            BY <3>4, <5>2
          <6>. HIDE DEF E
          <6>. QED  BY <2>1, <3>1, <5>2, <6>1 DEF Fit
        <5>3. CASE initial < 0
          <6>1. E(n - 1) <= E(k + 1) /\ E(n - 1) < 0 /\ E(k + 1) < 0
            <7>1. k + 1 \in 0 .. n - 1 /\ k + 1 \in Nat
              OBVIOUS
            <7>2. E(n - 1) <= E(k + 1)
              BY <2>1, <5>3, <7>1, ProductFalls
            <7>. QED  BY <2>1, <5>3, <7>1, <7>2, ProductDoubles
          <6>2. Fit(2 * E(n - 1))
            <7>. HIDE DEF E
            <7>. QED  BY <2>2, <2>3, <5>3, <6>1
          <6>. HIDE DEF E
          <6>. QED  BY <2>1, <2>2, <3>1, <6>1, <6>2 DEF Fit
        <5>. QED  BY <5>1, <5>2, <5>3
      <4>2. d[k + 1] = E(k + 1)
        <5>. HIDE DEF E
        <5>. QED  BY <3>1, <3>2, <3>4, <4>1, WrapFacts
      <4>. HIDE DEF E
      <4>. QED  BY <3>1, <3>3, <3>4, <4>2
    <3>5. CASE Above(k)
      <4>1. E(k + 1) > max
        <5>. HIDE DEF E
        <5>. QED  BY <3>1, <3>5
      <4>. QED  BY <3>5, <4>1
    <3>. QED  BY <2>5, <3>2, <3>4, <3>5
  <2>6. Below(n - 1) \/ Above(n - 1)
    <3>. HIDE DEF S
    <3>1. n - 1 \in S
      BY <2>1, <2>4, <2>5, SetInduction
    <3>. QED  BY <2>1, <3>1 DEF S
  <2>7. CASE Below(n - 1)
    <3>1. d[n - 1] <= max /\ d[n - 1] = E(n - 1) /\ ~\E i \in 1 .. n - 1 : d[i] > max
      <4>1. \A i \in 1 .. n - 1 : i \in Nat
        OBVIOUS
      <4>. QED  BY <1>1, <2>1, <2>7, <4>1
    <3>2. WorkerBackoff(initial, max, n) = E(n - 1)
      BY <1>1, <3>1, Zenon
    <3>. HIDE DEF E
    <3>. QED  BY <2>2, <2>3, <3>1, <3>2
  <2>8. CASE Above(n - 1)
    <3>1. WorkerBackoff(initial, max, n) = max
      BY <1>1, <2>8, Zenon
    <3>. HIDE DEF E
    <3>. QED  BY <2>2, <2>3, <2>8, <3>1
  <2>. QED  BY <2>6, <2>7, <2>8
<1>. QED  BY <1>2, <1>3

\* What fits as a number of seconds can still be doubled as an integer.
LEMMA SecondsFit ==
  ASSUME NEW x \in Int, Fit(x * Second)
  PROVE  Fit(2 * x)
<1>1. Second \in Nat /\ Second >= 2 /\ Half \in Nat
  <2>1. Second \in Nat \ {0, 1}
    BY JobConfigAssumption, Zenon
  <2>. QED  BY <2>1, HalfAssumption
<1>2. CASE x >= 0
  <2>1. 2 * x <= x * Second /\ x * Second \in Int
    BY <1>1, <1>2
  <2>. QED  BY <1>1, <1>2, <2>1 DEF Fit
<1>3. CASE x < 0
  <2>1. x * Second <= 2 * x /\ x * Second \in Int
    BY <1>1, <1>3
  <2>. QED  BY <1>1, <1>3, <2>1 DEF Fit
<1>. QED  BY <1>2, <1>3

EnvOK == env \in Envs

\* The worker's wait before retry n is initial * 2^(n - 1) seconds, up to the
\* maximum, for every n and every environment for which these waits fit a
\* Duration: none of the unchecked doublings overflows then.
THEOREM WorkerWaitsFollow == Spec => []WorkerWaitsAsSpecified
<1>1. Init => EnvOK
  BY DEF Init, EnvOK
<1>2. EnvOK /\ [Next]_vars => EnvOK'
  BY DEF Next, vars, EnvOK,
         CreateJob, UpdateRead, UpdateWrite, DeleteJob, Fire, AttemptFailed, FireEnds
<1>3. EnvOK => WorkerWaitsAsSpecified
  <2>. DEFINE seconds(n) == IF n = 1 THEN InitialBackoff
                            ELSE Min({MaxBackoff, InitialBackoff * Power[n - 1]})
  <2>. SUFFICES ASSUME EnvOK, InitialBackoff >= 0 \/ MaxBackoff >= 0, NEW n \in 1 .. MaxTries,
                       \A x \in {InitialBackoff, MaxBackoff, seconds(n)} : Fit(x * Second)
                PROVE  TaskWait(n) = seconds(n) * Second
    BY DEF WorkerWaitsAsSpecified
  <2>1. InitialBackoff \in Int
    BY InputAssumption DEF EnvOK, InitialBackoff, GetEnvInt
  <2>2. MaxBackoff \in Int
    BY InputAssumption DEF EnvOK, MaxBackoff, GetEnvInt
  <2>3. n \in Nat \ {0}
    <3>1. MaxTries \in Nat
      BY JobConfigAssumption
    <3>. QED  BY <3>1
  <2>4. seconds(n) = Closed(InitialBackoff, MaxBackoff, n)
    BY DEF Closed
  <2>. HIDE DEF seconds
  <2>5. seconds(n) \in Int
    <3>1. n # 1 => n - 1 \in Nat /\ InitialBackoff * Power[n - 1] \in Int
      BY <2>1, <2>3, ProductDoubles
    <3>2. n # 1 => Min({MaxBackoff, InitialBackoff * Power[n - 1]}) \in Int
      BY <2>2, <3>1, LeastOfTwo
    <3>. QED  BY <2>1, <3>2 DEF seconds
  <2>6. /\ Fit(2 * InitialBackoff) /\ Fit(2 * MaxBackoff)
        /\ Fit(2 * Closed(InitialBackoff, MaxBackoff, n))
    BY <2>1, <2>2, <2>4, <2>5, SecondsFit
  <2>7. WorkerBackoff(InitialBackoff, MaxBackoff, n) = seconds(n)
    BY <2>1, <2>2, <2>3, <2>4, <2>6, WorkerWait
  <2>8. seconds(n) * Second \in Int /\ Fit(seconds(n) * Second)
    <3>1. Second \in Nat
      BY JobConfigAssumption
    <3>. QED  BY <2>5, <3>1
  <2>. QED  BY <2>7, <2>8, WrapFacts DEF TaskWait
<1>. QED  BY <1>1, <1>2, <1>3, PTL DEF Spec

-----------------------------------------------------------------------------
(* The wait of a job, as long as it fits a Duration.                       *)

\* The doublings without a cap define a function.
LEMMA DoubledDef ==
  ASSUME NEW base \in Int
  PROVE  /\ Doubled(base, 0) = base
         /\ \A k \in Nat : /\ Doubled(base, k) \in Int
                           /\ Doubled(base, k + 1) = Wrap(2 * Doubled(base, k))
<1>. DEFINE Eq(d) == d = [k \in Nat |-> IF k = 0 THEN base ELSE Wrap(2 * d[k - 1])]
            step  == [x \in Int |-> Wrap(2 * x)]
            f     == CHOOSE d : Eq(d)
<1>1. PICK d : IsIteration(d, Int, base, step)
  <2>1. step \in [Int -> Int]
    BY WrapFacts
  <2>. HIDE DEF step
  <2>. QED  BY <2>1, Iterates, Zenon
<1>2. ASSUME NEW i \in Nat, i # 0 PROVE d[i] = Wrap(2 * d[i - 1])
  <2>1. i - 1 \in Nat /\ (i - 1) + 1 = i
    BY <1>2
  <2>. QED  BY <1>1, <2>1 DEF IsIteration
<1>3. Eq(d)
  BY <1>1, <1>2 DEF IsIteration
<1>4. Eq(f)
  BY <1>3
<1>5. \A i \in Nat : Doubled(base, i) = f[i]
  BY DEF Doubled
<1>. HIDE DEF f
<1>6. f[0] = base /\ \A k \in Nat : f[k + 1] = Wrap(2 * f[k])
  BY <1>4
<1>7. \A k \in Nat : f[k] \in Int
  <2>. DEFINE S == {i \in Nat : f[i] \in Int}
  <2>1. 0 \in S
    BY <1>6
  <2>2. ASSUME NEW k \in Nat, k \in S PROVE k + 1 \in S
    BY <1>6, <2>2, WrapFacts
  <2>. HIDE DEF S
  <2>3. \A k \in Nat : k \in S
    BY <2>1, <2>2, SetInduction
  <2>. QED  BY <2>3 DEF S
<1>. QED  BY <1>5, <1>6, <1>7

\* One doubling of DoubledUpTo.
Delay        == [at : Int, capped : BOOLEAN]
Capped(x, m) == IF x.capped THEN x
                ELSE LET next == Wrap(2 * x.at)
                     IN  IF m > 0 /\ next >= m
                         THEN [at |-> m, capped |-> TRUE]
                         ELSE [at |-> next, capped |-> FALSE]

\* d holds the delays of DoubledUpTo.
IsCapped(d, base, max) ==
  /\ d \in [Nat -> Delay] /\ d[0] = [at |-> base, capped |-> FALSE]
  /\ \A k \in Nat : d[k + 1] = Capped(d[k], max)
  /\ \A k \in Nat : DoubledUpTo(base, max, k) = d[k].at

\* The doublings up to the maximum define a function.
LEMMA CappedDef ==
  ASSUME NEW base \in Int, NEW max \in Int
  PROVE  \E d : IsCapped(d, base, max)
<1>. DEFINE Body(x) == IF x.capped THEN x
                       ELSE LET next == Wrap(2 * x.at)
                            IN  IF max > 0 /\ next >= max
                                THEN [at |-> max, capped |-> TRUE]
                                ELSE [at |-> next, capped |-> FALSE]
            first   == [at |-> base, capped |-> FALSE]
            Eq(d)   == d = [k \in Nat |-> IF k = 0 THEN first ELSE Body(d[k - 1])]
            step    == [x \in Delay |-> Capped(x, max)]
            f       == CHOOSE d : Eq(d)
<1>0. first \in Delay /\ \A x \in Delay : Capped(x, max) \in Delay
  BY WrapFacts DEF Delay, Capped
<1>1. PICK d : IsIteration(d, Delay, first, step)
  <2>1. step \in [Delay -> Delay]
    BY <1>0
  <2>. HIDE DEF step, first
  <2>. QED  BY <1>0, <2>1, Iterates, Zenon
<1>2. \A x : Body(x) = Capped(x, max)
  BY DEF Capped
<1>. HIDE DEF Body, first
<1>3. ASSUME NEW i \in Nat, i # 0 PROVE d[i] = Body(d[i - 1])
  <2>1. i - 1 \in Nat /\ (i - 1) + 1 = i
    BY <1>3
  <2>. QED  BY <1>1, <1>2, <2>1 DEF IsIteration
<1>4. Eq(d)
  BY <1>1, <1>3 DEF IsIteration
<1>5. Eq(f)
  BY <1>4
<1>6. \A i \in Nat : DoubledUpTo(base, max, i) = f[i].at
  BY DEF DoubledUpTo, Body, first
<1>. HIDE DEF f
<1>7. f[0] = first /\ \A k \in Nat : f[k + 1] = Capped(f[k], max)
  BY <1>2, <1>5
<1>8. \A k \in Nat : f[k] \in Delay
  <2>. DEFINE S == {i \in Nat : f[i] \in Delay}
  <2>1. 0 \in S /\ \A k \in Nat : k \in S => k + 1 \in S
    BY <1>0, <1>7
  <2>. HIDE DEF S
  <2>2. \A k \in Nat : k \in S
    BY <2>1, SetInduction
  <2>. QED  BY <2>2 DEF S
<1>. QED  BY <1>5, <1>6, <1>7, <1>8 DEF IsCapped, first

\* Doublings multiply by a power of 2 as long as the product fits.
LEMMA DoubledValue ==
  ASSUME NEW base \in Nat, NEW n \in Nat, base * Power[n] < Half
  PROVE  Doubled(base, n) = base * Power[n]
<1>. DEFINE S == {k \in Nat : k <= n => Doubled(base, k) = base * Power[k]}
<1>1. 0 \in S
  BY DoubledDef, PowerDef
<1>2. ASSUME NEW k \in Nat, k \in S PROVE k + 1 \in S
  <2>. SUFFICES ASSUME k + 1 <= n PROVE Doubled(base, k + 1) = base * Power[k + 1]
    OBVIOUS
  <2>1. Doubled(base, k + 1) = Wrap(2 * (base * Power[k]))
    <3>1. Doubled(base, k) = base * Power[k]
      BY <1>2
    <3>2. Doubled(base, k + 1) = Wrap(2 * Doubled(base, k))
      BY DoubledDef
    <3>. QED  BY <3>1, <3>2
  <2>2. Power[k] \in Nat /\ Power[n] \in Nat /\ Power[k + 1] = 2 * Power[k]
    BY PowerDef
  <2>3. base * Power[k + 1] \in Nat /\ base * Power[k + 1] = 2 * (base * Power[k])
    BY <2>2
  <2>4. base * Power[k + 1] <= base * Power[n] /\ base * Power[n] \in Nat
    BY k + 1 \in 0 .. n, ProductGrows
  <2>5. base * Power[k + 1] < Half
    BY <2>3, <2>4, WrapFacts
  <2>6. Wrap(base * Power[k + 1]) = base * Power[k + 1]
    BY <2>3, <2>5, WrapFacts
  <2>. QED  BY <2>1, <2>3, <2>6
<1>. HIDE DEF S
<1>3. n \in S
  BY <1>1, <1>2, SetInduction
<1>. QED  BY <1>3 DEF S

\* With a maximum the product is cut there, and nothing overflows on the way.
LEMMA UpToValue ==
  ASSUME NEW base \in Nat, NEW max \in Nat, base <= max, 2 * max < Half, NEW n \in Nat
  PROVE  DoubledUpTo(base, max, n) = Min({max, base * Power[n]})
<1>1. PICK d : IsCapped(d, base, max)
  BY CappedDef
<1>2. /\ d \in [Nat -> Delay] /\ d[0] = [at |-> base, capped |-> FALSE]
      /\ \A k \in Nat : d[k + 1] = Capped(d[k], max)
      /\ \A k \in Nat : DoubledUpTo(base, max, k) = d[k].at
  BY <1>1 DEF IsCapped
<1>. DEFINE Tracks(k) == /\ d[k].capped => d[k].at = max /\ base * Power[k] >= max
                         /\ ~d[k].capped => d[k].at = base * Power[k] /\ d[k].at <= max
            S == {k \in Nat : Tracks(k)}
<1>3. 0 \in S
  <2>1. ~d[0].capped /\ d[0].at = base
    BY <1>2
  <2>2. base * Power[0] = base
    BY PowerDef
  <2>3. Tracks(0)
    BY <2>1, <2>2
  <2>. HIDE DEF Tracks
  <2>. QED  BY <2>3
<1>4. ASSUME NEW k \in Nat, k \in S PROVE k + 1 \in S
  <2>1. Power[k] \in Nat /\ Power[k + 1] = 2 * Power[k]
    BY PowerDef
  <2>2. base * Power[k] \in Nat /\ base * Power[k + 1] = 2 * (base * Power[k])
    BY <2>1
  <2>3. d[k] \in Delay /\ d[k + 1] = Capped(d[k], max)
    BY <1>2
  <2>4. CASE d[k].capped
    <3>1. d[k + 1] = d[k]
      BY <2>3, <2>4 DEF Capped
    <3>. QED  BY <1>4, <2>2, <2>4, <3>1
  <2>5. CASE ~d[k].capped
    <3>. DEFINE next == Wrap(2 * d[k].at)
    <3>1. d[k].at = base * Power[k] /\ d[k].at <= max
      BY <1>4, <2>5
    <3>2. next = base * Power[k + 1]
      <4>1. 2 * d[k].at \in Int /\ 2 * d[k].at >= 0 /\ 2 * d[k].at < Half
        BY <2>2, <3>1, WrapFacts
      <4>2. next = 2 * d[k].at
        BY <4>1, WrapFacts
      <4>. QED  BY <2>2, <3>1, <4>2
    <3>3. d[k + 1] = IF max > 0 /\ next >= max THEN [at |-> max, capped |-> TRUE]
                     ELSE [at |-> next, capped |-> FALSE]
      BY <2>3, <2>5 DEF Capped
    <3>4. max = 0 => base = 0 /\ base * Power[k + 1] = 0
      BY <2>1, <2>2
    <3>. HIDE DEF next
    <3>. QED  BY <2>2, <3>2, <3>3, <3>4
  <2>. QED  BY <2>4, <2>5
<1>. HIDE DEF S
<1>5. n \in S
  BY <1>3, <1>4, SetInduction
<1>6. Tracks(n) /\ d[n] \in Delay
  BY <1>2, <1>5 DEF S
<1>7. base * Power[n] \in Nat
  BY PowerDef
<1>8. Min({max, base * Power[n]}) = IF max <= base * Power[n] THEN max ELSE base * Power[n]
  BY <1>7, LeastOfTwo
<1>9. d[n].capped \in BOOLEAN
  BY <1>6 DEF Delay
<1>10. d[n].at = Min({max, base * Power[n]})
  BY <1>6, <1>7, <1>8, <1>9
<1>. QED  BY <1>2, <1>10

\* RetryConfig.Backoff in closed form.
Formula(min, max, doublings, retry) ==
  Min({max, IF retry - 1 <= doublings
            THEN min * Power[retry - 1]
            ELSE min * Power[doublings] * (retry - doublings)})

\* No intermediate result of RetryConfig.Backoff overflows.
NoOverflow(min, max, doublings, retry) ==
  /\ 2 * max < Half
  /\ retry - 1 > doublings => min * Power[doublings] * (retry - doublings) < Half

\* RetryConfig.Backoff is an integer, and without overflow its closed form.
LEMMA JobWait ==
  ASSUME NEW min \in Nat, NEW max \in Nat, NEW doublings \in Nat, NEW retry \in Nat \ {0},
         min <= max
  PROVE  LET wait == JobBackoff([min |-> min, max |-> max, doublings |-> doublings], retry)
         IN  /\ wait \in Int
             /\ NoOverflow(min, max, doublings, retry) =>
                  wait = Formula(min, max, doublings, retry)
<1>. DEFINE r    == [min |-> min, max |-> max, doublings |-> doublings]
            wait == JobBackoff(r, retry)
            d    == IF retry - 1 <= doublings THEN DoubledUpTo(min, max, retry - 1)
                    ELSE Wrap(Doubled(min, doublings) * (retry - 1 - doublings + 1))
<1>1. wait = IF max > 0 /\ d > max THEN max ELSE d
  BY DEF JobBackoff
<1>2. DoubledUpTo(min, max, retry - 1) \in Int
  <2>1. PICK c : IsCapped(c, min, max)
    BY CappedDef
  <2>2. retry - 1 \in Nat
    OBVIOUS
  <2>. QED  BY <2>1, <2>2 DEF IsCapped, Delay
<1>3. Doubled(min, doublings) \in Int
  BY DoubledDef
<1>4. d \in Int
  BY <1>2, <1>3, WrapFacts
<1>5. wait \in Int
  BY <1>1, <1>4
<1>6. ASSUME NoOverflow(min, max, doublings, retry)
      PROVE  wait = Formula(min, max, doublings, retry)
  <2>1. CASE retry - 1 <= doublings
    <3>1. retry - 1 \in Nat /\ min * Power[retry - 1] \in Nat
      BY PowerDef
    <3>2. d = Min({max, min * Power[retry - 1]})
      BY <1>6, <2>1, <3>1, UpToValue DEF NoOverflow
    <3>3. d <= max
      BY <3>1, <3>2, LeastOfTwo
    <3>. QED  BY <1>1, <1>4, <2>1, <3>2, <3>3 DEF Formula
  <2>2. CASE retry - 1 > doublings
    <3>. DEFINE p == min * Power[doublings]
                q == p * (retry - doublings)
    <3>1. p \in Nat /\ retry - doublings \in Nat /\ retry - doublings >= 1
      BY <2>2, PowerDef
    <3>2. q \in Nat /\ p <= q
      BY <3>1
    <3>3. q < Half
      BY <1>6, <2>2 DEF NoOverflow
    <3>4. Doubled(min, doublings) = p
      BY <3>1, <3>2, <3>3, WrapFacts, DoubledValue
    <3>5. d = q
      BY <2>2, <3>2, <3>3, <3>4, WrapFacts
    <3>6. max = 0 => q = 0
      BY <3>1, PowerDef
    <3>7. Formula(min, max, doublings, retry) = Min({max, q})
      BY <2>2 DEF Formula
    <3>. HIDE DEF d, q
    <3>8. Min({max, q}) = IF max <= q THEN max ELSE q
      BY <3>2, LeastOfTwo
    <3>. QED  BY <1>1, <3>2, <3>5, <3>6, <3>7, <3>8
  <2>. QED  BY <2>1, <2>2
<1>. QED  BY <1>5, <1>6

-----------------------------------------------------------------------------
(* The row, the updates under way and the execution.                       *)

\* Durations of a row are whole milliseconds.
Whole(j) == \A f \in Durations : j[f] \in Nat /\ j[f] % Milli = 0

\* An update under way holds a row that was stored once and a job that was
\* valid when it was computed, from that row and the request.
Pending(q) ==
  /\ q.r \in Requests /\ Whole(q.read)
  /\ q.job = ApplyDefaults(ApplyPatch(q.read, q.r)) /\ Valid(q.job)

\* An execution goes on with a row that was stored once.
Retrying(x) ==
  /\ x = [on |-> TRUE, conf |-> x.conf, attempt |-> x.attempt, since |-> x.since]
  /\ Valid(x.conf) /\ x.attempt \in Nat \ {0} /\ x.since \in Nat
  /\ x.attempt <= x.conf.count + 1

Rows == row # None => Valid(row) /\ Whole(row)
Reqs == DOMAIN req = Clients /\ \A c \in Clients : req[c].on => Pending(req[c])
Runs == run.on => Retrying(run)

ConfigOK == Rows /\ Reqs /\ Runs

\* A duration cut to whole milliseconds.
Cut(d) == (d \div Milli) * Milli

\* Cutting to milliseconds is monotone, and loses less than one.
LEMMA CutFacts ==
  ASSUME NEW d \in Nat
  PROVE  /\ Cut(d) \in Nat /\ Cut(d) <= d /\ Cut(d) > d - Milli /\ Cut(d) % Milli = 0
         /\ d % Milli = 0 => Cut(d) = d
         /\ \A e \in Nat : d <= e => Cut(d) <= Cut(e)
<1>. Milli \in Nat \ {0}
  BY JobConfigAssumption
<1>1. Cut(d) \in Nat /\ Cut(d) <= d /\ Cut(d) > d - Milli
  BY DEF Cut
<1>2. Cut(d) % Milli = 0
  BY DEF Cut
<1>3. d % Milli = 0 => Cut(d) = d
  BY DEF Cut
<1>4. ASSUME NEW e \in Nat, d <= e PROVE Cut(d) <= Cut(e)
  <2>1. d \div Milli \in Int /\ e \div Milli \in Int /\ d \div Milli <= e \div Milli
    BY <1>4
  <2>. QED  BY <2>1 DEF Cut
<1>. QED  BY <1>1, <1>2, <1>3, <1>4

\* Cutting to milliseconds keeps a row valid.
LEMMA StoredKeepsValid ==
  ASSUME NEW j, Valid(j)
  PROVE  /\ Valid(Stored(j)) /\ Whole(Stored(j))
         /\ \A f \in Durations : j[f] \in Nat /\ Stored(j)[f] = Cut(j[f])
<1>1. /\ \A f \in Durations : Stored(j)[f] = Cut(j[f])
      /\ \A f \in Fields \ Durations : Stored(j)[f] = j[f]
  BY DEF Stored, Cut, Fields
<1>2. /\ Durations \subseteq Fields /\ Durations = {"deadline", "span", "min", "max"}
      /\ {"schedule", "uri", "method", "count", "doublings"} \subseteq Fields \ Durations
  BY DEF Durations, Fields, Names
<1>3. MinDeadline \in Nat /\ MaxDeadline \in Nat /\ MinDeadline % Milli = 0
  BY JobConfigAssumption
<1>4. /\ j.deadline \in Nat /\ j.deadline >= MinDeadline /\ j.deadline <= MaxDeadline
      /\ j.span \in Nat /\ j.min \in Nat /\ j.max \in Nat /\ j.min <= j.max
      /\ j.count \in Nat /\ j.doublings \in Nat
  <2>1. j.deadline \in MinDeadline .. MaxDeadline
    BY DEF Valid
  <2>2. \A f \in {"count", "span", "min", "max", "doublings"} : j[f] \in Nat
    BY DEF Valid
  <2>3. j.min <= j.max
    BY DEF Valid
  <2>. QED  BY <1>3, <2>1, <2>2, <2>3
<1>5. /\ Stored(j).deadline = Cut(j.deadline) /\ Stored(j).span = Cut(j.span)
      /\ Stored(j).min = Cut(j.min) /\ Stored(j).max = Cut(j.max)
      /\ Stored(j).schedule = j.schedule /\ Stored(j).uri = j.uri /\ Stored(j).method = j.method
      /\ Stored(j).count = j.count /\ Stored(j).doublings = j.doublings
  BY <1>1, <1>2
<1>6. Cut(j.deadline) \in Nat /\ Cut(j.deadline) >= MinDeadline /\ Cut(j.deadline) <= MaxDeadline
  <2>1. Cut(MinDeadline) = MinDeadline /\ Cut(MinDeadline) <= Cut(j.deadline)
    BY <1>3, <1>4, CutFacts
  <2>2. Cut(j.deadline) \in Nat /\ Cut(j.deadline) <= j.deadline
    BY <1>4, CutFacts
  <2>. QED  BY <1>3, <1>4, <2>1, <2>2
<1>7. Cut(j.span) \in Nat /\ Cut(j.min) \in Nat /\ Cut(j.max) \in Nat /\ Cut(j.min) <= Cut(j.max)
  BY <1>4, CutFacts
<1>8. Valid(Stored(j))
  <2>1. Stored(j).deadline \in MinDeadline .. MaxDeadline
    BY <1>3, <1>5, <1>6
  <2>2. \A f \in {"count", "span", "min", "max", "doublings"} : Stored(j)[f] \in Nat
    BY <1>4, <1>5, <1>7
  <2>3. /\ Stored(j).schedule \in Schedules /\ Stored(j).uri # "" /\ Stored(j).method # ""
        /\ Stored(j).min <= Stored(j).max
    BY <1>5, <1>7 DEF Valid
  <2>. QED  BY <2>1, <2>2, <2>3 DEF Valid
<1>9. \A f \in Durations : j[f] \in Nat
  BY <1>2, <1>4
<1>10. Whole(Stored(j))
  BY <1>1, <1>9, CutFacts DEF Whole
<1>. QED  BY <1>1, <1>8, <1>9, <1>10

\* The wait of an execution is an integer.
LEMMA WaitIsInt ==
  ASSUME NEW x, Retrying(x)
  PROVE  Wait(x) \in Int
<1>1. x.conf.min \in Nat /\ x.conf.max \in Nat /\ x.conf.doublings \in Nat
      /\ x.conf.min <= x.conf.max /\ x.attempt \in Nat \ {0}
  BY DEF Retrying, Valid
<1>. QED  BY <1>1, JobWait DEF Wait

\* The constants that the arithmetic needs.
LEMMA TookIsNat == \A took \in Took : took \in Nat
<1>1. Took \subseteq Nat
  BY JobConfigAssumption, Zenon
<1>. QED  BY <1>1

\* What a further attempt of an execution begins with.
LEMMA RetryStep ==
  ASSUME Retrying(run), NEW took \in Took, AttemptFailed(took), run'.on
  PROVE  /\ Retrying(run')
         /\ run'.conf = run.conf /\ run'.attempt = run.attempt + 1
         /\ run'.since = run.since + took + Max({0, Wait(run)}) /\ Max({0, Wait(run)}) \in Nat
         /\ ~GivesUp(run, run.since + took)
<1>. DEFINE pause == Max({0, Wait(run)})
            since == run.since + took
<1>1. took \in Nat /\ since \in Nat
  BY TookIsNat DEF Retrying
<1>2. pause \in Nat /\ pause = IF Wait(run) >= 0 THEN Wait(run) ELSE 0
  BY WaitIsInt, GreatestOfTwo
<1>. HIDE DEF pause
<1>3. ~GivesUp(run, since) /\ run' = [run EXCEPT !.attempt = @ + 1, !.since = since + pause]
  BY DEF AttemptFailed, NoRun, pause
<1>4. PICK conf, n, s : run = [on |-> TRUE, conf |-> conf, attempt |-> n, since |-> s]
  BY DEF Retrying
<1>. HIDE DEF since
<1>5. run' = [on |-> TRUE, conf |-> conf, attempt |-> n + 1, since |-> since + pause]
  BY <1>3, <1>4
<1>6. run'.conf = run.conf /\ run'.attempt = run.attempt + 1 /\ run'.since = since + pause
  BY <1>4, <1>5
<1>7. run.attempt <= run.conf.count
  <2>1. ~(run.attempt > run.conf.count)
    BY <1>3 DEF GivesUp
  <2>2. run.conf.count \in Nat /\ run.attempt \in Nat
    BY DEF Retrying, Valid
  <2>. QED  BY <2>1, <2>2
<1>8. Retrying(run')
  <2>1. run' = [on |-> TRUE, conf |-> run'.conf, attempt |-> run'.attempt, since |-> run'.since]
    BY <1>5
  <2>2. run.conf.count \in Nat
    BY DEF Retrying, Valid
  <2>. QED  BY <1>1, <1>2, <1>6, <1>7, <2>1, <2>2 DEF Retrying
<1>. QED  BY <1>2, <1>3, <1>6, <1>8 DEF since, pause

\* There is no job at first.
LEMMA ConfigInit == Init => ConfigOK
BY DEF Init, ConfigOK, Rows, Reqs, Runs, NoReq, NoRun

\* ConfigOK is inductive: a row has passed Validate before it is written.
LEMMA ConfigStep == ConfigOK /\ [Next]_vars => ConfigOK'
<1>. SUFFICES ASSUME ConfigOK, [Next]_vars PROVE ConfigOK'
  OBVIOUS
<1>1. ASSUME NEW r \in Requests, CreateJob(r) PROVE ConfigOK'
  <2>. DEFINE j == ApplyDefaults(Converted(r))
  <2>1. Valid(j) /\ row' = Stored(j) /\ UNCHANGED <<req, run>>
    BY <1>1 DEF CreateJob
  <2>. HIDE DEF j
  <2>2. Valid(row') /\ Whole(row')
    BY <2>1, StoredKeepsValid
  <2>. QED  BY <2>1, <2>2 DEF ConfigOK, Rows, Reqs, Runs
<1>2. ASSUME NEW c \in Clients, NEW r \in Requests, UpdateRead(c, r) PROVE ConfigOK'
  <2>. DEFINE j == ApplyDefaults(ApplyPatch(row, r))
              q == [on |-> TRUE, r |-> r, read |-> row, job |-> j]
  <2>1. Valid(j) /\ row # None /\ req' = [req EXCEPT ![c] = q] /\ UNCHANGED <<row, run>>
    BY <1>2 DEF UpdateRead
  <2>2. q.r = r /\ q.read = row /\ q.job = j
    OBVIOUS
  <2>3. Pending(q)
    BY <2>1, <2>2 DEF Pending, ConfigOK, Rows
  <2>. HIDE DEF q
  <2>4. Reqs'
    BY <2>1, <2>3 DEF ConfigOK, Reqs
  <2>. QED  BY <2>1, <2>4 DEF ConfigOK, Rows, Runs
<1>3. ASSUME NEW c \in Clients, UpdateWrite(c) PROVE ConfigOK'
  <2>1. Valid(req[c].job)
    BY <1>3 DEF UpdateWrite, ConfigOK, Reqs, Pending
  <2>2. Rows'
    BY <1>3, <2>1, StoredKeepsValid DEF UpdateWrite, ConfigOK, Rows
  <2>3. Reqs'
    BY <1>3 DEF UpdateWrite, ConfigOK, Reqs, NoReq
  <2>. QED  BY <1>3, <2>2, <2>3 DEF UpdateWrite, ConfigOK, Runs
<1>4. ASSUME DeleteJob PROVE ConfigOK'
  BY <1>4 DEF DeleteJob, ConfigOK, Rows, Reqs, Runs
<1>5. ASSUME Fire PROVE ConfigOK'
  <2>1. run' = [on |-> TRUE, conf |-> row, attempt |-> 1, since |-> 0] /\ Valid(row)
    BY <1>5 DEF Fire, ConfigOK, Rows
  <2>2. run'.conf = row /\ run'.attempt = 1 /\ run'.since = 0
    BY <2>1
  <2>3. row.count \in Nat
    BY <2>1 DEF Valid
  <2>4. Retrying(run')
    BY <2>1, <2>2, <2>3 DEF Retrying
  <2>. QED  BY <1>5, <2>4 DEF Fire, ConfigOK, Rows, Reqs, Runs
<1>6. ASSUME NEW took \in Took, AttemptFailed(took) PROVE ConfigOK'
  <2>1. Retrying(run)
    BY <1>6 DEF AttemptFailed, ConfigOK, Runs
  <2>2. CASE run'.on
    <3>1. Retrying(run')
      BY <1>6, <2>1, <2>2, RetryStep
    <3>. QED  BY <1>6, <3>1 DEF AttemptFailed, ConfigOK, Rows, Reqs, Runs
  <2>3. CASE ~run'.on
    BY <1>6, <2>3 DEF AttemptFailed, ConfigOK, Rows, Reqs, Runs
  <2>. QED  BY <2>2, <2>3
<1>7. ASSUME FireEnds PROVE ConfigOK'
  BY <1>7 DEF FireEnds, ConfigOK, Rows, Reqs, Runs, NoRun
<1>8. CASE UNCHANGED vars
  BY <1>8 DEF vars, ConfigOK, Rows, Reqs, Runs
<1>. QED  BY <1>1, <1>2, <1>3, <1>4, <1>5, <1>6, <1>7, <1>8 DEF Next

\* Rows, requests under way and executions are well formed, always.
LEMMA ConfigAlways == Spec => []ConfigOK
BY ConfigInit, ConfigStep, PTL DEF Spec

\* The stored row satisfies Validate, however updates interleave.
THEOREM RowAlwaysValid == Spec => []StoredRowValid
<1>1. ConfigOK => StoredRowValid
  BY DEF ConfigOK, Rows, StoredRowValid
<1>. QED  BY <1>1, ConfigAlways, PTL

\* Only the write of an update ends it.
LEMMA UpdateEnds ==
  ASSUME ConfigOK, [Next]_vars, NEW c \in Clients, req[c].on, ~req'[c].on
  PROVE  UpdateWrite(c)
<1>1. ASSUME NEW b \in Clients, NEW r \in Requests, UpdateRead(b, r) PROVE FALSE
  BY <1>1 DEF UpdateRead, ConfigOK, Reqs
<1>2. ASSUME NEW b \in Clients, UpdateWrite(b) PROVE b = c
  BY <1>2 DEF UpdateWrite, ConfigOK, Reqs
<1>3. CASE UNCHANGED req
  BY <1>3
<1>. QED  BY <1>1, <1>2, <1>3 DEF Next, vars, CreateJob, DeleteJob, Fire, AttemptFailed, FireEnds

\* An update touches what its mask names, and what is still at its zero.
THEOREM MaskConfines == Spec => MaskConfinesUpdate
<1>. DEFINE A == \A c \in Clients :
                   req[c].on /\ ~req'[c].on /\ row = req[c].read =>
                     \A f \in Fields \ Touched(req[c].r) :
                        row'[f] # row[f] => row[f] = Zero(f) /\ row'[f] = Default[f]
<1>1. ASSUME ConfigOK, [Next]_vars PROVE A
  <2>. SUFFICES ASSUME NEW c \in Clients, req[c].on, ~req'[c].on, row = req[c].read,
                       NEW f \in Fields, f \notin Touched(req[c].r), row'[f] # row[f]
                PROVE  row[f] = Zero(f) /\ row'[f] = Default[f]
    OBVIOUS
  <2>. DEFINE r == req[c].r
              j == req[c].job
  <2>1. UpdateWrite(c) /\ Pending(req[c])
    BY <1>1, UpdateEnds DEF ConfigOK, Reqs
  <2>2. row' = Stored(j)
    BY <2>1 DEF UpdateWrite
  <2>3. Valid(j) /\ j = ApplyDefaults(ApplyPatch(row, r)) /\ Whole(row)
    BY <2>1 DEF Pending
  <2>4. ApplyPatch(row, r)[f] = row[f]
    BY DEF ApplyPatch
  <2>5. j[f] = IF f \in DOMAIN Default /\ row[f] = Zero(f) THEN Default[f] ELSE row[f]
    BY <2>3, <2>4 DEF ApplyDefaults
  <2>6. row'[f] = IF f \in Durations THEN Cut(j[f]) ELSE j[f]
    BY <2>2 DEF Stored, Cut
  <2>7. f \in Durations => Cut(row[f]) = row[f]
    BY <2>3, CutFacts DEF Whole
  <2>8. f \in Durations /\ f \in DOMAIN Default => Cut(Default[f]) = Default[f]
    <3>1. f \in Durations /\ f \in DOMAIN Default => Default[f] \in Nat /\ Default[f] % Milli = 0
      BY JobConfigAssumption
    <3>. QED  BY <3>1, CutFacts
  <2>. QED  BY <2>5, <2>6, <2>7, <2>8
<1>. QED  BY <1>1, ConfigAlways, PTL DEF Spec, MaskConfinesUpdate

\* A duration of a request is stored up to the millisecond, if the float of REST
\* or the Duration of gRPC can hold it.
THEOREM DurationsStored == Spec => DurationsKept
<1>. DEFINE A == \A c \in Clients :
                   req[c].on /\ ~req'[c].on /\ row # None =>
                     \A f \in Touched(req[c].r) \cap Durations :
                        LET d == req[c].r.job[f]
                        IN  d # 0 /\ Exact(req[c].r, f) => row'[f] <= d /\ row'[f] >= d - Milli
<1>1. ASSUME ConfigOK, [Next]_vars PROVE A
  <2>. SUFFICES ASSUME NEW c \in Clients, req[c].on, ~req'[c].on, row # None,
                       NEW f \in Touched(req[c].r) \cap Durations, req[c].r.job[f] # 0,
                       Exact(req[c].r, f)
                PROVE  row'[f] <= req[c].r.job[f] /\ row'[f] >= req[c].r.job[f] - Milli
    OBVIOUS
  <2>. DEFINE r == req[c].r
              j == req[c].job
              d == r.job[f]
  <2>1. UpdateWrite(c) /\ Pending(req[c])
    BY <1>1, UpdateEnds DEF ConfigOK, Reqs
  <2>2. row' = Stored(j)
    BY <2>1 DEF UpdateWrite
  <2>3. Valid(j) /\ j = ApplyDefaults(ApplyPatch(req[c].read, r)) /\ r \in Requests
    BY <2>1 DEF Pending
  <2>4. f \in Fields /\ f \notin Names /\ Zero(f) = 0
    BY DEF Fields, Durations, Names, Zero
  <2>5. d \in Int /\ r.door \in {"rest", "grpc", "ui"}
    BY <2>3, InputAssumption
  <2>6. r.door # "ui"
    BY <2>4 DEF Touched, Mask, Covered, Fields, Durations, Names
  <2>7. Converted(r)[f] \in {d, d - 1} /\ Converted(r)[f] # 0
    <3>1. CASE r.door = "rest"
      <4>1. Converted(r)[f] = IF d \in DOMAIN Rounded THEN Rounded[d] ELSE d
        BY <2>4, <3>1 DEF Converted, FromJobJSON, ParseDuration
      <4>2. d \in DOMAIN Rounded => d # 1 /\ Rounded[d] = d - 1
        <5>1. d <= MaxExact
          BY <3>1 DEF Exact
        <5>2. d \in DOMAIN Rounded => (d <= MaxExact => d > 1 /\ Rounded[d] = d - 1)
          BY JobConfigAssumption, Zenon
        <5>. QED  BY <2>5, <5>1, <5>2
      <4>. QED  BY <2>5, <4>1, <4>2
    <3>2. CASE r.door = "grpc"
      <4>1. Converted(r)[f] = Saturate(d)
        BY <2>4, <3>2 DEF Converted, JobFromProto
      <4>2. Fit(d)
        BY <3>2 DEF Exact
      <4>. QED  BY <2>5, <4>1, <4>2, HalfAssumption DEF Saturate, Fit
    <3>. QED  BY <2>5, <2>6, <3>1, <3>2
  <2>8. j[f] = Converted(r)[f]
    BY <2>3, <2>4, <2>7 DEF ApplyDefaults, ApplyPatch
  <2>9. row'[f] = Cut(j[f]) /\ j[f] \in Nat
    BY <2>2, <2>3, StoredKeepsValid
  <2>10. row'[f] <= j[f] /\ row'[f] > j[f] - Milli /\ row'[f] \in Nat
    BY <2>9, CutFacts
  <2>11. Milli \in Nat
    BY JobConfigAssumption
  <2>. QED  BY <2>5, <2>7, <2>8, <2>9, <2>10, <2>11
<1>. QED  BY <1>1, ConfigAlways, PTL DEF Spec, DurationsKept

\* Nothing that RetryConfig.Backoff computes for the execution overflows.
Fits ==
  run.on => NoOverflow(run.conf.min, run.conf.max, run.conf.doublings, run.attempt)

\* The wait of an execution is the closed form, where nothing overflows.
LEMMA WaitValue ==
  ASSUME ConfigOK, Fits, run.on
  PROVE  /\ run.conf.min \in Nat /\ run.conf.max \in Nat /\ run.conf.doublings \in Nat
         /\ run.attempt \in Nat \ {0}
         /\ Wait(run) = Formula(run.conf.min, run.conf.max, run.conf.doublings, run.attempt)
<1>1. Retrying(run)
  BY DEF ConfigOK, Runs
<1>2. run.conf.min \in Nat /\ run.conf.max \in Nat /\ run.conf.doublings \in Nat
      /\ run.conf.min <= run.conf.max /\ run.attempt \in Nat \ {0}
  BY <1>1 DEF Retrying, Valid
<1>. QED  BY <1>2, JobWait DEF Wait, Fits

\* The closed formula is a natural number.
LEMMA FormulaIsNat ==
  ASSUME NEW min \in Nat, NEW max \in Nat, NEW doublings \in Nat, NEW n \in Nat \ {0}
  PROVE  Formula(min, max, doublings, n) \in Nat
<1>. DEFINE w == IF n - 1 <= doublings THEN min * Power[n - 1]
                 ELSE min * Power[doublings] * (n - doublings)
<1>1. min * Power[doublings] \in Nat /\ min * Power[n - 1] \in Nat
  <2>1. n - 1 \in Nat
    OBVIOUS
  <2>2. Power[n - 1] \in Nat /\ Power[doublings] \in Nat
    BY <2>1, PowerDef
  <2>. QED  BY <2>2
<1>2. w \in Nat
  <2>1. CASE n - 1 <= doublings
    BY <1>1, <2>1
  <2>2. CASE n - 1 > doublings
    <3>. DEFINE p == min * Power[doublings]
    <3>1. p \in Nat /\ n - doublings \in Nat
      BY <1>1, <2>2
    <3>. HIDE DEF p
    <3>2. p * (n - doublings) \in Nat
      BY <3>1
    <3>. QED  BY <2>2, <3>2 DEF p
  <2>. QED  BY <2>1, <2>2
<1>. HIDE DEF w
<1>3. Min({max, w}) \in Nat
  BY <1>2, LeastOfTwo
<1>. QED  BY <1>3 DEF Formula, w

\* An execution that is at its second attempt or a later one has not gone beyond
\* max_retry_duration, as far as a Duration can tell.
SpanKept ==
  run.on /\ run.conf.span > 0 /\ run.attempt > 1 /\ Fit(run.since) => run.since <= run.conf.span

\* SpanKept is inductive where no wait overflows.
LEMMA SpanStep ==
  ASSUME ConfigOK, ConfigOK', Fits, SpanKept, [Next]_vars
  PROVE  SpanKept'
<1>1. ASSUME NEW took \in Took, AttemptFailed(took), run'.on, run'.conf.span > 0, Fit(run'.since)
      PROVE  run'.since <= run'.conf.span
  <2>. DEFINE pause == Max({0, Wait(run)})
              since == run.since + took
  <2>1. Retrying(run) /\ run.on
    BY <1>1 DEF AttemptFailed, ConfigOK, Runs
  <2>2. /\ run'.conf = run.conf /\ run'.since = since + pause /\ pause \in Nat
        /\ ~GivesUp(run, since)
    BY <1>1, <2>1, RetryStep
  <2>3. took \in Nat /\ since \in Nat
    BY <2>1, TookIsNat DEF Retrying
  <2>4. Wait(run) \in Nat
    <3>1. /\ run.conf.min \in Nat /\ run.conf.max \in Nat /\ run.conf.doublings \in Nat
          /\ run.attempt \in Nat \ {0}
          /\ Wait(run) = Formula(run.conf.min, run.conf.max, run.conf.doublings, run.attempt)
      BY <2>1, WaitValue
    <3>2. Formula(run.conf.min, run.conf.max, run.conf.doublings, run.attempt) \in Nat
      <4>. HIDE DEF pause, since
      <4>. QED  BY <3>1, FormulaIsNat
    <3>. QED  BY <3>1, <3>2, Zenon
  <2>5. pause = Wait(run)
    BY <2>4, GreatestOfTwo
  <2>. HIDE DEF pause, since
  <2>6. Wrap(since + Wait(run)) = since + Wait(run)
    BY <1>1, <2>2, <2>3, <2>4, <2>5, WrapFacts
  <2>7. run.conf.span \in Nat
    BY <2>1 DEF Retrying, Valid
  <2>. QED  BY <1>1, <2>2, <2>3, <2>4, <2>5, <2>6, <2>7 DEF GivesUp
<1>2. CASE \E took \in Took : AttemptFailed(took)
  BY <1>1, <1>2 DEF SpanKept
<1>3. CASE Fire
  <2>1. run'.attempt = 1
    BY <1>3 DEF Fire
  <2>. QED  BY <2>1 DEF SpanKept
<1>4. CASE FireEnds
  BY <1>4 DEF FireEnds, NoRun, SpanKept
<1>5. CASE UNCHANGED run
  BY <1>5 DEF SpanKept
<1>. QED  BY <1>2, <1>3, <1>4, <1>5 DEF Next, vars, CreateJob, UpdateRead, UpdateWrite, DeleteJob

\* Fire makes no attempt beyond the limits of the row it began with, as long as
\* none of its waits overflows.
THEOREM RetriesKeepLimits == Spec /\ []Fits => []RetriesWithinLimits
<1>1. Init => SpanKept
  BY DEF Init, NoRun, SpanKept
<1>2. ConfigOK /\ SpanKept => RetriesWithinLimits
  BY DEF ConfigOK, Runs, Retrying, SpanKept, RetriesWithinLimits
<1>. QED  BY <1>1, <1>2, SpanStep, ConfigAlways, PTL DEF Spec

\* The closed formula grows with the number of the retry.
LEMMA FormulaGrows ==
  ASSUME NEW min \in Nat, NEW max \in Nat, NEW doublings \in Nat, NEW n \in Nat \ {0}
  PROVE  Formula(min, max, doublings, n) <= Formula(min, max, doublings, n + 1)
<1>. DEFINE W(k) == IF k - 1 <= doublings THEN min * Power[k - 1]
                    ELSE min * Power[doublings] * (k - doublings)
<1>1. n - 1 \in Nat /\ n \in Nat /\ (n + 1) - 1 = n /\ (n - 1) + 1 = n
  OBVIOUS
<1>2. /\ min * Power[n - 1] \in Nat /\ min * Power[n] \in Nat /\ min * Power[doublings] \in Nat
      /\ min * Power[n] = 2 * (min * Power[n - 1])
  <2>1. Power[n - 1] \in Nat /\ Power[n] = 2 * Power[n - 1] /\ Power[doublings] \in Nat
    BY <1>1, PowerDef
  <2>. QED  BY <2>1
<1>3. W(n) \in Nat /\ W(n + 1) \in Nat /\ W(n) <= W(n + 1)
  <2>1. CASE n <= doublings
    BY <1>1, <1>2, <2>1
  <2>2. CASE n = doublings + 1
    <3>1. W(n) = min * Power[doublings] /\ W(n + 1) = min * Power[doublings] * 2
      BY <2>2
    <3>. QED  BY <1>2, <3>1
  <2>3. CASE n > doublings + 1
    <3>. DEFINE p == min * Power[doublings]
    <3>1. W(n) = p * (n - doublings) /\ W(n + 1) = p * ((n + 1) - doublings)
      BY <2>3
    <3>2. p \in Nat /\ n - doublings \in Nat
      BY <1>2, <2>3
    <3>. HIDE DEF p, W
    <3>3. p * ((n + 1) - doublings) = p * (n - doublings) + p /\ p * (n - doublings) \in Nat
      BY <3>2
    <3>. QED  BY <3>1, <3>2, <3>3
  <2>. QED  BY <2>1, <2>2, <2>3
<1>4. /\ Formula(min, max, doublings, n) = Min({max, W(n)})
      /\ Formula(min, max, doublings, n + 1) = Min({max, W(n + 1)})
  BY DEF Formula
<1>. HIDE DEF W
<1>5. /\ Min({max, W(n)}) = IF max <= W(n) THEN max ELSE W(n)
      /\ Min({max, W(n + 1)}) = IF max <= W(n + 1) THEN max ELSE W(n + 1)
  BY <1>3, LeastOfTwo
<1>. QED  BY <1>3, <1>4, <1>5

\* As long as nothing overflows, RetryConfig.Backoff is the documented wait: the
\* minimum doubled up to maxDoublings times, then linear, capped.
THEOREM JobWaitsFollow == Spec /\ []Fits => []JobWaitsAsSpecified
<1>1. ConfigOK /\ Fits => JobWaitsAsSpecified
  BY WaitValue DEF JobWaitsAsSpecified, Formula
<1>. QED  BY <1>1, ConfigAlways, PTL

\* And then no wait is shorter than the one before it.
THEOREM WaitsNeverShrink == Spec /\ []Fits => WaitsGrow
<1>. DEFINE A == run.on /\ run'.on => Wait(run') >= Wait(run)
<1>1. ASSUME ConfigOK, ConfigOK', Fits, Fits', [Next]_vars PROVE A
  <2>. SUFFICES ASSUME run.on, run'.on PROVE Wait(run') >= Wait(run)
    OBVIOUS
  <2>1. /\ run.conf.min \in Nat /\ run.conf.max \in Nat /\ run.conf.doublings \in Nat
        /\ run.attempt \in Nat \ {0}
        /\ Wait(run) = Formula(run.conf.min, run.conf.max, run.conf.doublings, run.attempt)
    BY <1>1, WaitValue
  <2>2. Wait(run') = Formula(run'.conf.min, run'.conf.max, run'.conf.doublings, run'.attempt)
    <3>1. Retrying(run')
      BY <1>1 DEF ConfigOK, Runs
    <3>2. run'.conf.min \in Nat /\ run'.conf.max \in Nat /\ run'.conf.doublings \in Nat
          /\ run'.conf.min <= run'.conf.max /\ run'.attempt \in Nat \ {0}
      BY <3>1 DEF Retrying, Valid
    <3>. QED  BY <1>1, <3>2, JobWait DEF Wait, Fits
  <2>3. CASE run' = run
    BY <1>1, <2>1, <2>3, WaitIsInt DEF ConfigOK, Runs
  <2>4. CASE run'.conf = run.conf /\ run'.attempt = run.attempt + 1
    <3>. DEFINE F(n) == Formula(run.conf.min, run.conf.max, run.conf.doublings, n)
    <3>1. F(run.attempt) <= F(run.attempt + 1)
      BY <2>1, FormulaGrows
    <3>2. Wait(run) = F(run.attempt) /\ Wait(run') = F(run.attempt + 1)
      BY <2>1, <2>2, <2>4
    <3>. HIDE DEF F
    <3>. QED  BY <3>1, <3>2
  <2>5. run' = run \/ (run'.conf = run.conf /\ run'.attempt = run.attempt + 1)
    <3>1. ASSUME NEW took \in Took, AttemptFailed(took)
          PROVE  run'.conf = run.conf /\ run'.attempt = run.attempt + 1
      BY <1>1, <3>1, RetryStep DEF ConfigOK, Runs
    <3>. QED  BY <1>1, <3>1 DEF Next, vars, CreateJob, UpdateRead, UpdateWrite, DeleteJob, Fire,
                                FireEnds, NoRun
  <2>. QED  BY <2>3, <2>4, <2>5
<1>. QED  BY <1>1, ConfigAlways, PTL DEF Spec, WaitsGrow
=============================================================================
