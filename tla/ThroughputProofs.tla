-------------------------- MODULE ThroughputProofs ---------------------------
(***************************************************************************)
(* The token buckets keep every queue to its rate and the worker takes no  *)
(* more slots than it has, for any number of queues, any rates,            *)
(* concurrency limits and slots, any resolution of the clock and any       *)
(* duration of a poll.                                                     *)
(*                                                                         *)
(* The argument about the rate: the allowance never falls behind what its  *)
(* bucket could still give out, namely its tokens and the refill of the    *)
(* time since "last"; and a claim loop never holds more rows than the      *)
(* bucket has whole tokens.                                                *)
(***************************************************************************)
EXTENDS Throughput, NatFacts

USE ThroughputAssumption

\* The types the argument needs.
Types ==
  /\ pc \in {"idle", "queue", "limit", "list", "claim"}
  /\ cur \in Nat \ {0} /\ limit \in Int /\ sem \in Int /\ late \in 0 .. MaxPoll
  /\ tokens \in [Queues -> Nat \cup {None}] /\ age \in [Queues -> 0 .. MaxAge]
  /\ inflight \in [Queues -> Int] /\ allowance \in [Queues -> Int]

\* One bucket against the allowance of its queue.
Covered(q) ==
  /\ tokens[q] = None => allowance[q] = Burst(q)
  /\ tokens[q] # None =>
       /\ tokens[q] <= Capacity(q) /\ age[q] >= late
       /\ \/ allowance[q] >= Burst(q)
          \/ allowance[q] >= tokens[q] + Rate[q] * age[q]

\* The poll: the queue it is at, and the rows it may still claim.
Polling ==
  /\ pc \in {"limit", "list", "claim"} => cur \in Queues
  /\ pc \in {"list", "claim"} =>
       /\ tokens[cur] # None /\ age[cur] = late
       /\ limit >= 0 /\ limit * Second <= tokens[cur]

RateInv == Types /\ (\A q \in Queues : Covered(q)) /\ Polling

-----------------------------------------------------------------------------
(* Arithmetic.                                                             *)

\* Min of two integers.
LEMMA MinOfTwo ==
  ASSUME NEW a \in Int, NEW b \in Int
  PROVE  /\ Min({a, b}) \in {a, b}
         /\ Min({a, b}) <= a /\ Min({a, b}) <= b
<1>1. \E x \in {a, b} : \A y \in {a, b} : x =< y
  <2>1. CASE a <= b
    BY <2>1
  <2>2. CASE b <= a
    BY <2>2
  <2> QED BY <2>1, <2>2
<1> QED BY <1>1 DEF Min

\* Min of three integers.
LEMMA MinOfThree ==
  ASSUME NEW a \in Int, NEW b \in Int, NEW c \in Int
  PROVE  /\ Min({a, b, c}) \in {a, b, c}
         /\ Min({a, b, c}) <= a /\ Min({a, b, c}) <= b /\ Min({a, b, c}) <= c
<1>1. \E x \in {a, b, c} : \A y \in {a, b, c} : x =< y
  <2>1. CASE a <= b /\ a <= c
    BY <2>1
  <2>2. CASE b <= a /\ b <= c
    BY <2>2
  <2>3. CASE c <= a /\ c <= b
    BY <2>3
  <2> QED BY <2>1, <2>2, <2>3
<1> QED BY <1>1 DEF Min

\* Products of naturals.
LEMMA ProductNat ==
  ASSUME NEW a \in Nat, NEW b \in Nat
  PROVE  a * b \in Nat
OBVIOUS

\* Products are monotone.
LEMMA ProductMonotone ==
  ASSUME NEW r \in Nat, NEW a \in Int, NEW b \in Int, a <= b
  PROVE  r * a <= r * b /\ r * a \in Int /\ r * b \in Int
OBVIOUS

\* Products distribute.
LEMMA ProductOfSum ==
  ASSUME NEW r \in Int, NEW a \in Int, NEW b \in Int
  PROVE  r * (a + b) = r * a + r * b /\ r * a \in Int /\ r * b \in Int
OBVIOUS

\* A whole number of tokens is no more than the tokens there are.
LEMMA WholeTokens ==
  ASSUME NEW n \in Nat, NEW s \in Nat \ {0}
  PROVE  n \div s \in Nat /\ (n \div s) * s <= n
OBVIOUS

\* The constants' derived values.
LEMMA DerivedConstants ==
  ASSUME NEW q \in Queues
  PROVE  /\ Rate[q] \in Nat /\ Conc[q] \in Nat /\ Second \in Nat \ {0} /\ MaxAge \in Nat
         /\ Capacity(q) \in Nat /\ Burst(q) \in Nat
         /\ Burst(q) = Capacity(q) + Rate[q] * MaxPoll
         /\ Rate[q] * MaxAge = Burst(q)
<1>1. /\ Rate[q] \in Nat /\ Conc[q] \in Nat /\ Second \in Nat \ {0} /\ MaxAge \in Nat
      /\ MaxPoll \in Nat
  BY DEF Second, MaxAge
<1>2. Rate[q] * Second \in Nat /\ Rate[q] * MaxPoll \in Nat
  BY <1>1, ProductNat
<1>3. Rate[q] * (Second + MaxPoll) = Rate[q] * Second + Rate[q] * MaxPoll
  BY <1>1, ProductOfSum
<1> QED BY <1>1, <1>2, <1>3 DEF Capacity, Burst, MaxAge

\* The values of one queue.
LEMMA QueueValues ==
  ASSUME Types, NEW q \in Queues
  PROVE  /\ tokens[q] # None => tokens[q] \in Nat
         /\ age[q] \in Nat /\ age[q] <= MaxAge /\ allowance[q] \in Int /\ inflight[q] \in Int
         /\ Rate[q] * age[q] \in Nat
<1>1. Rate[q] \in Nat /\ age[q] \in Nat
  BY DerivedConstants DEF Types
<1> QED BY <1>1, ProductNat DEF Types

-----------------------------------------------------------------------------
(* The steps.                                                              *)

\* A step that leaves the buckets and the allowances alone, and does not lag
\* further behind, keeps them covered.
LEMMA BucketsKept ==
  ASSUME Types, \A q \in Queues : Covered(q), UNCHANGED <<tokens, age, allowance>>,
         late' \in {0, late}
  PROVE  \A q \in Queues : Covered(q)'
<1> SUFFICES ASSUME NEW q \in Queues
             PROVE  Covered(q)'
  OBVIOUS
<1>1. Covered(q) /\ age[q] \in Nat
  BY QueueValues
<1> QED BY <1>1 DEF Covered, Burst, Capacity

\* bucket.refill never exceeds the capacity, nor what the elapsed time has earned.
LEMMA RefillBounds ==
  ASSUME Types, NEW q \in Queues, Covered(q)
  PROVE  LET full == Refill(q, age[q] - late) IN
         /\ full \in Nat /\ full <= Capacity(q)
         /\ tokens[q] # None => full + Rate[q] * late <= tokens[q] + Rate[q] * age[q]
<1>0. Rate[q] \in Nat /\ Capacity(q) \in Nat /\ late \in Nat
  BY DerivedConstants DEF Types
<1>1. CASE tokens[q] = None
  BY <1>0, <1>1 DEF Refill
<1>2. CASE tokens[q] # None
  <2> DEFINE dt == age[q] - late
  <2>1. tokens[q] \in Nat /\ age[q] \in Nat /\ age[q] >= late /\ dt \in Nat
    BY <1>0, <1>2, QueueValues DEF Covered
  <2>2. dt * Rate[q] \in Nat /\ dt * Rate[q] = Rate[q] * dt
    BY <1>0, <2>1, ProductNat
  <2>3. Rate[q] * (dt + late) = Rate[q] * dt + Rate[q] * late /\ Rate[q] * late \in Int
    BY <1>0, <2>1, ProductOfSum
  <2>4. dt + late = age[q]
    BY <1>0, <2>1
  <2> HIDE DEF dt
  <2>5. Rate[q] * age[q] = dt * Rate[q] + Rate[q] * late
    BY <2>2, <2>3, <2>4
  <2> DEFINE sum  == tokens[q] + dt * Rate[q]
             full == Min({Capacity(q), sum})
  <2>6. sum \in Nat
    BY <2>1, <2>2
  <2>7. full \in {Capacity(q), sum} /\ full <= Capacity(q) /\ full <= sum
    <3> HIDE DEF sum
    <3>1. Capacity(q) \in Int /\ sum \in Int
      BY <1>0, <2>6
    <3> QED BY <3>1, MinOfTwo, Zenon
  <2>8. Refill(q, age[q] - late) = full
    BY <1>2 DEF Refill, dt
  <2>9. sum + Rate[q] * late = tokens[q] + Rate[q] * age[q]
    BY <2>1, <2>2, <2>3, <2>5
  <2>10. full \in Nat
    <3> HIDE DEF sum, full
    <3> QED BY <1>0, <2>6, <2>7
  <2>11. full + Rate[q] * late <= tokens[q] + Rate[q] * age[q]
    <3> HIDE DEF sum, full
    <3> QED BY <2>3, <2>6, <2>7, <2>9, <2>10
  <2> QED BY <1>2, <2>7, <2>8, <2>10, <2>11
<1> QED BY <1>1, <1>2

\* Computing the limit refills one bucket and asks for no more than it holds.
LEMMA PollLimitStep ==
  ASSUME RateInv, PollLimit
  PROVE  RateInv'
<1> DEFINE full == Refill(cur, age[cur] - late)
           free == IF Conc[cur] > inflight[cur] THEN Conc[cur] - inflight[cur] ELSE 0
           lim  == Min({limit, free, full \div Second})
<1> USE DEF RateInv
<1>1. cur \in Queues /\ Covered(cur)
  BY DEF PollLimit, Polling
<1>2. /\ full \in Nat /\ full <= Capacity(cur)
      /\ tokens[cur] # None => full + Rate[cur] * late <= tokens[cur] + Rate[cur] * age[cur]
  BY <1>1, RefillBounds
<1>3. /\ Second \in Nat \ {0} /\ Rate[cur] \in Nat /\ Capacity(cur) \in Nat
      /\ late \in Nat /\ late <= MaxAge /\ MaxAge \in Nat /\ late <= MaxPoll
  BY <1>1, DerivedConstants DEF Types, MaxAge
<1>4. full \div Second \in Nat /\ (full \div Second) * Second <= full
  <2> HIDE DEF full
  <2> QED BY <1>2, <1>3, WholeTokens
<1>5. free \in Int /\ limit \in Int
  BY <1>1, DerivedConstants, QueueValues DEF Types
<1>6. lim \in Int /\ lim <= full \div Second
  <2> HIDE DEF full, free
  <2>1. full \div Second \in Int
    BY <1>4
  <2> DEFINE whole == full \div Second
  <2> HIDE DEF whole
  <2>2. whole \in Int
    BY <2>1 DEF whole
  <2>3. Min({limit, free, whole}) \in Int /\ Min({limit, free, whole}) <= whole
    BY <1>5, <2>2, MinOfThree
  <2> QED BY <2>3 DEF whole
<1>7. /\ pc = "limit"
      /\ tokens' = [tokens EXCEPT ![cur] = full]
      /\ age' = [age EXCEPT ![cur] = late]
      /\ \/ lim = 0 /\ NextQueue
         \/ lim > 0 /\ pc' = "list" /\ limit' = lim /\ UNCHANGED <<cur, late>>
      /\ UNCHANGED <<sem, inflight, leaving, demand, allowance>>
  BY DEF PollLimit
<1> HIDE DEF full, free, lim
<1>8. tokens'[cur] = full /\ age'[cur] = late /\ late' = late
  BY <1>1, <1>7 DEF Types, NextQueue
<1>9. Types'
  <2>1. late \in 0 .. MaxAge
    BY <1>3
  <2> QED BY <1>1, <1>2, <1>6, <1>7, <2>1 DEF Types, NextQueue
<1>10. ASSUME NEW q \in Queues
       PROVE  Covered(q)'
  <2>1. CASE q = cur
    <3>1. full # None /\ Rate[q] * late \in Int
      BY <1>2, <1>3, <2>1
    <3>2. CASE tokens[q] = None
      BY <1>2, <1>3, <1>7, <1>8, <2>1, <3>1, <3>2, <1>1, DerivedConstants
         DEF Covered, Burst, Capacity
    <3>3. CASE tokens[q] # None
      <4>1. \/ allowance[q] >= Burst(q)
            \/ allowance[q] >= tokens[q] + Rate[q] * age[q]
        BY <1>1, <2>1, <3>3 DEF Covered
      <4>2. /\ tokens[q] + Rate[q] * age[q] \in Int /\ allowance[q] \in Int
            /\ full + Rate[q] * late \in Int
        BY <1>2, <3>1, <3>3, QueueValues
      <4>3. \/ allowance[q] >= Burst(q)
            \/ allowance[q] >= full + Rate[q] * late
        BY <1>2, <2>1, <3>3, <4>1, <4>2
      <4>4. full <= Capacity(q) /\ late >= late
        BY <1>2, <1>3, <2>1
      <4> QED BY <1>7, <1>8, <2>1, <3>1, <4>3, <4>4 DEF Covered, Burst, Capacity
    <3> QED BY <3>2, <3>3
  <2>2. CASE q # cur
    BY <1>7, <1>8, <2>2 DEF Covered, Burst, Capacity, Types
  <2> QED BY <2>1, <2>2
<1>11. Polling'
  <2>1. CASE lim = 0 /\ NextQueue
    BY <2>1 DEF Polling, NextQueue
  <2>2. CASE lim > 0 /\ pc' = "list" /\ limit' = lim /\ UNCHANGED <<cur, late>>
    <3>1. lim * Second <= (full \div Second) * Second
      BY <1>3, <1>4, <1>6, ProductMonotone
    <3>2. lim * Second <= full
      <4>1. lim * Second \in Int /\ (full \div Second) * Second \in Int
        BY <1>3, <1>4, <1>6
      <4> QED BY <1>2, <1>4, <3>1, <4>1
    <3> QED BY <1>1, <1>2, <1>6, <1>8, <2>2, <3>2 DEF Polling
  <2> QED BY <1>7, <2>1, <2>2
<1> QED BY <1>9, <1>10, <1>11

\* Listing takes no more rows than the limit.
LEMMA PollListStep ==
  ASSUME RateInv, PollList
  PROVE  RateInv'
<1> USE DEF RateInv
<1>1. /\ cur \in Queues /\ tokens[cur] # None /\ age[cur] = late
      /\ limit \in Nat /\ limit * Second <= tokens[cur]
  BY DEF PollList, Polling, Types
<1>2. PICK n \in (IF demand[cur] THEN 1 .. limit ELSE {0}) : limit' = n
  BY DEF PollList
<1>3. limit' = n /\ n \in Nat /\ n <= limit
  BY <1>1, <1>2
<1>4. n * Second <= tokens[cur]
  <2>1. Second \in Nat /\ tokens[cur] \in Nat
    BY <1>1, DerivedConstants, QueueValues
  <2>2. n \in Int /\ limit \in Int
    BY <1>1, <1>3
  <2>3. Second * n <= Second * limit /\ Second * n \in Int /\ Second * limit \in Int
    BY <1>3, <2>1, <2>2, ProductMonotone, Zenon
  <2>4. n * Second = Second * n /\ limit * Second = Second * limit
    BY <2>1, <2>2
  <2> QED BY <1>1, <2>1, <2>3, <2>4
<1>5. Types'
  BY <1>3 DEF Types, PollList
<1>6. \A q \in Queues : Covered(q)'
  BY BucketsKept DEF PollList
<1>7. Polling'
  BY <1>1, <1>3, <1>4 DEF Polling, PollList
<1> QED BY <1>5, <1>6, <1>7

\* A row less to claim needs a token less.
LEMMA OneRowLess ==
  ASSUME RateInv, pc = "claim", limit > 0
  PROVE  /\ cur \in Queues /\ tokens[cur] \in Nat /\ limit - 1 \in Nat
         /\ Second \in Nat /\ Second <= tokens[cur]
         /\ (limit - 1) * Second <= tokens[cur] - Second
<1>1. /\ cur \in Queues /\ tokens[cur] # None /\ limit \in Nat /\ limit - 1 \in Nat
      /\ limit * Second <= tokens[cur]
  BY DEF RateInv, Polling, Types
<1>2. Second \in Nat /\ tokens[cur] \in Nat
  BY <1>1, DerivedConstants, QueueValues DEF RateInv
<1>3. Second * ((limit - 1) + 1) = Second * (limit - 1) + Second * 1
  BY <1>1, <1>2, ProductOfSum
<1>4. /\ (limit - 1) * Second = Second * (limit - 1) /\ limit * Second = Second * limit
      /\ Second * 1 = Second /\ (limit - 1) + 1 = limit
  BY <1>1, <1>2
<1>5. (limit - 1) * Second \in Nat /\ limit * Second \in Nat
  BY <1>1, <1>2, ProductNat
<1>6. limit * Second = (limit - 1) * Second + Second
  BY <1>3, <1>4
<1> QED BY <1>1, <1>2, <1>5, <1>6

\* A lost claim costs no token.
LEMMA PollMissStep ==
  ASSUME RateInv, PollMiss
  PROVE  RateInv'
<1> USE DEF RateInv
<1>1. /\ tokens[cur] \in Nat /\ limit - 1 \in Nat /\ Second \in Nat
      /\ (limit - 1) * Second <= tokens[cur] - Second
  BY OneRowLess DEF PollMiss
<1>2. (limit - 1) * Second \in Nat
  BY <1>1, ProductNat
<1>3. (limit - 1) * Second <= tokens[cur]
  BY <1>1, <1>2
<1>4. Types'
  BY <1>1 DEF Types, PollMiss
<1>5. \A q \in Queues : Covered(q)'
  BY BucketsKept DEF PollMiss
<1>6. Polling'
  BY <1>1, <1>3 DEF Polling, PollMiss
<1> QED BY <1>4, <1>5, <1>6

\* A dispatch takes one token and one unit of allowance.  The bucket was filled
\* in this poll, so it cannot lag behind the burst that caps the allowance.
LEMMA PollDispatchStep ==
  ASSUME RateInv, PollDispatch
  PROVE  RateInv'
<1> USE DEF RateInv
<1>1. /\ cur \in Queues /\ tokens[cur] \in Nat /\ limit - 1 \in Nat
      /\ Second \in Nat /\ Second <= tokens[cur]
      /\ (limit - 1) * Second <= tokens[cur] - Second
  BY OneRowLess DEF PollDispatch
<1>2. tokens[cur] # None /\ age[cur] = late
  BY DEF PollDispatch, Polling
<1>3. /\ tokens' = [tokens EXCEPT ![cur] = tokens[cur] - Second]
      /\ allowance' = [allowance EXCEPT ![cur] = allowance[cur] - Second]
      /\ limit' = limit - 1 /\ pc = "claim" /\ pc' = "claim" /\ sem' = sem + 1
      /\ inflight' = [inflight EXCEPT ![cur] = inflight[cur] + 1]
      /\ UNCHANGED <<cur, late, age>>
  BY DEF PollDispatch
<1>4. /\ tokens'[cur] = tokens[cur] - Second /\ tokens'[cur] \in Nat
      /\ allowance'[cur] = allowance[cur] - Second
  BY <1>1, <1>3 DEF Types
<1>5. tokens'[cur] # None
  BY <1>4
<1>6. Types'
  <2>1. tokens' \in [Queues -> Nat \cup {None}]
    BY <1>1, <1>3 DEF Types
  <2>2. allowance' \in [Queues -> Int] /\ inflight' \in [Queues -> Int]
    BY <1>1, <1>3, QueueValues DEF Types
  <2> QED BY <1>1, <1>3, <2>1, <2>2 DEF Types
<1>7. ASSUME NEW q \in Queues
      PROVE  Covered(q)'
  <2>1. CASE q = cur
    <3>1. /\ Rate[q] \in Nat /\ Capacity(q) \in Nat /\ Burst(q) \in Nat
          /\ Burst(q) = Capacity(q) + Rate[q] * MaxPoll
      BY DerivedConstants
    <3>2. late \in Nat /\ MaxPoll \in Nat /\ late <= MaxPoll
      BY DEF Types
    <3>3. Rate[q] * late <= Rate[q] * MaxPoll /\ Rate[q] * late \in Int /\ Rate[q] * MaxPoll \in Int
      BY <3>1, <3>2, ProductMonotone
    <3>4. /\ tokens[q] <= Capacity(q) /\ allowance[q] \in Int
          /\ allowance[q] >= Burst(q) \/ allowance[q] >= tokens[q] + Rate[q] * late
      BY <1>2, <2>1, QueueValues DEF Covered
    <3>5. allowance[q] >= tokens[q] + Rate[q] * late
      BY <1>1, <2>1, <3>1, <3>3, <3>4
    <3>6. /\ tokens[q] - Second <= Capacity(q)
          /\ allowance[q] - Second >= (tokens[q] - Second) + Rate[q] * late
      BY <1>1, <2>1, <3>1, <3>3, <3>4, <3>5
    <3>7. late >= late
      BY <3>2
    <3> QED BY <1>2, <1>3, <1>4, <1>5, <2>1, <3>6, <3>7 DEF Covered, Burst, Capacity
  <2>2. CASE q # cur
    BY <1>3, <2>2 DEF Covered, Burst, Capacity, Types
  <2> QED BY <2>1, <2>2
<1>8. Polling'
  BY <1>1, <1>2, <1>3, <1>4, <1>5 DEF Polling
<1> QED BY <1>6, <1>7, <1>8

\* A unit of time earns every queue its rate, in the bucket and in the allowance.
LEMMA TickStep ==
  ASSUME RateInv, Tick
  PROVE  RateInv'
<1> USE DEF RateInv
<1>1. /\ late \in Nat /\ MaxPoll \in Nat /\ MaxAge \in Nat /\ MaxPoll <= MaxAge
      /\ late' \in Nat /\ late' <= MaxPoll /\ late' <= late + 1
      /\ pc # "idle" => late' = late + 1
  BY DEF Types, Tick, MaxAge, Second
<1>2. UNCHANGED <<pc, cur, limit, tokens, sem, inflight>>
  BY DEF Tick
<1>3. ASSUME NEW q \in Queues
      PROVE  /\ age'[q] = IF tokens[q] = None THEN 0 ELSE Min({MaxAge, age[q] + 1})
             /\ allowance'[q] = Min({Burst(q), allowance[q] + Rate[q]})
  BY DEF Tick
<1>4. ASSUME NEW q \in Queues
      PROVE  /\ age'[q] \in 0 .. MaxAge
             /\ tokens[q] # None => age'[q] = IF age[q] < MaxAge THEN age[q] + 1 ELSE MaxAge
             /\ allowance'[q] \in Int
             /\ allowance'[q] = Burst(q) \/ allowance'[q] = allowance[q] + Rate[q]
             /\ allowance[q] >= Burst(q) => allowance'[q] = Burst(q)
  <2>1. /\ age[q] + 1 \in Int /\ MaxAge \in Int /\ Burst(q) \in Int
        /\ allowance[q] + Rate[q] \in Int /\ Rate[q] \in Nat
        /\ age[q] \in Nat /\ age[q] <= MaxAge /\ allowance[q] \in Int
    BY <1>1, DerivedConstants, QueueValues
  <2> DEFINE older == Min({MaxAge, age[q] + 1})
             more  == Min({Burst(q), allowance[q] + Rate[q]})
  <2>2. older \in {MaxAge, age[q] + 1} /\ older <= MaxAge /\ older <= age[q] + 1
    BY <2>1, MinOfTwo, Zenon
  <2>3. /\ more \in {Burst(q), allowance[q] + Rate[q]}
        /\ more <= Burst(q) /\ more <= allowance[q] + Rate[q]
    BY <2>1, MinOfTwo, Zenon
  <2>4. /\ age'[q] = IF tokens[q] = None THEN 0 ELSE older
        /\ allowance'[q] = more
    BY <1>3
  <2> HIDE DEF older, more
  <2> QED BY <1>1, <2>1, <2>2, <2>3, <2>4
<1>5. Types'
  <2>1. age' \in [Queues -> 0 .. MaxAge]
    BY <1>4 DEF Tick
  <2>2. allowance' \in [Queues -> Int]
    BY <1>4 DEF Tick
  <2> QED BY <1>1, <1>2, <2>1, <2>2 DEF Types
<1>6. ASSUME NEW q \in Queues
      PROVE  Covered(q)'
  <2>1. /\ Rate[q] \in Nat /\ Burst(q) \in Nat /\ Rate[q] * MaxAge = Burst(q)
        /\ age[q] \in Nat /\ age[q] <= MaxAge /\ allowance[q] \in Int
        /\ Rate[q] * age[q] \in Nat
    BY DerivedConstants, QueueValues
  <2>2. CASE tokens[q] = None
    BY <1>2, <1>4, <2>1, <2>2 DEF Covered, Burst, Capacity
  <2>3. CASE tokens[q] # None
    <3>1. /\ tokens[q] \in Nat /\ tokens[q] <= Capacity(q) /\ age[q] >= late
          /\ allowance[q] >= Burst(q) \/ allowance[q] >= tokens[q] + Rate[q] * age[q]
      BY <2>3, QueueValues DEF Covered
    <3>2. age'[q] >= late'
      BY <1>1, <1>4, <2>1, <2>3, <3>1
    <3>3. allowance'[q] >= Burst(q) \/ allowance'[q] >= tokens[q] + Rate[q] * age'[q]
      <4>1. CASE age[q] < MaxAge
        <5>1. age'[q] = age[q] + 1
          BY <1>4, <2>3, <4>1
        <5>2. Rate[q] * (age[q] + 1) = Rate[q] * age[q] + Rate[q]
          BY <2>1, ProductOfSum
        <5> QED BY <1>4, <2>1, <3>1, <5>1, <5>2
      <4>2. CASE age[q] = MaxAge
        BY <1>4, <2>1, <3>1, <4>2
      <4>3. age[q] < MaxAge \/ age[q] = MaxAge
        BY <1>1, <2>1
      <4> QED BY <4>1, <4>2, <4>3, Zenon
    <3> QED BY <1>2, <2>3, <3>1, <3>2, <3>3 DEF Covered, Burst, Capacity
  <2> QED BY <2>2, <2>3
<1>7. Polling'
  <2> SUFFICES ASSUME pc \in {"list", "claim"}
               PROVE  age'[cur] = late'
    BY <1>2 DEF Polling
  <2>1. cur \in Queues /\ tokens[cur] # None /\ age[cur] = late /\ late' = late + 1
    BY <1>1 DEF Polling
  <2> QED BY <1>1, <1>4, <2>1
<1> QED BY <1>5, <1>6, <1>7

\* The remaining steps leave the buckets alone.
LEMMA OtherSteps ==
  ASSUME RateInv,
         \/ PollStart \/ PollQueue \/ PollDone \/ UNCHANGED vars
         \/ \E q \in Queues : Uncount(q) \/ Release(q) \/ Toggle(q)
  PROVE  RateInv'
<1> USE DEF RateInv
<1>1. CASE PollStart
  <2>1. Types'
    BY <1>1 DEF PollStart, Types
  <2>2. \A q \in Queues : Covered(q)'
    BY <1>1, BucketsKept DEF PollStart
  <2> QED BY <1>1, <2>1, <2>2 DEF PollStart, Polling
<1>2. CASE PollQueue
  <2>1. Types'
    BY <1>2 DEF PollQueue, Return, Types
  <2>2. \A q \in Queues : Covered(q)'
    BY <1>2, BucketsKept DEF PollQueue, Return
  <2>3. pc' = "idle" \/ (pc' = "limit" /\ cur' = cur /\ cur <= NumQueues)
    BY <1>2 DEF PollQueue, Return
  <2>4. pc' = "limit" => cur' \in Queues
    BY <2>3 DEF Types, Queues
  <2>5. Polling'
    BY <2>3, <2>4 DEF Polling
  <2> QED BY <2>1, <2>2, <2>5
<1>3. CASE PollDone
  <2>1. Types'
    BY <1>3 DEF PollDone, NextQueue, Types
  <2>2. \A q \in Queues : Covered(q)'
    BY <1>3, BucketsKept DEF PollDone, NextQueue
  <2> QED BY <1>3, <2>1, <2>2 DEF PollDone, NextQueue, Polling
<1>4. CASE UNCHANGED vars \/ \E q \in Queues : Uncount(q) \/ Release(q) \/ Toggle(q)
  <2>1. UNCHANGED <<pc, cur, limit, late, tokens, age, allowance>>
    BY <1>4 DEF vars, Uncount, Release, Toggle
  <2>2. sem' \in Int /\ inflight' \in [Queues -> Int]
    BY <1>4 DEF vars, Uncount, Release, Toggle, Types
  <2>3. Types'
    BY <2>1, <2>2 DEF Types
  <2>4. \A q \in Queues : Covered(q)'
    BY <2>1, BucketsKept
  <2> QED BY <2>1, <2>3, <2>4 DEF Polling
<1> QED BY <1>1, <1>2, <1>3, <1>4

\* No step of the worker takes more from a bucket than the allowance covers.
LEMMA RateInvAlways == Spec => []RateInv
<1>1. Init => RateInv
  <2> SUFFICES ASSUME Init
               PROVE  RateInv
    OBVIOUS
  <2>1. ASSUME NEW q \in Queues
        PROVE  Burst(q) \in Nat /\ MaxAge \in Nat
    BY DerivedConstants
  <2>2. MaxAge \in Nat
    BY DEF MaxAge, Second
  <2>3. Types
    BY <2>1, <2>2 DEF Init, Types
  <2>4. \A q \in Queues : Covered(q)
    BY DEF Init, Covered
  <2> QED BY <2>3, <2>4 DEF Init, RateInv, Polling
<1>2. RateInv /\ [Next]_vars => RateInv'
  BY PollLimitStep, PollListStep, PollMissStep, PollDispatchStep, TickStep, OtherSteps
     DEF Next, Poll
<1> QED BY <1>1, <1>2, PTL DEF Spec

-----------------------------------------------------------------------------
\* The rate limit of worker.go 74-84 and 112-152: no interleaving of polls,
\* finishing goroutines, arriving tasks and passing time lets a queue dispatch
\* more than its burst and its rate allow.
THEOREM RateIsEnforced == Spec => []RateEnforced
<1>1. RateInv => RateEnforced
  <2> SUFFICES ASSUME RateInv, NEW q \in Queues
               PROVE  allowance[q] >= 0
    BY DEF RateEnforced
  <2>1. /\ Covered(q) /\ Burst(q) \in Nat /\ allowance[q] \in Int
        /\ tokens[q] # None => tokens[q] \in Nat
        /\ Rate[q] * age[q] \in Nat
    BY DerivedConstants, QueueValues DEF RateInv
  <2> QED BY <2>1 DEF Covered
<1> QED BY <1>1, RateInvAlways, PTL

-----------------------------------------------------------------------------
(* The slots.  Every slot that is taken belongs to a goroutine of some      *)
(* queue, so none is released that was not taken; and what the poll may     *)
(* still claim fits into the slots that are free, so none is taken that is  *)
(* not there.                                                               *)

Live(q) == inflight[q] + leaving[q]

\* s[n] is the number of goroutines of the first n queues.
IsTally(s) ==
  /\ s \in [0 .. NumQueues -> Int] /\ s[0] = 0
  /\ \A n \in Queues : s[n] = s[n - 1] + Live(n)

SlotInv ==
  /\ cur \in 1 .. NumQueues + 1 /\ limit \in Nat /\ sem \in Int /\ sem + limit <= SlotCount
  /\ inflight \in [Queues -> Nat] /\ leaving \in [Queues -> Nat]
  /\ demand \in [Queues -> BOOLEAN]
  /\ \E s : IsTally(s) /\ s[NumQueues] = sem

\* The number of goroutines is not negative.
LEMMA TallyIsNatural ==
  ASSUME SlotInv
  PROVE  sem \in Nat
<1>1. PICK s : IsTally(s) /\ s[NumQueues] = sem
  BY DEF SlotInv
<1> DEFINE Good == {n \in Nat : n <= NumQueues => s[n] \in Nat}
<1>2. 0 \in Good
  BY <1>1 DEF IsTally
<1>3. ASSUME NEW n \in Nat, n \in Good
      PROVE  n + 1 \in Good
  <2> SUFFICES ASSUME n + 1 <= NumQueues
               PROVE  s[n + 1] \in Nat
    OBVIOUS
  <2>1. n + 1 \in Queues /\ (n + 1) - 1 = n /\ s[n] \in Nat
    BY <1>3 DEF Queues
  <2>2. Live(n + 1) \in Nat
    BY <2>1 DEF SlotInv, Live
  <2>3. s[n + 1] = s[(n + 1) - 1] + Live(n + 1)
    BY <1>1, <2>1 DEF IsTally
  <2> QED BY <2>1, <2>2, <2>3
<1>4. \A n \in Nat : n \in Good
  <2> HIDE DEF Good
  <2> QED BY <1>2, <1>3, SetInduction
<1> QED BY <1>1, <1>4

\* One goroutine more or less in one queue is one more or less in all.
LEMMA TallyMoves ==
  ASSUME NEW s, IsTally(s), NEW p \in Queues, NEW d \in Int,
         inflight \in [Queues -> Nat], leaving \in [Queues -> Nat],
         \A n \in Queues : Live(n)' = IF n = p THEN Live(n) + d ELSE Live(n)
  PROVE  \E t : IsTally(t)' /\ t[NumQueues] = s[NumQueues] + d
<1> DEFINE t == [n \in 0 .. NumQueues |-> IF n >= p THEN s[n] + d ELSE s[n]]
<1>1. t \in [0 .. NumQueues -> Int] /\ t[0] = 0
  BY SMTT(30) DEF IsTally, Queues
<1>2. ASSUME NEW n \in Queues
      PROVE  t[n] = t[n - 1] + Live(n)'
  <2>1. /\ n \in 0 .. NumQueues /\ n - 1 \in 0 .. NumQueues /\ n \in Int /\ p \in Int
        /\ s[n] = s[n - 1] + Live(n)
        /\ s[n] \in Int /\ s[n - 1] \in Int
    BY DEF IsTally, Queues
  <2>2. Live(n) \in Int
    BY DEF Live
  <2>3. /\ t[n] = IF n >= p THEN s[n] + d ELSE s[n]
        /\ t[n - 1] = IF n - 1 >= p THEN s[n - 1] + d ELSE s[n - 1]
    BY <2>1
  <2>4. Live(n)' = IF n = p THEN Live(n) + d ELSE Live(n)
    OBVIOUS
  <2> HIDE DEF t
  <2> QED BY <2>1, <2>2, <2>3, <2>4
<1>3. t[NumQueues] = s[NumQueues] + d
  BY DEF Queues
<1> HIDE DEF t
<1> QED BY <1>1, <1>2, <1>3 DEF IsTally

\* The steps of the goroutines and of the clients.
LEMMA GoroutineSlots ==
  ASSUME SlotInv, NEW q \in Queues, Uncount(q) \/ Release(q) \/ Toggle(q)
  PROVE  SlotInv'
<1> USE DEF SlotInv
<1>1. PICK s : IsTally(s) /\ s[NumQueues] = sem
  OBVIOUS
<1>2. CASE Uncount(q)
  <2>1. \A n \in Queues : Live(n)' = IF n = q THEN Live(n) + 0 ELSE Live(n)
    BY <1>2 DEF Uncount, Live
  <2>2. PICK t : IsTally(t)' /\ t[NumQueues] = s[NumQueues] + 0
    BY <1>1, <2>1, TallyMoves
  <2>3. inflight' \in [Queues -> Nat] /\ leaving' \in [Queues -> Nat]
    BY <1>2 DEF Uncount
  <2> QED BY <1>1, <1>2, <2>2, <2>3 DEF Uncount
<1>3. CASE Release(q)
  <2>1. \A n \in Queues : Live(n)' = IF n = q THEN Live(n) + (-1) ELSE Live(n)
    BY <1>3 DEF Release, Live
  <2>2. PICK t : IsTally(t)' /\ t[NumQueues] = s[NumQueues] + (-1)
    BY <1>1, <2>1, TallyMoves
  <2>3. leaving' \in [Queues -> Nat]
    BY <1>3 DEF Release
  <2> QED BY <1>1, <1>3, <2>2, <2>3 DEF Release
<1>4. CASE Toggle(q)
  <2>1. IsTally(s)'
    BY <1>1, <1>4 DEF Toggle, IsTally, Live
  <2>2. demand' \in [Queues -> BOOLEAN]
    BY <1>4, Zenon DEF Toggle
  <2> QED BY <1>1, <1>4, <2>1, <2>2 DEF Toggle
<1> QED BY <1>2, <1>3, <1>4

\* The steps of the poll.
LEMMA PollSlots ==
  ASSUME RateInv, SlotInv, Poll
  PROVE  SlotInv'
<1> USE DEF SlotInv
<1>1. PICK s : IsTally(s) /\ s[NumQueues] = sem
  OBVIOUS
<1>2. UNCHANGED <<inflight, leaving>> => IsTally(s)'
  BY <1>1 DEF IsTally, Live
<1>3. pc \in {"limit", "list", "claim"} => cur \in Queues /\ cur + 1 \in 1 .. NumQueues + 1
  BY DEF RateInv, Polling, Queues
<1>4. CASE PollStart
  BY <1>1, <1>2, <1>4 DEF PollStart
<1>5. CASE PollQueue
  BY <1>1, <1>2, <1>5 DEF PollQueue, Return
<1>6. CASE PollLimit
  <2> DEFINE full == Refill(cur, age[cur] - late)
             free == IF Conc[cur] > inflight[cur] THEN Conc[cur] - inflight[cur] ELSE 0
             lim  == Min({limit, free, full \div Second})
  <2>1. lim \in Int /\ lim <= limit
    <3>1. cur \in Queues /\ Covered(cur)
      BY <1>6 DEF PollLimit, RateInv, Polling
    <3>2. full \in Nat
      BY <3>1, RefillBounds DEF RateInv
    <3>3. Second \in Nat \ {0}
      BY <3>1, DerivedConstants
    <3> DEFINE whole == full \div Second
    <3>4. whole \in Int
      <4> HIDE DEF full
      <4> QED BY <3>2, <3>3, WholeTokens
    <3>5. free \in Int /\ limit \in Int
      BY <3>1
    <3> HIDE DEF whole, free
    <3> DEFINE least == Min({limit, free, whole})
    <3>6. least \in {limit, free, whole} /\ least <= limit
      BY <3>4, <3>5, MinOfThree, Zenon
    <3> HIDE DEF least
    <3>7. least \in Int /\ least <= limit
      BY <3>4, <3>5, <3>6
    <3> QED BY <3>7 DEF least, whole
  <2>2. /\ \/ lim = 0 /\ NextQueue
           \/ lim > 0 /\ pc' = "list" /\ limit' = lim /\ UNCHANGED <<cur, late>>
        /\ UNCHANGED <<sem, inflight, leaving, demand>>
    BY <1>6 DEF PollLimit
  <2>3. pc = "limit"
    BY <1>6 DEF PollLimit
  <2> HIDE DEF lim
  <2> QED BY <1>1, <1>2, <1>3, <2>1, <2>2, <2>3 DEF NextQueue
<1>7. CASE PollList
  <2>1. PICK n \in (IF demand[cur] THEN 1 .. limit ELSE {0}) : limit' = n
    BY <1>7 DEF PollList
  <2>2. limit' \in Nat /\ limit' <= limit
    BY <2>1
  <2> QED BY <1>1, <1>2, <1>7, <2>2 DEF PollList
<1>8. CASE PollDone
  BY <1>1, <1>2, <1>3, <1>8 DEF PollDone, NextQueue
<1>9. CASE PollMiss
  BY <1>1, <1>2, <1>9 DEF PollMiss
<1>10. CASE PollDispatch
  <2>1. cur \in Queues
    BY <1>3, <1>10 DEF PollDispatch
  <2>2. \A n \in Queues : Live(n)' = IF n = cur THEN Live(n) + 1 ELSE Live(n)
    BY <1>10 DEF PollDispatch, Live
  <2>3. PICK t : IsTally(t)' /\ t[NumQueues] = s[NumQueues] + 1
    BY <1>1, <2>1, <2>2, TallyMoves
  <2>4. inflight' \in [Queues -> Nat]
    BY <1>10, <2>1 DEF PollDispatch
  <2> QED BY <1>1, <1>10, <2>3, <2>4 DEF PollDispatch
<1> QED BY <1>4, <1>5, <1>6, <1>7, <1>8, <1>9, <1>10 DEF Poll

\* Types; and the channel of worker.go 56 is never asked for more slots than it
\* has: the poll claims no more rows than it found slots free, and nothing but
\* the poll takes a slot in the meantime.
THEOREM TypeCorrect == Spec => []TypeOK
<1>1. Init => SlotInv
  <2> SUFFICES ASSUME Init
               PROVE  SlotInv
    OBVIOUS
  <2> DEFINE s == [n \in 0 .. NumQueues |-> 0]
  <2>1. IsTally(s) /\ s[NumQueues] = 0
    BY DEF Init, IsTally, Live, Queues
  <2> HIDE DEF s
  <2> QED BY <2>1 DEF Init, SlotInv
<1>2. RateInv /\ SlotInv /\ [Next]_vars => SlotInv'
  <2>1. SlotInv /\ UNCHANGED vars => SlotInv'
    BY DEF SlotInv, IsTally, Live, vars
  <2>2. SlotInv /\ Tick => SlotInv'
    BY DEF SlotInv, IsTally, Live, Tick
  <2> QED BY <2>1, <2>2, PollSlots, GoroutineSlots DEF Next
<1>3. RateInv /\ SlotInv => TypeOK
  <2> SUFFICES ASSUME RateInv, SlotInv
               PROVE  TypeOK
    OBVIOUS
  <2>1. sem \in Nat
    BY TallyIsNatural
  <2>2. limit \in 0 .. SlotCount /\ sem \in 0 .. SlotCount
    BY <2>1 DEF SlotInv
  <2> QED BY <2>2 DEF RateInv, Types, SlotInv, TypeOK
<1> QED BY <1>1, <1>2, <1>3, RateInvAlways, PTL DEF Spec
=============================================================================
