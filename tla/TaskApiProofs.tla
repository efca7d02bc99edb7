---------------------------- MODULE TaskApiProofs ----------------------------
(***************************************************************************)
(* Proofs about TaskApi: requests that are refused change nothing, answers *)
(* show the client's own task, and pages show every task once while the    *)
(* queue is quiet, for any clients, walkers, rows and page sizes.          *)
(*                                                                         *)
(* The argument about pages: rows are listed newest first, so of two lists *)
(* in view at different times, the same row has moved towards the front    *)
(* only if one left, and towards the end only if one entered (NoLater).    *)
(* An offset therefore separates what was returned from what was not.      *)
(***************************************************************************)
EXTENDS TaskApi, FiniteSetTheorems, SequenceTheorems, NatFacts

Row == [id : TaskIds \cup {Uuid}, nr : Nat, status : {"PENDING", "RUNNING"}]

\* Newest first.
Falling(R) == \A i, j \in 1 .. Len(R) : i < j => R[i].nr > R[j].nr

Matches(row, filter) == filter = None \/ row.status = filter

-----------------------------------------------------------------------------
(* The invariant: of the rows, of the requests and answers of each client, *)
(* and of each walk.                                                       *)

RowsOK ==
  /\ rows \in Seq(Row) /\ Falling(rows)
  /\ \A i \in 1 .. Len(rows) : rows[i].nr <= inserts /\ rows[i].nr >= 1
  /\ \A i, j \in 1 .. Len(rows) : rows[i].id = rows[j].id /\ rows[i].id # Uuid => i = j

\* The requests that may still insert a row.
MayInsert == {c \in Clients : req[c].step \notin {"idle", "reread"}}

InsertsOK == inserts \in Nat /\ inserts + Cardinality(MayInsert) <= MaxInserts

\* A request has changed nothing before it is found valid and its queue is found
\* or made; the number of the row it has inserted stays with the name.
RequestOK(c) ==
  \/ req[c] = Idle
  \/ /\ req[c] \in [step : {"check", "lookup", "queue", "insert"}, r : Asked, made : BOOLEAN]
     /\ req[c].step # "insert" => ~req[c].made
     /\ req[c].step # "check" => WellFormed(req[c].r)
  \/ /\ req[c] \in [step : {"reread"}, id : TaskIds \cup {Uuid}, nr : Nat]
     /\ req[c].nr <= inserts
     /\ \A i \in 1 .. Len(rows) : rows[i].nr = req[c].nr => rows[i].id = req[c].id

AnswerOK(c) ==
  \/ answer[c] = NoAnswer
  \/ answer[c] \in [code : {"INVALID_ARGUMENT", "NOT_FOUND"}, made : {FALSE}]
  \/ answer[c] \in [code : {"ALREADY_EXISTS"}, made : BOOLEAN]
  \/ answer[c] \in [code : {"OK"}, own : BOOLEAN, there : BOOLEAN] /\ (answer[c].there => answer[c].own)

ClientsOK ==
  /\ DOMAIN req = Clients /\ DOMAIN answer = Clients
  /\ \A c \in Clients : RequestOK(c) /\ AnswerOK(c)

Walk == [step : {"page", "open", "count", "show", "done", "gone"}, kind : {"api", "ui"},
         size : Nat \ {0}, filter : Filters, at : Nat, total : Nat, got : Seq(Nat),
         kept : SUBSET Nat, entered : BOOLEAN, left : BOOLEAN, steady : BOOLEAN]

\* The numbers in view, as a list.
Listed(R, filter) == Numbers(Filtered(R, filter))

\* A walk by page tokens, while N is in view: as long as no row left, what is in
\* view before the offset and was there all along has been returned; as long as
\* none entered, nothing behind the offset has been.
ApiOK(k, N) ==
  /\ k.step \in {"page", "done"}
  /\ k.step = "page" =>
       /\ k.kept \subseteq ToSet(N)
       /\ ~k.left => \A i \in 1 .. Len(N) : i <= k.at /\ N[i] \in k.kept => N[i] \in ToSet(k.got)
       /\ ~k.entered => \A i \in 1 .. Len(N) : i > k.at => N[i] \notin ToSet(k.got)
  /\ ~k.entered => IsInjective(k.got)
  /\ k.step = "done" /\ ~k.left => k.kept \subseteq ToSet(k.got)

\* A walk of the web UI has been shown n pages of N, and all but the first
\* because there was more.
HasSeen(k, N, n) ==
  /\ Len(k.got) = n * k.size /\ n * k.size <= Len(N) /\ (n > 0 => n * k.size < Len(N))
  /\ \A i \in 1 .. Len(k.got) : k.got[i] = N[i]

Unchanged(k) == ~k.entered /\ ~k.left

UiOK(k, N) ==
  /\ k.step \in {"open", "count", "show", "done", "gone"} /\ k.size = UiPageSize
  /\ k.step = "show" => k.at >= 1
  /\ k.step = "show" /\ k.steady =>
       k.total = Len(N) /\ (k.total > 0 => (k.at - 1) * k.size < k.total)
  /\ Unchanged(k) =>
       /\ k.step \in {"open", "count", "show"} => k.kept = ToSet(N)
       /\ k.step \in {"open", "count"} => HasSeen(k, N, k.at)
       /\ k.step = "show" => HasSeen(k, N, k.at - 1) /\ k.total = Len(N)
       /\ k.step = "done" => k.kept = ToSet(k.got)
       /\ IsInjective(k.got)

WalkOK(k, R) ==
  \/ k = Idle
  \/ /\ k \in Walk
     /\ k.kind = "api" => ApiOK(k, Listed(R, k.filter))
     /\ k.kind = "ui" => UiOK(k, Listed(R, k.filter))

WalksOK == DOMAIN walk = Walkers /\ \A w \in Walkers : WalkOK(walk[w], rows)

ApiInv == exists \in BOOLEAN /\ RowsOK /\ InsertsOK /\ ClientsOK /\ WalksOK

-----------------------------------------------------------------------------
(* The rows that match a filter.                                           *)

\* m collects the rows of R that match.
Collects(m, R, filter) ==
  /\ DOMAIN m = 0 .. Len(R) /\ m[0] = <<>>
  /\ \A k \in 0 .. Len(R) - 1 :
       m[k + 1] = IF Matches(R[k + 1], filter) THEN Append(m[k], R[k + 1]) ELSE m[k]

\* The recursion of Filtered defines a function.
LEMMA FilteredCollects ==
  ASSUME NEW R \in Seq(Row), NEW filter
  PROVE  \E m : Collects(m, R, filter) /\ Filtered(R, filter) = m[Len(R)]
<1>. DEFINE V       == Seq(Row)
            step    == [k \in Nat |-> [s \in V |->
                          IF k < Len(R) THEN IF Matches(R[k + 1], filter)
                                             THEN Append(s, R[k + 1]) ELSE s
                          ELSE s]]
            Body(g) == [n \in 0 .. Len(R) |->
                          IF n = 0 THEN <<>>
                          ELSE IF filter = None \/ R[n].status = filter THEN Append(g[n - 1], R[n])
                          ELSE g[n - 1]]
            m       == CHOOSE g : g = Body(g)
<1>1. step \in [Nat -> [V -> V]] /\ <<>> \in V
  OBVIOUS
<1>2. PICK d : IsRecursion(d, V, <<>>, step)
  <2>. HIDE DEF V, step
  <2>. QED  BY <1>1, Recursion, Zenon
<1>. DEFINE h == [n \in 0 .. Len(R) |-> d[n]]
<1>3. ASSUME NEW k \in 0 .. Len(R) - 1
      PROVE  d[k + 1] = IF Matches(R[k + 1], filter) THEN Append(d[k], R[k + 1]) ELSE d[k]
  <2>1. d[k] \in V /\ k \in Nat /\ d[k + 1] = step[k][d[k]]
    <3>. HIDE DEF V, step
    <3>1. k \in Nat
      OBVIOUS
    <3>. QED  BY <1>2, <3>1 DEF IsRecursion
  <2>. QED  BY <2>1
<1>4. h = Body(h)
  <2>1. ASSUME NEW n \in 0 .. Len(R) PROVE h[n] = Body(h)[n]
    <3>1. CASE n = 0
      BY <1>2, <3>1 DEF IsRecursion
    <3>2. CASE n # 0
      <4>1. n - 1 \in 0 .. Len(R) - 1 /\ (n - 1) + 1 = n
        BY <3>2
      <4>. QED  BY <1>3, <3>2, <4>1 DEF Matches
    <3>. QED  BY <3>1, <3>2
  <2>. QED  BY <2>1
<1>5. m = Body(m)
  <2>. HIDE DEF Body, h
  <2>. QED  BY <1>4
<1>6. Filtered(R, filter) = m[Len(R)]
  BY DEF Filtered
<1>. HIDE DEF m
<1>7. Collects(m, R, filter)
  <2>1. DOMAIN m = 0 .. Len(R) /\ m[0] = <<>>
    BY <1>5
  <2>2. ASSUME NEW k \in 0 .. Len(R) - 1
        PROVE  m[k + 1] = IF Matches(R[k + 1], filter) THEN Append(m[k], R[k + 1]) ELSE m[k]
    <3>1. k + 1 \in 0 .. Len(R) /\ k + 1 # 0 /\ (k + 1) - 1 = k
      OBVIOUS
    <3>2. m[k + 1] = Body(m)[k + 1]
      <4>. HIDE DEF Body
      <4>. QED  BY <1>5
    <3>. QED  BY <3>1, <3>2 DEF Matches
  <2>. QED  BY <2>1, <2>2 DEF Collects
<1>. QED  BY <1>6, <1>7

\* What Filtered returns: the rows that match, and no other, newest first.
LEMMA FilteredRows ==
  ASSUME NEW R \in Seq(Row), Falling(R), NEW filter
  PROVE  /\ Filtered(R, filter) \in Seq(Row)
         /\ Falling(Filtered(R, filter))
         /\ ToSet(Filtered(R, filter)) = {row \in ToSet(R) : Matches(row, filter)}
<1>1. PICK m : Collects(m, R, filter) /\ Filtered(R, filter) = m[Len(R)]
  BY FilteredCollects
<1>. DEFINE Good(n) == /\ m[n] \in Seq(Row)
                       /\ Falling(m[n])
                       /\ \A i \in 1 .. Len(m[n]) : \E j \in 1 .. n : m[n][i] = R[j]
                       /\ \A i \in 1 .. Len(m[n]) : Matches(m[n][i], filter)
                       /\ \A j \in 1 .. n : Matches(R[j], filter) =>
                            \E i \in 1 .. Len(m[n]) : m[n][i] = R[j]
            S == {n \in Nat : n <= Len(R) => Good(n)}
<1>2. 0 \in S
  <2>1. m[0] = <<>>
    BY <1>1 DEF Collects
  <2>2. Good(0)
    BY <2>1 DEF Falling
  <2>. HIDE DEF Good
  <2>. QED  BY <2>2
<1>3. ASSUME NEW n \in Nat, n \in S PROVE n + 1 \in S
  <2>. HIDE DEF Good
  <2>. SUFFICES ASSUME n + 1 <= Len(R) PROVE Good(n + 1)
    OBVIOUS
  <2>1. Good(n) /\ n \in 0 .. Len(R) - 1
    BY <1>3
  <2>. USE DEF Good
  <2>2. m[n + 1] = IF Matches(R[n + 1], filter) THEN Append(m[n], R[n + 1]) ELSE m[n]
    BY <1>1, <2>1 DEF Collects
  <2>3. R[n + 1] \in Row
    OBVIOUS
  <2>4. CASE ~Matches(R[n + 1], filter)
    BY <2>1, <2>2, <2>4
  <2>5. CASE Matches(R[n + 1], filter)
    <3>. DEFINE s == m[n]
                t == m[n + 1]
    <3>1. t = Append(s, R[n + 1])
      BY <2>2, <2>5
    <3>2. s \in Seq(Row) /\ Good(n)
      BY <2>1
    <3>. HIDE DEF s, t
    <3>3. /\ t \in Seq(Row) /\ Len(t) = Len(s) + 1 /\ t[Len(t)] = R[n + 1]
          /\ \A i \in 1 .. Len(s) : t[i] = s[i]
      BY <2>3, <3>1, <3>2
    <3>4. Falling(s) /\ \A i \in 1 .. Len(s) : \E j \in 1 .. n : s[i] = R[j]
      BY <3>2 DEF s
    <3>5. Falling(t)
      <4>1. ASSUME NEW i \in 1 .. Len(s) PROVE s[i].nr > R[n + 1].nr
        <5>1. PICK j \in 1 .. n : s[i] = R[j]
          BY <3>4
        <5>. QED  BY <5>1 DEF Falling
      <4>2. ASSUME NEW i \in 1 .. Len(t), NEW j \in 1 .. Len(t), i < j PROVE t[i].nr > t[j].nr
        <5>0. Len(s) \in Nat
          BY <3>2
        <5>1. i \in 1 .. Len(s) /\ t[i] = s[i]
          BY <3>3, <4>2, <5>0
        <5>2. CASE j = Len(t)
          BY <3>3, <4>1, <5>1, <5>2
        <5>3. CASE j # Len(t)
          <6>1. j \in 1 .. Len(s) /\ t[j] = s[j]
            BY <3>3, <5>0, <5>3
          <6>. HIDE DEF Good
          <6>. QED  BY <3>4, <4>2, <5>1, <6>1 DEF Falling
        <5>. QED  BY <5>2, <5>3
      <4>. HIDE DEF Good
      <4>. QED  BY <4>2 DEF Falling
    <3>6. /\ \A i \in 1 .. Len(s) : Matches(s[i], filter)
          /\ \A j \in 1 .. n : Matches(R[j], filter) => \E i \in 1 .. Len(s) : s[i] = R[j]
      BY <3>2 DEF s
    <3>7. /\ \A i \in 1 .. Len(t) : i \in 1 .. Len(s) \/ i = Len(t)
          /\ \A i \in 1 .. Len(s) : i \in 1 .. Len(t)
          /\ Len(t) \in 1 .. Len(t)
          /\ \A j \in 1 .. n + 1 : j \in 1 .. n \/ j = n + 1
          /\ \A j \in 1 .. n : j \in 1 .. n + 1
          /\ n + 1 \in 1 .. n + 1
      <4>1. Len(s) \in Nat
        BY <3>2
      <4>. HIDE DEF Good
      <4>. QED  BY <3>3, <4>1
    <3>8. \A i \in 1 .. Len(t) : \E j \in 1 .. n + 1 : t[i] = R[j]
      <4>. HIDE DEF Good
      <4>. QED  BY <3>3, <3>4, <3>7
    <3>9. \A i \in 1 .. Len(t) : Matches(t[i], filter)
      <4>. HIDE DEF Good
      <4>. QED  BY <2>5, <3>3, <3>6, <3>7
    <3>10. \A j \in 1 .. n + 1 : Matches(R[j], filter) => \E i \in 1 .. Len(t) : t[i] = R[j]
      <4>. HIDE DEF Good
      <4>. QED  BY <3>3, <3>6, <3>7
    <3>. QED  BY <3>3, <3>5, <3>8, <3>9, <3>10 DEF t
  <2>. QED  BY <2>4, <2>5
<1>4. Len(R) \in S
  <2>. HIDE DEF S
  <2>. QED  BY <1>2, <1>3, SetInduction
<1>5. Good(Len(R))
  <2>1. Len(R) \in Nat /\ Len(R) <= Len(R)
    OBVIOUS
  <2>. HIDE DEF Good
  <2>. QED  BY <1>4, <2>1
<1>. DEFINE F == Filtered(R, filter)
<1>6. F = m[Len(R)] /\ DOMAIN F = 1 .. Len(F) /\ DOMAIN R = 1 .. Len(R)
  BY <1>1, <1>5
<1>7. ToSet(F) = {row \in ToSet(R) : Matches(row, filter)}
  <2>1. /\ \A i \in 1 .. Len(F) : \E j \in 1 .. Len(R) : F[i] = R[j]
        /\ \A i \in 1 .. Len(F) : Matches(F[i], filter)
        /\ \A j \in 1 .. Len(R) : Matches(R[j], filter) => \E i \in 1 .. Len(F) : F[i] = R[j]
    BY <1>1, <1>5
  <2>. HIDE DEF F
  <2>2. ASSUME NEW x PROVE x \in ToSet(F) <=> x \in ToSet(R) /\ Matches(x, filter)
    <3>1. /\ x \in ToSet(F) <=> \E i \in 1 .. Len(F) : x = F[i]
          /\ x \in ToSet(R) <=> \E j \in 1 .. Len(R) : x = R[j]
      BY <1>6 DEF ToSet
    <3>. HIDE DEF Good
    <3>. QED  BY <2>1, <3>1
  <2>. QED  BY <2>2
<1>. QED  BY <1>5, <1>6, <1>7

-----------------------------------------------------------------------------
(* Lists of numbers that fall, and the positions of a number in two of     *)
(* them: the reason why offsets work at all.                               *)

Decreasing(s) == \A i, j \in 1 .. Len(s) : i < j => s[i] > s[j]

\* Membership in a list.
LEMMA InList ==
  ASSUME NEW s \in Seq(Nat)
  PROVE  /\ \A x : x \in ToSet(s) <=> \E k \in 1 .. Len(s) : s[k] = x
         /\ \A k \in 1 .. Len(s) : s[k] \in ToSet(s) /\ s[k] \in Nat
         /\ Len(s) \in Nat /\ DOMAIN s = 1 .. Len(s)
<1>1. DOMAIN s = 1 .. Len(s) /\ Len(s) \in Nat
  OBVIOUS
<1>2. ASSUME NEW x PROVE x \in ToSet(s) <=> \E k \in 1 .. Len(s) : s[k] = x
  BY <1>1 DEF ToSet
<1>. QED  BY <1>1, <1>2

\* What is in both of two decreasing lists comes no later in the shorter one.
LEMMA NoLater ==
  ASSUME NEW s \in Seq(Nat), NEW t \in Seq(Nat), Decreasing(s), Decreasing(t),
         ToSet(s) \subseteq ToSet(t)
  PROVE  \A k \in 1 .. Len(s), m \in 1 .. Len(t) : s[k] = t[m] => k <= m
<1>0. \A k \in 1 .. Len(s) : \E m \in 1 .. Len(t) : s[k] = t[m]
  BY InList
<1>. DEFINE Before(k) == \A m \in 1 .. Len(t) : s[k] = t[m] => k <= m
            S == {k \in Nat : k \in 1 .. Len(s) => Before(k)}
<1>1. 0 \in S
  OBVIOUS
<1>2. ASSUME NEW k \in Nat, k \in S PROVE k + 1 \in S
  <2>. SUFFICES ASSUME k + 1 \in 1 .. Len(s), NEW m \in 1 .. Len(t), s[k + 1] = t[m]
                PROVE  k + 1 <= m
    OBVIOUS
  <2>1. CASE k = 0
    BY <2>1
  <2>2. CASE k # 0
    <3>1. k \in 1 .. Len(s) /\ Before(k)
      BY <1>2, <2>2
    <3>2. PICK n \in 1 .. Len(t) : s[k] = t[n]
      BY <1>0, <3>1
    <3>3. k <= n
      BY <3>1, <3>2
    <3>4. t[n] > t[m]
      BY <3>1, <3>2 DEF Decreasing
    <3>5. t[n] \in Nat /\ t[m] \in Nat
      OBVIOUS
    <3>6. n < m
      BY <3>4, <3>5, SMTT(30) DEF Decreasing
    <3>. QED  BY <3>3, <3>6
  <2>. QED  BY <2>1, <2>2
<1>3. \A k \in Nat : k \in S
  <2>. HIDE DEF S
  <2>. QED  BY <1>1, <1>2, SetInduction
<1>. QED  BY <1>3

\* Two decreasing lists of the same numbers are the same.
LEMMA SameList ==
  ASSUME NEW s \in Seq(Nat), NEW t \in Seq(Nat), Decreasing(s), Decreasing(t),
         ToSet(s) = ToSet(t)
  PROVE  s = t
<1>1. /\ \A k \in 1 .. Len(s) : \E m \in 1 .. Len(t) : s[k] = t[m]
      /\ \A m \in 1 .. Len(t) : \E k \in 1 .. Len(s) : s[k] = t[m]
  BY InList
<1>2. \A k \in 1 .. Len(s), m \in 1 .. Len(t) : s[k] = t[m] => k <= m /\ m <= k
  <2>1. \A k \in 1 .. Len(s), m \in 1 .. Len(t) : s[k] = t[m] => k <= m
    BY NoLater
  <2>2. \A k \in 1 .. Len(s), m \in 1 .. Len(t) : t[m] = s[k] => m <= k
    BY NoLater
  <2>. QED  BY <2>1, <2>2
<1>3. \A k \in 1 .. Len(s) : k \in 1 .. Len(t) /\ s[k] = t[k]
  <2>. SUFFICES ASSUME NEW k \in 1 .. Len(s) PROVE k \in 1 .. Len(t) /\ s[k] = t[k]
    OBVIOUS
  <2>1. PICK m \in 1 .. Len(t) : s[k] = t[m]
    BY <1>1
  <2>2. m = k
    BY <1>2, <2>1
  <2>. QED  BY <2>1, <2>2
<1>4. \A m \in 1 .. Len(t) : m \in 1 .. Len(s)
  <2>. SUFFICES ASSUME NEW m \in 1 .. Len(t) PROVE m \in 1 .. Len(s)
    OBVIOUS
  <2>1. PICK k \in 1 .. Len(s) : s[k] = t[m]
    BY <1>1
  <2>2. m = k
    BY <1>2, <2>1
  <2>. QED  BY <2>2
<1>5. Len(s) = Len(t)
  <2>1. Len(s) \in Nat /\ Len(t) \in Nat
    OBVIOUS
  <2>2. Len(s) <= Len(t)
    BY <1>3, <2>1
  <2>3. Len(t) <= Len(s)
    BY <1>4, <2>1
  <2>. QED  BY <2>1, <2>2, <2>3
<1>. QED  BY <1>3, <1>5

\* A decreasing list has as many numbers as places.
LEMMA CountOfList ==
  ASSUME NEW s \in Seq(Nat), Decreasing(s)
  PROVE  /\ IsInjective(s)
         /\ Cardinality(ToSet(s)) = Len(s)
<1>1. s \in [1 .. Len(s) -> ToSet(s)] /\ Len(s) \in Nat /\ \A i \in 1 .. Len(s) : s[i] \in Nat
  BY DEF ToSet
<1>2. ASSUME NEW i \in 1 .. Len(s), NEW j \in 1 .. Len(s), s[i] = s[j] PROVE i = j
  BY <1>1, <1>2 DEF Decreasing
<1>3. IsInjective(s)
  BY <1>1, <1>2 DEF IsInjective
<1>4. ExistsBijection(1 .. Len(s), ToSet(s))
  <2>1. s \in Bijection(1 .. Len(s), ToSet(s))
    BY <1>1, <1>2 DEF Bijection, Injection, Surjection, IsInjective, ToSet
  <2>. QED  BY <2>1 DEF ExistsBijection
<1>. QED  BY <1>1, <1>3, <1>4, FS_CountingElements

\* The list of what is in view.
LEMMA ListedFacts ==
  ASSUME NEW R \in Seq(Row), Falling(R), NEW filter
  PROVE  /\ Listed(R, filter) \in Seq(Nat) /\ Decreasing(Listed(R, filter))
         /\ Len(Listed(R, filter)) = Len(Filtered(R, filter))
         /\ View(R, filter) = ToSet(Listed(R, filter))
         /\ IsInjective(Listed(R, filter))
         /\ Cardinality(View(R, filter)) = Len(Listed(R, filter))
<1>. DEFINE F == Filtered(R, filter)
            N == Listed(R, filter)
<1>1. F \in Seq(Row) /\ Falling(F)
  BY FilteredRows
<1>2. N = [i \in DOMAIN F |-> F[i].nr]
  BY DEF Listed, Numbers
<1>3. View(R, filter) = {row.nr : row \in ToSet(F)}
  BY DEF View
<1>. HIDE DEF F, N
<1>4. DOMAIN F = 1 .. Len(F) /\ Len(F) \in Nat /\ \A i \in 1 .. Len(F) : F[i] \in Row
  BY <1>1
<1>5. \A i \in 1 .. Len(F) : F[i].nr \in Nat
  BY <1>4 DEF Row
<1>6. N \in Seq(Nat) /\ Len(N) = Len(F)
  BY <1>2, <1>4, <1>5
<1>7. Decreasing(N)
  BY <1>1, <1>2, <1>4, <1>6 DEF Decreasing, Falling
<1>8. View(R, filter) = ToSet(N)
  BY <1>2, <1>3 DEF ToSet
<1>9. IsInjective(N) /\ Cardinality(ToSet(N)) = Len(N)
  BY <1>6, <1>7, CountOfList
<1>. QED  BY <1>6, <1>7, <1>8, <1>9 DEF F, N

-----------------------------------------------------------------------------
(* What the steps of a walk, and a change of the rows, do to its part of   *)
(* the invariant; k and k2 are the walk before and after.                  *)

\* Min of two integers.
LEMMA LesserOfTwo ==
  ASSUME NEW a \in Int, NEW b \in Int
  PROVE  Min({a, b}) = IF a <= b THEN a ELSE b
BY DEF Min

\* P holds the rows of N behind the offset, and fewer than the limit only when
\* there are no more.
IsPage(P, N, limit, offset) ==
  /\ P \in Seq(Row) /\ Len(P) <= limit
  /\ Len(P) > 0 => offset + Len(P) <= Len(N)
  /\ Len(P) < limit => offset + Len(P) >= Len(N)
  /\ \A i \in 1 .. Len(P) : P[i].nr = N[offset + i]

\* ListPage returns a page.
LEMMA PageRows ==
  ASSUME RowsOK, NEW filter, NEW limit \in Nat, NEW offset \in Nat
  PROVE  IsPage(ListPage(filter, limit, offset), Listed(rows, filter), limit, offset)
<1>. DEFINE P == ListPage(filter, limit, offset)
            N == Listed(rows, filter)
            F == Filtered(rows, filter)
            to == IF offset + limit <= Len(F) THEN offset + limit ELSE Len(F)
<1>1. F \in Seq(Row) /\ Len(N) = Len(F)
  BY FilteredRows, ListedFacts DEF RowsOK
<1>2. N = [i \in DOMAIN F |-> F[i].nr]
  BY DEF Listed, Numbers
<1>3. P = SubSeq(F, offset + 1, to)
  <2>1. P = SubSeq(F, offset + 1, Min({offset + limit, Len(F)}))
    BY DEF ListPage
  <2>2. Len(F) \in Int /\ offset + limit \in Int
    BY <1>1
  <2>3. Min({offset + limit, Len(F)}) = to
    <3>. HIDE DEF F
    <3>. QED  BY <2>2, LesserOfTwo
  <2>. QED  BY <2>1, <2>3
<1>. HIDE DEF P, N, F
<1>4. Len(F) \in Nat /\ DOMAIN F = 1 .. Len(F)
  BY <1>1
<1>5. /\ to \in Nat /\ to <= Len(F)
      /\ P \in Seq(Row) /\ Len(P) = (IF offset + 1 <= to THEN to - offset ELSE 0)
      /\ \A i \in 1 .. Len(P) : P[i] = F[offset + i]
  <2>1. to \in Nat /\ to <= Len(F)
    BY <1>4
  <2>. HIDE DEF to
  <2>2. CASE offset + 1 <= to
    BY <1>1, <1>3, <1>4, <2>1, <2>2, SubSeqProperties
  <2>3. CASE ~(offset + 1 <= to)
    BY <1>1, <1>3, <1>4, <2>1, <2>3
  <2>. QED  BY <2>1, <2>2, <2>3
<1>6. Len(P) <= limit /\ Len(P) \in Nat
  <2>1. to <= offset + limit
    BY <1>4
  <2>. HIDE DEF to
  <2>. QED  BY <1>5, <2>1
<1>7. Len(P) > 0 => offset + Len(P) <= Len(N)
  BY <1>1, <1>4, <1>5
<1>8. Len(P) < limit => offset + Len(P) >= Len(N)
  BY <1>1, <1>4, <1>5
<1>9. ASSUME NEW i \in 1 .. Len(P) PROVE P[i].nr = N[offset + i]
  <2>1. offset + i \in DOMAIN F
    BY <1>1, <1>4, <1>6, <1>7
  <2>. QED  BY <1>2, <1>5, <2>1
<1>10. IsPage(P, N, limit, offset)
  BY <1>5, <1>6, <1>7, <1>8, <1>9 DEF IsPage
<1>. QED  BY <1>10 DEF P, N

\* A change of the rows: what is kept before the offset was before it already,
\* and what is behind it was behind it.
LEMMA ApiRowsChange ==
  ASSUME NEW N \in Seq(Nat), NEW N2 \in Seq(Nat), Decreasing(N), Decreasing(N2),
         NEW k, NEW k2, ApiOK(k, N), k.step = "page",
         k2.step = k.step, k2.at = k.at, k.at \in Nat, k2.got = k.got, k.got \in Seq(Nat),
         k2.kept = k.kept \cap ToSet(N2),
         k2.entered = (k.entered \/ ~(ToSet(N2) \subseteq ToSet(N))),
         k2.left = (k.left \/ ~(ToSet(N) \subseteq ToSet(N2)))
  PROVE  ApiOK(k2, N2)
<1>1. k2.kept \subseteq ToSet(N2)
  OBVIOUS
<1>2. ASSUME ~k2.left, NEW i \in 1 .. Len(N2), i <= k2.at, N2[i] \in k2.kept
      PROVE  N2[i] \in ToSet(k2.got)
  <2>1. ~k.left /\ ToSet(N) \subseteq ToSet(N2) /\ N2[i] \in k.kept
    BY <1>2
  <2>2. N2[i] \in ToSet(N)
    BY <2>1 DEF ApiOK
  <2>3. PICK j \in 1 .. Len(N) : N[j] = N2[i]
    BY <2>2, InList
  <2>4. j <= i
    BY <2>1, <2>3, NoLater
  <2>5. Len(N) \in Nat /\ Len(N2) \in Nat
    BY InList
  <2>6. j <= k.at
    BY <1>2, <2>4, <2>5
  <2>. QED  BY <2>1, <2>3, <2>6 DEF ApiOK
<1>3. ASSUME ~k2.entered, NEW i \in 1 .. Len(N2), i > k2.at
      PROVE  N2[i] \notin ToSet(k2.got)
  <2>1. ~k.entered /\ ToSet(N2) \subseteq ToSet(N)
    BY <1>3
  <2>2. N2[i] \in ToSet(N)
    BY <2>1, InList
  <2>3. PICK j \in 1 .. Len(N) : N[j] = N2[i]
    BY <2>2, InList
  <2>4. i <= j
    BY <2>1, <2>3, NoLater
  <2>5. Len(N) \in Nat /\ Len(N2) \in Nat
    BY InList
  <2>6. j > k.at
    BY <1>3, <2>4, <2>5
  <2>. QED  BY <2>1, <2>3, <2>6 DEF ApiOK
<1>4. ~k2.entered => IsInjective(k2.got)
  BY DEF ApiOK
<1>. QED  BY <1>1, <1>2, <1>3, <1>4 DEF ApiOK

\* A page is appended: p holds the numbers from the offset on.  More than the
\* page is there, or nothing is left.
LEMMA ApiPage ==
  ASSUME NEW N \in Seq(Nat), Decreasing(N), NEW k \in Walk, NEW k2, ApiOK(k, N), k.step = "page",
         NEW p \in Seq(Nat), NEW more \in BOOLEAN,
         \A i \in 1 .. Len(p) : p[i] = N[k.at + i],
         Len(p) > 0 => k.at + Len(p) <= Len(N),
         more => Len(p) = k.size,
         ~more => k.at + Len(p) >= Len(N),
         k2.step = IF more THEN "page" ELSE "done",
         k2.at = IF more THEN k.at + k.size ELSE k.at,
         k2.got = k.got \o p, k2.kept = k.kept, k2.entered = k.entered, k2.left = k.left
  PROVE  ApiOK(k2, N)
<1>. DEFINE g == k.got
<1>0. g \in Seq(Nat) /\ k.at \in Nat /\ k.size \in Nat \ {0} /\ k.entered \in BOOLEAN /\ k.left \in BOOLEAN
  BY DEF Walk
<1>. HIDE DEF g
<1>1. /\ k2.got \in Seq(Nat) /\ Len(k2.got) = Len(g) + Len(p)
      /\ \A i \in 1 .. Len(g) : k2.got[i] = g[i]
      /\ \A i \in 1 .. Len(p) : k2.got[Len(g) + i] = p[i]
      /\ Len(g) \in Nat /\ Len(p) \in Nat
  BY <1>0 DEF g
<1>2. /\ \A i \in 1 .. Len(p) : k.at + i \in 1 .. Len(N) /\ k.at + i > k.at
      /\ Len(N) \in Nat /\ DOMAIN N = 1 .. Len(N)
  <2>1. Len(N) \in Nat /\ DOMAIN N = 1 .. Len(N)
    BY InList
  <2>2. ASSUME NEW i \in 1 .. Len(p) PROVE k.at + i \in 1 .. Len(N) /\ k.at + i > k.at
    <3>1. Len(p) > 0 /\ i \in Nat /\ 1 <= i /\ i <= Len(p)
      BY <1>1
    <3>. DEFINE a == k.at
                n == Len(N)
    <3>2. a + Len(p) <= n
      BY <3>1
    <3>3. a \in Nat /\ n \in Nat /\ Len(p) \in Nat
      BY <1>0, <1>1, <2>1
    <3>. HIDE DEF a, n
    <3>4. a + i \in 1 .. n /\ a + i > a
      BY <3>1, <3>2, <3>3
    <3>. QED  BY <3>4 DEF a, n
  <2>. QED  BY <2>1, <2>2
<1>3. ASSUME NEW x PROVE x \in ToSet(k2.got) <=> x \in ToSet(g) \/ x \in ToSet(p)
  <2>1. x \in ToSet(k2.got) <=> \E i \in 1 .. Len(k2.got) : k2.got[i] = x
    BY <1>1, InList, ZenonT(30)
  <2>2. x \in ToSet(g) <=> \E i \in 1 .. Len(g) : g[i] = x
    BY <1>0, InList
  <2>3. x \in ToSet(p) <=> \E i \in 1 .. Len(p) : p[i] = x
    BY InList
  <2>4. ASSUME NEW i \in 1 .. Len(k2.got), k2.got[i] = x
        PROVE  x \in ToSet(g) \/ x \in ToSet(p)
    <3>1. CASE i <= Len(g)
      BY <1>1, <2>2, <2>4, <3>1
    <3>2. CASE i > Len(g)
      <4>1. i - Len(g) \in 1 .. Len(p) /\ Len(g) + (i - Len(g)) = i
        BY <1>1, <3>2
      <4>. QED  BY <1>1, <2>3, <2>4, <4>1
    <3>. QED  BY <1>1, <3>1, <3>2
  <2>5. ASSUME NEW i \in 1 .. Len(g), g[i] = x PROVE x \in ToSet(k2.got)
    <3>1. i \in 1 .. Len(k2.got)
      BY <1>1
    <3>. QED  BY <1>1, <2>1, <2>5, <3>1
  <2>6. ASSUME NEW i \in 1 .. Len(p), p[i] = x PROVE x \in ToSet(k2.got)
    <3>1. Len(g) + i \in 1 .. Len(k2.got)
      BY <1>1
    <3>. QED  BY <1>1, <2>1, <2>6, <3>1
  <2>. QED  BY <2>1, <2>2, <2>3, <2>4, <2>5, <2>6
<1>4. ASSUME NEW x \in ToSet(p) PROVE \E i \in 1 .. Len(p) : x = N[k.at + i]
  <2>1. PICK i \in 1 .. Len(p) : p[i] = x
    BY InList
  <2>2. p[i] = N[k.at + i]
    OBVIOUS
  <2>. QED  BY <2>1, <2>2
<1>5. ASSUME NEW i \in 1 .. Len(N), i > k.at, i <= k.at + Len(p) PROVE N[i] \in ToSet(p)
  <2>. DEFINE a == k.at
  <2>0. a \in Nat /\ i \in Nat /\ i > a /\ i <= a + Len(p) /\ Len(p) \in Nat
    BY <1>0, <1>1, <1>2, <1>5
  <2>. HIDE DEF a
  <2>1. i - a \in 1 .. Len(p) /\ a + (i - a) = i
    BY <2>0
  <2>2. p[i - a] = N[i]
    BY <2>1 DEF a
  <2>. QED  BY <2>1, <2>2, InList
<1>6. ASSUME ~k.left, NEW i \in 1 .. Len(N), i <= k.at + Len(p), N[i] \in k.kept
      PROVE  N[i] \in ToSet(k2.got)
  <2>1. CASE i <= k.at
    BY <1>3, <1>6, <2>1 DEF ApiOK, g
  <2>2. CASE i > k.at
    BY <1>3, <1>5, <1>6, <2>2
  <2>. QED  BY <1>0, <1>2, <2>1, <2>2
<1>7. ASSUME ~k.entered PROVE IsInjective(k2.got)
  <2>1. IsInjective(g) /\ \A i \in 1 .. Len(p) : p[i] \notin ToSet(g)
    BY <1>2, <1>7 DEF ApiOK, g
  <2>2. IsInjective(N)
    BY CountOfList
  <2>3. ASSUME NEW i \in 1 .. Len(g), NEW j \in 1 .. Len(g), g[i] = g[j] PROVE i = j
    BY <1>0, <2>1, <2>3, SMTT(30) DEF IsInjective
  <2>4. ASSUME NEW i \in 1 .. Len(p), NEW j \in 1 .. Len(p), p[i] = p[j] PROVE i = j
    <3>1. N[k.at + i] = N[k.at + j] /\ k.at + i \in DOMAIN N /\ k.at + j \in DOMAIN N
      <4>1. p[i] = N[k.at + i] /\ p[j] = N[k.at + j]
        OBVIOUS
      <4>. QED  BY <1>2, <2>4, <4>1
    <3>2. k.at + i = k.at + j
      BY <2>2, <3>1 DEF IsInjective
    <3>. QED  BY <1>0, <1>1, <3>2
  <2>5. ASSUME NEW i \in 1 .. Len(g), NEW j \in 1 .. Len(p) PROVE g[i] # p[j]
    BY <1>0, <2>1, InList
  <2>6. ASSUME NEW i \in 1 .. Len(k2.got)
        PROVE  \/ i \in 1 .. Len(g) /\ k2.got[i] = g[i]
               \/ i - Len(g) \in 1 .. Len(p) /\ k2.got[i] = p[i - Len(g)]
    <3>1. CASE i <= Len(g)
      BY <1>1, <3>1
    <3>2. CASE i > Len(g)
      <4>1. i - Len(g) \in 1 .. Len(p) /\ Len(g) + (i - Len(g)) = i
        BY <1>1, <3>2
      <4>. QED  BY <1>1, <4>1
    <3>. QED  BY <1>1, <3>1, <3>2
  <2>7. ASSUME NEW i \in 1 .. Len(k2.got), NEW j \in 1 .. Len(k2.got), k2.got[i] = k2.got[j]
        PROVE  i = j
    <3>1. CASE i \in 1 .. Len(g) /\ k2.got[i] = g[i]
      <4>1. CASE j \in 1 .. Len(g) /\ k2.got[j] = g[j]
        BY <2>3, <2>7, <3>1, <4>1, Zenon
      <4>2. CASE j - Len(g) \in 1 .. Len(p) /\ k2.got[j] = p[j - Len(g)]
        BY <2>5, <2>7, <3>1, <4>2, Zenon
      <4>. QED  BY <2>6, <4>1, <4>2, Zenon
    <3>2. CASE i - Len(g) \in 1 .. Len(p) /\ k2.got[i] = p[i - Len(g)]
      <4>1. CASE j \in 1 .. Len(g) /\ k2.got[j] = g[j]
        BY <2>5, <2>7, <3>2, <4>1
      <4>2. CASE j - Len(g) \in 1 .. Len(p) /\ k2.got[j] = p[j - Len(g)]
        <5>1. i - Len(g) = j - Len(g)
          BY <2>4, <2>7, <3>2, <4>2
        <5>. QED  BY <1>1, <5>1
      <4>. QED  BY <2>6, <4>1, <4>2
    <3>. QED  BY <2>6, <3>1, <3>2
  <2>8. DOMAIN k2.got = 1 .. Len(k2.got)
    BY <1>1
  <2>. QED  BY <2>7, <2>8 DEF IsInjective
<1>8. CASE more
  <2>1. k2.step = "page" /\ k2.at = k.at + Len(p)
    BY <1>8
  <2>2. ASSUME ~k.entered, NEW i \in 1 .. Len(N), i > k2.at PROVE N[i] \notin ToSet(k2.got)
    <3>1. N[i] \notin ToSet(g)
      BY <1>0, <1>1, <1>2, <2>1, <2>2 DEF ApiOK, g
    <3>2. ASSUME N[i] \in ToSet(p) PROVE FALSE
      <4>1. PICK j \in 1 .. Len(p) : N[i] = N[k.at + j]
        BY <1>4, <3>2
      <4>2. i = k.at + j
        BY <1>2, <4>1, CountOfList DEF IsInjective
      <4>. QED  BY <1>0, <1>1, <2>1, <2>2, <4>2
    <3>. QED  BY <1>3, <3>1, <3>2
  <2>. QED  BY <1>6, <1>7, <2>1, <2>2 DEF ApiOK
<1>9. CASE ~more
  <2>1. k2.step = "done"
    BY <1>9
  <2>2. ASSUME ~k.left PROVE k.kept \subseteq ToSet(k2.got)
    <3>1. ASSUME NEW x \in k.kept PROVE x \in ToSet(k2.got)
      <4>1. PICK i \in 1 .. Len(N) : N[i] = x
        BY InList DEF ApiOK
      <4>2. i <= k.at + Len(p)
        BY <1>0, <1>1, <1>2, <1>9
      <4>. QED  BY <1>6, <2>2, <4>1, <4>2
    <3>. QED  BY <3>1
  <2>. QED  BY <1>7, <2>1, <2>2 DEF ApiOK
<1>. QED  BY <1>8, <1>9

\* The pages that total tasks fill: page n + 1 has a task iff n full pages do
\* not hold them all.
LEMMA PagesNeeded ==
  ASSUME NEW total \in Nat
  PROVE  /\ LastPage(total) \in Nat
         /\ \A n \in Nat : n * UiPageSize < total <=> n + 1 <= LastPage(total)
<1>. DEFINE S == UiPageSize
            L == LastPage(total)
<1>1. S \in Nat /\ S > 0
  BY TaskApiAssumption
<1>2. L = (total + S - 1) \div S
  BY DEF LastPage
<1>. HIDE DEF S, L
<1>3. L \in Nat /\ L * S <= total + S - 1 /\ total + S - 1 < L * S + S
  BY <1>1, <1>2
<1>4. ASSUME NEW n \in Nat PROVE n * S < total <=> n + 1 <= L
  <2>1. CASE n + 1 <= L
    <3>1. n * S + S <= L * S
      BY <1>1, <1>3, <2>1
    <3>2. n * S \in Nat /\ L * S \in Nat
      BY <1>1, <1>3
    <3>. QED  BY <1>1, <1>3, <2>1, <3>1, <3>2
  <2>2. CASE ~(n + 1 <= L)
    <3>1. L * S <= n * S
      BY <1>1, <1>3, <2>2
    <3>2. n * S \in Nat /\ L * S \in Nat
      BY <1>1, <1>3
    <3>. QED  BY <1>1, <1>3, <2>2, <3>1, <3>2
  <2>. QED  BY <2>1, <2>2
<1>. QED  BY <1>3, <1>4 DEF S, L

\* A change of the rows while the web UI makes a page: either the view is the
\* same, or the walk knows that it is not.
LEMMA UiRowsChange ==
  ASSUME NEW N \in Seq(Nat), NEW N2 \in Seq(Nat), Decreasing(N), Decreasing(N2),
         NEW k, NEW k2, UiOK(k, N), k.step \in {"open", "count", "show"},
         k2.step = k.step, k2.at = k.at, k2.got = k.got, k2.size = k.size, k2.total = k.total,
         k2.kept = k.kept \cap ToSet(N2),
         k2.entered = (k.entered \/ ~(ToSet(N2) \subseteq ToSet(N))),
         k2.left = (k.left \/ ~(ToSet(N) \subseteq ToSet(N2))),
         k2.steady = (k.steady /\ ToSet(N2) = ToSet(N))
  PROVE  UiOK(k2, N2)
<1>1. CASE ToSet(N2) = ToSet(N)
  <2>1. N2 = N
    BY <1>1, SameList
  <2>2. /\ Unchanged(k2) => Unchanged(k) /\ (k.kept = ToSet(N) => k2.kept = k.kept)
        /\ k2.steady => k.steady
    BY <1>1 DEF Unchanged
  <2>3. \A n : HasSeen(k, N, n) => HasSeen(k2, N, n)
    BY DEF HasSeen
  <2>. QED  BY <2>1, <2>2, <2>3 DEF UiOK
<1>2. CASE ToSet(N2) # ToSet(N)
  <2>1. ~Unchanged(k2) /\ ~k2.steady
    BY <1>2 DEF Unchanged
  <2>. QED  BY <2>1 DEF UiOK
<1>. QED  BY <1>1, <1>2

\* The queue is looked up.
LEMMA UiOpen ==
  ASSUME NEW N, NEW k, NEW k2, UiOK(k, N), k.step = "open", k2.step \in {"count", "gone"},
         k2.at = k.at, k2.got = k.got, k2.size = k.size, k2.kept = k.kept,
         k2.entered = k.entered, k2.left = k.left
  PROVE  UiOK(k2, N)
<1>1. Unchanged(k2) => Unchanged(k)
  BY DEF Unchanged
<1>2. HasSeen(k, N, k.at) => HasSeen(k2, N, k.at)
  BY DEF HasSeen
<1>. QED  BY <1>1, <1>2 DEF UiOK

\* The tasks are counted; a page that is no longer there becomes the last one.
LEMMA UiCount ==
  ASSUME NEW N \in Seq(Nat), NEW k \in Walk, NEW k2, UiOK(k, N), k.step = "count",
         k2.step = "show", k2.total = Len(N),
         k2.at = (IF LastPage(Len(N)) > 0 /\ k.at + 1 > LastPage(Len(N))
                  THEN LastPage(Len(N)) ELSE k.at + 1),
         k2.got = k.got, k2.size = k.size, k2.kept = k.kept,
         k2.entered = k.entered, k2.left = k.left
  PROVE  UiOK(k2, N)
<1>. DEFINE L == LastPage(Len(N))
            a == k.at
            b == k2.at
            S == UiPageSize
            T == Len(N)
<1>1. T \in Nat /\ a \in Nat /\ k.size = S /\ k2.size = S
  BY DEF Walk, UiOK
<1>2. L \in Nat /\ \A n \in Nat : n * S < T <=> n + 1 <= L
  BY PagesNeeded
<1>3. b = IF L > 0 /\ a + 1 > L THEN L ELSE a + 1
  OBVIOUS
<1>4. S \in Nat /\ 0 * S = 0
  BY TaskApiAssumption
<1>5. k2.total = T
  OBVIOUS
<1>. HIDE DEF L, a, b, S, T
<1>6. T > 0 => L > 0
  BY <1>1, <1>2, <1>4
<1>7. b \in Nat /\ b >= 1 /\ b - 1 \in Nat
  BY <1>1, <1>2, <1>3
<1>8. T > 0 => (b - 1) * S < T
  <2>. SUFFICES ASSUME T > 0 PROVE (b - 1) * S < T
    OBVIOUS
  <2>1. (b - 1) + 1 <= L
    BY <1>1, <1>2, <1>3, <1>6
  <2>. QED  BY <1>2, <1>7, <2>1
<1>9. ASSUME Unchanged(k2)
      PROVE  k2.kept = ToSet(N) /\ HasSeen(k2, N, b - 1) /\ IsInjective(k2.got)
  <2>1. Unchanged(k)
    BY <1>9 DEF Unchanged
  <2>2. k.kept = ToSet(N) /\ HasSeen(k, N, a) /\ IsInjective(k.got)
    BY <2>1 DEF UiOK, a
  <2>3. a > 0 => a + 1 <= L
    <3>1. a > 0 => a * S < T
      BY <1>1, <2>2 DEF HasSeen, T
    <3>. QED  BY <1>1, <1>2, <3>1
  <2>4. b - 1 = a
    BY <1>1, <1>2, <1>3, <2>3
  <2>5. HasSeen(k2, N, a)
    BY <2>2 DEF HasSeen
  <2>. QED  BY <2>2, <2>4, <2>5
<1>10. T > 0 => (k2.at - 1) * k2.size < T
  BY <1>1, <1>8 DEF b
<1>11. k2.at >= 1
  BY <1>7 DEF b
<1>12. Unchanged(k2) => k2.kept = ToSet(N) /\ HasSeen(k2, N, k2.at - 1) /\ IsInjective(k2.got)
  BY <1>9 DEF b
<1>. QED  BY <1>1, <1>5, <1>10, <1>11, <1>12 DEF UiOK, T, S

\* k2 is k with the numbers of N behind from, up to to, and a link if there are
\* more.
PageShown(k, k2, N, p, from, to) ==
  /\ from = (k.at - 1) * k.size
  /\ \A i \in 1 .. Len(p) : p[i] = N[from + i]
  /\ Len(p) <= k.size
  /\ Len(p) > 0 => from + Len(p) <= Len(N)
  /\ Len(p) < k.size => from + Len(p) >= Len(N)
  /\ to = IF Len(p) = 0 THEN 0 ELSE from + Len(p)
  /\ k2.step = IF to < k.total THEN "open" ELSE "done"
  /\ k2.at = k.at /\ k2.got = k.got \o p /\ k2.size = k.size /\ k2.kept = k.kept
  /\ k2.entered = k.entered /\ k2.left = k.left

\* A page is shown, and linked to the next one if there is more.
LEMMA UiShow ==
  ASSUME NEW N \in Seq(Nat), Decreasing(N), NEW k \in Walk, NEW k2, UiOK(k, N), k.step = "show",
         NEW p \in Seq(Nat), NEW from, NEW to, PageShown(k, k2, N, p, from, to)
  PROVE  UiOK(k2, N)
<1>. USE DEF PageShown
<1>. DEFINE g == k.got
            a == k.at
            S == UiPageSize
            T == Len(N)
<1>0. g \in Seq(Nat) /\ Len(g) \in Nat /\ Len(p) \in Nat /\ a \in Nat /\ T \in Nat
  BY SMTT(30) DEF Walk
<1>1. S \in Nat /\ S > 0 /\ k.size = S /\ k2.size = S /\ a >= 1
  BY TaskApiAssumption DEF UiOK
<1>2. /\ k2.got \in Seq(Nat) /\ Len(k2.got) = Len(g) + Len(p)
      /\ \A i \in 1 .. Len(g) : k2.got[i] = g[i]
      /\ \A i \in 1 .. Len(p) : k2.got[Len(g) + i] = p[i]
  BY <1>0
<1>3. CASE ~Unchanged(k)
  <2>1. ~Unchanged(k2)
    BY <1>3 DEF Unchanged
  <2>. QED  BY <1>1, <2>1 DEF UiOK
<1>4. CASE Unchanged(k)
  <2>1. k.kept = ToSet(N) /\ HasSeen(k, N, a - 1) /\ k.total = T
    BY <1>4 DEF UiOK
  <2>2. /\ Len(g) = from /\ from <= T /\ (a - 1 > 0 => from < T) /\ from \in Nat
        /\ \A i \in 1 .. Len(g) : g[i] = N[i]
    BY <1>0, <2>1 DEF HasSeen
  <2>. DEFINE n == Len(p)
  <2>3. /\ n \in Nat /\ n <= S /\ (n > 0 => from + n <= T) /\ (n < S => from + n >= T)
        /\ (a = 1 => from = 0)
    BY <1>0, <1>1
  <2>4. Len(k2.got) = from + n /\ from + n <= T
    BY <1>0, <1>2, <2>2, <2>3
  <2>5. ASSUME NEW i \in 1 .. Len(k2.got) PROVE k2.got[i] = N[i]
    <3>1. CASE i <= from
      BY <1>2, <2>2, <3>1
    <3>2. CASE i > from
      <4>0. i \in Nat /\ i <= from + n /\ n \in Nat /\ from \in Nat
        BY <1>0, <2>2, <2>4
      <4>1. i - from \in 1 .. n /\ from + (i - from) = i
        <5>. HIDE DEF n, PageShown
        <5>. QED  BY <3>2, <4>0
      <4>2. k2.got[i] = p[i - from] /\ p[i - from] = N[i]
        BY <1>2, <2>2, <4>1
      <4>. QED  BY <4>2
    <3>3. i \in Nat
      BY <1>2
    <3>. HIDE DEF PageShown
    <3>. QED  BY <2>2, <3>1, <3>2, <3>3
  <2>6. IsInjective(k2.got)
    <3>1. DOMAIN k2.got = 1 .. Len(k2.got) /\ \A i \in 1 .. Len(k2.got) : i \in DOMAIN N
      BY <1>0, <1>2, <2>2, <2>3, <2>4
    <3>2. IsInjective(N)
      BY CountOfList
    <3>. QED  BY <2>5, <3>1, <3>2 DEF IsInjective
  <2>7. CASE to < k.total
    <3>1. to < T /\ to = IF n = 0 THEN 0 ELSE from + n
      BY <2>1, <2>7
    <3>. HIDE DEF n, g, a, T, S
    <3>2. n > 0
      BY <1>0, <1>1, <2>2, <2>3, <3>1
    <3>3. n = S /\ from + n < T
      <4>1. to = from + n
        BY <2>3, <3>1, <3>2
      <4>. QED  BY <1>0, <1>1, <2>2, <2>3, <3>1, <4>1
    <3>4. from + n = a * S
      <4>1. from = (a - 1) * S
        BY <1>1 DEF a
      <4>. QED  BY <1>0, <1>1, <3>3, <4>1
    <3>5. HasSeen(k2, N, k2.at)
      <4>1. k2.at * k2.size = a * S
        BY <1>1 DEF a
      <4>2. Len(k2.got) = a * S /\ a * S < Len(N) /\ a * S <= Len(N)
        BY <1>0, <1>1, <2>2, <2>4, <3>3, <3>4 DEF T
      <4>. QED  BY <2>5, <4>1, <4>2 DEF HasSeen
    <3>6. k2.step = "open" /\ k2.kept = ToSet(N)
      BY <2>1, <2>7
    <3>. QED  BY <1>1, <2>6, <3>5, <3>6 DEF UiOK, S
  <2>8. CASE ~(to < k.total)
    <3>1. ~(to < T) /\ to = IF n = 0 THEN 0 ELSE from + n
      BY <2>1, <2>8
    <3>2. from + n = T
      <4>. HIDE DEF n, g, a, T, S
      <4>. QED  BY <1>0, <1>1, <2>2, <2>3, <2>4, <3>1
    <3>3. k2.got = N
      <4>. DEFINE s == k2.got
      <4>1. Len(s) = Len(N) /\ s \in Seq(Nat) /\ \A i \in 1 .. Len(s) : s[i] = N[i]
        BY <1>2, <2>4, <2>5, <3>2
      <4>. HIDE DEF s, g
      <4>2. s = N
        BY <4>1, SeqEqual
      <4>. QED  BY <4>2 DEF s
    <3>4. k2.step = "done" /\ k2.kept = ToSet(k2.got)
      BY <2>1, <2>8, <3>3
    <3>. QED  BY <1>1, <2>6, <3>4 DEF UiOK, S
  <2>. QED  BY <2>7, <2>8
<1>. QED  BY <1>3, <1>4

-----------------------------------------------------------------------------
(* The walks: every step that changes the rows, and every step of a walker.*)

\* What has ended does not depend on the rows.
LEMMA WalkEnded ==
  ASSUME NEW k, NEW R, NEW R2, WalkOK(k, R), k.step \in {"idle", "done", "gone"}
  PROVE  WalkOK(k, R2)
BY DEF WalkOK, ApiOK, UiOK

\* Whatever change of the rows keeps every walk as the invariant says.
LEMMA RowsChange ==
  ASSUME RowsOK, WalksOK, NEW R \in Seq(Row), Falling(R), ChangeRows(R)
  PROVE  WalksOK'
<1>. SUFFICES ASSUME NEW w \in Walkers PROVE WalkOK(walk'[w], R)
  BY DEF WalksOK, ChangeRows
<1>. DEFINE k == walk[w]
            k2 == walk'[w]
            N == Listed(rows, k.filter)
            N2 == Listed(R, k.filter)
<1>1. WalkOK(k, rows) /\ rows \in Seq(Row) /\ Falling(rows)
  BY DEF WalksOK, RowsOK
<1>2. CASE ~Walking(w)
  <2>1. k2 = k /\ k.step \in {"idle", "done", "gone"}
    BY <1>2 DEF ChangeRows, Walking
  <2>. HIDE DEF k, k2
  <2>. QED  BY <1>1, <2>1, WalkEnded DEF k2
<1>3. CASE Walking(w)
  <2>1. k \in Walk /\ k.step \notin {"idle", "done", "gone"}
    BY <1>1, <1>3 DEF Walking, WalkOK, Idle
  <2>2. k2 = Noticed(w, R)
    BY <1>3 DEF ChangeRows
  <2>3. /\ N \in Seq(Nat) /\ N2 \in Seq(Nat) /\ Decreasing(N) /\ Decreasing(N2)
        /\ View(rows, k.filter) = ToSet(N) /\ View(R, k.filter) = ToSet(N2)
    BY <1>1, ListedFacts
  <2>4. k2 = [k EXCEPT !.kept    = @ \cap View(R, k.filter),
                       !.entered = @ \/ ~(View(R, k.filter) \subseteq View(rows, k.filter)),
                       !.left    = @ \/ ~(View(rows, k.filter) \subseteq View(R, k.filter)),
                       !.steady  = @ /\ View(R, k.filter) = View(rows, k.filter)]
    BY <2>2 DEF Noticed
  <2>. HIDE DEF k, k2, N, N2
  <2>5. k2 = [k EXCEPT !.kept    = @ \cap ToSet(N2),
                       !.entered = @ \/ ~(ToSet(N2) \subseteq ToSet(N)),
                       !.left    = @ \/ ~(ToSet(N) \subseteq ToSet(N2)),
                       !.steady  = @ /\ ToSet(N2) = ToSet(N)]
    BY <2>3, <2>4
  <2>6. /\ k2 \in Walk /\ k2.kind = k.kind /\ k2.filter = k.filter
        /\ k2.step = k.step /\ k2.at = k.at /\ k2.got = k.got /\ k2.size = k.size /\ k2.total = k.total
        /\ k2.kept = k.kept \cap ToSet(N2)
        /\ k2.entered = (k.entered \/ ~(ToSet(N2) \subseteq ToSet(N)))
        /\ k2.left = (k.left \/ ~(ToSet(N) \subseteq ToSet(N2)))
        /\ k2.steady = (k.steady /\ ToSet(N2) = ToSet(N))
    BY <2>1, <2>5 DEF Walk
  <2>7. k.at \in Nat /\ k.got \in Seq(Nat) /\ k.kind \in {"api", "ui"}
    BY <2>1 DEF Walk
  <2>8. /\ k.kind = "api" => ApiOK(k, N)
        /\ k.kind = "ui" => UiOK(k, N)
    BY <1>1, <2>1 DEF WalkOK, Idle, N
  <2>9. CASE k.kind = "api"
    <3>1. k.step = "page"
      BY <2>1, <2>8, <2>9 DEF ApiOK
    <3>2. ApiOK(k2, N2)
      BY <2>3, <2>6, <2>7, <2>8, <2>9, <3>1, ApiRowsChange
    <3>. QED  BY <2>6, <2>9, <3>2 DEF WalkOK, N2, k2
  <2>10. CASE k.kind = "ui"
    <3>1. k.step \in {"open", "count", "show"}
      BY <2>1, <2>8, <2>10 DEF UiOK
    <3>2. UiOK(k2, N2)
      BY <2>3, <2>6, <2>8, <2>10, <3>1, UiRowsChange
    <3>. QED  BY <2>6, <2>10, <3>2 DEF WalkOK, N2, k2
  <2>. QED  BY <2>7, <2>9, <2>10
<1>. QED  BY <1>2, <1>3

\* A step of one walker.
LEMMA OneWalk ==
  ASSUME WalksOK, NEW w \in Walkers, NEW k2, walk' = [walk EXCEPT ![w] = k2], rows' = rows,
         WalkOK(k2, rows)
  PROVE  WalksOK'
BY DEF WalksOK

\* tasks.list: the first page is asked for.
LEMMA ListStep ==
  ASSUME RowsOK, WalksOK, NEW w \in Walkers, List(w)
  PROVE  WalksOK'
<1>1. PICK n \in PageSizes, f \in Filters :
        walk' = [walk EXCEPT ![w] = NewWalk("api", "page", PageSize(n), f)]
  BY DEF List
<1>. DEFINE k2 == NewWalk("api", "page", PageSize(n), f)
            N == Listed(rows, f)
<1>2. PageSize(n) \in Nat \ {0}
  <2>1. n \in Nat /\ MaxPageSize \in Nat \ {0}
    BY TaskApiAssumption
  <2>. QED  BY <2>1, LesserOfTwo DEF PageSize
<1>3. N \in Seq(Nat) /\ View(rows, f) = ToSet(N)
  BY ListedFacts DEF RowsOK
<1>4. ToSet(N) \subseteq Nat
  BY <1>3, InList
<1>5. k2 \in Walk /\ k2.kind = "api" /\ k2.filter = f /\ ApiOK(k2, N)
  <2>. DEFINE size == PageSize(n)
  <2>. HIDE DEF N, size
  <2>1. k2 = [step |-> "page", kind |-> "api", size |-> size, filter |-> f,
              at |-> 0, total |-> 0, got |-> <<>>, kept |-> ToSet(N),
              entered |-> FALSE, left |-> FALSE, steady |-> TRUE]
    BY <1>3 DEF NewWalk, size
  <2>. HIDE DEF k2
  <2>2. k2 \in Walk
    BY <1>2, <1>4, <2>1 DEF Walk, size
  <2>3. /\ k2.step = "page" /\ k2.at = 0 /\ k2.got = <<>> /\ k2.kept = ToSet(N)
        /\ k2.kind = "api" /\ k2.filter = f
    BY <2>1
  <2>4. ToSet(<<>>) = {} /\ IsInjective(<<>>)
    BY DEF ToSet, IsInjective
  <2>5. Len(N) \in Nat
    BY <1>3
  <2>. QED  BY <2>2, <2>3, <2>4, <2>5 DEF ApiOK
<1>6. WalkOK(k2, rows)
  <2>. HIDE DEF k2
  <2>. QED  BY <1>5 DEF WalkOK
<1>. QED  BY <1>1, <1>6, OneWalk DEF List

\* The web UI: the first page is asked for.
LEMMA BrowseStep ==
  ASSUME RowsOK, WalksOK, NEW w \in Walkers, Browse(w)
  PROVE  WalksOK'
<1>1. PICK f \in Filters :
        walk' = [walk EXCEPT ![w] = NewWalk("ui", "open", UiPageSize, f)]
  BY DEF Browse
<1>. DEFINE k2 == NewWalk("ui", "open", UiPageSize, f)
            N == Listed(rows, f)
<1>3. N \in Seq(Nat) /\ View(rows, f) = ToSet(N)
  BY ListedFacts DEF RowsOK
<1>4. ToSet(N) \subseteq Nat
  BY <1>3, InList
<1>5. k2 \in Walk /\ k2.kind = "ui" /\ k2.filter = f /\ UiOK(k2, N)
  <2>. HIDE DEF N
  <2>1. k2 = [step |-> "open", kind |-> "ui", size |-> UiPageSize, filter |-> f,
              at |-> 0, total |-> 0, got |-> <<>>, kept |-> ToSet(N),
              entered |-> FALSE, left |-> FALSE, steady |-> TRUE]
    BY <1>3 DEF NewWalk
  <2>. HIDE DEF k2
  <2>2. k2 \in Walk
    BY <1>4, <2>1, TaskApiAssumption DEF Walk
  <2>3. /\ k2.step = "open" /\ k2.at = 0 /\ k2.got = <<>> /\ k2.kept = ToSet(N)
        /\ k2.kind = "ui" /\ k2.filter = f /\ k2.size = UiPageSize
    BY <2>1
  <2>4. ToSet(<<>>) = {} /\ IsInjective(<<>>)
    BY DEF ToSet, IsInjective
  <2>5. Len(N) \in Nat /\ 0 * UiPageSize = 0
    BY <1>3, TaskApiAssumption
  <2>6. HasSeen(k2, N, 0)
    BY <2>3, <2>5 DEF HasSeen
  <2>. QED  BY <2>2, <2>3, <2>4, <2>6 DEF UiOK
<1>6. WalkOK(k2, rows)
  <2>. HIDE DEF k2
  <2>. QED  BY <1>5 DEF WalkOK
<1>. QED  BY <1>1, <1>6, OneWalk DEF Browse

\* The end of a walk.
LEMMA CloseStep ==
  ASSUME WalksOK, NEW w \in Walkers, Close(w)
  PROVE  WalksOK'
<1>1. WalkOK(Idle, rows)
  BY DEF WalkOK
<1>. QED  BY <1>1, OneWalk DEF Close

\* The numbers of a page are numbers.
LEMMA NumbersOfPage ==
  ASSUME NEW P \in Seq(Row)
  PROVE  /\ Numbers(P) \in Seq(Nat) /\ Len(Numbers(P)) = Len(P)
         /\ \A i \in 1 .. Len(P) : Numbers(P)[i] = P[i].nr
<1>1. DOMAIN P = 1 .. Len(P) /\ Len(P) \in Nat /\ \A i \in 1 .. Len(P) : P[i].nr \in Nat
  <2>1. DOMAIN P = 1 .. Len(P) /\ Len(P) \in Nat /\ \A i \in 1 .. Len(P) : P[i] \in Row
    OBVIOUS
  <2>. QED  BY <2>1 DEF Row
<1>. QED  BY <1>1 DEF Numbers

\* tasks.list: the next page.
LEMMA NextPageStep ==
  ASSUME RowsOK, WalksOK, NEW w \in Walkers, NextPage(w)
  PROVE  WalksOK'
<1>. DEFINE k == walk[w]
            N == Listed(rows, k.filter)
            P == ListPage(k.filter, k.size + 1, k.at)
            more == Len(P) > k.size
            Q == IF more THEN SubSeq(P, 1, k.size) ELSE P
            p == Numbers(Q)
            k2 == [k EXCEPT !.got = @ \o p,
                            !.at = IF more THEN @ + k.size ELSE @,
                            !.step = IF more THEN "page" ELSE "done"]
<1>1. k.step = "page" /\ WalkOK(k, rows) /\ rows' = rows /\ w \in DOMAIN walk
  BY DEF NextPage, WalksOK
<1>2. k \in Walk /\ k.size \in Nat \ {0} /\ k.at \in Nat /\ k.got \in Seq(Nat)
  BY <1>1 DEF WalkOK, Idle, Walk
<1>3. k.kind = "api" /\ ApiOK(k, N)
  BY <1>1, <1>2 DEF WalkOK, Idle, UiOK, Walk
<1>4. walk' = [walk EXCEPT ![w] = k2]
  BY <1>1 DEF NextPage
<1>5. N \in Seq(Nat) /\ Decreasing(N) /\ Len(N) \in Nat
  BY ListedFacts, InList DEF RowsOK
<1>6. /\ P \in Seq(Row) /\ Len(P) \in Nat /\ Len(P) <= k.size + 1
      /\ Len(P) > 0 => k.at + Len(P) <= Len(N)
      /\ Len(P) < k.size + 1 => k.at + Len(P) >= Len(N)
      /\ \A i \in 1 .. Len(P) : P[i].nr = N[k.at + i]
  <2>1. k.size + 1 \in Nat
    BY <1>2
  <2>2. IsPage(P, N, k.size + 1, k.at)
    BY <1>2, <2>1, PageRows, Zenon
  <2>3. P \in Seq(Row) => Len(P) \in Nat
    OBVIOUS
  <2>. HIDE DEF k, N, P
  <2>. QED  BY <2>2, <2>3 DEF IsPage
<1>. HIDE DEF k, N, P
<1>7. /\ Q \in Seq(Row) /\ Len(Q) \in Nat /\ Len(Q) = IF more THEN k.size ELSE Len(P)
      /\ \A i \in 1 .. Len(Q) : Q[i] = P[i] /\ i \in 1 .. Len(P)
  <2>1. CASE more
    <3>1. /\ SubSeq(P, 1, k.size) \in Seq(Row) /\ Len(SubSeq(P, 1, k.size)) = k.size
          /\ \A i \in 1 .. k.size : SubSeq(P, 1, k.size)[i] = P[i]
      BY <1>2, <1>6, <2>1
    <3>. QED  BY <1>2, <1>6, <2>1, <3>1
  <2>2. CASE ~more
    BY <1>6, <2>2
  <2>. QED  BY <2>1, <2>2
<1>. HIDE DEF Q
<1>8. p \in Seq(Nat) /\ Len(p) = Len(Q) /\ \A i \in 1 .. Len(Q) : p[i] = Q[i].nr
  BY <1>7, NumbersOfPage
<1>. HIDE DEF p
<1>9. \A i \in 1 .. Len(p) : p[i] = N[k.at + i]
  BY <1>6, <1>7, <1>8
<1>10. /\ Len(p) > 0 => k.at + Len(p) <= Len(N)
       /\ more => Len(p) = k.size
       /\ ~more => k.at + Len(p) >= Len(N)
  BY <1>2, <1>5, <1>6, <1>7, <1>8
<1>. HIDE DEF more
<1>11. /\ k2.step = (IF more THEN "page" ELSE "done")
       /\ k2.at = (IF more THEN k.at + k.size ELSE k.at)
       /\ k2.got = k.got \o p /\ k2.kept = k.kept /\ k2.entered = k.entered /\ k2.left = k.left
       /\ k2.kind = k.kind /\ k2.filter = k.filter
  BY <1>2 DEF Walk
<1>12. k2 \in Walk
  <2>1. k.got \o p \in Seq(Nat)
    BY <1>2, <1>8
  <2>2. (IF more THEN k.at + k.size ELSE k.at) \in Nat
    BY <1>2
  <2>. QED  BY <1>2, <2>1, <2>2 DEF Walk
<1>. HIDE DEF k2
<1>13. more \in BOOLEAN
  BY DEF more
<1>14. ApiOK(k2, N)
  BY <1>1, <1>2, <1>3, <1>5, <1>8, <1>9, <1>10, <1>11, <1>13, ApiPage
<1>15. WalkOK(k2, rows)
  BY <1>3, <1>11, <1>12, <1>14 DEF WalkOK, N
<1>. QED  BY <1>1, <1>4, <1>15, OneWalk

\* The web UI: the queue is looked up.
LEMMA OpenPageStep ==
  ASSUME RowsOK, WalksOK, NEW w \in Walkers, OpenPage(w)
  PROVE  WalksOK'
<1>. DEFINE k == walk[w]
            N == Listed(rows, k.filter)
            k2 == [k EXCEPT !.step = IF exists THEN "count" ELSE "gone"]
<1>1. k.step = "open" /\ WalkOK(k, rows) /\ rows' = rows
  BY DEF OpenPage, WalksOK
<1>2. k \in Walk
  BY <1>1 DEF WalkOK, Idle
<1>3. k.kind = "ui" /\ UiOK(k, N)
  BY <1>1, <1>2 DEF WalkOK, Idle, ApiOK, Walk
<1>4. walk' = [walk EXCEPT ![w] = k2]
  BY DEF OpenPage
<1>. HIDE DEF k, N
<1>5. /\ k2 \in Walk /\ k2.kind = k.kind /\ k2.filter = k.filter
      /\ k2.step \in {"count", "gone"}
      /\ k2.at = k.at /\ k2.got = k.got /\ k2.size = k.size /\ k2.kept = k.kept
      /\ k2.entered = k.entered /\ k2.left = k.left
  BY <1>2 DEF Walk
<1>. HIDE DEF k2
<1>6. UiOK(k2, N)
  BY <1>1, <1>3, <1>5, UiOpen
<1>7. WalkOK(k2, rows)
  BY <1>3, <1>5, <1>6 DEF WalkOK, N
<1>. QED  BY <1>1, <1>4, <1>7, OneWalk

\* The web UI: the tasks are counted.
LEMMA CountTasksStep ==
  ASSUME RowsOK, WalksOK, NEW w \in Walkers, CountTasks(w)
  PROVE  WalksOK'
<1>. DEFINE k == walk[w]
            N == Listed(rows, k.filter)
            total == Cardinality(View(rows, k.filter))
            at == IF LastPage(total) > 0 /\ k.at + 1 > LastPage(total)
                  THEN LastPage(total) ELSE k.at + 1
            k2 == [k EXCEPT !.step = "show", !.total = total, !.steady = TRUE, !.at = at]
<1>1. k.step = "count" /\ WalkOK(k, rows) /\ rows' = rows
  BY DEF CountTasks, WalksOK
<1>2. k \in Walk /\ k.at \in Nat
  BY <1>1 DEF WalkOK, Idle, Walk
<1>3. k.kind = "ui" /\ UiOK(k, N)
  BY <1>1, <1>2 DEF WalkOK, Idle, ApiOK, Walk
<1>4. walk' = [walk EXCEPT ![w] = k2]
  BY DEF CountTasks
<1>5. N \in Seq(Nat) /\ total = Len(N) /\ Len(N) \in Nat
  BY ListedFacts, InList DEF RowsOK
<1>. HIDE DEF k, N, total
<1>6. LastPage(total) \in Nat
  BY <1>5, PagesNeeded
<1>7. at \in Nat
  BY <1>2, <1>6
<1>8. /\ k2 \in Walk /\ k2.kind = k.kind /\ k2.filter = k.filter
      /\ k2.step = "show" /\ k2.total = Len(N) /\ k2.at = at
      /\ k2.got = k.got /\ k2.size = k.size /\ k2.kept = k.kept
      /\ k2.entered = k.entered /\ k2.left = k.left
  <2>. HIDE DEF at
  <2>. QED  BY <1>2, <1>5, <1>7 DEF Walk
<1>9. k2.at = (IF LastPage(Len(N)) > 0 /\ k.at + 1 > LastPage(Len(N))
               THEN LastPage(Len(N)) ELSE k.at + 1)
  <2>. HIDE DEF k2
  <2>. QED  BY <1>5, <1>8
<1>. HIDE DEF k2, at
<1>10. UiOK(k2, N)
  BY <1>1, <1>2, <1>3, <1>5, <1>8, <1>9, UiCount
<1>11. WalkOK(k2, rows)
  BY <1>3, <1>8, <1>10 DEF WalkOK, N
<1>. QED  BY <1>1, <1>4, <1>11, OneWalk

\* What the web UI shows: p, the numbers behind from, up to to.
Shows(w, p, from, to) ==
  LET k == walk[w]
      N == Listed(rows, k.filter)
  IN  /\ k.step = "show" /\ k \in Walk /\ k.kind = "ui" /\ UiOK(k, N)
      /\ from = (k.at - 1) * k.size /\ from \in Nat
      /\ \A i \in 1 .. Len(p) : p[i] = N[from + i]
      /\ Len(p) <= k.size
      /\ Len(p) > 0 => from + Len(p) <= Len(N)
      /\ Len(p) < k.size => from + Len(p) >= Len(N)
      /\ to = IF Len(p) = 0 THEN 0 ELSE from + Len(p)
      /\ walk' = [walk EXCEPT ![w] = [k EXCEPT !.got = @ \o p,
                                               !.step = IF to < k.total THEN "open" ELSE "done"]]

\* ShowPage shows a page.
LEMMA ShownPage ==
  ASSUME RowsOK, WalksOK, NEW w \in Walkers, ShowPage(w)
  PROVE  \E p \in Seq(Nat), from \in Nat, to \in Nat : Shows(w, p, from, to)
<1>. DEFINE k == walk[w]
            N == Listed(rows, k.filter)
            from == (k.at - 1) * k.size
            P == ListPage(k.filter, k.size, from)
            p == Numbers(P)
            to == IF Len(p) = 0 THEN 0 ELSE from + Len(p)
            to0 == IF P = <<>> THEN 0 ELSE from + Len(P)
<1>1. k.step = "show" /\ WalkOK(k, rows) /\ w \in DOMAIN walk
  BY DEF ShowPage, WalksOK
<1>2. k \in Walk /\ k.size \in Nat \ {0} /\ k.at \in Nat
  BY <1>1 DEF WalkOK, Idle, Walk
<1>3. k.kind = "ui" /\ UiOK(k, N)
  BY <1>1, <1>2 DEF WalkOK, Idle, ApiOK, Walk
<1>4. from \in Nat
  <2>1. k.at >= 1
    BY <1>1, <1>3 DEF UiOK
  <2>2. k.at - 1 \in Nat
    BY <1>2, <2>1
  <2>. QED  BY <1>2, <2>2
<1>5. walk' = [walk EXCEPT ![w] = [k EXCEPT !.got = @ \o p,
                                            !.step = IF to0 < k.total THEN "open" ELSE "done"]]
  BY <1>1 DEF ShowPage
<1>. HIDE DEF from
<1>6. /\ P \in Seq(Row) /\ Len(P) <= k.size
      /\ Len(P) > 0 => from + Len(P) <= Len(N)
      /\ Len(P) < k.size => from + Len(P) >= Len(N)
      /\ \A i \in 1 .. Len(P) : P[i].nr = N[from + i]
  <2>1. k.size \in Nat
    BY <1>2
  <2>2. IsPage(P, N, k.size, from)
    BY <1>4, <2>1, PageRows, Zenon
  <2>. HIDE DEF P, N
  <2>. QED  BY <2>2 DEF IsPage
<1>. HIDE DEF P
<1>7. p \in Seq(Nat) /\ Len(p) = Len(P) /\ \A i \in 1 .. Len(P) : p[i] = P[i].nr
  BY <1>6, NumbersOfPage
<1>8. to = to0
  BY <1>6, <1>7
<1>9. walk' = [walk EXCEPT ![w] = [k EXCEPT !.got = @ \o p,
                                            !.step = IF to < k.total THEN "open" ELSE "done"]]
  <2>. HIDE DEF p, to, to0
  <2>. QED  BY <1>5, <1>8
<1>. HIDE DEF p
<1>10. from = (k.at - 1) * k.size
  BY DEF from
<1>11. to = IF Len(p) = 0 THEN 0 ELSE from + Len(p)
  OBVIOUS
<1>12. /\ \A i \in 1 .. Len(p) : p[i] = N[from + i]
       /\ Len(p) <= k.size
       /\ Len(p) > 0 => from + Len(p) <= Len(N)
       /\ Len(p) < k.size => from + Len(p) >= Len(N)
  BY <1>6, <1>7
<1>. to \in Nat
  BY <1>4, <1>7
<1>. HIDE DEF to
<1>13. Shows(w, p, from, to)
  BY <1>1, <1>2, <1>3, <1>4, <1>7, <1>9, <1>10, <1>11, <1>12 DEF Shows
<1>. QED  BY <1>4, <1>7, <1>13

\* The web UI: the page is shown.
LEMMA ShowPageStep ==
  ASSUME RowsOK, WalksOK, NEW w \in Walkers, ShowPage(w)
  PROVE  WalksOK'
<1>. DEFINE k == walk[w]
            N == Listed(rows, k.filter)
<1>0. PICK p \in Seq(Nat), from \in Nat, to \in Nat : Shows(w, p, from, to)
  BY ShownPage
<1>1. /\ k.step = "show" /\ k \in Walk /\ k.kind = "ui" /\ UiOK(k, N)
      /\ from = (k.at - 1) * k.size /\ from \in Nat
      /\ \A i \in 1 .. Len(p) : p[i] = N[from + i]
      /\ Len(p) <= k.size
      /\ Len(p) > 0 => from + Len(p) <= Len(N)
      /\ Len(p) < k.size => from + Len(p) >= Len(N)
      /\ to = IF Len(p) = 0 THEN 0 ELSE from + Len(p)
      /\ walk' = [walk EXCEPT ![w] = [k EXCEPT !.got = @ \o p,
                                               !.step = IF to < k.total THEN "open" ELSE "done"]]
  BY <1>0 DEF Shows
<1>. DEFINE k2 == [k EXCEPT !.got = @ \o p, !.step = IF to < k.total THEN "open" ELSE "done"]
<1>2. N \in Seq(Nat) /\ Decreasing(N) /\ rows' = rows
  BY ListedFacts DEF RowsOK, ShowPage
<1>3. walk' = [walk EXCEPT ![w] = k2]
  BY <1>1
<1>. HIDE DEF k, N
<1>4. /\ k2 \in Walk /\ k2.kind = k.kind /\ k2.filter = k.filter
      /\ k2.step = (IF to < k.total THEN "open" ELSE "done")
      /\ k2.at = k.at /\ k2.got = k.got \o p /\ k2.size = k.size /\ k2.kept = k.kept
      /\ k2.entered = k.entered /\ k2.left = k.left
  <2>1. k \in Walk /\ k.got \o p \in Seq(Nat)
    BY <1>1 DEF Walk
  <2>. QED  BY <2>1 DEF Walk
<1>. HIDE DEF k2
<1>5. UiOK(k2, N)
  <2>1. PageShown(k, k2, N, p, from, to)
    BY <1>1, <1>4 DEF PageShown
  <2>. QED  BY <1>1, <1>2, <2>1, UiShow
<1>6. WalkOK(k2, rows)
  BY <1>1, <1>4, <1>5 DEF WalkOK, N
<1>. QED  BY <1>2, <1>3, <1>6, OneWalk

-----------------------------------------------------------------------------
(* The rows: a change of them keeps names and numbers together.            *)

\* The rows of R are rows that were there, by number and id, or newer than all.
Onward(R) ==
  \A i \in 1 .. Len(R) :
    \/ R[i].nr > inserts
    \/ \E j \in 1 .. Len(rows) : rows[j].nr = R[i].nr /\ rows[j].id = R[i].id

\* Row i of R was row h[i].
ComesFrom(R, h) ==
  /\ h \in [1 .. Len(R) -> 1 .. Len(rows)]
  /\ \A i, j \in 1 .. Len(R) : i < j => h[i] < h[j]
  /\ \A i \in 1 .. Len(R) : R[i].id = rows[h[i]].id /\ R[i].nr = rows[h[i]].nr

\* Rows that go, or change their status, in place.
LEMMA FewerRows ==
  ASSUME RowsOK, NEW R \in Seq(Row), NEW h, ComesFrom(R, h)
  PROVE  /\ Falling(R) /\ Onward(R)
         /\ \A i \in 1 .. Len(R) : R[i].nr <= inserts /\ R[i].nr >= 1
         /\ \A i, j \in 1 .. Len(R) : R[i].id = R[j].id /\ R[i].id # Uuid => i = j
<1>1. \A i \in 1 .. Len(R) : h[i] \in 1 .. Len(rows) /\ R[i].id = rows[h[i]].id /\ R[i].nr = rows[h[i]].nr
  BY DEF ComesFrom
<1>2. \A i, j \in 1 .. Len(R) : i < j => h[i] < h[j]
  BY DEF ComesFrom
<1>3. Falling(R)
  BY <1>1, <1>2 DEF RowsOK, Falling
<1>4. Onward(R)
  BY <1>1 DEF Onward
<1>5. \A i \in 1 .. Len(R) : R[i].nr <= inserts /\ R[i].nr >= 1
  BY <1>1 DEF RowsOK
<1>6. ASSUME NEW i \in 1 .. Len(R), NEW j \in 1 .. Len(R), R[i].id = R[j].id, R[i].id # Uuid
      PROVE  i = j
  <2>1. h[i] = h[j]
    BY <1>1, <1>6 DEF RowsOK
  <2>2. h[i] \in Int /\ h[j] \in Int /\ i \in Int /\ j \in Int
    BY <1>1
  <2>. QED  BY <1>2, <2>1, <2>2
<1>. QED  BY <1>3, <1>4, <1>5, <1>6

\* DeleteQueue.
LEMMA NoRows ==
  ASSUME RowsOK
  PROVE  <<>> \in Seq(Row) /\ ComesFrom(<<>>, <<>>)
<1>1. <<>> \in Seq(Row) /\ Len(<<>>) = 0 /\ <<>> \in [1 .. 0 -> 1 .. Len(rows)]
  OBVIOUS
<1>. QED  BY <1>1 DEF ComesFrom

\* DeleteTask.
LEMMA RowRemoved ==
  ASSUME RowsOK, NEW d \in DOMAIN rows
  PROVE  RemoveAt(rows, d) \in Seq(Row) /\ \E h : ComesFrom(RemoveAt(rows, d), h)
<1>. DEFINE R == RemoveAt(rows, d)
            h == [i \in 1 .. Len(R) |-> IF i < d THEN i ELSE i + 1]
<1>1. rows \in Seq(Row) /\ d \in 1 .. Len(rows) /\ Len(rows) \in Nat
  BY DEF RowsOK
<1>2. /\ R \in Seq(Row) /\ Len(R) = Len(rows) - 1
      /\ \A i \in 1 .. Len(R) : R[i] = IF i < d THEN rows[i] ELSE rows[i + 1]
  <2>. DEFINE A == SubSeq(rows, 1, d - 1)
              B == SubSeq(rows, d + 1, Len(rows))
  <2>1. A \in Seq(Row) /\ Len(A) = d - 1 /\ \A i \in 1 .. d - 1 : A[i] = rows[i]
    BY <1>1
  <2>2. B \in Seq(Row) /\ Len(B) = Len(rows) - d /\ \A i \in 1 .. Len(rows) - d : B[i] = rows[d + i]
    BY <1>1
  <2>3. R = A \o B
    BY DEF RemoveAt
  <2>. HIDE DEF A, B, R
  <2>4. /\ R \in Seq(Row) /\ Len(R) = Len(A) + Len(B)
        /\ \A i \in 1 .. Len(A) + Len(B) : R[i] = IF i <= Len(A) THEN A[i] ELSE B[i - Len(A)]
    BY <2>1, <2>2, <2>3, ConcatProperties
  <2>. DEFINE n == Len(rows)
              m == Len(R)
  <2>6. n \in Nat /\ d \in Nat /\ d >= 1 /\ d <= n /\ m = n - 1
    BY <1>1, <2>1, <2>2, <2>4
  <2>5. ASSUME NEW i \in 1 .. Len(R) PROVE R[i] = IF i < d THEN rows[i] ELSE rows[i + 1]
    <3>1. CASE i < d
      BY <1>1, <2>1, <2>2, <2>4, <3>1, SMTT(30)
    <3>2. CASE ~(i < d)
      <4>1. i - (d - 1) \in 1 .. Len(rows) - d /\ d + (i - (d - 1)) = i + 1 /\ ~(i <= d - 1)
        <5>. HIDE DEF n, m
        <5>1. i - (d - 1) \in 1 .. n - d /\ d + (i - (d - 1)) = i + 1 /\ ~(i <= d - 1)
          <6>1. i \in 1 .. m
            BY DEF m
          <6>. QED  BY <2>6, <3>2, <6>1
        <5>. QED  BY <5>1 DEF n
      <4>2. R[i] = B[i - (d - 1)]
        BY <2>1, <2>4, <4>1
      <4>. QED  BY <2>2, <3>2, <4>1, <4>2
    <3>. QED  BY <3>1, <3>2
  <2>. QED  BY <2>4, <2>5, <2>6
<1>. HIDE DEF R
<1>3. h \in [1 .. Len(R) -> 1 .. Len(rows)] /\ \A i, j \in 1 .. Len(R) : i < j => h[i] < h[j]
  BY <1>1, <1>2
<1>4. \A i \in 1 .. Len(R) : R[i] = rows[h[i]]
  BY <1>2
<1>. HIDE DEF h
<1>5. ComesFrom(R, h)
  BY <1>3, <1>4 DEF ComesFrom
<1>. QED  BY <1>2, <1>5 DEF R

\* Dispatch.
LEMMA StatusChanged ==
  ASSUME RowsOK, NEW d \in DOMAIN rows, NEW R,
         R = [rows EXCEPT ![d].status = IF @ = "PENDING" THEN "RUNNING" ELSE "PENDING"]
  PROVE  R \in Seq(Row) /\ \E h : ComesFrom(R, h)
<1>. DEFINE h == [i \in 1 .. Len(R) |-> i]
<1>1. rows \in Seq(Row) /\ d \in 1 .. Len(rows) /\ DOMAIN rows = 1 .. Len(rows) /\ rows[d] \in Row
  BY DEF RowsOK
<1>. DEFINE row == [rows[d] EXCEPT !.status = IF @ = "PENDING" THEN "RUNNING" ELSE "PENDING"]
<1>2. row \in Row /\ row.id = rows[d].id /\ row.nr = rows[d].nr
  BY <1>1 DEF Row
<1>3. R = [rows EXCEPT ![d] = row]
  OBVIOUS
<1>. HIDE DEF row
<1>4. R \in Seq(Row) /\ Len(R) = Len(rows) /\ \A i \in 1 .. Len(rows) : R[i] = IF i = d THEN row ELSE rows[i]
  BY <1>1, <1>2, <1>3
<1>5. h \in [1 .. Len(R) -> 1 .. Len(rows)] /\ \A i \in 1 .. Len(R) : h[i] = i
  BY <1>4
<1>. HIDE DEF h
<1>6. ComesFrom(R, h)
  BY <1>2, <1>4, <1>5 DEF ComesFrom
<1>. QED  BY <1>4, <1>6

\* InsertTask.
LEMMA RowAdded ==
  ASSUME RowsOK, inserts \in Nat, NEW id \in TaskIds \cup {Uuid}, Free(id), NEW R,
         R = WithNewest([id |-> id, nr |-> inserts + 1, status |-> "PENDING"])
  PROVE  /\ R \in Seq(Row) /\ Falling(R) /\ Onward(R)
         /\ \A i \in 1 .. Len(R) : R[i].nr <= inserts + 1 /\ R[i].nr >= 1
         /\ \A i, j \in 1 .. Len(R) : R[i].id = R[j].id /\ R[i].id # Uuid => i = j
         /\ \A i \in 1 .. Len(R) : R[i].nr = inserts + 1 => R[i].id = id
<1>. DEFINE row == [id |-> id, nr |-> inserts + 1, status |-> "PENDING"]
<1>1. row \in Row /\ row.id = id /\ row.nr = inserts + 1
  BY DEF Row
<1>2. R = <<row>> \o rows
  BY DEF WithNewest
<1>. HIDE DEF row
<1>3. rows \in Seq(Row) /\ Len(rows) \in Nat /\ \A i \in 1 .. Len(rows) : rows[i] \in Row /\ rows[i].nr \in Nat
  <2>1. rows \in Seq(Row) /\ Len(rows) \in Nat /\ \A i \in 1 .. Len(rows) : rows[i] \in Row
    BY DEF RowsOK
  <2>. QED  BY <2>1 DEF Row
<1>4. /\ R \in Seq(Row) /\ Len(R) = Len(rows) + 1 /\ R[1] = row
      /\ \A i \in 1 .. Len(rows) : R[i + 1] = rows[i]
  <2>. DEFINE one == <<row>>
  <2>1. one \in Seq(Row) /\ Len(one) = 1 /\ one[1] = row /\ R = one \o rows
    BY <1>1, <1>2
  <2>. HIDE DEF one
  <2>2. /\ R \in Seq(Row) /\ Len(R) = 1 + Len(rows)
        /\ \A i \in 1 .. 1 + Len(rows) : R[i] = IF i <= 1 THEN one[i] ELSE rows[i - 1]
    <3>1. rows \in Seq(Row)
      BY <1>3
    <3>2. /\ one \o rows \in Seq(Row) /\ Len(one \o rows) = Len(one) + Len(rows)
          /\ \A i \in 1 .. Len(one) + Len(rows) : (one \o rows)[i] =
                IF i <= Len(one) THEN one[i] ELSE rows[i - Len(one)]
      BY <2>1, <3>1, ConcatProperties, Zenon
    <3>. QED  BY <2>1, <3>2
  <2>3. R[1] = row
    BY <1>3, <2>1, <2>2
  <2>4. ASSUME NEW i \in 1 .. Len(rows) PROVE R[i + 1] = rows[i]
    <3>1. i + 1 \in 1 .. 1 + Len(rows) /\ ~(i + 1 <= 1) /\ (i + 1) - 1 = i
      BY <1>3
    <3>2. R[i + 1] = rows[(i + 1) - 1]
      BY <2>2, <3>1
    <3>. QED  BY <3>1, <3>2
  <2>. QED  BY <1>3, <2>2, <2>3, <2>4
<1>5. ASSUME NEW i \in 1 .. Len(R)
      PROVE  i = 1 \/ (i - 1 \in 1 .. Len(rows) /\ R[i] = rows[i - 1])
  <2>1. CASE i = 1
    BY <2>1
  <2>2. CASE i # 1
    <3>1. i - 1 \in 1 .. Len(rows) /\ (i - 1) + 1 = i
      BY <1>3, <1>4, <2>2
    <3>. QED  BY <1>4, <3>1
  <2>. QED  BY <2>1, <2>2
<1>6. \A i \in 1 .. Len(rows) : rows[i].nr <= inserts /\ rows[i].nr >= 1
  BY DEF RowsOK
<1>7. ASSUME NEW i \in 1 .. Len(R) PROVE R[i].nr <= inserts + 1 /\ R[i].nr >= 1
  <2>1. CASE i = 1
    <3>1. R[i].nr = inserts + 1
      BY <1>1, <1>4, <2>1
    <3>. QED  BY <3>1
  <2>2. CASE i - 1 \in 1 .. Len(rows) /\ R[i] = rows[i - 1]
    <3>. DEFINE n == rows[i - 1].nr
    <3>1. n \in Nat /\ n <= inserts /\ n >= 1 /\ R[i].nr = n
      BY <1>3, <1>6, <2>2
    <3>. HIDE DEF n
    <3>. QED  BY <3>1
  <2>. QED  BY <1>5, <2>1, <2>2
<1>8. Falling(R)
  <2>1. ASSUME NEW i \in 1 .. Len(R), NEW j \in 1 .. Len(R), i < j PROVE R[i].nr > R[j].nr
    <3>0. i \in Int /\ j \in Int /\ i >= 1
      BY <1>3, <1>4
    <3>1. j - 1 \in 1 .. Len(rows) /\ R[j] = rows[j - 1]
      BY <1>5, <2>1, <3>0
    <3>2. CASE i = 1
      <4>. DEFINE n == rows[j - 1].nr
      <4>1. n \in Nat /\ n <= inserts /\ R[j].nr = n
        BY <1>3, <1>6, <3>1
      <4>2. R[i].nr = inserts + 1
        BY <1>1, <1>4, <3>2
      <4>. HIDE DEF n
      <4>. QED  BY <4>1, <4>2
    <3>3. CASE i # 1
      <4>1. i - 1 \in 1 .. Len(rows) /\ R[i] = rows[i - 1] /\ i - 1 < j - 1
        BY <1>5, <2>1, <3>0, <3>3
      <4>. QED  BY <3>1, <4>1 DEF RowsOK, Falling
    <3>. QED  BY <3>2, <3>3
  <2>. QED  BY <2>1 DEF Falling
<1>9. Onward(R)
  <2>1. ASSUME NEW i \in 1 .. Len(R)
        PROVE  \/ R[i].nr > inserts
               \/ \E j \in 1 .. Len(rows) : rows[j].nr = R[i].nr /\ rows[j].id = R[i].id
    <3>1. CASE i = 1
      BY <1>1, <1>4, <3>1
    <3>2. CASE i - 1 \in 1 .. Len(rows) /\ R[i] = rows[i - 1]
      BY <3>2
    <3>. QED  BY <1>5, <3>1, <3>2
  <2>. QED  BY <2>1 DEF Onward
<1>10. id # Uuid => \A i \in 1 .. Len(rows) : rows[i].id # id
  <2>1. DOMAIN rows = 1 .. Len(rows)
    BY <1>3
  <2>. QED  BY <2>1 DEF Free, Named, ToSet
<1>11. ASSUME NEW i \in 1 .. Len(R), NEW j \in 1 .. Len(R), R[i].id = R[j].id, R[i].id # Uuid
       PROVE  i = j
  <2>1. CASE i = 1 \/ j = 1
    BY <1>1, <1>4, <1>5, <1>10, <1>11, <2>1, SMTT(30)
  <2>2. CASE i # 1 /\ j # 1
    <3>1. /\ i - 1 \in 1 .. Len(rows) /\ R[i] = rows[i - 1]
          /\ j - 1 \in 1 .. Len(rows) /\ R[j] = rows[j - 1]
      BY <1>5, <2>2
    <3>2. i - 1 = j - 1
      BY <1>11, <3>1 DEF RowsOK
    <3>3. i \in Int /\ j \in Int
      BY <1>3, <1>4
    <3>. QED  BY <3>2, <3>3
  <2>. QED  BY <2>1, <2>2
<1>12. ASSUME NEW i \in 1 .. Len(R), R[i].nr = inserts + 1 PROVE R[i].id = id
  <2>1. CASE i = 1
    BY <1>1, <1>4, <2>1
  <2>2. CASE i - 1 \in 1 .. Len(rows) /\ R[i] = rows[i - 1]
    BY <1>3, <1>6, <1>12, <2>2
  <2>. QED  BY <1>5, <2>1, <2>2
<1>. QED  BY <1>4, <1>7, <1>8, <1>9, <1>11, <1>12

-----------------------------------------------------------------------------
(* CreateTask: the steps of a request.                                     *)

\* A request that does not move stays right while the rows change.
LEMMA RequestKept ==
  ASSUME inserts \in Nat, inserts' \in Nat, inserts <= inserts', Onward(rows'),
         NEW c, RequestOK(c), req'[c] = req[c]
  PROVE  RequestOK(c)'
<1>1. CASE req[c] = Idle
  BY <1>1 DEF RequestOK
<1>2. CASE /\ req[c] \in [step : {"check", "lookup", "queue", "insert"}, r : Asked, made : BOOLEAN]
           /\ req[c].step # "insert" => ~req[c].made
           /\ req[c].step # "check" => WellFormed(req[c].r)
  BY <1>2 DEF RequestOK
<1>3. CASE /\ req[c] \in [step : {"reread"}, id : TaskIds \cup {Uuid}, nr : Nat]
           /\ req[c].nr <= inserts
           /\ \A i \in 1 .. Len(rows) : rows[i].nr = req[c].nr => rows[i].id = req[c].id
  <2>1. req[c].nr \in Nat
    BY <1>3
  <2>2. \A i \in 1 .. Len(rows') : rows'[i].nr = req[c].nr => rows'[i].id = req[c].id
    BY <1>3, <2>1 DEF Onward
  <2>3. req[c].nr <= inserts'
    BY <1>3, <2>1
  <2>. QED  BY <1>3, <2>2, <2>3 DEF RequestOK
<1>. QED  BY <1>1, <1>2, <1>3 DEF RequestOK

\* A step of one client.
LEMMA ClientStep ==
  ASSUME ClientsOK, inserts \in Nat, inserts' \in Nat, inserts <= inserts', Onward(rows'),
         NEW c \in Clients, DOMAIN req' = Clients, DOMAIN answer' = Clients,
         \A d \in Clients \ {c} : req'[d] = req[d] /\ answer'[d] = answer[d],
         RequestOK(c)', AnswerOK(c)'
  PROVE  ClientsOK'
<1>1. ASSUME NEW d \in Clients PROVE RequestOK(d)' /\ AnswerOK(d)'
  <2>1. CASE d = c
    BY <2>1
  <2>2. CASE d # c
    <3>1. RequestOK(d) /\ AnswerOK(d) /\ req'[d] = req[d] /\ answer'[d] = answer[d]
      BY <2>2 DEF ClientsOK
    <3>2. RequestOK(d)'
      BY <3>1, RequestKept
    <3>3. AnswerOK(d)'
      BY <3>1 DEF AnswerOK
    <3>. QED  BY <3>2, <3>3
  <2>. QED  BY <2>1, <2>2
<1>. QED  BY <1>1 DEF ClientsOK

\* A step of none.
LEMMA ClientsKept ==
  ASSUME ClientsOK, inserts \in Nat, inserts' = inserts, Onward(rows'), req' = req, answer' = answer
  PROVE  ClientsOK'
<1>1. ASSUME NEW d \in Clients PROVE RequestOK(d)' /\ AnswerOK(d)'
  <2>1. RequestOK(d) /\ AnswerOK(d)
    BY DEF ClientsOK
  <2>2. RequestOK(d)'
    BY <2>1, RequestKept
  <2>3. AnswerOK(d)'
    BY <2>1 DEF AnswerOK
  <2>. QED  BY <2>2, <2>3
<1>. QED  BY <1>1 DEF ClientsOK

\* Rows that stay are rows that were there.
LEMMA OnwardSame ==
  ASSUME rows' = rows
  PROVE  Onward(rows')
BY DEF Onward

\* The number of the requests that may insert, when one of them moves.
LEMMA MayInsertAfter ==
  ASSUME NEW c \in Clients, \A d \in Clients \ {c} : req'[d] = req[d]
  PROVE  /\ Cardinality(MayInsert) \in Nat /\ Cardinality(MayInsert') \in Nat
         /\ c \in MayInsert /\ c \in MayInsert' => MayInsert' = MayInsert
         /\ c \in MayInsert /\ c \notin MayInsert' => Cardinality(MayInsert') = Cardinality(MayInsert) - 1
         /\ c \notin MayInsert /\ c \in MayInsert' => Cardinality(MayInsert') = Cardinality(MayInsert) + 1
         /\ c \notin MayInsert /\ c \notin MayInsert' => MayInsert' = MayInsert
<1>1. IsFiniteSet(MayInsert) /\ IsFiniteSet(MayInsert')
  <2>1. IsFiniteSet(Clients) /\ MayInsert \subseteq Clients /\ MayInsert' \subseteq Clients
    BY TaskApiAssumption DEF MayInsert
  <2>. QED  BY <2>1, FS_Subset
<1>2. Cardinality(MayInsert) \in Nat /\ Cardinality(MayInsert') \in Nat
  BY <1>1, FS_CardinalityType
<1>3. \A d : d # c => (d \in MayInsert <=> d \in MayInsert')
  BY DEF MayInsert
<1>4. CASE c \in MayInsert /\ c \in MayInsert'
  <2>1. MayInsert' = MayInsert
    BY <1>3, <1>4
  <2>. QED  BY <1>2, <1>4, <2>1
<1>5. CASE c \in MayInsert /\ c \notin MayInsert'
  <2>1. MayInsert' = MayInsert \ {c}
    BY <1>3, <1>5
  <2>2. Cardinality(MayInsert \ {c}) = Cardinality(MayInsert) - 1
    BY <1>1, <1>5, FS_RemoveElement
  <2>. QED  BY <1>2, <1>5, <2>1, <2>2
<1>6. CASE c \notin MayInsert /\ c \in MayInsert'
  <2>1. MayInsert' = MayInsert \cup {c}
    BY <1>3, <1>6
  <2>2. Cardinality(MayInsert \cup {c}) = Cardinality(MayInsert) + 1
    BY <1>1, <1>6, FS_AddElement
  <2>. QED  BY <1>2, <1>6, <2>1, <2>2
<1>7. CASE c \notin MayInsert /\ c \notin MayInsert'
  <2>1. MayInsert' = MayInsert
    BY <1>3, <1>7
  <2>. QED  BY <1>2, <1>7, <2>1
<1>. QED  BY <1>4, <1>5, <1>6, <1>7

\* A step of one client that neither inserts nor changes a row.
LEMMA QuietStep ==
  ASSUME ApiInv, NEW c \in Clients, exists' \in BOOLEAN, UNCHANGED <<rows, inserts, walk>>,
         DOMAIN req' = Clients, DOMAIN answer' = Clients,
         \A d \in Clients \ {c} : req'[d] = req[d] /\ answer'[d] = answer[d],
         RequestOK(c)', AnswerOK(c)',
         c \in MayInsert' => c \in MayInsert \/ inserts + Cardinality(MayInsert) < MaxInserts
  PROVE  ApiInv'
<1>1. RowsOK'
  BY DEF ApiInv, RowsOK
<1>2. WalksOK'
  BY DEF ApiInv, WalksOK
<1>3. ClientsOK'
  <2>1. inserts \in Nat /\ inserts' \in Nat /\ inserts <= inserts' /\ ClientsOK
    BY DEF ApiInv, InsertsOK
  <2>2. Onward(rows')
    BY OnwardSame
  <2>. QED  BY <2>1, <2>2, ClientStep
<1>4. InsertsOK'
  <2>. DEFINE m == Cardinality(MayInsert)
              n == Cardinality(MayInsert')
  <2>1. /\ m \in Nat /\ n \in Nat
        /\ c \in MayInsert => n <= m
        /\ c \notin MayInsert /\ c \in MayInsert' => n = m + 1
        /\ c \notin MayInsert /\ c \notin MayInsert' => n = m
    BY MayInsertAfter
  <2>2. inserts \in Nat /\ inserts + m <= MaxInserts /\ inserts' = inserts /\ MaxInserts \in Nat
    BY TaskApiAssumption DEF ApiInv, InsertsOK
  <2>3. c \in MayInsert' => c \in MayInsert \/ inserts + m < MaxInserts
    OBVIOUS
  <2>. HIDE DEF m, n
  <2>4. inserts + n <= MaxInserts
    BY <2>1, <2>2, <2>3
  <2>. QED  BY <2>2, <2>4 DEF InsertsOK, n
<1>. QED  BY <1>1, <1>2, <1>3, <1>4 DEF ApiInv

Waiting == [step : {"check", "lookup", "queue", "insert"}, r : Asked, made : BOOLEAN]

\* What is known of a request before its insert, and after.
LEMMA RequestWaits ==
  ASSUME ClientsOK, NEW c \in Clients, req[c].step \in {"check", "lookup", "queue", "insert"}
  PROVE  /\ req[c] \in Waiting
         /\ req[c].step # "insert" => ~req[c].made
         /\ req[c].step # "check" => WellFormed(req[c].r)
         /\ c \in MayInsert
<1>1. RequestOK(c)
  BY DEF ClientsOK
<1>. QED  BY <1>1 DEF RequestOK, Idle, Waiting, MayInsert

\* A request that is about to read its row back.
LEMMA RequestReads ==
  ASSUME ClientsOK, NEW c \in Clients, req[c].step = "reread"
  PROVE  /\ req[c] \in [step : {"reread"}, id : TaskIds \cup {Uuid}, nr : Nat]
         /\ \A i \in 1 .. Len(rows) : rows[i].nr = req[c].nr => rows[i].id = req[c].id
<1>1. RequestOK(c)
  BY DEF ClientsOK
<1>. QED  BY <1>1 DEF RequestOK, Idle

\* Only the client's own request and answer change.
LEMMA OwnOnly ==
  ASSUME ClientsOK, NEW c \in Clients, NEW x, NEW a,
         req' = [req EXCEPT ![c] = x], answer' = [answer EXCEPT ![c] = a]
  PROVE  /\ DOMAIN req' = Clients /\ DOMAIN answer' = Clients
         /\ \A d \in Clients \ {c} : req'[d] = req[d] /\ answer'[d] = answer[d]
         /\ req'[c] = x /\ answer'[c] = a
BY DEF ClientsOK

\* The request is refused: it has changed nothing.
LEMMA RefuseStep ==
  ASSUME ApiInv, NEW c \in Clients, NEW code, Refuse(c, code),
         req[c].step \in {"check", "lookup", "queue", "insert"},
         \/ code \in {"INVALID_ARGUMENT", "NOT_FOUND"} /\ req[c].step # "insert"
         \/ code = "ALREADY_EXISTS",
         UNCHANGED <<exists, rows, inserts, walk>>
  PROVE  ApiInv'
<1>. DEFINE a == [code |-> code, made |-> req[c].made]
<1>1. ClientsOK /\ exists' \in BOOLEAN
  BY DEF ApiInv
<1>2. /\ req[c].made \in BOOLEAN /\ c \in MayInsert
      /\ req[c].step # "insert" => req[c].made = FALSE
  BY <1>1, RequestWaits DEF Waiting
<1>3. req' = [req EXCEPT ![c] = Idle] /\ answer' = [answer EXCEPT ![c] = a]
  BY DEF Refuse, Answer
<1>. HIDE DEF a
<1>4. /\ DOMAIN req' = Clients /\ DOMAIN answer' = Clients
      /\ \A d \in Clients \ {c} : req'[d] = req[d] /\ answer'[d] = answer[d]
      /\ req'[c] = Idle /\ answer'[c] = a
  BY <1>1, <1>3, OwnOnly
<1>5. RequestOK(c)'
  BY <1>4 DEF RequestOK
<1>6. \/ a \in [code : {"INVALID_ARGUMENT", "NOT_FOUND"}, made : {FALSE}]
      \/ a \in [code : {"ALREADY_EXISTS"}, made : BOOLEAN]
  BY <1>2 DEF a
<1>7. AnswerOK(c)'
  BY <1>4, <1>6 DEF AnswerOK
<1>. QED  BY <1>1, <1>2, <1>4, <1>5, <1>7, QuietStep

\* The request moves on, before its insert.
LEMMA ProceedStep ==
  ASSUME ApiInv, NEW c \in Clients, req[c].step \in {"check", "lookup", "queue"},
         WellFormed(req[c].r), NEW x \in Waiting, x.r = req[c].r,
         x.step # "check", x.step # "insert" => x.made = req[c].made,
         req' = [req EXCEPT ![c] = x], exists' \in BOOLEAN,
         UNCHANGED <<answer, rows, inserts, walk>>
  PROVE  ApiInv'
<1>1. ClientsOK /\ AnswerOK(c)
  BY DEF ApiInv, ClientsOK
<1>2. c \in MayInsert /\ ~req[c].made
  BY <1>1, RequestWaits
<1>3. /\ DOMAIN req' = Clients /\ DOMAIN answer' = Clients
      /\ \A d \in Clients \ {c} : req'[d] = req[d] /\ answer'[d] = answer[d]
      /\ req'[c] = x /\ answer'[c] = answer[c]
  BY <1>1 DEF ClientsOK
<1>4. RequestOK(c)'
  BY <1>2, <1>3 DEF RequestOK, Waiting
<1>5. AnswerOK(c)'
  BY <1>1, <1>3 DEF AnswerOK
<1>. QED  BY <1>2, <1>3, <1>4, <1>5, QuietStep

\* A request arrives.
LEMMA ReceiveStep ==
  ASSUME ApiInv, NEW c \in Clients, NEW r \in Asked, Receive(c, r)
  PROVE  ApiInv'
<1>. DEFINE x == [step |-> "check", r |-> r, made |-> FALSE]
<1>1. ClientsOK /\ AnswerOK(c) /\ exists' \in BOOLEAN
  BY DEF ApiInv, ClientsOK, Receive
<1>2. req' = [req EXCEPT ![c] = x] /\ UNCHANGED <<rows, inserts, walk, answer>>
  BY DEF Receive, HandlerSteps
<1>3. x \in Waiting /\ x.step = "check" /\ x.made = FALSE
  BY DEF Waiting
<1>. HIDE DEF x
<1>4. /\ DOMAIN req' = Clients /\ DOMAIN answer' = Clients
      /\ \A d \in Clients \ {c} : req'[d] = req[d] /\ answer'[d] = answer[d]
      /\ req'[c] = x /\ answer'[c] = answer[c]
  BY <1>1, <1>2 DEF ClientsOK
<1>5. RequestOK(c)'
  BY <1>3, <1>4 DEF RequestOK, Waiting
<1>6. AnswerOK(c)'
  BY <1>1, <1>4 DEF AnswerOK
<1>7. inserts + Cardinality(MayInsert) < MaxInserts
  BY DEF Receive, MayInsert
<1>. QED  BY <1>1, <1>2, <1>4, <1>5, <1>6, <1>7, QuietStep

\* A client forgets its answer.
LEMMA LeaveStep ==
  ASSUME ApiInv, NEW c \in Clients, Leave(c)
  PROVE  ApiInv'
<1>1. ClientsOK /\ RequestOK(c) /\ exists' \in BOOLEAN /\ UNCHANGED <<rows, inserts, walk, req>>
  BY DEF ApiInv, ClientsOK, Leave
<1>2. /\ DOMAIN req' = Clients /\ DOMAIN answer' = Clients
      /\ \A d \in Clients \ {c} : req'[d] = req[d] /\ answer'[d] = answer[d]
      /\ req'[c] = req[c] /\ answer'[c] = NoAnswer
  BY <1>1 DEF ClientsOK, Leave
<1>3. RequestOK(c)'
  BY <1>1, <1>2 DEF RequestOK
<1>4. AnswerOK(c)'
  BY <1>2 DEF AnswerOK
<1>5. c \in MayInsert' => c \in MayInsert
  BY <1>1 DEF MayInsert
<1>. QED  BY <1>1, <1>2, <1>3, <1>4, <1>5, QuietStep

\* The checks of the handler: nothing is changed yet.
LEMMA CheckStep ==
  ASSUME ApiInv, NEW c \in Clients, Check(c)
  PROVE  ApiInv'
<1>1. ClientsOK /\ req[c].step = "check" /\ exists' \in BOOLEAN /\ UNCHANGED <<exists, rows, inserts, walk>>
  BY DEF ApiInv, Check
<1>2. req[c] \in Waiting
  BY <1>1, RequestWaits
<1>3. CASE WellFormed(req[c].r)
  <2>. DEFINE x == [req[c] EXCEPT !.step = "lookup"]
  <2>1. req' = [req EXCEPT ![c] = x] /\ answer' = answer
    BY <1>3 DEF Check, Proceed, HandlerSteps
  <2>2. x \in Waiting /\ x.r = req[c].r /\ x.made = req[c].made /\ x.step = "lookup"
    BY <1>2 DEF Waiting
  <2>. HIDE DEF x
  <2>. QED  BY <1>1, <1>3, <2>1, <2>2, ProceedStep
<1>4. CASE ~WellFormed(req[c].r)
  <2>1. Refuse(c, "INVALID_ARGUMENT")
    BY <1>4 DEF Check
  <2>. QED  BY <1>1, <2>1, RefuseStep
<1>. QED  BY <1>3, <1>4

\* The queue is looked up: the request goes on, or is told that there is none.
LEMMA LookupStep ==
  ASSUME ApiInv, NEW c \in Clients, Lookup(c)
  PROVE  ApiInv'
<1>1. ClientsOK /\ req[c].step = "lookup" /\ exists' \in BOOLEAN /\ UNCHANGED <<exists, rows, inserts, walk>>
  BY DEF ApiInv, Lookup
<1>2. req[c] \in Waiting /\ WellFormed(req[c].r)
  BY <1>1, RequestWaits
<1>3. \/ Refuse(c, "NOT_FOUND")
      \/ Refuse(c, "INVALID_ARGUMENT")
      \/ Proceed(c, "queue")
      \/ Proceed(c, "insert")
  BY DEF Lookup, HandlerSteps
<1>4. CASE Refuse(c, "NOT_FOUND") \/ Refuse(c, "INVALID_ARGUMENT")
  BY <1>1, <1>4, RefuseStep
<1>5. ASSUME NEW step \in {"queue", "insert"}, Proceed(c, step) PROVE ApiInv'
  <2>. DEFINE x == [req[c] EXCEPT !.step = step]
  <2>1. req' = [req EXCEPT ![c] = x] /\ answer' = answer
    BY <1>5 DEF Proceed
  <2>2. x \in Waiting /\ x.r = req[c].r /\ x.made = req[c].made /\ x.step = step
    BY <1>2 DEF Waiting
  <2>. HIDE DEF x
  <2>. QED  BY <1>1, <1>2, <2>1, <2>2, ProceedStep
<1>. QED  BY <1>3, <1>4, <1>5

\* The queue is created, unless another request was faster.
LEMMA MakeQueueStep ==
  ASSUME ApiInv, NEW c \in Clients, MakeQueue(c)
  PROVE  ApiInv'
<1>1. /\ ClientsOK /\ exists \in BOOLEAN /\ req[c].step = "queue" /\ exists' \in BOOLEAN
      /\ UNCHANGED <<answer, rows, inserts, walk>>
  BY DEF ApiInv, MakeQueue
<1>2. req[c] \in Waiting /\ WellFormed(req[c].r)
  BY <1>1, RequestWaits
<1>. DEFINE x == [req[c] EXCEPT !.step = "insert", !.made = ~exists]
<1>3. req' = [req EXCEPT ![c] = x]
  BY DEF MakeQueue, HandlerSteps
<1>4. x \in Waiting /\ x.r = req[c].r /\ x.step = "insert"
  BY <1>1, <1>2 DEF Waiting
<1>. HIDE DEF x
<1>. QED  BY <1>1, <1>2, <1>3, <1>4, ProceedStep

\* The row that is read is the one that was inserted, if it is still there.
LEMMA RereadStep ==
  ASSUME ApiInv, NEW c \in Clients, Reread(c)
  PROVE  ApiInv'
<1>. DEFINE nr == req[c].nr
            id == req[c].id
            stored == {row.nr : row \in Named(id)}
<1>1. ClientsOK /\ RowsOK /\ req[c].step = "reread" /\ exists' \in BOOLEAN /\ UNCHANGED <<rows, inserts, walk>>
  BY DEF ApiInv, Reread
<1>2. nr \in Nat /\ \A i \in 1 .. Len(rows) : rows[i].nr = nr => rows[i].id = id
  BY <1>1, RequestReads
<1>3. PICK shown \in IF stored = {} THEN {nr} ELSE stored :
        Answer(c, [code |-> "OK", own |-> shown = nr, there |-> nr \in View(rows, None)])
  BY DEF Reread
<1>4. ASSUME nr \in View(rows, None) PROVE shown = nr
  <2>1. CASE stored = {}
    BY <1>3, <2>1
  <2>2. CASE stored # {}
    <3>1. PICK row \in ToSet(Filtered(rows, None)) : row.nr = nr
      BY <1>4 DEF View
    <3>2. row \in ToSet(rows)
      BY <1>1, <3>1, FilteredRows DEF RowsOK
    <3>3. DOMAIN rows = 1 .. Len(rows)
      BY <1>1 DEF RowsOK
    <3>4. PICK i \in 1 .. Len(rows) : rows[i] = row
      BY <3>2, <3>3 DEF ToSet
    <3>5. PICK other \in Named(id) : other.nr = shown
      BY <1>3, <2>2
    <3>6. PICK j \in 1 .. Len(rows) : rows[j] = other /\ rows[j].id = id /\ id # Uuid
      BY <3>3, <3>5 DEF Named, ToSet
    <3>7. rows[i].id = id
      BY <1>2, <3>1, <3>4
    <3>8. i = j
      BY <1>1, <3>6, <3>7 DEF RowsOK
    <3>. QED  BY <3>1, <3>4, <3>5, <3>6, <3>8
  <2>. QED  BY <2>1, <2>2
<1>. DEFINE own == shown = nr
            there == nr \in View(rows, None)
            a == [code |-> "OK", own |-> own, there |-> there]
<1>5. req' = [req EXCEPT ![c] = Idle] /\ answer' = [answer EXCEPT ![c] = a]
  BY <1>3 DEF Answer
<1>6. a \in [code : {"OK"}, own : BOOLEAN, there : BOOLEAN] /\ (a.there => a.own)
  <2>1. own \in BOOLEAN /\ there \in BOOLEAN /\ (there => own)
    BY <1>4
  <2>. HIDE DEF own, there
  <2>. QED  BY <2>1
<1>. HIDE DEF a
<1>7. /\ DOMAIN req' = Clients /\ DOMAIN answer' = Clients
      /\ \A d \in Clients \ {c} : req'[d] = req[d] /\ answer'[d] = answer[d]
      /\ req'[c] = Idle /\ answer'[c] = a
  BY <1>1, <1>5, OwnOnly
<1>8. RequestOK(c)'
  BY <1>7 DEF RequestOK
<1>9. AnswerOK(c)'
  BY <1>6, <1>7 DEF AnswerOK
<1>10. c \notin MayInsert'
  BY <1>7 DEF MayInsert, Idle
<1>. QED  BY <1>1, <1>7, <1>8, <1>9, <1>10, QuietStep

\* The row is inserted, with a number nothing has had, or the name is taken.
LEMMA InsertTaskStep ==
  ASSUME ApiInv, NEW c \in Clients, InsertTask(c)
  PROVE  ApiInv'
<1>. DEFINE id == req[c].r.id
            R == WithNewest([id |-> id, nr |-> inserts + 1, status |-> "PENDING"])
            x == [step |-> "reread", id |-> id, nr |-> inserts + 1]
<1>1. /\ ClientsOK /\ RowsOK /\ WalksOK /\ InsertsOK /\ inserts \in Nat
      /\ req[c].step = "insert" /\ exists' = exists /\ exists' \in BOOLEAN
  BY DEF ApiInv, InsertsOK, InsertTask
<1>2. req[c] \in Waiting /\ c \in MayInsert
  BY <1>1, RequestWaits
<1>3. id \in TaskIds \cup {Uuid}
  BY <1>2, TaskApiAssumption DEF Waiting, Requests
<1>4. CASE ~Free(id)
  <2>1. Refuse(c, "ALREADY_EXISTS") /\ UNCHANGED <<exists, rows, inserts, walk>>
    BY <1>1, <1>4 DEF InsertTask
  <2>. QED  BY <1>1, <2>1, RefuseStep
<1>5. CASE Free(id)
  <2>1. /\ ChangeRows(R) /\ rows' = R /\ inserts' = inserts + 1 /\ answer' = answer
        /\ req' = [req EXCEPT ![c] = x]
    BY <1>5 DEF InsertTask, ChangeRows
  <2>2. /\ R \in Seq(Row) /\ Falling(R) /\ Onward(R)
        /\ \A i \in 1 .. Len(R) : R[i].nr <= inserts + 1 /\ R[i].nr >= 1
        /\ \A i, j \in 1 .. Len(R) : R[i].id = R[j].id /\ R[i].id # Uuid => i = j
        /\ \A i \in 1 .. Len(R) : R[i].nr = inserts + 1 => R[i].id = id
    <3>. HIDE DEF id
    <3>. QED  BY <1>1, <1>3, <1>5, RowAdded
  <2>3. x \in [step : {"reread"}, id : TaskIds \cup {Uuid}, nr : Nat] /\ x.nr = inserts + 1 /\ x.id = id /\ x.step = "reread"
    BY <1>1, <1>3
  <2>. HIDE DEF R, x, id
  <2>4. WalksOK'
    BY <1>1, <2>1, <2>2, RowsChange
  <2>5. RowsOK'
    BY <2>1, <2>2 DEF RowsOK
  <2>6. /\ DOMAIN req' = Clients /\ DOMAIN answer' = Clients
        /\ \A d \in Clients \ {c} : req'[d] = req[d] /\ answer'[d] = answer[d]
        /\ req'[c] = x /\ answer'[c] = answer[c]
    BY <1>1, <2>1 DEF ClientsOK
  <2>7. ClientsOK'
    <3>1. RequestOK(c)'
      <4>1. x.nr <= inserts'
        BY <1>1, <2>1, <2>3
      <4>2. \A i \in 1 .. Len(rows') : rows'[i].nr = x.nr => rows'[i].id = x.id
        BY <2>1, <2>2, <2>3
      <4>. QED  BY <2>3, <2>6, <4>1, <4>2 DEF RequestOK
    <3>2. AnswerOK(c)'
      BY <1>1, <2>6 DEF ClientsOK, AnswerOK
    <3>3. inserts' \in Nat /\ inserts <= inserts' /\ Onward(rows')
      BY <1>1, <2>1, <2>2
    <3>. QED  BY <1>1, <2>6, <3>1, <3>2, <3>3, ClientStep
  <2>8. InsertsOK'
    <3>1. c \notin MayInsert'
      BY <2>3, <2>6 DEF MayInsert
    <3>. DEFINE m == Cardinality(MayInsert)
                n == Cardinality(MayInsert')
    <3>2. m \in Nat /\ n \in Nat /\ n = m - 1
      BY <1>2, <2>6, <3>1, MayInsertAfter
    <3>3. inserts + m <= MaxInserts /\ MaxInserts \in Nat
      BY <1>1, TaskApiAssumption DEF InsertsOK
    <3>. HIDE DEF m, n
    <3>4. inserts' \in Nat /\ inserts' + n <= MaxInserts
      BY <1>1, <2>1, <3>2, <3>3
    <3>. QED  BY <3>4 DEF InsertsOK, n
  <2>. QED  BY <1>1, <2>4, <2>5, <2>7, <2>8 DEF ApiInv
<1>. QED  BY <1>4, <1>5

-----------------------------------------------------------------------------
(* The invariant.                                                          *)

\* A deletion, or a change of status.
LEMMA RowsStep ==
  ASSUME ApiInv, NEW R \in Seq(Row), NEW h, ComesFrom(R, h), ChangeRows(R),
         exists' \in BOOLEAN, UNCHANGED <<inserts, req, answer>>
  PROVE  ApiInv'
<1>1. RowsOK /\ WalksOK /\ ClientsOK /\ InsertsOK /\ inserts \in Nat /\ rows' = R
  BY DEF ApiInv, InsertsOK, ChangeRows
<1>2. /\ Falling(R) /\ Onward(R)
      /\ \A i \in 1 .. Len(R) : R[i].nr <= inserts /\ R[i].nr >= 1
      /\ \A i, j \in 1 .. Len(R) : R[i].id = R[j].id /\ R[i].id # Uuid => i = j
  BY <1>1, FewerRows
<1>3. RowsOK'
  BY <1>1, <1>2 DEF RowsOK
<1>4. WalksOK'
  BY <1>1, <1>2, RowsChange
<1>5. ClientsOK'
  BY <1>1, <1>2, ClientsKept
<1>6. InsertsOK'
  BY <1>1 DEF InsertsOK, MayInsert
<1>. QED  BY <1>3, <1>4, <1>5, <1>6 DEF ApiInv

\* A step of a walker leaves the rest alone.
LEMMA WalkerStep ==
  ASSUME ApiInv, UNCHANGED <<rows, inserts, req, answer>>, exists' \in BOOLEAN, WalksOK'
  PROVE  ApiInv'
<1>1. RowsOK /\ ClientsOK /\ InsertsOK /\ inserts \in Nat
  BY DEF ApiInv, InsertsOK
<1>2. RowsOK'
  BY <1>1 DEF RowsOK
<1>3. ClientsOK'
  BY <1>1, ClientsKept, OnwardSame
<1>4. InsertsOK'
  BY <1>1 DEF InsertsOK, MayInsert
<1>. QED  BY <1>2, <1>3, <1>4 DEF ApiInv

\* No row, no request and no walk at first.
LEMMA ApiInvInit == Init => ApiInv
<1>. SUFFICES ASSUME Init PROVE ApiInv
  OBVIOUS
<1>1. RowsOK
  BY DEF Init, RowsOK, Falling
<1>2. InsertsOK
  <2>1. MayInsert = {}
    BY DEF Init, MayInsert, Idle
  <2>2. inserts = 0 /\ Cardinality(MayInsert) = 0 /\ MaxInserts \in Nat
    BY <2>1, FS_EmptySet, TaskApiAssumption DEF Init
  <2>. QED  BY <2>2 DEF InsertsOK
<1>3. ClientsOK
  BY DEF Init, ClientsOK, RequestOK, AnswerOK
<1>4. WalksOK
  BY DEF Init, WalksOK, WalkOK
<1>. QED  BY <1>1, <1>2, <1>3, <1>4 DEF Init, ApiInv

\* ApiInv is inductive.
LEMMA ApiInvStep == ApiInv /\ [Next]_vars => ApiInv'
<1>. SUFFICES ASSUME ApiInv, [Next]_vars PROVE ApiInv'
  OBVIOUS
<1>0. RowsOK /\ WalksOK /\ exists \in BOOLEAN
  BY DEF ApiInv
<1>1. ASSUME NEW c \in Clients, NEW r \in Asked, Receive(c, r) PROVE ApiInv'
  BY <1>1, ReceiveStep
<1>2. ASSUME NEW c \in Clients,
             Check(c) \/ Lookup(c) \/ MakeQueue(c) \/ InsertTask(c) \/ Reread(c) \/ Leave(c)
      PROVE  ApiInv'
  BY <1>2, CheckStep, LookupStep, MakeQueueStep, InsertTaskStep, RereadStep, LeaveStep
<1>3. CASE CreateQueue
  <2>1. UNCHANGED <<rows, inserts, req, answer, walk>> /\ exists' \in BOOLEAN
    BY <1>3 DEF CreateQueue
  <2>2. WalksOK'
    BY <1>0, <2>1 DEF WalksOK
  <2>. QED  BY <2>1, <2>2, WalkerStep
<1>4. CASE DeleteQueue
  <2>1. ChangeRows(<<>>) /\ exists' \in BOOLEAN /\ UNCHANGED <<inserts, req, answer>>
    BY <1>4 DEF DeleteQueue
  <2>. QED  BY <1>0, <2>1, NoRows, RowsStep
<1>5. ASSUME NEW i, DeleteTask(i) PROVE ApiInv'
  <2>. DEFINE R == RemoveAt(rows, i)
  <2>1. i \in DOMAIN rows /\ ChangeRows(R) /\ exists' \in BOOLEAN /\ UNCHANGED <<inserts, req, answer>>
    BY <1>0, <1>5 DEF DeleteTask
  <2>2. R \in Seq(Row) /\ \E h : ComesFrom(R, h)
    BY <1>0, <2>1, RowRemoved
  <2>. HIDE DEF R
  <2>. QED  BY <2>1, <2>2, RowsStep
<1>6. ASSUME NEW i, Dispatch(i) PROVE ApiInv'
  <2>. DEFINE R == [rows EXCEPT ![i].status = IF @ = "PENDING" THEN "RUNNING" ELSE "PENDING"]
  <2>1. i \in DOMAIN rows /\ ChangeRows(R) /\ exists' \in BOOLEAN /\ UNCHANGED <<inserts, req, answer>>
    BY <1>0, <1>6 DEF Dispatch
  <2>2. R \in Seq(Row) /\ \E h : ComesFrom(R, h)
    BY <1>0, <2>1, StatusChanged
  <2>. HIDE DEF R
  <2>. QED  BY <2>1, <2>2, RowsStep
<1>7. ASSUME NEW w \in Walkers, List(w) \/ NextPage(w) \/ Browse(w) \/ OpenPage(w)
                                \/ CountTasks(w) \/ ShowPage(w) \/ Close(w)
      PROVE  ApiInv'
  <2>1. WalksOK'
    BY <1>0, <1>7, ListStep, NextPageStep, BrowseStep, OpenPageStep, CountTasksStep, ShowPageStep, CloseStep
  <2>2. UNCHANGED <<rows, inserts, req, answer>> /\ exists' \in BOOLEAN
    BY <1>0, <1>7 DEF List, NextPage, Browse, OpenPage, CountTasks, ShowPage, Close
  <2>. QED  BY <2>1, <2>2, WalkerStep
<1>8. CASE UNCHANGED vars
  <2>1. UNCHANGED <<rows, inserts, req, answer>> /\ walk' = walk /\ exists' \in BOOLEAN
    BY <1>0, <1>8 DEF vars
  <2>2. WalksOK'
    BY <1>0, <2>1 DEF WalksOK
  <2>. QED  BY <2>1, <2>2, WalkerStep
<1>. QED  BY <1>1, <1>2, <1>3, <1>4, <1>5, <1>6, <1>7, <1>8 DEF Next

\* Rows, requests, answers and walks are as the invariant says, always.
LEMMA ApiInvariant == Spec => []ApiInv
BY ApiInvInit, ApiInvStep, PTL DEF Spec

-----------------------------------------------------------------------------
(* The properties.                                                         *)

\* The state keeps its types: the rows are numbered newest first, and no more
\* are inserted than requests were let in for.
THEOREM TypeCorrect == Spec => []TypeOK
<1>1. ASSUME ApiInv PROVE TypeOK
  <2>1. inserts \in 0 .. MaxInserts
    <3>. DEFINE m == Cardinality(MayInsert)
    <3>1. m \in Nat
      <4>1. IsFiniteSet(Clients) /\ MayInsert \subseteq Clients
        BY TaskApiAssumption DEF MayInsert
      <4>. QED  BY <4>1, FS_Subset, FS_CardinalityType
    <3>2. inserts \in Nat /\ inserts + m <= MaxInserts /\ MaxInserts \in Nat
      BY <1>1, TaskApiAssumption DEF ApiInv, InsertsOK
    <3>. HIDE DEF m
    <3>. QED  BY <3>1, <3>2
  <2>2. rows \in Seq(Row) /\ DOMAIN rows = 1 .. Len(rows) /\ \A i \in 1 .. Len(rows) : rows[i] \in Row
    BY <1>1 DEF ApiInv, RowsOK
  <2>3. ASSUME NEW i \in DOMAIN rows
        PROVE  rows[i] \in [id : TaskIds \cup {Uuid}, nr : 1 .. inserts, status : {"PENDING", "RUNNING"}]
    <3>1. rows[i] \in Row /\ rows[i].nr <= inserts /\ rows[i].nr >= 1
      BY <1>1, <2>2 DEF ApiInv, RowsOK
    <3>2. rows[i].nr \in 1 .. inserts
      BY <2>1, <3>1 DEF Row
    <3>. QED  BY <3>1, <3>2 DEF Row
  <2>4. \A i, j \in DOMAIN rows : i < j => rows[i].nr > rows[j].nr
    BY <1>1, <2>2 DEF ApiInv, RowsOK, Falling
  <2>5. ASSUME NEW c \in Clients
        PROVE  /\ req[c].step \in {"idle", "check", "lookup", "queue", "insert", "reread"}
               /\ "r" \in DOMAIN req[c] => req[c].r \in Asked
    <3>1. RequestOK(c)
      BY <1>1 DEF ApiInv, ClientsOK
    <3>. QED  BY <3>1 DEF RequestOK, Idle
  <2>6. ASSUME NEW w \in Walkers
        PROVE  walk[w].step \in {"idle", "page", "open", "count", "show", "done", "gone"}
    <3>1. WalkOK(walk[w], rows)
      BY <1>1 DEF ApiInv, WalksOK
    <3>. QED  BY <3>1 DEF WalkOK, Idle, Walk
  <2>. QED  BY <1>1, <2>1, <2>3, <2>4, <2>5, <2>6 DEF TypeOK, ApiInv
<1>. QED  BY <1>1, ApiInvariant, PTL

\* The kinds of answers differ in their codes.
LEMMA AnswerCodes ==
  /\ NoAnswer.code = "none"
  /\ \A a \in [code : {"INVALID_ARGUMENT", "NOT_FOUND"}, made : {FALSE}] :
       a.code \in {"INVALID_ARGUMENT", "NOT_FOUND"}
  /\ \A a \in [code : {"ALREADY_EXISTS"}, made : BOOLEAN] : a.code = "ALREADY_EXISTS"
  /\ \A a \in [code : {"OK"}, own : BOOLEAN, there : BOOLEAN] : a.code = "OK"
<1>1. NoAnswer.code = "none"
  BY DEF NoAnswer
<1>2. \A a \in [code : {"INVALID_ARGUMENT", "NOT_FOUND"}, made : {FALSE}] :
        a.code \in {"INVALID_ARGUMENT", "NOT_FOUND"}
  OBVIOUS
<1>3. \A a \in [code : {"ALREADY_EXISTS"}, made : BOOLEAN] : a.code = "ALREADY_EXISTS"
  OBVIOUS
<1>4. \A a \in [code : {"OK"}, own : BOOLEAN, there : BOOLEAN] : a.code = "OK"
  OBVIOUS
<1>. QED  BY <1>1, <1>2, <1>3, <1>4

\* A request that is refused as invalid, or for want of a queue, has changed no
\* table: the handlers check everything before they write.
THEOREM BadRequestsAreHarmless == Spec => []BadRequestChangesNothing
<1>1. ASSUME ApiInv PROVE BadRequestChangesNothing
  <2>1. ASSUME NEW c \in Clients, answer[c].code \in {"INVALID_ARGUMENT", "NOT_FOUND"}
        PROVE  ~answer[c].made
    <3>1. AnswerOK(c)
      BY <1>1 DEF ApiInv, ClientsOK
    <3>2. answer[c] \in [code : {"INVALID_ARGUMENT", "NOT_FOUND"}, made : {FALSE}]
      <4>1. \/ answer[c] = NoAnswer
            \/ answer[c] \in [code : {"INVALID_ARGUMENT", "NOT_FOUND"}, made : {FALSE}]
            \/ answer[c] \in [code : {"ALREADY_EXISTS"}, made : BOOLEAN]
            \/ answer[c] \in [code : {"OK"}, own : BOOLEAN, there : BOOLEAN]
        BY <3>1, Zenon DEF AnswerOK
      <4>2. answer[c].code \notin {"none", "ALREADY_EXISTS", "OK"}
        BY <2>1
      <4>. QED  BY <4>1, <4>2, AnswerCodes
    <3>3. answer[c].made = FALSE
      BY <3>2
    <3>. QED  BY <3>3
  <2>. QED  BY <2>1 DEF BadRequestChangesNothing
<1>. QED  BY <1>1, ApiInvariant, PTL

\* A number of seconds whose Duration does not overflow is the timeout.
LEMMA TimeoutFacts ==
  ASSUME NEW secs \in Int
  PROVE  /\ secs > 0 /\ 4 * secs < Half => Timeout(secs) = 4 * secs
         /\ secs = 0 => Timeout(secs) = Wrap(4 * DefaultTimeout)
<1>1. Half \in Nat \ {0}
  BY HalfAssumption
<1>2. CASE secs > 0 /\ 4 * secs < Half
  <2>1. Wrap(4 * secs) = 4 * secs
    BY <1>1, <1>2, WrapAround DEF Wrap
  <2>. QED  BY <1>2, <2>1 DEF Timeout
<1>3. CASE secs = 0
  <2>1. Wrap(4 * secs) = 0
    BY <1>1, <1>3, WrapAround DEF Wrap
  <2>. QED  BY <1>3, <2>1 DEF Timeout
<1>. QED  BY <1>2, <1>3

\* The deadline of every request that is inserted becomes the timeout of its
\* dispatch, rounded as each API rounds, for every deadline that fits a Duration.
THEOREM DeadlineIsTimeout == Spec => []DeadlineBecomesTimeout
<1>1. ASSUME ApiInv, NEW c \in Clients, req[c].step = "insert",
             NEW secs \in StoredDeadline(req[c].r)
      PROVE  LET asked    == req[c].r.deadline
                 quarters == Timeout(secs)
             IN  /\ asked = None => quarters = 4 * 30
                 /\ asked # None /\ Fit(asked + 3) =>
                      /\ req[c].r.via = "grpc" => asked <= quarters /\ quarters < asked + 4
                      /\ req[c].r.via = "rest" =>
                           IF asked < 2 THEN quarters = Wrap(4 * DefaultTimeout)
                           ELSE asked - 2 < quarters /\ quarters <= asked + 2
  <2>. DEFINE r == req[c].r
              d == r.deadline
              q == Timeout(secs)
  <2>1. r \in Requests /\ WellFormed(r)
    <3>1. ClientsOK
      BY <1>1 DEF ApiInv
    <3>2. req[c] \in Waiting /\ WellFormed(r)
      BY <1>1, <3>1, RequestWaits
    <3>. QED  BY <3>2, TaskApiAssumption DEF Waiting
  <2>2. secs \in StoredDeadline(r)
    BY <1>1
  <2>. HIDE DEF r
  <2>3. r.via \in {"rest", "grpc"} /\ (d = None \/ (d \in Int /\ d > 0 /\ d # None))
    BY <2>1, TaskApiAssumption DEF Requests, WellFormed
  <2>4. Half \in Nat /\ Half > 120
    BY TaskApiAssumption, HalfAssumption
  <2>5. CASE d = None
    <3>1. secs = 30
      BY <2>2, <2>5 DEF StoredDeadline
    <3>2. q = 120
      BY <2>4, <3>1, TimeoutFacts
    <3>. HIDE DEF d, q
    <3>. QED  BY <2>5, <3>2 DEF r, d, q
  <2>6. CASE d # None /\ ~Fit(d + 3)
    <3>. HIDE DEF d, q
    <3>. QED  BY <2>6 DEF r, d, q
  <2>7. CASE d # None /\ Fit(d + 3) /\ r.via = "grpc"
    <3>1. d \in Int /\ d > 0 /\ d + 3 < Half
      BY <2>3, <2>7 DEF Fit
    <3>2. secs = (d + 3) \div 4
      <4>1. Saturate(d) = d
        BY <2>4, <3>1 DEF Saturate
      <4>2. secs = (Saturate(d) + 3) \div 4
        BY <2>2, <2>7 DEF StoredDeadline
      <4>. QED  BY <4>1, <4>2
    <3>. HIDE DEF d
    <3>3. secs \in Int /\ secs > 0 /\ 4 * secs <= d + 3 /\ d <= 4 * secs
      BY <3>1, <3>2
    <3>4. q = 4 * secs
      BY <2>4, <3>1, <3>3, TimeoutFacts
    <3>5. d <= q /\ q < d + 4
      <4>. HIDE DEF q
      <4>. QED  BY <3>1, <3>3, <3>4
    <3>. HIDE DEF q
    <3>. QED  BY <2>7, <3>5 DEF r, d, q
  <2>8. CASE d # None /\ Fit(d + 3) /\ r.via = "rest"
    <3>1. d \in Int /\ d > 0 /\ d + 3 < Half
      BY <2>3, <2>8 DEF Fit
    <3>. DEFINE whole == (d + 2) \div 4
    <3>2. secs \in IF Fit(whole) THEN {whole} ELSE {-Half, Half - 1}
      BY <2>2, <2>8 DEF StoredDeadline
    <3>3. secs = whole
      <4>. HIDE DEF d
      <4>1. Fit(whole)
        BY <2>4, <3>1 DEF Fit
      <4>. HIDE DEF whole
      <4>. QED  BY <3>2, <4>1
    <3>. HIDE DEF d
    <3>4. CASE d < 2
      <4>1. secs = 0
        BY <3>1, <3>3, <3>4
      <4>2. q = Wrap(4 * DefaultTimeout)
        BY <4>1, TimeoutFacts
      <4>. HIDE DEF q
      <4>. QED  BY <2>8, <3>4, <4>2 DEF r, d, q
    <3>5. CASE ~(d < 2)
      <4>1. secs \in Int /\ secs > 0 /\ 4 * secs <= d + 2 /\ d - 2 < 4 * secs
        BY <3>1, <3>3, <3>5
      <4>2. q = 4 * secs
        BY <2>4, <3>1, <4>1, TimeoutFacts
      <4>3. d - 2 < q /\ q <= d + 2
        <5>. HIDE DEF q
        <5>. QED  BY <3>1, <4>1, <4>2
      <4>. HIDE DEF q
      <4>. QED  BY <2>8, <3>5, <4>3 DEF r, d, q
    <3>. QED  BY <3>4, <3>5
  <2>. QED  BY <2>3, <2>5, <2>6, <2>7, <2>8 DEF r
<1>2. ApiInv => DeadlineBecomesTimeout
  BY <1>1 DEF DeadlineBecomesTimeout
<1>. QED  BY <1>2, ApiInvariant, PTL

\* The row a CreateTask answers with is its own as long as that is there.
THEOREM AnswersShowOwnTask == Spec => []AnswerShowsOwnTask
<1>1. ASSUME ApiInv PROVE AnswerShowsOwnTask
  <2>1. ASSUME NEW c \in Clients, answer[c].code = "OK", answer[c].there PROVE answer[c].own
    <3>1. AnswerOK(c)
      BY <1>1 DEF ApiInv, ClientsOK
    <3>2. answer[c].code # "OK" \/ (answer[c].there => answer[c].own)
      <4>1. CASE answer[c].there => answer[c].own
        BY <4>1, Zenon
      <4>2. CASE ~(answer[c].there => answer[c].own)
        <5>1. \/ answer[c] = NoAnswer
              \/ answer[c] \in [code : {"INVALID_ARGUMENT", "NOT_FOUND"}, made : {FALSE}]
              \/ answer[c] \in [code : {"ALREADY_EXISTS"}, made : BOOLEAN]
          BY <3>1, <4>2, Zenon DEF AnswerOK
        <5>2. answer[c].code # "OK"
          BY <5>1, AnswerCodes
        <5>. QED  BY <5>2, Zenon
      <4>. QED  BY <4>1, <4>2, Zenon
    <3>. QED  BY <2>1, <3>2, Zenon
  <2>. QED  BY <2>1 DEF AnswerShowsOwnTask
<1>. QED  BY <1>1, ApiInvariant, PTL

\* A walk by page tokens misses no row that was in view all along, unless one
\* left, for every list, page size and filter, and any inserts meanwhile.
THEOREM PagesMissNothing == Spec => []NothingMissed
<1>1. ASSUME ApiInv PROVE NothingMissed
  <2>1. ASSUME NEW w \in Walkers, Finished(w, "api"), ~walk[w].left
        PROVE  walk[w].kept \subseteq ToSet(walk[w].got)
    <3>1. WalkOK(walk[w], rows)
      BY <1>1 DEF ApiInv, WalksOK
    <3>. QED  BY <2>1, <3>1 DEF WalkOK, ApiOK, Finished, Idle
  <2>. QED  BY <2>1 DEF NothingMissed
<1>. QED  BY <1>1, ApiInvariant, PTL

\* It returns no row twice, unless one entered the view.
THEOREM PagesRepeatNothing == Spec => []NothingTwice
<1>1. ASSUME ApiInv PROVE NothingTwice
  <2>1. ASSUME NEW w \in Walkers, Is(w, "api"), ~walk[w].entered PROVE IsInjective(walk[w].got)
    <3>1. WalkOK(walk[w], rows)
      BY <1>1 DEF ApiInv, WalksOK
    <3>. QED  BY <2>1, <3>1 DEF WalkOK, ApiOK, Is
  <2>. QED  BY <2>1 DEF NothingTwice
<1>. QED  BY <1>1, ApiInvariant, PTL

\* A walk along the links of the web UI shows each task once, if the view does
\* not change, although each page is counted and listed apart.
THEOREM UiPagesShowEachOnce == Spec => []UiShowsEachOnce
<1>1. ASSUME ApiInv PROVE UiShowsEachOnce
  <2>1. ASSUME NEW w \in Walkers, Is(w, "ui"), ~walk[w].entered, ~walk[w].left
        PROVE  /\ IsInjective(walk[w].got)
               /\ walk[w].step = "done" => walk[w].kept = ToSet(walk[w].got)
    <3>1. WalkOK(walk[w], rows)
      BY <1>1 DEF ApiInv, WalksOK
    <3>. QED  BY <2>1, <3>1 DEF WalkOK, UiOK, Unchanged, Is
  <2>. QED  BY <2>1 DEF UiShowsEachOnce
<1>. QED  BY <1>1, ApiInvariant, PTL

\* The page a link leads to has tasks on it, however old the link is, if there
\* are any and none comes or goes while the page is made.
THEOREM UiPagesHaveTasks == Spec => UiPageHasTasks
<1>1. ASSUME ApiInv, [Next]_vars
      PROVE  [\A w \in Walkers :
                (/\ walk[w].step = "show" /\ walk'[w].step # "show"
                 /\ walk[w].steady /\ View(rows, walk[w].filter) # {})
                  => Len(walk'[w].got) > Len(walk[w].got)]_vars
  <2>. SUFFICES ASSUME NEW w \in Walkers, walk[w].step = "show", walk'[w].step # "show",
                       walk[w].steady, View(rows, walk[w].filter) # {}
                PROVE  Len(walk'[w].got) > Len(walk[w].got)
    OBVIOUS
  <2>1. RowsOK /\ WalksOK /\ DOMAIN walk = Walkers
    BY <1>1 DEF ApiInv, WalksOK
  <2>2. ShowPage(w)
    <3>1. walk' # walk
      OBVIOUS
    <3>2. ASSUME NEW R, ChangeRows(R) PROVE FALSE
      <4>1. WalkOK(walk[w], rows) /\ walk[w] \in Walk
        BY <2>1 DEF WalksOK, WalkOK, Idle
      <4>2. walk'[w].step = walk[w].step
        BY <3>2, <4>1 DEF ChangeRows, Noticed, Walking, Walk
      <4>. QED  BY <4>2
    <3>3. ASSUME NEW v \in Walkers, List(v) \/ NextPage(v) \/ Browse(v) \/ OpenPage(v)
                                   \/ CountTasks(v) \/ Close(v)
          PROVE  FALSE
      <4>1. v \notin UnderWay \/ walk[v].step \in {"page", "open", "count", "done", "gone"}
        BY <3>3 DEF List, NextPage, Browse, OpenPage, CountTasks, Close
      <4>2. v # w
        BY <4>1 DEF UnderWay, Idle
      <4>3. walk'[w] = walk[w]
        BY <2>1, <3>3, <4>2 DEF List, NextPage, Browse, OpenPage, CountTasks, Close
      <4>. QED  BY <4>3
    <3>4. ASSUME NEW v \in Walkers, ShowPage(v) PROVE v = w
      BY <2>1, <3>4 DEF ShowPage
    <3>5. ASSUME NEW c \in Clients, InsertTask(c) PROVE FALSE
      BY <3>1, <3>2, <3>5 DEF InsertTask
    <3>. QED  BY <1>1, <3>1, <3>2, <3>3, <3>4, <3>5
              DEF Next, vars, Receive, Check, Lookup, MakeQueue, Reread, Leave,
                  CreateQueue, DeleteQueue, DeleteTask, Dispatch
  <2>. DEFINE k == walk[w]
              N == Listed(rows, k.filter)
  <2>3. PICK p \in Seq(Nat), from \in Nat, to \in Nat : Shows(w, p, from, to)
    BY <2>1, <2>2, ShownPage
  <2>4. /\ k \in Walk /\ UiOK(k, N) /\ from = (k.at - 1) * k.size /\ from \in Nat
        /\ Len(p) < k.size => from + Len(p) >= Len(N)
        /\ walk'[w].got = k.got \o p
    BY <2>1, <2>3 DEF Shows, Walk
  <2>5. k.got \in Seq(Nat) /\ k.size \in Nat \ {0}
    BY <2>4 DEF Walk
  <2>6. N \in Seq(Nat) /\ Len(N) \in Nat /\ ToSet(N) # {}
    BY <2>1, ListedFacts, InList DEF RowsOK
  <2>7. Len(N) > 0
    BY <2>6 DEF ToSet
  <2>8. k.total = Len(N) /\ from < k.total
    BY <2>4, <2>7 DEF UiOK
  <2>9. Len(p) > 0
    <3>. DEFINE n == Len(p)
    <3>1. n \in Nat /\ (n < k.size => from + n >= Len(N))
      BY <2>4
    <3>. HIDE DEF n, k, N
    <3>2. n > 0
      BY <2>4, <2>5, <2>6, <2>8, <3>1
    <3>. QED  BY <3>2 DEF n
  <2>. HIDE DEF k, N
  <2>10. Len(k.got \o p) > Len(k.got)
    BY <2>5, <2>9
  <2>. QED  BY <2>4, <2>10 DEF k
<1>. QED  BY <1>1, ApiInvariant, PTL DEF Spec, UiPageHasTasks
=============================================================================
