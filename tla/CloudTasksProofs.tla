-------------------------- MODULE CloudTasksProofs ---------------------------
(***************************************************************************)
(* Proofs about CloudTasks, for any number of queues, tasks, slots and     *)
(* clients, and whatever the bounds.                                       *)
(***************************************************************************)
EXTENDS CloudTasks, FiniteSetTheorems, TLAPS

USE TaskStoreAssumption, QueueStoreAssumption, CloudTasksAssumption

-----------------------------------------------------------------------------
(* Type correctness and the worker's accounting.  Decrements stay in Nat   *)
(* only because the counts are exact and the grant is kept, so these are   *)
(* proved together.                                                        *)

\* How the program counters and the local variables go together.
Shape ==
  /\ pc \in {"limit", "list", "claim", "spawn"} => cur \in Queues
  /\ pc = "spawn" => claimed \in TaskIds /\ QueueOf[claimed] = cur
  /\ pc # "spawn" => claimed = None
  /\ \A t \in pending : QueueOf[t] = cur
  /\ pc \notin {"claim", "spawn"} => pending = {}
  /\ \A s \in Slots : dpc[s] # "idle" => job[s] \in Job
  /\ pc = "limit" => sem + limit <= Cardinality(Slots)
  /\ worker # "running" => pc = "idle" /\ \A s \in Slots : dpc[s] = "idle"

Accounting == TypeOK /\ Shape /\ SlotsExact /\ InflightExact /\ GrantKept

\* The sets whose sizes are counted are finite.
LEMMA CountedFinite ==
  /\ IsFiniteSet(Busy) /\ Cardinality(Busy) \in Nat
  /\ \A q \in Queues : IsFiniteSet(Counted(q)) /\ Cardinality(Counted(q)) \in Nat
  /\ Cardinality(Slots) \in Nat
<1>1. Busy \subseteq Slots /\ \A q \in Queues : Counted(q) \subseteq Slots
  BY DEF Busy, Counted
<1>2. IsFiniteSet(Slots)
  OBVIOUS
<1>. QED  BY <1>1, <1>2, FS_Subset, FS_CardinalityType

\* What the query returns: rows of the queue, at most as many as the limit.
LEMMA ListBounded ==
  ASSUME NEW q \in Queues, NEW n \in Nat, NEW T \in ListPendingForQueue(tasks, InQueue(q), n)
  PROVE  /\ T \subseteq TaskIds /\ IsFiniteSet(T)
         /\ \A t \in T : QueueOf[t] = q /\ tasks[t].status = "PENDING" /\ tasks[t].wait = 0
         /\ Cardinality(T) \in Nat /\ Cardinality(T) <= n
<1>1. T \subseteq Due(tasks, InQueue(q)) /\ Due(tasks, InQueue(q)) \subseteq TaskIds
  BY DEF ListPendingForQueue, Due, InQueue
<1>2. \A t \in T : QueueOf[t] = q /\ tasks[t].status = "PENDING" /\ tasks[t].wait = 0
  BY <1>1 DEF Due, InQueue
<1>3. IsFiniteSet(Due(tasks, InQueue(q))) /\ IsFiniteSet(T)
  BY <1>1, FS_Subset
<1>4. Cardinality(Due(tasks, InQueue(q))) \in Nat /\ Cardinality(T) \in Nat
  BY <1>3, FS_CardinalityType
<1>5. Cardinality(T) = Lesser(n, Cardinality(Due(tasks, InQueue(q))))
  BY DEF ListPendingForQueue
<1>. QED  BY <1>1, <1>2, <1>3, <1>4, <1>5 DEF Lesser

\* Steps of the API, of the clock and of the start-up leave the poller and the
\* pool of goroutines alone.
LEMMA BystanderStep ==
  ASSUME Accounting, UNCHANGED <<poll, pool>>, TypeOK',
         worker' = worker \/ worker # "running"
  PROVE  Accounting'
<1>1. /\ pc' = pc /\ cur' = cur /\ qs' = qs /\ limit' = limit /\ pending' = pending
      /\ seen' = seen /\ claimed' = claimed /\ sem' = sem /\ inflight' = inflight
      /\ buckets' = buckets /\ dpc' = dpc /\ job' = job
  BY DEF poll, pool
<1>2. Shape'
  BY <1>1 DEF Accounting, Shape
<1>3. SlotsExact'
  BY <1>1 DEF Accounting, SlotsExact, Busy, InHand
<1>4. InflightExact'
  BY <1>1 DEF Accounting, InflightExact, Counted
<1>5. GrantKept'
  BY <1>1 DEF Accounting, GrantKept, Granted, InHand
<1>. QED  BY <1>2, <1>3, <1>4, <1>5 DEF Accounting

\* Statements of QueueStore and TaskStore map tables to tables.
LEMMA QueueStatementsTyped ==
  ASSUME NEW tbl \in [Queues -> QueueRow], NEW q \in Queues,
         NEW rl \in [rate : Nat, conc : Nat], NEW st \in {"RUNNING", "PAUSED"}
  PROVE  /\ QueueCreate(tbl, q, rl) \in [Queues -> QueueRow]
         /\ QueueDelete(tbl, q) \in [Queues -> QueueRow]
         /\ SetState(tbl, q, st) \in [Queues -> QueueRow]
         /\ UpdateRateLimits(tbl, q, rl) \in [Queues -> QueueRow]
<1>1. QueueCreate(tbl, q, rl) \in [Queues -> QueueRow]
  BY DEF QueueCreate, QueueRow, Given
<1>2. QueueDelete(tbl, q) \in [Queues -> QueueRow]
  BY DEF QueueDelete, QueueRow, NoQueue
<1>3. SetState(tbl, q, st) \in [Queues -> QueueRow]
  BY DEF SetState, QueueRow
<1>4. UpdateRateLimits(tbl, q, rl) \in [Queues -> QueueRow]
  <2>. DEFINE r == Given(rl.rate, tbl[q].rate)
              c == Given(rl.conc, tbl[q].conc)
  <2>1. r \in Nat /\ c \in Nat
    BY DEF QueueRow, Given
  <2>2. UpdateRateLimits(tbl, q, rl) =
          IF QueueExists(tbl, q) THEN [tbl EXCEPT ![q].rate = r, ![q].conc = c] ELSE tbl
    BY DEF UpdateRateLimits
  <2>. HIDE DEF r, c
  <2>3. [tbl EXCEPT ![q].rate = r, ![q].conc = c] \in [Queues -> QueueRow]
    BY <2>1 DEF QueueRow
  <2>. QED  BY <2>2, <2>3
<1>. QED  BY <1>1, <1>2, <1>3, <1>4

\* Every statement on the tasks leaves a table of rows.
LEMMA TaskStatementsTyped ==
  ASSUME NEW tbl \in [TaskIds -> TaskRow], NEW t \in TaskIds, NEW S,
         NEW n \in Nat, NEW w \in Nat, NEW st \in Statuses
  PROVE  /\ TaskCreate(tbl, t, w) \in [TaskIds -> TaskRow]
         /\ Claim(tbl, t) \in [TaskIds -> TaskRow]
         /\ UpdateStatus(tbl, t, st) \in [TaskIds -> TaskRow]
         /\ UpdateRetry(tbl, t, n, w) \in [TaskIds -> TaskRow]
         /\ TaskDelete(tbl, S) \in [TaskIds -> TaskRow]
         /\ SetNextAttemptNow(tbl, t) \in [TaskIds -> TaskRow]
         /\ RecoverRunning(tbl) \in [TaskIds -> TaskRow]
         /\ Elapse(tbl) \in [TaskIds -> TaskRow]
<1>1. TaskCreate(tbl, t, w) \in [TaskIds -> TaskRow]
  BY DEF TaskCreate, TaskRow, Statuses
<1>2. Claim(tbl, t) \in [TaskIds -> TaskRow]
  BY DEF Claim, TaskRow, Statuses
<1>3. UpdateStatus(tbl, t, st) \in [TaskIds -> TaskRow]
  BY DEF UpdateStatus, TaskRow, Statuses
<1>4. UpdateRetry(tbl, t, n, w) \in [TaskIds -> TaskRow]
  BY DEF UpdateRetry, TaskRow, Statuses
<1>5. TaskDelete(tbl, S) \in [TaskIds -> TaskRow]
  BY DEF TaskDelete, TaskRow, NoTask
<1>6. SetNextAttemptNow(tbl, t) \in [TaskIds -> TaskRow]
  BY DEF SetNextAttemptNow, TaskRow, Statuses
<1>7. RecoverRunning(tbl) \in [TaskIds -> TaskRow]
  BY DEF RecoverRunning, TaskRow, Statuses
<1>8. Elapse(tbl) \in [TaskIds -> TaskRow]
  <2>1. ASSUME NEW u \in TaskIds
        PROVE  [tbl[u] EXCEPT !.wait = IF @ > 0 THEN @ - 1 ELSE 0] \in TaskRow
    <3>1. tbl[u].wait \in Nat /\ tbl[u] \in TaskRow
      BY DEF TaskRow
    <3>2. (IF tbl[u].wait > 0 THEN tbl[u].wait - 1 ELSE 0) \in Nat
      BY <3>1
    <3>. QED  BY <3>1, <3>2 DEF TaskRow
  <2>. QED  BY <2>1 DEF Elapse
<1>. QED  BY <1>1, <1>2, <1>3, <1>4, <1>5, <1>6, <1>7, <1>8

\* Every operation of the API keeps the types.
LEMMA ApiTyped ==
  ASSUME TypeOK, Api
  PROVE  TypeOK' /\ UNCHANGED <<worker, poll, pool, accounts>>
<1>. USE DEF tables, poll, pool, history, accounts
<1>1. ASSUME NEW q \in Queues, CreateQueue(q)
      PROVE  TypeOK' /\ UNCHANGED <<worker, poll, pool, accounts>>
  <2>1. queues' \in [Queues -> QueueRow]
    <3>1. PICK rl \in RequestedLimits \cup {NoLimits} : queues' = QueueCreate(queues, q, rl)
      BY <1>1 DEF CreateQueue
    <3>2. rl \in [rate : Nat, conc : Nat]
      BY <3>1 DEF NoLimits
    <3>. QED  BY <3>1, <3>2, QueueStatementsTyped DEF TypeOK
  <2>. QED  BY <1>1, <2>1 DEF CreateQueue, TypeOK
<1>2. ASSUME NEW q \in Queues, DeleteQueue(q)
      PROVE  TypeOK' /\ UNCHANGED <<worker, poll, pool, accounts>>
  <2>1. QueueDelete(queues, q) \in [Queues -> QueueRow]
    BY DEF TypeOK, QueueDelete, QueueRow, NoQueue
  <2>2. TaskDelete(tasks, InQueue(q)) \in [TaskIds -> TaskRow]
    BY DEF TypeOK, TaskDelete, TaskRow, NoTask
  <2>. QED  BY <1>2, <2>1, <2>2 DEF DeleteQueue, TypeOK
<1>3. ASSUME NEW q \in Queues, PauseQueue(q) \/ ResumeQueue(q)
      PROVE  TypeOK' /\ UNCHANGED <<worker, poll, pool, accounts>>
  <2>1. queues \in [Queues -> QueueRow] /\ NoLimits \in [rate : Nat, conc : Nat]
    BY DEF TypeOK, NoLimits
  <2>2. \A st \in {"RUNNING", "PAUSED"} : SetState(queues, q, st) \in [Queues -> QueueRow]
    BY <2>1, QueueStatementsTyped
  <2>. QED  BY <1>3, <2>2 DEF PauseQueue, ResumeQueue, TypeOK
<1>4. ASSUME NEW q \in Queues, UpdateQueue(q)
      PROVE  TypeOK' /\ UNCHANGED <<worker, poll, pool, accounts>>
  <2>1. queues' \in [Queues -> QueueRow]
    <3>1. PICK rl \in RequestedLimits : queues' = UpdateRateLimits(queues, q, rl)
      BY <1>4 DEF UpdateQueue
    <3>. QED  BY <3>1, QueueStatementsTyped DEF TypeOK
  <2>. QED  BY <1>4, <2>1 DEF UpdateQueue, TypeOK
<1>5. ASSUME NEW t \in TaskIds, DeleteTask(t)
      PROVE  TypeOK' /\ UNCHANGED <<worker, poll, pool, accounts>>
  <2>1. TaskDelete(tasks, {t}) \in [TaskIds -> TaskRow]
    BY DEF TypeOK, TaskDelete, TaskRow, NoTask
  <2>. QED  BY <1>5, <2>1 DEF DeleteTask, TypeOK
<1>6. ASSUME NEW t \in TaskIds, RunTask(t)
      PROVE  TypeOK' /\ UNCHANGED <<worker, poll, pool, accounts>>
  <2>1. SetNextAttemptNow(tasks, t) \in [TaskIds -> TaskRow]
    <3>1. tasks \in [TaskIds -> TaskRow] /\ "PENDING" \in Statuses /\ 0 \in Nat
      BY DEF TypeOK, Statuses
    <3>. QED  BY <3>1, TaskStatementsTyped
  <2>. QED  BY <1>6, <2>1 DEF RunTask, TypeOK
<1>7. ASSUME NEW c \in Clients, NEW q \in Queues, PurgeGet(c, q)
      PROVE  TypeOK' /\ UNCHANGED <<worker, poll, pool, accounts>>
  BY <1>7 DEF PurgeGet, TypeOK, Requests
<1>8. ASSUME NEW c \in Clients, PurgeDelete(c)
      PROVE  TypeOK' /\ UNCHANGED <<worker, poll, pool, accounts>>
  <2>1. TaskDelete(tasks, InQueue(req[c].queue)) \in [TaskIds -> TaskRow]
    BY DEF TypeOK, TaskDelete, TaskRow, NoTask
  <2>. QED  BY <1>8, <2>1 DEF PurgeDelete, TypeOK, Requests
<1>9. ASSUME NEW c \in Clients, NEW t \in TaskIds, CreateTaskGetQueue(c, t)
      PROVE  TypeOK' /\ UNCHANGED <<worker, poll, pool, accounts>>
  BY <1>9 DEF CreateTaskGetQueue, TypeOK, Requests
<1>10. ASSUME NEW c \in Clients, CreateTaskMakeQueue(c)
       PROVE  TypeOK' /\ UNCHANGED <<worker, poll, pool, accounts>>
  <2>1. /\ req[c] \in [step : {"create", "insert"}, queue : Queues, task : TaskIds]
        /\ req[c].queue \in Queues
    BY <1>10, SMTT(30) DEF CreateTaskMakeQueue, TypeOK, Requests, NoReq
  <2>2. QueueCreate(queues, req[c].queue, NoLimits) \in [Queues -> QueueRow]
    BY <2>1, QueueStatementsTyped DEF TypeOK, NoLimits
  <2>3. [req[c] EXCEPT !.step = "insert"] \in Requests
    BY <2>1 DEF Requests
  <2>4. req' \in [Clients -> Requests]
    BY <1>10, <2>3 DEF CreateTaskMakeQueue, TypeOK
  <2>. QED  BY <1>10, <2>2, <2>4 DEF CreateTaskMakeQueue, TypeOK
<1>11. ASSUME NEW c \in Clients, CreateTaskInsert(c)
       PROVE  TypeOK' /\ UNCHANGED <<worker, poll, pool, accounts>>
  <2>1. req[c].task \in TaskIds
    <3>1. req[c].step = "insert" /\ req[c] \in Requests
      BY <1>11 DEF CreateTaskInsert, TypeOK
    <3>. QED  BY <3>1 DEF Requests, NoReq
  <2>2. \A w \in ScheduleDelays : TaskCreate(tasks, req[c].task, w) \in [TaskIds -> TaskRow]
    BY <2>1 DEF TypeOK, TaskCreate, TaskRow, Statuses
  <2>3. tasks' \in [TaskIds -> TaskRow]
    BY <1>11, <2>2 DEF CreateTaskInsert, TypeOK
  <2>4. born' \in [TaskIds -> Nat] /\ sent' \in [TaskIds -> Nat]
    <3>1. \/ born' = born /\ sent' = sent
          \/ /\ born' = [born EXCEPT ![req[c].task] = @ + 1]
             /\ sent' = [sent EXCEPT ![req[c].task] = 0]
      BY <1>11 DEF CreateTaskInsert
    <3>2. born \in [TaskIds -> Nat] /\ sent \in [TaskIds -> Nat]
      BY DEF TypeOK
    <3>3. [born EXCEPT ![req[c].task] = @ + 1] \in [TaskIds -> Nat]
      BY <2>1, <3>2
    <3>4. [sent EXCEPT ![req[c].task] = 0] \in [TaskIds -> Nat]
      BY <2>1, <3>2
    <3>. QED  BY <3>1, <3>2, <3>3, <3>4
  <2>5. req' \in [Clients -> Requests]
    BY <1>11 DEF CreateTaskInsert, TypeOK, Requests
  <2>6. UNCHANGED <<queues, worker, poll, pool, accounts>>
    BY <1>11 DEF CreateTaskInsert
  <2>. QED  BY <2>3, <2>4, <2>5, <2>6 DEF TypeOK
<1>. QED
  BY <1>1, <1>2, <1>3, <1>4, <1>5, <1>6, <1>7, <1>8, <1>9, <1>10, <1>11 DEF Api

\* An API operation leaves poller and pool alone.
LEMMA ApiKeepsAccounting ==
  ASSUME Accounting, Api
  PROVE  Accounting'
<1>1. TypeOK' /\ UNCHANGED <<worker, poll, pool, accounts>>
  BY ApiTyped DEF Accounting
<1>. QED  BY <1>1, BystanderStep

\* Start-up, crash and the passing of time.
LEMMA ProcessKeepsAccounting ==
  ASSUME Accounting, Process
  PROVE  Accounting'
<1>. USE DEF tables, poll, pool, history, accounts
<1>1. TypeOK
  BY DEF Accounting
<1>2. CASE Start
  BY <1>1, <1>2, BystanderStep DEF Start, TypeOK
<1>3. CASE Recover
  <2>1. RecoverRunning(tasks) \in [TaskIds -> TaskRow]
    <3>1. tasks \in [TaskIds -> TaskRow]
      BY <1>1 DEF TypeOK
    <3>. QED  BY <3>1 DEF RecoverRunning, TaskRow, Statuses
  <2>. QED  BY <1>1, <1>3, <2>1, BystanderStep DEF Recover, TypeOK
<1>4. CASE RecoverFails
  BY <1>1, <1>4, BystanderStep DEF RecoverFails, Fault, TypeOK
<1>5. CASE Tick
  <2>1. tasks \in [TaskIds -> TaskRow] /\ "PENDING" \in Statuses /\ 0 \in Nat
    BY <1>1 DEF TypeOK, Statuses
  <2>2. PICK t \in TaskIds : tasks[t].wait > 0
    BY <1>5 DEF Tick
  <2>3. Elapse(tasks) \in [TaskIds -> TaskRow]
    BY <2>1, <2>2, TaskStatementsTyped
  <2>. QED  BY <1>1, <1>5, <2>3, BystanderStep DEF Tick, TypeOK
<1>6. CASE Crash
  <2>1. TypeOK'
    <3>1. qs' \in [Queues -> QueueRow] /\ cur' \in 1 .. NumQueues + 1
      BY <1>6 DEF Crash, Return, QueueRow, NoQueue
    <3>2. seen' \in [TaskIds -> Nat] /\ inflight' \in [Queues -> Nat]
      BY <1>6 DEF Crash, Return, Zero
    <3>3. buckets' \in [Queues -> Nat \cup {None}] /\ job' \in [Slots -> Job \cup {None}]
      BY <1>6 DEF Crash, Nothing
    <3>4. req' \in [Clients -> Requests]
      BY <1>6 DEF Crash, Requests
    <3>5. dpc' \in [Slots -> {"idle", "sending", "recorded", "uncounted"}]
      BY <1>6 DEF Crash
    <3>6. /\ worker' = "down" /\ pc' = "idle" /\ limit' = 0 /\ pending' = {} /\ claimed' = None
          /\ sem' = 0 /\ crashes' = crashes + 1
          /\ UNCHANGED <<queues, tasks, born, sent, faults>>
      BY <1>6 DEF Crash, Return
    <3>. QED  BY <1>1, <3>1, <3>2, <3>3, <3>4, <3>5, <3>6 DEF TypeOK
  <2>2. Shape'
    BY <1>6 DEF Crash, Return, Shape
  <2>3. Busy' = {} /\ \A q \in Queues : Counted(q)' = {}
    BY <1>6 DEF Crash, Busy, Counted
  <2>4. SlotsExact' /\ InflightExact'
    <3>1. sem' = 0 /\ pc' = "idle" /\ \A q \in Queues : inflight'[q] = 0
      BY <1>6 DEF Crash, Return, Zero
    <3>2. Cardinality(Busy') = 0 /\ InHand' = 0
      BY <2>3, <3>1, FS_EmptySet DEF InHand
    <3>3. \A q \in Queues : Cardinality(Counted(q)') = 0
      BY <2>3, FS_EmptySet
    <3>. QED  BY <3>1, <3>2, <3>3 DEF SlotsExact, InflightExact
  <2>5. GrantKept'
    BY <1>6 DEF Crash, Return, GrantKept
  <2>. QED  BY <2>1, <2>2, <2>4, <2>5 DEF Accounting
<1>. QED  BY <1>2, <1>3, <1>4, <1>5, <1>6 DEF Process

\* A poll step that leaves the pool alone.
LEMMA PoolUntouched ==
  ASSUME Accounting, UNCHANGED pool, InHand' = InHand
  PROVE  SlotsExact' /\ InflightExact'
<1>1. sem' = sem /\ inflight' = inflight /\ dpc' = dpc /\ job' = job
  BY DEF pool
<1>2. SlotsExact'
  BY <1>1 DEF Accounting, SlotsExact, Busy
<1>3. InflightExact'
  BY <1>1 DEF Accounting, InflightExact, Counted
<1>. QED  BY <1>2, <1>3

\* The outer loop going on to the next queue.
LEMMA NextQueueKeeps ==
  ASSUME Accounting, NextQueue, cur \in Queues, pc # "spawn", UNCHANGED worker,
         pc # "idle", UNCHANGED dpc, UNCHANGED job
  PROVE  /\ Shape' /\ GrantKept' /\ InHand' = InHand
         /\ pc' \in {"queue"} /\ cur' \in 1 .. NumQueues + 1 /\ qs' = qs /\ limit' \in Nat
         /\ pending' \in SUBSET TaskIds /\ seen' \in [TaskIds -> Nat] /\ claimed' = claimed
<1>1. pc' = "queue" /\ cur' = cur + 1 /\ limit' = 0 /\ pending' = {}
      /\ seen' = [t \in TaskIds |-> 0] /\ qs' = qs /\ claimed' = claimed
  BY DEF NextQueue, Zero
<1>2. cur' \in 1 .. NumQueues + 1
  BY <1>1 DEF Queues
<1>3. Shape'
  BY <1>1 DEF Accounting, Shape
<1>4. GrantKept' /\ InHand' = InHand
  BY <1>1 DEF GrantKept, InHand
<1>. QED  BY <1>1, <1>2, <1>3, <1>4

\* The steps of pollAndDispatch up to the query.
LEMMA PollHeadKeepsAccounting ==
  ASSUME Accounting, PollStart \/ PollQueue \/ PollLimit \/ PollListError \/ PollDone
  PROVE  Accounting'
<1>. USE DEF tables, poll, pool, history, accounts
<1>1. TypeOK /\ Shape /\ SlotsExact /\ GrantKept
  BY DEF Accounting
<1>2. CASE PollStart
  <2>1. TypeOK'
    BY <1>1, <1>2 DEF PollStart, TypeOK
  <2>2. Shape'
    BY <1>1, <1>2 DEF PollStart, Shape
  <2>3. GrantKept' /\ InHand' = InHand
    BY <1>2 DEF PollStart, GrantKept, InHand
  <2>. QED  BY <1>2, <2>1, <2>2, <2>3, PoolUntouched DEF PollStart, Accounting
<1>3. CASE PollQueue
  <2>1. /\ pc = "queue" /\ worker = "running"
        /\ UNCHANGED <<queues, tasks, worker, sem, inflight, buckets, dpc, job, req, born, sent,
                       crashes, faults>>
    BY <1>1, <1>3 DEF PollQueue, Shape, TypeOK
  <2>2. CASE Return
    <3>1. /\ pc' = "idle" /\ cur' = 1 /\ limit' = 0 /\ pending' = {} /\ claimed' = None
          /\ qs' \in [Queues -> QueueRow] /\ seen' \in [TaskIds -> Nat]
          /\ cur' \in 1 .. NumQueues + 1
      BY <2>2 DEF Return, Zero, NoQueue, QueueRow
    <3>2. TypeOK'
      BY <1>1, <2>1, <3>1 DEF TypeOK
    <3>3. Shape'
      BY <1>1, <2>1, <3>1 DEF Shape
    <3>4. GrantKept' /\ InHand' = InHand
      BY <2>1, <3>1 DEF GrantKept, InHand
    <3>. QED  BY <2>1, <3>2, <3>3, <3>4, PoolUntouched DEF Accounting
  <2>3. CASE cur <= NumQueues /\ NextQueue
    <3>1. cur \in Queues
      BY <1>1, <2>3 DEF TypeOK, Queues
    <3>2. /\ Shape' /\ GrantKept' /\ InHand' = InHand
          /\ pc' \in {"queue"} /\ cur' \in 1 .. NumQueues + 1 /\ qs' = qs /\ limit' \in Nat
          /\ pending' \in SUBSET TaskIds /\ seen' \in [TaskIds -> Nat] /\ claimed' = claimed
      BY <2>1, <2>3, <3>1, NextQueueKeeps
    <3>3. TypeOK'
      BY <1>1, <2>1, <3>2 DEF TypeOK
    <3>. QED  BY <2>1, <3>2, <3>3, PoolUntouched DEF Accounting
  <2>4. CASE /\ cur <= NumQueues /\ sem < Cardinality(Slots)
             /\ pc' = "limit" /\ limit' = Room
             /\ UNCHANGED <<cur, qs, pending, seen, claimed>>
    <3>1. limit' \in Nat /\ sem + limit' <= Cardinality(Slots)
      BY <1>1, <2>4, CountedFinite DEF Room, TypeOK
    <3>2. TypeOK'
      BY <1>1, <2>1, <2>4, <3>1 DEF TypeOK
    <3>3. Shape'
      BY <1>1, <2>1, <2>4, <3>1 DEF Shape, TypeOK, Queues
    <3>4. GrantKept' /\ InHand' = InHand
      BY <2>1, <2>4 DEF GrantKept, InHand
    <3>. QED  BY <2>1, <3>2, <3>3, <3>4, PoolUntouched DEF Accounting
  <2>. QED  BY <1>3, <2>2, <2>3, <2>4 DEF PollQueue
<1>4. CASE PollLimit
  <2>. DEFINE free == Lesser(limit, Concurrency(cur))
  <2>1. PICK n \in Refill(buckets[cur], qs[cur].rate) :
          /\ buckets' = [buckets EXCEPT ![cur] = n]
          /\ \/ Lesser(free, n) = 0 /\ NextQueue
             \/ /\ Lesser(free, n) > 0
                /\ pc' = "list" /\ limit' = Lesser(free, n)
                /\ UNCHANGED <<cur, qs, pending, seen, claimed>>
    BY <1>4 DEF PollLimit
  <2>2. /\ pc = "limit" /\ cur \in Queues /\ worker = "running" /\ sem + limit <= Cardinality(Slots)
        /\ UNCHANGED <<queues, tasks, worker, sem, inflight, dpc, job, req, born, sent,
                       crashes, faults>>
    BY <1>1, <1>4 DEF PollLimit, Shape, TypeOK
  <2>3. n \in Nat
    <3>1. buckets[cur] \in Nat \cup {None} /\ qs[cur].rate \in Nat
      BY <1>1, <2>2 DEF TypeOK, QueueRow
    <3>. QED  BY <2>1, <3>1 DEF Refill, Capacity, Lesser
  <2>4. limit \in Nat /\ inflight[cur] \in Nat /\ qs[cur].conc \in Nat /\ sem \in Nat
    BY <1>1, <2>2 DEF TypeOK, QueueRow
  <2>5. buckets' \in [Queues -> Nat \cup {None}] /\ buckets'[cur] = n
    BY <1>1, <2>1, <2>2, <2>3 DEF TypeOK
  <2>6. InHand' = InHand => SlotsExact' /\ InflightExact'
    <3>1. Busy' = Busy /\ \A q \in Queues : Counted(q)' = Counted(q)
      BY <2>2 DEF Busy, Counted
    <3>. QED  BY <2>2, <3>1 DEF Accounting, SlotsExact, InflightExact
  <2>7. CASE NextQueue
    <3>1. /\ Shape' /\ GrantKept' /\ InHand' = InHand
          /\ pc' \in {"queue"} /\ cur' \in 1 .. NumQueues + 1 /\ qs' = qs /\ limit' \in Nat
          /\ pending' \in SUBSET TaskIds /\ seen' \in [TaskIds -> Nat] /\ claimed' = claimed
      BY <2>2, <2>7, NextQueueKeeps
    <3>2. TypeOK'
      BY <1>1, <2>2, <2>5, <3>1 DEF TypeOK
    <3>. QED  BY <2>6, <3>1, <3>2 DEF Accounting
  <2>8. CASE /\ pc' = "list" /\ limit' = Lesser(free, n)
             /\ UNCHANGED <<cur, qs, pending, seen, claimed>>
    <3>1. Concurrency(cur) \in Nat
          /\ (Concurrency(cur) > 0 => inflight[cur] + Concurrency(cur) <= qs[cur].conc)
      BY <2>4 DEF Concurrency
    <3>2. CASE Lesser(free, n) = 0
      BY <2>1, <2>8, <3>2 DEF NextQueue
    <3>3. CASE Lesser(free, n) > 0
      <4>1. /\ limit' \in Nat /\ limit' <= limit /\ limit' <= n
            /\ inflight[cur] + limit' <= qs[cur].conc
        BY <2>3, <2>4, <2>8, <3>1, <3>3 DEF Lesser
      <4>2. TypeOK'
        BY <1>1, <2>2, <2>5, <2>8, <4>1 DEF TypeOK
      <4>3. Shape'
        BY <1>1, <2>2, <2>8 DEF Shape
      <4>4. InHand' = InHand /\ InHand' = 0
        BY <2>2, <2>8 DEF InHand
      <4>5. sem + limit' <= Cardinality(Slots)
        BY <2>2, <2>4, <4>1, CountedFinite
      <4>6. GrantKept'
        BY <2>2, <2>3, <2>4, <2>5, <2>8, <4>1, <4>4, <4>5 DEF GrantKept, Granted
      <4>. QED  BY <2>6, <4>2, <4>3, <4>4, <4>6 DEF Accounting
    <3>. QED  BY <2>1, <2>8, <3>2, <3>3 DEF NextQueue
  <2>. QED  BY <2>1, <2>7, <2>8
<1>5. CASE PollListError \/ PollDone
  <2>1. /\ pc \in {"list", "claim"} /\ cur \in Queues /\ NextQueue
        /\ faults' \in Nat
        /\ UNCHANGED <<queues, tasks, worker, sem, inflight, buckets, dpc, job, req, born, sent,
                       crashes>>
    BY <1>1, <1>5 DEF PollListError, PollDone, Fault, Shape, TypeOK
  <2>2. /\ Shape' /\ GrantKept' /\ InHand' = InHand
        /\ pc' \in {"queue"} /\ cur' \in 1 .. NumQueues + 1 /\ qs' = qs /\ limit' \in Nat
        /\ pending' \in SUBSET TaskIds /\ seen' \in [TaskIds -> Nat] /\ claimed' = claimed
    BY <2>1, NextQueueKeeps
  <2>3. TypeOK'
    BY <1>1, <2>1, <2>2 DEF TypeOK
  <2>. QED  BY <2>1, <2>2, <2>3, PoolUntouched DEF Accounting
<1>. QED  BY <1>2, <1>3, <1>4, <1>5

\* The query and the claim loop.
LEMMA PollTailKeepsAccounting ==
  ASSUME Accounting,
         \/ \E T \in SUBSET TaskIds : PollList(T)
         \/ \E t \in TaskIds : PollMiss(t) \/ PollClaimError(t) \/ PollClaim(t)
         \/ \E s \in Slots : PollSpawn(s)
  PROVE  Accounting'
<1>. USE DEF tables, poll, pool, history, accounts
<1>1. TypeOK /\ Shape /\ SlotsExact /\ InflightExact /\ GrantKept
  BY DEF Accounting
<1>2. IsFiniteSet(pending) /\ Cardinality(pending) \in Nat
  BY <1>1, FS_Subset, FS_CardinalityType DEF TypeOK
<1>3. ASSUME NEW T \in SUBSET TaskIds, PollList(T)
      PROVE  Accounting'
  <2>1. /\ pc = "list" /\ cur \in Queues /\ limit \in Nat /\ worker = "running"
        /\ T \in ListPendingForQueue(tasks, InQueue(cur), limit)
        /\ pc' = "claim" /\ pending' = T
        /\ seen' = [t \in TaskIds |-> IF t \in T THEN tasks[t].retry ELSE 0]
        /\ UNCHANGED <<cur, qs, limit, claimed, queues, tasks, worker, sem, inflight, buckets,
                       dpc, job, req, born, sent, crashes, faults>>
    BY <1>1, <1>3 DEF PollList, Shape, TypeOK
  <2>2. /\ \A t \in T : QueueOf[t] = cur
        /\ Cardinality(T) \in Nat /\ Cardinality(T) <= limit
    BY <2>1, ListBounded
  <2>3. seen' \in [TaskIds -> Nat]
    BY <1>1, <2>1 DEF TypeOK, TaskRow
  <2>4. TypeOK'
    BY <1>1, <2>1, <2>3 DEF TypeOK
  <2>5. Shape'
    BY <1>1, <2>1, <2>2 DEF Shape
  <2>6. InHand' = InHand /\ InHand = 0
    BY <2>1 DEF InHand
  <2>7. /\ sem \in Nat /\ inflight[cur] \in Nat /\ qs[cur].conc \in Nat
        /\ buckets[cur] \in Nat /\ Cardinality(Slots) \in Nat
    BY <1>1, <2>1, CountedFinite DEF TypeOK, GrantKept, QueueRow
  <2>8. Granted = limit /\ Granted' = Cardinality(T)
    BY <2>1, <2>2, <2>6 DEF Granted
  <2>9. GrantKept'
    <3>1. /\ sem - 0 + limit <= Cardinality(Slots) /\ inflight[cur] + limit <= qs[cur].conc
          /\ buckets[cur] # None /\ limit <= buckets[cur]
      BY <1>1, <2>1, <2>6, <2>8 DEF GrantKept
    <3>2. sem - 0 + Cardinality(T) <= Cardinality(Slots)
      BY <2>1, <2>2, <2>7, <3>1, SMTT(30)
    <3>3. inflight[cur] + Cardinality(T) <= qs[cur].conc
      BY <2>1, <2>2, <2>7, <3>1, SMTT(30)
    <3>4. Cardinality(T) <= buckets[cur]
      BY <2>1, <2>2, <2>7, <3>1, SMTT(30)
    <3>5. sem' = sem /\ inflight' = inflight /\ cur' = cur /\ qs' = qs /\ buckets' = buckets
      BY <2>1
    <3>. QED  BY <2>6, <2>8, <3>1, <3>2, <3>3, <3>4, <3>5 DEF GrantKept
  <2>. QED  BY <2>1, <2>4, <2>5, <2>6, <2>9, PoolUntouched DEF Accounting
<1>4. ASSUME NEW t \in TaskIds, PollMiss(t) \/ PollClaimError(t)
      PROVE  Accounting'
  <2>1. /\ pc = "claim" /\ pc' = "claim" /\ t \in pending /\ pending' = pending \ {t}
        /\ cur \in Queues /\ faults' \in Nat
        /\ UNCHANGED <<cur, qs, limit, seen, claimed, queues, tasks, worker, sem, inflight,
                       buckets, dpc, job, req, born, sent, crashes>>
    BY <1>1, <1>4 DEF PollMiss, PollClaimError, Fault, Shape, TypeOK
  <2>2. TypeOK'
    BY <1>1, <2>1 DEF TypeOK
  <2>3. Shape'
    BY <1>1, <2>1 DEF Shape
  <2>4. Cardinality(pending') = Cardinality(pending) - 1
    BY <1>2, <2>1, FS_RemoveElement
  <2>5. InHand' = InHand /\ InHand = 0
    BY <2>1 DEF InHand
  <2>6. /\ sem \in Nat /\ inflight[cur] \in Nat /\ qs[cur].conc \in Nat
        /\ buckets[cur] \in Nat /\ Cardinality(Slots) \in Nat
    BY <1>1, <2>1, CountedFinite DEF TypeOK, GrantKept, QueueRow
  <2>7. Granted = Cardinality(pending) /\ Granted' = Cardinality(pending) - 1
    BY <1>2, <2>1, <2>4, <2>5 DEF Granted
  <2>8. GrantKept'
    <3>. DEFINE n == Cardinality(pending)
    <3>1. /\ sem - 0 + n <= Cardinality(Slots) /\ inflight[cur] + n <= qs[cur].conc
          /\ buckets[cur] # None /\ n <= buckets[cur]
      BY <1>1, <2>1, <2>5, <2>7 DEF GrantKept
    <3>2. sem - 0 + (n - 1) <= Cardinality(Slots)
      BY <1>2, <2>6, <3>1, SMTT(30)
    <3>3. inflight[cur] + (n - 1) <= qs[cur].conc
      BY <1>2, <2>6, <3>1, SMTT(30)
    <3>4. n - 1 <= buckets[cur]
      BY <1>2, <2>6, <3>1, SMTT(30)
    <3>5. sem' = sem /\ inflight' = inflight /\ cur' = cur /\ qs' = qs /\ buckets' = buckets
      BY <2>1
    <3>. QED  BY <2>5, <2>7, <3>1, <3>2, <3>3, <3>4, <3>5 DEF GrantKept
  <2>. QED  BY <2>1, <2>2, <2>3, <2>5, <2>8, PoolUntouched DEF Accounting
<1>5. ASSUME NEW t \in TaskIds, PollClaim(t)
      PROVE  Accounting'
  <2>1. /\ pc = "claim" /\ pc' = "spawn" /\ t \in pending /\ pending' = pending \ {t}
        /\ claimed' = t /\ QueueOf[t] = cur /\ cur \in Queues /\ worker = "running"
        /\ tasks' = Claim(tasks, t) /\ sem' = sem + 1 /\ sent' = [sent EXCEPT ![t] = @ + 1]
        /\ UNCHANGED <<cur, qs, limit, seen, inflight, buckets, dpc, job, queues, worker, req,
                       born, crashes, faults>>
    BY <1>1, <1>5 DEF PollClaim, Shape, TypeOK
  <2>2. TypeOK'
    <3>1. tasks' \in [TaskIds -> TaskRow]
      <4>1. tasks \in [TaskIds -> TaskRow]
        BY <1>1 DEF TypeOK
      <4>. QED  BY <2>1, <4>1 DEF Claim, TaskRow, Statuses
    <3>2. sent' \in [TaskIds -> Nat]
      BY <1>1, <2>1 DEF TypeOK
    <3>3. pending' \in SUBSET TaskIds /\ sem' \in Nat /\ claimed' \in TaskIds \cup {None}
      BY <1>1, <2>1 DEF TypeOK
    <3>4. /\ pc' = "spawn"
          /\ UNCHANGED <<cur, qs, limit, seen, inflight, buckets, dpc, job, queues, worker, req,
                         born, crashes, faults>>
      BY <2>1
    <3>. QED  BY <1>1, <3>1, <3>2, <3>3, <3>4 DEF TypeOK
  <2>3. Shape'
    BY <1>1, <2>1 DEF Shape
  <2>4. Cardinality(pending') = Cardinality(pending) - 1
    BY <1>2, <2>1, FS_RemoveElement
  <2>5. InHand = 0 /\ InHand' = 1
    BY <2>1 DEF InHand
  <2>6. Busy' = Busy /\ \A q \in Queues : Counted(q)' = Counted(q)
    BY <2>1 DEF Busy, Counted
  <2>7. SlotsExact'
    BY <1>1, <2>1, <2>5, <2>6, CountedFinite DEF SlotsExact
  <2>8. InflightExact'
    BY <1>1, <2>1, <2>6 DEF InflightExact
  <2>9. /\ sem \in Nat /\ inflight[cur] \in Nat /\ qs[cur].conc \in Nat
        /\ buckets[cur] \in Nat /\ Cardinality(Slots) \in Nat
    BY <1>1, <2>1, CountedFinite DEF TypeOK, GrantKept, QueueRow
  <2>10. Granted = Cardinality(pending) /\ Granted' = Cardinality(pending)
    BY <1>2, <2>1, <2>4, <2>5 DEF Granted
  <2>11. GrantKept'
    BY <1>1, <1>2, <2>1, <2>5, <2>9, <2>10 DEF GrantKept
  <2>. QED  BY <2>2, <2>3, <2>7, <2>8, <2>11 DEF Accounting
<1>6. ASSUME NEW s \in Slots, PollSpawn(s)
      PROVE  Accounting'
  <2>1. /\ pc = "spawn" /\ pc' = "claim" /\ dpc[s] = "idle" /\ claimed' = None
        /\ claimed \in TaskIds /\ QueueOf[claimed] = cur /\ cur \in Queues /\ worker = "running"
        /\ inflight' = [inflight EXCEPT ![cur] = @ + 1]
        /\ buckets' = [buckets EXCEPT ![cur] = @ - 1]
        /\ dpc' = [dpc EXCEPT ![s] = "sending"]
        /\ job' = [job EXCEPT ![s] = [task |-> claimed, retry |-> seen[claimed]]]
        /\ UNCHANGED <<cur, qs, limit, pending, seen, sem, queues, tasks, worker, req, born,
                       sent, crashes, faults>>
    BY <1>1, <1>6 DEF PollSpawn, Shape, TypeOK
  <2>2. InHand = 1 /\ InHand' = 0
    BY <2>1 DEF InHand
  <2>3. Granted = Cardinality(pending) + 1 /\ Granted' = Cardinality(pending)
    BY <1>2, <2>1, <2>2 DEF Granted
  <2>4. /\ sem \in Nat /\ inflight[cur] \in Nat /\ qs[cur].conc \in Nat
        /\ buckets[cur] \in Nat /\ Cardinality(Slots) \in Nat /\ buckets[cur] >= 1
    <3>1. /\ sem \in Nat /\ inflight[cur] \in Nat /\ qs[cur].conc \in Nat
          /\ buckets[cur] \in Nat \cup {None} /\ Cardinality(Slots) \in Nat
      BY <1>1, <2>1, CountedFinite DEF TypeOK, QueueRow
    <3>2. buckets[cur] # None /\ Granted <= buckets[cur]
      BY <1>1, <2>1 DEF GrantKept
    <3>. QED  BY <1>2, <2>3, <3>1, <3>2
  <2>5. [task |-> claimed, retry |-> seen[claimed]] \in Job
    BY <1>1, <2>1 DEF TypeOK, Job
  <2>6. TypeOK'
    <3>1. buckets' \in [Queues -> Nat \cup {None}] /\ inflight' \in [Queues -> Nat]
      <4>1. buckets[cur] - 1 \in Nat /\ inflight[cur] + 1 \in Nat
        BY <2>4
      <4>. QED  BY <1>1, <2>1, <4>1 DEF TypeOK
    <3>2. job' \in [Slots -> Job \cup {None}]
      BY <1>1, <2>1, <2>5, SMTT(30) DEF TypeOK
    <3>3. dpc' \in [Slots -> {"idle", "sending", "recorded", "uncounted"}]
      BY <1>1, <2>1 DEF TypeOK
    <3>. QED  BY <1>1, <2>1, <3>1, <3>2, <3>3, SMTT(30) DEF TypeOK
  <2>7. Shape'
    <3>1. ASSUME NEW r \in Slots, dpc'[r] # "idle"
          PROVE  job'[r] \in Job
      <4>1. CASE r = s
        BY <1>1, <2>1, <2>5, <4>1 DEF TypeOK
      <4>2. CASE r # s
        BY <1>1, <2>1, <3>1, <4>2 DEF Shape, TypeOK
      <4>. QED  BY <4>1, <4>2
    <3>. QED  BY <1>1, <2>1, <3>1 DEF Shape
  <2>8. SlotsExact'
    <3>1. Busy' = Busy \cup {s} /\ s \notin Busy
      BY <1>1, <2>1, SMTT(30) DEF Busy, TypeOK
    <3>2. Cardinality(Busy') = Cardinality(Busy) + 1
      BY <3>1, CountedFinite, FS_AddElement
    <3>. QED  BY <1>1, <2>1, <2>2, <3>2, CountedFinite DEF SlotsExact
  <2>9. InflightExact'
    <3>1. Counted(cur)' = Counted(cur) \cup {s} /\ s \notin Counted(cur)
      BY <1>1, <2>1, <2>5, SMTT(30) DEF Counted, TypeOK
    <3>2. Cardinality(Counted(cur)') = Cardinality(Counted(cur)) + 1
      BY <2>1, <3>1, CountedFinite, FS_AddElement
    <3>3. ASSUME NEW q \in Queues, q # cur
          PROVE  Counted(q)' = Counted(q)
      BY <1>1, <2>1, <3>3 DEF Counted, TypeOK
    <3>4. ASSUME NEW q \in Queues
          PROVE  inflight'[q] = Cardinality(Counted(q)')
      <4>1. CASE q = cur
        BY <1>1, <2>1, <2>4, <3>2, <4>1 DEF InflightExact, TypeOK
      <4>2. CASE q # cur
        BY <1>1, <2>1, <3>3, <4>2 DEF InflightExact, TypeOK
      <4>. QED  BY <4>1, <4>2
    <3>. QED  BY <3>4 DEF InflightExact
  <2>10. GrantKept'
    <3>1. buckets'[cur] = buckets[cur] - 1 /\ inflight'[cur] = inflight[cur] + 1
      BY <1>1, <2>1 DEF TypeOK
    <3>2. /\ sem - 1 + (Cardinality(pending) + 1) <= Cardinality(Slots)
          /\ inflight[cur] + (Cardinality(pending) + 1) <= qs[cur].conc
          /\ Cardinality(pending) + 1 <= buckets[cur]
      BY <1>1, <2>1, <2>2, <2>3 DEF GrantKept
    <3>3. /\ sem + Cardinality(pending) <= Cardinality(Slots)
          /\ inflight'[cur] + Cardinality(pending) <= qs[cur].conc
          /\ Cardinality(pending) <= buckets'[cur] /\ buckets'[cur] \in Nat
      <4>1. sem + Cardinality(pending) <= Cardinality(Slots)
        BY <1>2, <2>4, <3>2
      <4>2. inflight'[cur] + Cardinality(pending) <= qs[cur].conc
        BY <1>2, <2>4, <3>1, <3>2, SMTT(30)
      <4>3. Cardinality(pending) <= buckets'[cur] /\ buckets'[cur] \in Nat
        BY <1>2, <2>4, <3>1, <3>2, SMTT(30)
      <4>. QED  BY <4>1, <4>2, <4>3
    <3>4. sem' - InHand' + Granted' <= Cardinality(Slots)
      BY <1>2, <2>1, <2>2, <2>3, <2>4, <3>3
    <3>. QED  BY <2>1, <2>3, <3>3, <3>4 DEF GrantKept
  <2>. QED  BY <2>6, <2>7, <2>8, <2>9, <2>10 DEF Accounting
<1>. QED  BY <1>3, <1>4, <1>5, <1>6

\* What an outcome does to the table.
LEMMA OutcomeTyped ==
  ASSUME TypeOK, Shape, NEW s \in Slots, Complete(s) \/ RetryOrFail(s) \/ LoseOutcome(s)
  PROVE  /\ dpc[s] = "sending" /\ job[s] \in Job
         /\ dpc' = [dpc EXCEPT ![s] = "recorded"]
         /\ tasks' \in [TaskIds -> TaskRow] /\ faults' \in Nat
         /\ UNCHANGED <<job, sem, inflight, buckets, queues, worker, poll, req, history, crashes>>
<1>1. /\ dpc[s] = "sending" /\ job[s] \in Job
      /\ dpc' = [dpc EXCEPT ![s] = "recorded"] /\ faults' \in Nat
      /\ UNCHANGED <<job, sem, inflight, buckets, queues, worker, poll, req, history, crashes>>
  BY DEF Complete, RetryOrFail, LoseOutcome, Recorded, Fault, accounts, TypeOK, Shape
<1>2. /\ tasks \in [TaskIds -> TaskRow] /\ job[s].task \in TaskIds /\ job[s].retry + 1 \in Nat
      /\ {"COMPLETED", "FAILED", "PENDING"} \subseteq Statuses /\ 0 \in Nat
  BY <1>1 DEF TypeOK, Job, Statuses
<1>3. CASE Complete(s)
  BY <1>1, <1>2, <1>3, TaskStatementsTyped DEF Complete
<1>4. CASE RetryOrFail(s)
  <2>1. UpdateStatus(tasks, job[s].task, "FAILED") \in [TaskIds -> TaskRow]
    BY <1>2, TaskStatementsTyped
  <2>2. ASSUME job[s].retry + 1 <= MaxRetries
        PROVE  UpdateRetry(tasks, job[s].task, job[s].retry + 1, RetryDelay[job[s].retry + 1])
                 \in [TaskIds -> TaskRow]
    <3>1. job[s].retry \in Nat /\ RetryDelay[job[s].retry + 1] \in Nat
      BY <1>1, <2>2 DEF Job
    <3>. QED  BY <1>2, <3>1, TaskStatementsTyped
  <2>3. tasks' \in [TaskIds -> TaskRow]
    BY <1>4, <2>1, <2>2 DEF RetryOrFail
  <2>. QED  BY <1>1, <2>3
<1>5. CASE LoseOutcome(s)
  BY <1>1, <1>2, <1>5 DEF LoseOutcome
<1>. QED  BY <1>3, <1>4, <1>5

\* The steps of a dispatch goroutine, from its outcome to its slot.
LEMMA DispatchKeepsAccounting ==
  ASSUME Accounting, Dispatch
  PROVE  Accounting'
<1>. USE DEF tables, poll, pool, history, accounts
<1>1. TypeOK /\ Shape /\ SlotsExact /\ InflightExact /\ GrantKept
  BY DEF Accounting
<1>2. ASSUME NEW s \in Slots, Complete(s) \/ RetryOrFail(s) \/ LoseOutcome(s)
      PROVE  Accounting'
  <2>1. /\ dpc[s] = "sending" /\ job[s] \in Job
        /\ dpc' = [dpc EXCEPT ![s] = "recorded"]
        /\ tasks' \in [TaskIds -> TaskRow] /\ faults' \in Nat
        /\ UNCHANGED <<job, sem, inflight, buckets, queues, worker, poll, req, history, crashes>>
    BY <1>1, <1>2, OutcomeTyped
  <2>2. TypeOK'
    BY <1>1, <2>1 DEF TypeOK
  <2>3. Shape'
    BY <1>1, <2>1 DEF Shape, TypeOK
  <2>4. Busy' = Busy /\ \A q \in Queues : Counted(q)' = Counted(q)
    BY <1>1, <2>1 DEF Busy, Counted, TypeOK
  <2>5. SlotsExact' /\ InflightExact'
    BY <1>1, <2>1, <2>4 DEF SlotsExact, InHand, InflightExact
  <2>6. GrantKept'
    BY <1>1, <2>1 DEF GrantKept, Granted, InHand
  <2>. QED  BY <2>2, <2>3, <2>5, <2>6 DEF Accounting
<1>3. ASSUME NEW s \in Slots, Uncount(s)
      PROVE  Accounting'
  <2>. DEFINE q == QueueOf[job[s].task]
  <2>1. /\ dpc[s] = "recorded" /\ job[s] \in Job /\ q \in Queues
        /\ dpc' = [dpc EXCEPT ![s] = "uncounted"]
        /\ inflight' = [inflight EXCEPT ![q] = @ - 1]
        /\ UNCHANGED <<job, sem, buckets, queues, tasks, worker, poll, req, history, accounts>>
    BY <1>1, <1>3 DEF Uncount, Shape, Job
  <2>2. Counted(q)' = Counted(q) \ {s} /\ s \in Counted(q)
    BY <1>1, <2>1 DEF Counted, TypeOK
  <2>3. Cardinality(Counted(q)') = Cardinality(Counted(q)) - 1 /\ Cardinality(Counted(q)) >= 1
    <3>1. IsFiniteSet(Counted(q)) /\ Cardinality(Counted(q)) \in Nat
      BY <2>1, CountedFinite
    <3>2. Cardinality(Counted(q)) # 0
      BY <2>2, <3>1, FS_EmptySet
    <3>3. Cardinality(Counted(q) \ {s}) = Cardinality(Counted(q)) - 1
      BY <2>2, <3>1, FS_RemoveElement, ZenonT(30)
    <3>. QED  BY <2>2, <3>1, <3>2, <3>3
  <2>4. inflight[q] \in Nat /\ inflight[q] = Cardinality(Counted(q))
    BY <1>1, <2>1 DEF TypeOK, InflightExact
  <2>5. TypeOK'
    <3>1. inflight[q] - 1 \in Nat
      BY <2>3, <2>4
    <3>2. inflight' \in [Queues -> Nat]
      BY <1>1, <2>1, <3>1 DEF TypeOK
    <3>. QED  BY <1>1, <2>1, <3>2 DEF TypeOK
  <2>6. Shape'
    BY <1>1, <2>1 DEF Shape, TypeOK
  <2>7. SlotsExact'
    <3>1. Busy' = Busy
      BY <1>1, <2>1 DEF Busy, TypeOK
    <3>. QED  BY <1>1, <2>1, <3>1 DEF SlotsExact, InHand
  <2>8. InflightExact'
    <3>1. ASSUME NEW p \in Queues, p # q
          PROVE  Counted(p)' = Counted(p)
      BY <1>1, <2>1, <3>1 DEF Counted, TypeOK
    <3>2. ASSUME NEW p \in Queues
          PROVE  inflight'[p] = Cardinality(Counted(p)')
      <4>1. CASE p = q
        BY <1>1, <2>1, <2>3, <2>4, <4>1 DEF TypeOK
      <4>2. CASE p # q
        BY <1>1, <2>1, <3>1, <4>2 DEF InflightExact, TypeOK
      <4>. QED  BY <4>1, <4>2
    <3>. QED  BY <3>2 DEF InflightExact
  <2>9. GrantKept'
    <3>1. ASSUME pc \in {"list", "claim", "spawn"}
          PROVE  inflight'[cur] <= inflight[cur] /\ inflight'[cur] \in Nat /\ inflight[cur] \in Nat
      BY <1>1, <2>1, <2>3, <2>4, <2>5, <3>1 DEF TypeOK, Shape
    <3>2. ASSUME pc \in {"list", "claim", "spawn"}
          PROVE  qs[cur].conc \in Nat /\ Granted \in Nat
      <4>1. qs[cur].conc \in Nat /\ limit \in Nat
        BY <1>1, <3>2 DEF Shape, TypeOK, QueueRow
      <4>2. Cardinality(pending) \in Nat
        BY <1>1, FS_Subset, FS_CardinalityType DEF TypeOK
      <4>. QED  BY <4>1, <4>2 DEF Granted, InHand
    <3>3. Granted' = Granted /\ InHand' = InHand
      BY <2>1 DEF Granted, InHand
    <3>. QED  BY <1>1, <2>1, <3>1, <3>2, <3>3 DEF GrantKept
  <2>. QED  BY <2>5, <2>6, <2>7, <2>8, <2>9 DEF Accounting
<1>4. ASSUME NEW s \in Slots, Release(s)
      PROVE  Accounting'
  <2>1. /\ dpc[s] = "uncounted"
        /\ dpc' = [dpc EXCEPT ![s] = "idle"] /\ job' = [job EXCEPT ![s] = None]
        /\ sem' = sem - 1
        /\ UNCHANGED <<inflight, buckets, queues, tasks, worker, poll, req, history, accounts>>
    BY <1>4 DEF Release
  <2>2. Busy' = Busy \ {s} /\ s \in Busy
    BY <1>1, <2>1 DEF Busy, TypeOK
  <2>3. Cardinality(Busy') = Cardinality(Busy) - 1 /\ Cardinality(Busy) >= 1
    <3>1. IsFiniteSet(Busy) /\ Cardinality(Busy) \in Nat
      BY CountedFinite
    <3>2. Cardinality(Busy) # 0
      BY <2>2, <3>1, FS_EmptySet
    <3>3. Cardinality(Busy \ {s}) = Cardinality(Busy) - 1
      BY <2>2, <3>1, FS_RemoveElement
    <3>. QED  BY <2>2, <3>1, <3>2, <3>3
  <2>4. InHand' = InHand /\ InHand \in Nat /\ sem = Cardinality(Busy) + InHand
    BY <1>1, <2>1 DEF InHand, SlotsExact
  <2>5. sem' \in Nat /\ sem' <= sem /\ sem \in Nat /\ sem' = Cardinality(Busy') + InHand'
    BY <2>1, <2>3, <2>4, CountedFinite
  <2>6. TypeOK'
    BY <1>1, <2>1, <2>5 DEF TypeOK
  <2>7. Shape'
    <3>1. \A r \in Slots : dpc'[r] # "idle" => job'[r] \in Job
      BY <1>1, <2>1 DEF Shape, TypeOK
    <3>2. worker = "running"
      BY <1>1, <2>1 DEF Shape, TypeOK
    <3>3. pc = "limit" => sem' + limit <= Cardinality(Slots)
      BY <1>1, <2>5, CountedFinite DEF Shape, TypeOK
    <3>. QED  BY <1>1, <2>1, <3>1, <3>2, <3>3 DEF Shape
  <2>8. InflightExact'
    <3>1. \A p \in Queues : Counted(p)' = Counted(p)
      BY <1>1, <2>1 DEF Counted, TypeOK
    <3>. QED  BY <1>1, <2>1, <3>1 DEF InflightExact
  <2>9. GrantKept'
    <3>1. Granted' = Granted
      BY <2>1 DEF Granted, InHand
    <3>2. ASSUME pc \in {"list", "claim", "spawn"}
          PROVE  sem' - InHand' + Granted' <= Cardinality(Slots)
      <4>1. limit \in Nat /\ Cardinality(pending) \in Nat
        BY <1>1, FS_Subset, FS_CardinalityType DEF TypeOK
      <4>2. Granted \in Nat
        BY <2>4, <4>1 DEF Granted
      <4>3. sem - InHand + Granted <= Cardinality(Slots)
        BY <1>1, <3>2 DEF GrantKept
      <4>. QED  BY <2>4, <2>5, <3>1, <4>2, <4>3, CountedFinite
    <3>. QED  BY <1>1, <2>1, <3>1, <3>2 DEF GrantKept
  <2>. QED  BY <2>5, <2>6, <2>7, <2>8, <2>9 DEF Accounting, SlotsExact
<1>. QED  BY <1>2, <1>3, <1>4 DEF Dispatch

-----------------------------------------------------------------------------
\* Nothing is counted when the process has not started.
LEMMA AccountingInit == Init => Accounting
<1>. SUFFICES ASSUME Init PROVE Accounting
  OBVIOUS
<1>1. TypeOK
  <2>1. /\ queues \in [Queues -> QueueRow] /\ qs \in [Queues -> QueueRow]
        /\ tasks \in [TaskIds -> TaskRow]
    BY DEF Init, NoQueue, QueueRow, NoTask, TaskRow
  <2>2. /\ inflight \in [Queues -> Nat] /\ buckets \in [Queues -> Nat \cup {None}]
        /\ seen \in [TaskIds -> Nat] /\ born \in [TaskIds -> Nat] /\ sent \in [TaskIds -> Nat]
        /\ job \in [Slots -> Job \cup {None}]
    BY DEF Init, Zero, Nothing
  <2>3. req \in [Clients -> Requests] /\ cur \in 1 .. NumQueues + 1
    BY DEF Init, Requests
  <2>. QED  BY <2>1, <2>2, <2>3 DEF Init, TypeOK
<1>2. Shape
  BY DEF Init, Shape
<1>3. Busy = {} /\ \A q \in Queues : Counted(q) = {}
  BY DEF Init, Busy, Counted
<1>4. sem = 0 /\ InHand = 0 /\ \A q \in Queues : inflight[q] = 0
  BY DEF Init, InHand, Zero
<1>5. SlotsExact /\ InflightExact
  <2>1. Cardinality(Busy) = 0 /\ \A q \in Queues : Cardinality(Counted(q)) = 0
    BY <1>3, FS_EmptySet
  <2>. QED  BY <1>4, <2>1 DEF SlotsExact, InflightExact
<1>6. GrantKept
  BY DEF Init, GrantKept
<1>. QED  BY <1>1, <1>2, <1>5, <1>6 DEF Accounting

\* Accounting is inductive.
LEMMA AccountingStep == Accounting /\ [Next]_vars => Accounting'
<1>. SUFFICES ASSUME Accounting, [Next]_vars PROVE Accounting'
  OBVIOUS
<1>1. CASE Api
  BY <1>1, ApiKeepsAccounting
<1>2. CASE Process
  BY <1>2, ProcessKeepsAccounting
<1>3. CASE Poll
  BY <1>3, PollHeadKeepsAccounting, PollTailKeepsAccounting DEF Poll
<1>4. CASE Dispatch
  BY <1>4, DispatchKeepsAccounting
<1>5. CASE UNCHANGED vars
  <2>1. TypeOK' /\ worker' = worker /\ UNCHANGED <<poll, pool>>
    BY <1>5 DEF Accounting, TypeOK, vars, tables, poll, pool, history, accounts
  <2>. QED  BY <2>1, BystanderStep
<1>. QED  BY <1>1, <1>2, <1>3, <1>4, <1>5 DEF Next

\* The counters of the worker are exact and its grants kept, always.
LEMMA AccountingAlways == Spec => []Accounting
BY AccountingInit, AccountingStep, PTL DEF Spec

\* The state keeps its types: no counter of the worker goes below zero.
THEOREM TypeCorrect == Spec => []TypeOK
<1>1. Accounting => TypeOK
  BY DEF Accounting
<1>. QED  BY <1>1, AccountingAlways, PTL

\* The semaphore is exact: no slot leaks and none is released twice, whatever
\* the claims, outcomes, failed statements and crashes.
THEOREM SlotsAreExact == Spec => []SlotsExact
<1>1. Accounting => SlotsExact
  BY DEF Accounting
<1>. QED  BY <1>1, AccountingAlways, PTL

\* The in-flight counts are exact, as the comment of the claim loop promises.
THEOREM InflightIsExact == Spec => []InflightExact
<1>1. Accounting => InflightExact
  BY DEF Accounting
<1>. QED  BY <1>1, AccountingAlways, PTL

\* What a poll granted under the lock still fits the slots, the concurrency
\* limit and the tokens when it is used.
THEOREM GrantIsKept == Spec => []GrantKept
<1>1. Accounting => GrantKept
  BY DEF Accounting
<1>. QED  BY <1>1, AccountingAlways, PTL

\* A poll never takes a queue above the concurrency limit it read, nor above
\* the number of slots.
THEOREM DispatchStaysWithinLimit == Spec => DispatchWithinLimit
<1>1. ASSUME Accounting, Accounting', [Next]_vars
      PROVE  \A q \in Queues : inflight'[q] > inflight[q] =>
               inflight'[q] <= Lesser(qs[q].conc, Cardinality(Slots))
  <2>. USE DEF tables, poll, pool, history, accounts
  <2>. SUFFICES ASSUME NEW q \in Queues, inflight'[q] > inflight[q]
                PROVE  inflight'[q] <= Lesser(qs[q].conc, Cardinality(Slots))
    OBVIOUS
  <2>1. inflight \in [Queues -> Nat] /\ inflight' \in [Queues -> Nat]
    BY <1>1 DEF Accounting, TypeOK
  <2>2. CASE inflight' = inflight
    BY <2>1, <2>2
  <2>3. CASE Crash
    BY <2>1, <2>3 DEF Crash, Zero
  <2>4. CASE \E s \in Slots : Uncount(s)
    BY <2>1, <2>4 DEF Uncount
  <2>5. CASE \E s \in Slots : PollSpawn(s)
    <3>1. pc = "spawn" /\ cur \in Queues /\ inflight' = [inflight EXCEPT ![cur] = @ + 1]
      BY <1>1, <2>5 DEF PollSpawn, Accounting, Shape
    <3>2. q = cur /\ inflight'[q] = inflight[q] + 1
      BY <2>1, <3>1
    <3>3. Cardinality(pending) \in Nat /\ qs[cur].conc \in Nat
      BY <1>1, <3>1, FS_Subset, FS_CardinalityType DEF Accounting, TypeOK, QueueRow
    <3>4. inflight[cur] + (Cardinality(pending) + 1) <= qs[cur].conc
      BY <1>1, <3>1 DEF Accounting, GrantKept, Granted, InHand
    <3>5. inflight'[q] <= qs[q].conc
      BY <2>1, <3>2, <3>3, <3>4
    <3>6. Counted(q)' \subseteq Slots /\ inflight'[q] = Cardinality(Counted(q)')
      BY <1>1 DEF Counted, Accounting, InflightExact
    <3>7. inflight'[q] <= Cardinality(Slots)
      BY <3>6, FS_Subset
    <3>. QED  BY <3>5, <3>7 DEF Lesser
  <2>6. inflight' = inflight \/ Crash
        \/ \E s \in Slots : Uncount(s) \/ PollSpawn(s)
    <3>1. CASE Api
      BY <1>1, <3>1, ApiTyped DEF Accounting
    <3>2. CASE Process
      BY <3>2 DEF Process, Start, Recover, RecoverFails, Tick
    <3>3. CASE Poll
      BY <3>3 DEF Poll, PollStart, PollQueue, PollLimit, PollListError, PollDone, PollList,
                  PollMiss, PollClaimError, PollClaim
    <3>4. CASE Dispatch
      BY <3>4 DEF Dispatch, Complete, RetryOrFail, LoseOutcome, Recorded, Release
    <3>5. CASE UNCHANGED vars
      BY <3>5 DEF vars
    <3>. QED  BY <1>1, <3>1, <3>2, <3>3, <3>4, <3>5 DEF Next
  <2>. QED  BY <2>2, <2>3, <2>4, <2>5, <2>6
<1>. QED  BY <1>1, AccountingAlways, PTL DEF Spec, DispatchWithinLimit
=============================================================================
