--------------------------- MODULE OwnershipProofs ---------------------------
(***************************************************************************)
(* Proofs about who may write a task's row, on top of the accounting of    *)
(* CloudTasksProofs: a task is sent by one goroutine at a time, is never   *)
(* stuck RUNNING, never claimed early, and stays finished.                 *)
(***************************************************************************)
EXTENDS CloudTasksProofs

USE TaskStoreAssumption, QueueStoreAssumption, CloudTasksAssumption

\* Someone is about to record the outcome of t.
Owned(t) == claimed = t \/ Senders(t) # {}

\* The inductive invariant, for one task.  A row that is owned is RUNNING or
\* gone, so nobody else claims it; one that is listed is still PENDING and due,
\* or gone.
Safe(t) ==
  /\ \A r, s \in Senders(t) : r = s
  /\ claimed = t => Senders(t) = {}
  /\ Owned(t) => tasks[t].status \in {"RUNNING", "ABSENT"} /\ t \notin pending
  /\ t \in pending => tasks[t].status \in {"PENDING", "ABSENT"}
  /\ (tasks[t].status # "PENDING" \/ t \in pending) => tasks[t].wait = 0
  /\ born[t] = 0 => tasks[t].status = "ABSENT" /\ ~Owned(t) /\ t \notin pending
  /\ (worker = "running" /\ faults = 0 /\ tasks[t].status = "RUNNING") => Owned(t)

Ownership == \A t \in TaskIds : born[t] <= 1 => Safe(t)

-----------------------------------------------------------------------------
\* Most steps leave t alone or delete it, and start nothing.
LEMMA QuietStep ==
  ASSUME Accounting, NEW t \in TaskIds, Safe(t),
         tasks'[t] \in {tasks[t], NoTask}, born'[t] = born[t], claimed' = claimed,
         pending' \subseteq pending, Senders(t)' = Senders(t),
         worker' = "running" /\ faults' = 0 => worker = "running" /\ faults = 0
  PROVE  Safe(t)'
<1>1. Owned(t)' <=> Owned(t)
  BY DEF Owned
<1>2. NoTask.status = "ABSENT" /\ NoTask.wait = 0
  BY DEF NoTask
<1>3. /\ \A r, s \in Senders(t)' : r = s
      /\ claimed' = t => Senders(t)' = {}
      /\ Owned(t)' => tasks'[t].status \in {"RUNNING", "ABSENT"} /\ t \notin pending'
      /\ t \in pending' => tasks'[t].status \in {"PENDING", "ABSENT"}
  BY <1>1, <1>2 DEF Safe
<1>4. /\ (tasks'[t].status # "PENDING" \/ t \in pending') => tasks'[t].wait = 0
      /\ born'[t] = 0 => tasks'[t].status = "ABSENT" /\ ~Owned(t)' /\ t \notin pending'
      /\ (worker' = "running" /\ faults' = 0 /\ tasks'[t].status = "RUNNING") => Owned(t)'
  BY <1>1, <1>2 DEF Safe
<1>. QED  BY <1>3, <1>4 DEF Safe

\* Of the API operations, inserts, deletions and forced runs concern a row.
LEMMA ApiKeepsSafe ==
  ASSUME Accounting, Ownership, Api, NEW t \in TaskIds, born'[t] <= 1
  PROVE  Safe(t)'
<1>1. UNCHANGED <<worker, pc, pending, claimed, dpc, job, faults>>
  BY ApiTyped DEF Accounting, poll, pool, accounts
<1>2. Senders(t)' = Senders(t) /\ (Owned(t)' <=> Owned(t))
  BY <1>1 DEF Senders, Owned
<1>3. tasks \in [TaskIds -> TaskRow] /\ born \in [TaskIds -> Nat]
  BY DEF Accounting, TypeOK
<1>4. CASE tasks'[t] \in {tasks[t], NoTask} /\ born'[t] = born[t]
  BY <1>1, <1>2, <1>4, QuietStep DEF Ownership
<1>5. ASSUME NEW u \in TaskIds, RunTask(u)
      PROVE  Safe(t)'
  <2>1. tasks' = SetNextAttemptNow(tasks, u) /\ born' = born
    BY <1>5 DEF RunTask
  <2>2. CASE t # u
    <3>1. tasks'[t] = tasks[t]
      BY <1>3, <2>1, <2>2 DEF SetNextAttemptNow
    <3>. QED  BY <1>4, <2>1, <3>1
  <2>3. CASE t = u /\ tasks[t].status \notin {"PENDING", "FAILED", "COMPLETED"}
    <3>1. tasks'[t] = tasks[t]
      BY <2>1, <2>3 DEF SetNextAttemptNow
    <3>. QED  BY <1>4, <2>1, <3>1
  <2>4. CASE t = u /\ tasks[t].status \in {"PENDING", "FAILED", "COMPLETED"}
    <3>1. tasks'[t].status = "PENDING" /\ tasks'[t].wait = 0
      BY <1>3, <2>1, <2>4 DEF SetNextAttemptNow, TaskRow
    <3>2. Safe(t) /\ ~Owned(t)
      BY <2>1, <2>4 DEF Ownership, Safe
    <3>3. born[t] # 0
      BY <2>4, <3>2 DEF Safe
    <3>. QED  BY <1>1, <1>2, <2>1, <3>1, <3>2, <3>3 DEF Safe, Owned
  <2>. QED  BY <2>2, <2>3, <2>4
<1>6. ASSUME NEW c \in Clients, CreateTaskInsert(c)
      PROVE  Safe(t)'
  <2>1. req[c].task \in TaskIds
    <3>1. req[c].step = "insert" /\ req[c] \in Requests
      BY <1>6 DEF CreateTaskInsert, Accounting, TypeOK
    <3>. QED  BY <3>1 DEF Requests, NoReq
  <2>2. CASE tasks' = tasks /\ born' = born
    BY <1>4, <2>2
  <2>3. CASE /\ ~TaskExists(tasks, req[c].task)
             /\ \E w \in ScheduleDelays : tasks' = TaskCreate(tasks, req[c].task, w)
             /\ born' = [born EXCEPT ![req[c].task] = @ + 1]
    <3>1. CASE t # req[c].task
      <4>1. tasks'[t] = tasks[t] /\ born'[t] = born[t]
        BY <1>3, <2>1, <2>3, <3>1 DEF TaskCreate
      <4>. QED  BY <1>4, <4>1
    <3>2. CASE t = req[c].task
      <4>1. tasks'[t].status = "PENDING"
        BY <1>3, <2>3, <3>2 DEF TaskCreate
      <4>2. born'[t] = born[t] + 1 /\ born[t] \in Nat
        BY <1>3, <2>3, <3>2
      <4>3. born[t] = 0 /\ born'[t] # 0
        BY <4>2
      <4>4. Safe(t)
        BY <4>3 DEF Ownership
      <4>5. ~Owned(t) /\ t \notin pending
        BY <4>3, <4>4 DEF Safe
      <4>. QED  BY <1>1, <1>2, <4>1, <4>3, <4>5 DEF Safe, Owned
    <3>. QED  BY <3>1, <3>2
  <2>. QED  BY <1>6, <2>2, <2>3 DEF CreateTaskInsert, history
<1>7. CASE \/ \E q \in Queues : \/ CreateQueue(q) \/ DeleteQueue(q) \/ PauseQueue(q)
                                \/ ResumeQueue(q) \/ UpdateQueue(q)
           \/ \E u \in TaskIds : DeleteTask(u)
           \/ \E c \in Clients : \/ \E q \in Queues : PurgeGet(c, q)
                                 \/ PurgeDelete(c)
                                 \/ \E u \in TaskIds : CreateTaskGetQueue(c, u)
                                 \/ CreateTaskMakeQueue(c)
  <2>1. born' = born /\ (tasks' = tasks \/ \E S : tasks' = TaskDelete(tasks, S))
    BY <1>7 DEF CreateQueue, DeleteQueue, PauseQueue, ResumeQueue, UpdateQueue, DeleteTask,
                PurgeGet, PurgeDelete, CreateTaskGetQueue, CreateTaskMakeQueue, tables, history
  <2>2. tasks'[t] \in {tasks[t], NoTask}
    BY <1>3, <2>1 DEF TaskDelete
  <2>. QED  BY <1>4, <2>1, <2>2
<1>. QED  BY <1>5, <1>6, <1>7 DEF Api

\* A crash leaves no owner, and recovery no RUNNING row.
LEMMA ProcessKeepsSafe ==
  ASSUME Accounting, Ownership, Process, NEW t \in TaskIds, born'[t] <= 1
  PROVE  Safe(t)'
<1>. USE DEF tables, poll, pool, history, accounts
<1>1. tasks \in [TaskIds -> TaskRow] /\ born \in [TaskIds -> Nat] /\ born' = born
      /\ faults \in Nat
  BY DEF Accounting, TypeOK, Process, Start, Recover, RecoverFails, Crash, Tick
<1>2. Safe(t)
  BY <1>1 DEF Ownership
<1>3. CASE Start
  <2>1. Senders(t)' = Senders(t) /\ tasks' = tasks /\ claimed' = claimed /\ pending' = pending
        /\ worker' # "running"
    BY <1>3 DEF Start, Senders
  <2>. QED  BY <1>1, <1>2, <2>1, QuietStep
<1>4. CASE RecoverFails
  <2>1. Senders(t)' = Senders(t) /\ tasks' = tasks /\ claimed' = claimed /\ pending' = pending
        /\ faults' # 0
    BY <1>1, <1>4 DEF RecoverFails, Fault, Senders
  <2>. QED  BY <1>1, <1>2, <2>1, QuietStep
<1>5. CASE Recover
  <2>1. Senders(t)' = Senders(t) /\ claimed' = claimed /\ pending' = pending /\ worker = "starting"
        /\ faults' = faults
    BY <1>5 DEF Recover, Senders
  <2>2. Senders(t) = {} /\ claimed = None /\ pending = {}
    BY <2>1 DEF Accounting, Shape, Senders
  <2>3. ~Owned(t) /\ ~Owned(t)'
    BY <2>1, <2>2 DEF Owned
  <2>4. tasks'[t] = IF tasks[t].status = "RUNNING"
                    THEN [tasks[t] EXCEPT !.status = "PENDING"] ELSE tasks[t]
    BY <1>5 DEF Recover, RecoverRunning
  <2>5. /\ tasks'[t].status # "RUNNING" /\ tasks'[t].wait = tasks[t].wait
        /\ tasks'[t].status # "PENDING" => tasks'[t] = tasks[t]
        /\ tasks[t].status = "ABSENT" => tasks'[t] = tasks[t]
    BY <1>1, <2>4 DEF TaskRow
  <2>. QED  BY <1>1, <1>2, <2>1, <2>2, <2>3, <2>5 DEF Safe
<1>6. CASE Tick
  <2>1. Senders(t)' = Senders(t) /\ claimed' = claimed /\ pending' = pending /\ worker' = worker
        /\ faults' = faults
    BY <1>6 DEF Tick, Senders
  <2>2. tasks[t].wait \in Nat /\ tasks[t] \in TaskRow
    BY <1>1 DEF TaskRow
  <2>3. tasks'[t] = [tasks[t] EXCEPT !.wait = IF tasks[t].wait > 0 THEN tasks[t].wait - 1 ELSE 0]
    BY <1>6 DEF Tick, Elapse
  <2>4. tasks'[t].status = tasks[t].status /\ (tasks[t].wait = 0 => tasks'[t].wait = 0)
    BY <2>2, <2>3 DEF TaskRow
  <2>5. Owned(t)' <=> Owned(t)
    BY <2>1 DEF Owned
  <2>. QED  BY <1>1, <1>2, <2>1, <2>4, <2>5 DEF Safe
<1>7. CASE Crash
  <2>1. tasks' = tasks /\ claimed' = None /\ pending' = {} /\ worker' = "down"
    BY <1>7 DEF Crash, Return
  <2>2. Senders(t)' = {}
    BY <1>7 DEF Crash, Senders
  <2>3. ~Owned(t)'
    BY <2>1, <2>2 DEF Owned
  <2>. QED  BY <1>1, <1>2, <2>1, <2>2, <2>3 DEF Safe
<1>. QED  BY <1>3, <1>4, <1>5, <1>6, <1>7 DEF Process

\* The poll: it lists PENDING rows and becomes the owner of what it claims.
LEMMA PollKeepsSafe ==
  ASSUME Accounting, Ownership, Poll, NEW t \in TaskIds, born'[t] <= 1
  PROVE  Safe(t)'
<1>. USE DEF tables, poll, pool, history, accounts
<1>1. /\ tasks \in [TaskIds -> TaskRow] /\ born \in [TaskIds -> Nat] /\ faults \in Nat
      /\ dpc \in [Slots -> {"idle", "sending", "recorded", "uncounted"}]
      /\ job \in [Slots -> Job \cup {None}]
  BY DEF Accounting, TypeOK
<1>2. CASE PollStart \/ PollQueue \/ PollLimit \/ PollListError \/ PollDone
  <2>1. /\ tasks' = tasks /\ born' = born /\ worker' = worker /\ dpc' = dpc /\ job' = job
        /\ pc # "spawn" /\ (claimed' = claimed \/ claimed' = None)
        /\ (pending' = {} \/ pending' = pending)
        /\ (faults' = faults \/ faults' = faults + 1)
    BY <1>2 DEF PollStart, PollQueue, PollLimit, PollListError, PollDone, NextQueue, Return, Fault
  <2>2. claimed' = claimed /\ pending' \subseteq pending /\ Senders(t)' = Senders(t)
    BY <2>1 DEF Accounting, Shape, Senders
  <2>3. faults' = 0 => faults = 0
    BY <1>1, <2>1
  <2>. QED  BY <2>1, <2>2, <2>3, QuietStep DEF Ownership
<1>3. ASSUME NEW u \in TaskIds, PollMiss(u) \/ PollClaimError(u)
      PROVE  Safe(t)'
  <2>1. /\ tasks' = tasks /\ born' = born /\ worker' = worker /\ claimed' = claimed
        /\ pending' \subseteq pending /\ Senders(t)' = Senders(t)
        /\ (faults' = faults \/ faults' = faults + 1)
    BY <1>3 DEF PollMiss, PollClaimError, Fault, Senders
  <2>2. faults' = 0 => faults = 0
    BY <1>1, <2>1
  <2>. QED  BY <2>1, <2>2, QuietStep DEF Ownership
<1>4. ASSUME NEW T \in SUBSET TaskIds, PollList(T)
      PROVE  Safe(t)'
  <2>1. /\ tasks' = tasks /\ born' = born /\ worker' = worker /\ claimed' = claimed
        /\ faults' = faults /\ Senders(t)' = Senders(t) /\ pending' = T /\ limit \in Nat
        /\ T \in ListPendingForQueue(tasks, InQueue(cur), limit) /\ cur \in Queues
    BY <1>4 DEF PollList, Senders, Accounting, Shape, TypeOK
  <2>2. t \in T => tasks[t].status = "PENDING" /\ tasks[t].wait = 0
    BY <2>1, ListBounded
  <2>3. Owned(t)' <=> Owned(t)
    BY <2>1 DEF Owned
  <2>4. Safe(t)
    BY <2>1 DEF Ownership
  <2>. QED  BY <2>1, <2>2, <2>3, <2>4 DEF Safe
<1>5. ASSUME NEW u \in TaskIds, PollClaim(u)
      PROVE  Safe(t)'
  <2>1. /\ tasks[u].status = "PENDING" /\ tasks' = Claim(tasks, u) /\ born' = born
        /\ worker' = worker /\ claimed' = u /\ claimed = None /\ faults' = faults
        /\ Senders(t)' = Senders(t) /\ u \in pending /\ pending' = pending \ {u}
    BY <1>5 DEF PollClaim, Claims, Senders, Accounting, Shape
  <2>2. Safe(t)
    BY <2>1 DEF Ownership
  <2>3. CASE t = u
    <3>1. tasks'[t].status = "RUNNING" /\ tasks'[t].wait = tasks[t].wait
      BY <1>1, <2>1, <2>3 DEF Claim, Claims, TaskRow
    <3>2. ~Owned(t) /\ Senders(t) = {} /\ tasks[t].wait = 0 /\ born[t] # 0
      BY <2>1, <2>2, <2>3 DEF Safe, Owned
    <3>3. Owned(t)'
      BY <2>1, <2>3 DEF Owned
    <3>. QED  BY <2>1, <2>3, <3>1, <3>2, <3>3 DEF Safe
  <2>4. CASE t # u
    <3>1. tasks'[t] = tasks[t]
      BY <1>1, <2>1, <2>4 DEF Claim
    <3>2. claimed # t /\ claimed' # t
      BY <2>1, <2>4
    <3>3. Owned(t)' <=> Owned(t)
      BY <2>1, <3>2 DEF Owned
    <3>. QED  BY <2>1, <2>2, <3>1, <3>2, <3>3 DEF Safe
  <2>. QED  BY <2>3, <2>4
<1>6. ASSUME NEW s \in Slots, PollSpawn(s)
      PROVE  Safe(t)'
  <2>1. /\ dpc[s] = "idle" /\ dpc' = [dpc EXCEPT ![s] = "sending"]
        /\ job' = [job EXCEPT ![s] = [task |-> claimed, retry |-> seen[claimed]]]
        /\ claimed \in TaskIds /\ claimed' = None /\ tasks' = tasks /\ born' = born
        /\ worker' = worker /\ faults' = faults /\ pending' = pending
    BY <1>6 DEF PollSpawn, Accounting, Shape
  <2>2. Safe(t)
    BY <2>1 DEF Ownership
  <2>3. Senders(t)' = IF claimed = t THEN Senders(t) \cup {s} ELSE Senders(t)
    BY <1>1, <2>1 DEF Senders
  <2>4. claimed' # t
    BY <2>1
  <2>5. Owned(t)' <=> Owned(t)
    BY <2>2, <2>3, <2>4 DEF Owned, Safe
  <2>6. \A r, v \in Senders(t)' : r = v
    BY <2>2, <2>3 DEF Safe
  <2>. QED  BY <2>1, <2>2, <2>4, <2>5, <2>6 DEF Safe
<1>. QED  BY <1>2, <1>3, <1>4, <1>5, <1>6 DEF Poll

\* The goroutines: the owner writes the outcome and is done.
LEMMA DispatchKeepsSafe ==
  ASSUME Accounting, Ownership, Dispatch, NEW t \in TaskIds, born'[t] <= 1
  PROVE  Safe(t)'
<1>. USE DEF tables, poll, pool, history, accounts
<1>1. /\ tasks \in [TaskIds -> TaskRow] /\ faults \in Nat
      /\ dpc \in [Slots -> {"idle", "sending", "recorded", "uncounted"}]
      /\ job \in [Slots -> Job \cup {None}]
  BY DEF Accounting, TypeOK
<1>2. ASSUME NEW s \in Slots, Uncount(s) \/ Release(s)
      PROVE  Safe(t)'
  <2>1. /\ tasks' = tasks /\ born' = born /\ worker' = worker /\ claimed' = claimed
        /\ pending' = pending /\ faults' = faults
    BY <1>2 DEF Uncount, Release
  <2>2. Senders(t)' = Senders(t)
    BY <1>1, <1>2 DEF Uncount, Release, Senders
  <2>. QED  BY <2>1, <2>2, QuietStep DEF Ownership
<1>3. ASSUME NEW s \in Slots, Complete(s) \/ RetryOrFail(s) \/ LoseOutcome(s)
      PROVE  Safe(t)'
  <2>. DEFINE u == job[s].task
  <2>1. /\ dpc[s] = "sending" /\ u \in TaskIds /\ dpc' = [dpc EXCEPT ![s] = "recorded"]
        /\ UNCHANGED <<job, worker, pc, pending, claimed, born>>
    BY <1>3, OutcomeTyped DEF Accounting, Job
  <2>2. Safe(t)
    BY <2>1 DEF Ownership
  <2>3. Senders(t)' = Senders(t) \ {s}
    BY <1>1, <2>1 DEF Senders
  <2>4. CASE LoseOutcome(s)
    <3>1. tasks' = tasks /\ faults' # 0
      BY <1>1, <2>4 DEF LoseOutcome, Fault
    <3>2. Owned(t)' => Owned(t)
      BY <2>1, <2>3 DEF Owned
    <3>. QED  BY <2>1, <2>2, <2>3, <3>1, <3>2 DEF Safe
  <2>5. CASE t # u
    <3>1. tasks'[t] = tasks[t]
      BY <1>1, <1>3, <2>1, <2>5
         DEF Complete, RetryOrFail, LoseOutcome, UpdateStatus, UpdateRetry
    <3>2. Senders(t)' = Senders(t)
      BY <2>3, <2>5 DEF Senders
    <3>3. faults' = 0 => faults = 0
      BY <1>1, <1>3 DEF Complete, RetryOrFail, LoseOutcome, Fault
    <3>. QED  BY <2>1, <2>2, <3>1, <3>2, <3>3, QuietStep
  <2>6. CASE t = u /\ (Complete(s) \/ RetryOrFail(s))
    <3>1. s \in Senders(t)
      BY <2>1, <2>6 DEF Senders
    <3>2. /\ Senders(t)' = {} /\ claimed # t /\ Owned(t) /\ born[t] # 0
          /\ tasks[t].status \in {"RUNNING", "ABSENT"} /\ t \notin pending
          /\ tasks[t].wait = 0
      <4>1. Owned(t)
        BY <3>1 DEF Owned
      <4>2. claimed # t
        BY <2>2, <3>1 DEF Safe
      <4>. QED  BY <2>2, <2>3, <3>1, <4>1, <4>2 DEF Safe
    <3>3. CASE ~TaskExists(tasks, t)
      <4>1. tasks' = tasks
        BY <2>6, <3>3 DEF Complete, RetryOrFail, UpdateStatus, UpdateRetry
      <4>2. tasks[t].status = "ABSENT"
        BY <3>3 DEF TaskExists
      <4>. QED  BY <2>1, <3>2, <4>1, <4>2 DEF Safe, Owned
    <3>4. CASE TaskExists(tasks, t)
      <4>1. /\ tasks'[t].status \in {"COMPLETED", "FAILED", "PENDING"}
            /\ tasks'[t].status # "PENDING" => tasks'[t].wait = tasks[t].wait
        <5>1. CASE Complete(s)
          <6>1. tasks' = [tasks EXCEPT ![t].status = "COMPLETED"]
            BY <2>6, <3>4, <5>1 DEF Complete, UpdateStatus
          <6>. QED  BY <1>1, <6>1 DEF TaskRow
        <5>2. CASE RetryOrFail(s)
          <6>1. \/ tasks' = [tasks EXCEPT ![t].status = "FAILED"]
                \/ \E n, w : tasks' = [tasks EXCEPT ![t] =
                                        [status |-> "PENDING", retry |-> n, wait |-> w]]
            BY <2>6, <3>4, <5>2 DEF RetryOrFail, UpdateStatus, UpdateRetry
          <6>. QED  BY <1>1, <6>1 DEF TaskRow
        <5>. QED  BY <2>6, <5>1, <5>2
      <4>. QED  BY <2>1, <3>2, <4>1 DEF Safe, Owned
    <3>. QED  BY <3>3, <3>4
  <2>. QED  BY <1>3, <2>4, <2>5, <2>6
<1>. QED  BY <1>2, <1>3 DEF Dispatch

-----------------------------------------------------------------------------
\* No name was inserted at first.
LEMMA OwnershipInit == Init => Ownership
<1>. SUFFICES ASSUME Init, NEW t \in TaskIds PROVE Safe(t)
  BY DEF Ownership
<1>1. /\ tasks[t].status = "ABSENT" /\ tasks[t].wait = 0 /\ claimed = None
      /\ pending = {} /\ worker = "down"
  BY DEF Init, NoTask
<1>2. Senders(t) = {}
  BY DEF Init, Senders
<1>. QED  BY <1>1, <1>2 DEF Safe, Owned

\* Ownership is inductive, given the accounting.
LEMMA OwnershipStep == Accounting /\ Ownership /\ [Next]_vars => Ownership'
<1>. SUFFICES ASSUME Accounting, Ownership, [Next]_vars, NEW t \in TaskIds, born'[t] <= 1
              PROVE  Safe(t)'
  BY DEF Ownership
<1>1. CASE UNCHANGED vars
  <2>1. /\ tasks' = tasks /\ born' = born /\ claimed' = claimed /\ pending' = pending
        /\ worker' = worker /\ faults' = faults /\ Senders(t)' = Senders(t)
    BY <1>1 DEF vars, tables, poll, pool, history, accounts, Senders
  <2>. QED  BY <2>1, QuietStep DEF Ownership
<1>. QED
  BY <1>1, ApiKeepsSafe, ProcessKeepsSafe, PollKeepsSafe, DispatchKeepsSafe DEF Next

\* Both invariants, always.
LEMMA OwnershipAlways == Spec => [](Accounting /\ Ownership)
BY AccountingAlways, OwnershipInit, OwnershipStep, PTL DEF Spec

\* A task inserted once is sent by one goroutine at a time, and not while the
\* poller holds a claim on it: Claim is the only way to RUNNING, and Run and
\* Retry leave a RUNNING row alone.
THEOREM OneDispatchAtATime == Spec => []AtMostOneDispatch
<1>1. Ownership => AtMostOneDispatch
  BY DEF Ownership, Safe, AtMostOneDispatch
<1>. QED  BY <1>1, OwnershipAlways, PTL

\* While no statement of the worker fails, a RUNNING row has somebody who will
\* record its outcome.
THEOREM RunningIsOwned == Spec => []RunningOwned
<1>1. Ownership => RunningOwned
  BY DEF Ownership, Safe, Owned, RunningOwned
<1>. QED  BY <1>1, OwnershipAlways, PTL

-----------------------------------------------------------------------------
(* What a step may do to the row of a task.                                *)

\* A step that does not claim t and records no outcome of it leaves its row,
\* deletes it, inserts it, re-queues it or lets time go by.
LEMMA RowSteps ==
  ASSUME Accounting, [Next]_vars, NEW t \in TaskIds, TaskExists(tasks, t)
  PROVE  \/ tasks'[t] \in {tasks[t], NoTask}
         \/ RunTask(t)
         \/ Recover \/ Tick
         \/ PollClaim(t)
         \/ \E s \in Senders(t) : Complete(s) \/ RetryOrFail(s)
<1>. USE DEF tables, poll, pool, history, accounts
<1>1. tasks \in [TaskIds -> TaskRow]
  BY DEF Accounting, TypeOK
<1>2. CASE Api
  <2>1. CASE \E u \in TaskIds : RunTask(u)
    <3>1. PICK u \in TaskIds : RunTask(u)
      BY <2>1
    <3>2. u # t => tasks'[t] = tasks[t]
      BY <1>1, <3>1 DEF RunTask, SetNextAttemptNow
    <3>. QED  BY <3>1, <3>2
  <2>2. CASE \E c \in Clients : CreateTaskInsert(c)
    <3>1. tasks'[t] = tasks[t]
      BY <1>1, <2>2 DEF CreateTaskInsert, TaskCreate
    <3>. QED  BY <3>1
  <2>3. CASE \/ \E q \in Queues : \/ CreateQueue(q) \/ DeleteQueue(q) \/ PauseQueue(q)
                                  \/ ResumeQueue(q) \/ UpdateQueue(q)
             \/ \E u \in TaskIds : DeleteTask(u)
             \/ \E c \in Clients : \/ \E q \in Queues : PurgeGet(c, q)
                                   \/ PurgeDelete(c)
                                   \/ \E u \in TaskIds : CreateTaskGetQueue(c, u)
                                   \/ CreateTaskMakeQueue(c)
    <3>1. tasks' = tasks \/ \E S : tasks' = TaskDelete(tasks, S)
      BY <2>3 DEF CreateQueue, DeleteQueue, PauseQueue, ResumeQueue, UpdateQueue, DeleteTask,
                  PurgeGet, PurgeDelete, CreateTaskGetQueue, CreateTaskMakeQueue
    <3>. QED  BY <1>1, <3>1 DEF TaskDelete
  <2>. QED  BY <1>2, <2>1, <2>2, <2>3 DEF Api
<1>3. CASE Process
  BY <1>3 DEF Process, Start, RecoverFails, Crash
<1>4. CASE Poll
  <2>1. CASE \E u \in TaskIds : PollClaim(u)
    <3>1. PICK u \in TaskIds : PollClaim(u)
      BY <2>1
    <3>2. u # t => tasks'[t] = tasks[t]
      BY <1>1, <3>1 DEF PollClaim, Claim
    <3>. QED  BY <3>1, <3>2
  <2>2. CASE \/ PollStart \/ PollQueue \/ PollLimit \/ PollListError \/ PollDone
             \/ \E T \in SUBSET TaskIds : PollList(T)
             \/ \E u \in TaskIds : PollMiss(u) \/ PollClaimError(u)
             \/ \E s \in Slots : PollSpawn(s)
    <3>1. tasks' = tasks
      BY <2>2 DEF PollStart, PollQueue, PollLimit, PollListError, PollDone, PollList, PollMiss,
                  PollClaimError, PollSpawn
    <3>. QED  BY <3>1
  <2>. QED  BY <1>4, <2>1, <2>2 DEF Poll
<1>5. CASE Dispatch
  <2>1. ASSUME NEW s \in Slots, Complete(s) \/ RetryOrFail(s)
        PROVE  s \in Senders(t) \/ tasks'[t] = tasks[t]
    <3>1. dpc[s] = "sending"
      BY <2>1 DEF Complete, RetryOrFail, Recorded
    <3>2. CASE job[s].task = t
      BY <3>1, <3>2 DEF Senders
    <3>3. CASE job[s].task # t
      BY <1>1, <2>1, <3>3 DEF Complete, RetryOrFail, UpdateStatus, UpdateRetry
    <3>. QED  BY <3>2, <3>3
  <2>2. ASSUME NEW s \in Slots, LoseOutcome(s) \/ Uncount(s) \/ Release(s)
        PROVE  tasks' = tasks
    BY <2>2 DEF LoseOutcome, Uncount, Release
  <2>. QED  BY <1>5, <2>1, <2>2 DEF Dispatch
<1>6. CASE UNCHANGED vars
  BY <1>6 DEF vars
<1>. QED  BY <1>2, <1>3, <1>4, <1>5, <1>6 DEF Next

\* A task inserted once is never claimed before it is due: between the query
\* and the claim nothing can make its row wait.
THEOREM NeverClaimedEarly == Spec => NeverEarly
<1>1. ASSUME Accounting, Ownership, [Next]_vars
      PROVE  \A t \in TaskIds :
               (born[t] = 1 /\ tasks[t].status = "PENDING" /\ tasks'[t].status = "RUNNING")
                 => tasks[t].wait = 0
  <2>. SUFFICES ASSUME NEW t \in TaskIds, born[t] = 1, tasks[t].status = "PENDING",
                       tasks'[t].status = "RUNNING"
                PROVE  tasks[t].wait = 0
    OBVIOUS
  <2>1. TaskExists(tasks, t) /\ Safe(t) /\ tasks \in [TaskIds -> TaskRow]
    BY <1>1 DEF TaskExists, Ownership, Accounting, TypeOK
  <2>2. tasks'[t] \notin {tasks[t], NoTask}
    BY DEF NoTask
  <2>3. Senders(t) = {}
    BY <2>1 DEF Safe, Owned
  <2>4. ~RunTask(t)
    BY <2>1, SMTT(30) DEF RunTask, SetNextAttemptNow, TaskRow
  <2>5. ~Recover
    BY <2>1 DEF Recover, RecoverRunning
  <2>6. ~Tick
    BY <2>1, SMTT(30) DEF Tick, Elapse, TaskRow
  <2>7. PollClaim(t)
    BY <1>1, <2>1, <2>2, <2>3, <2>4, <2>5, <2>6, RowSteps
  <2>. QED  BY <2>1, <2>7 DEF PollClaim, Safe
<1>. QED  BY <1>1, OwnershipAlways, PTL DEF Spec, NeverEarly

\* A finished task stays as it is until it is deleted or run again by request.
THEOREM FinishedTasksStay == Spec => FinishedStays
<1>1. ASSUME Accounting, Ownership, [Next]_vars
      PROVE  \A t \in TaskIds :
               (born[t] = 1 /\ tasks[t].status \in {"COMPLETED", "FAILED"} /\ tasks'[t] # tasks[t])
                 => tasks'[t] \in {NoTask, [status |-> "PENDING", retry |-> 0, wait |-> 0]}
  <2>. SUFFICES ASSUME NEW t \in TaskIds, born[t] = 1,
                       tasks[t].status \in {"COMPLETED", "FAILED"}, tasks'[t] # tasks[t]
                PROVE  tasks'[t] \in {NoTask, [status |-> "PENDING", retry |-> 0, wait |-> 0]}
    OBVIOUS
  <2>1. TaskExists(tasks, t) /\ Safe(t) /\ tasks \in [TaskIds -> TaskRow]
    BY <1>1 DEF TaskExists, Ownership, Accounting, TypeOK
  <2>2. Senders(t) = {} /\ ~PollClaim(t)
    BY <2>1 DEF Safe, Owned, PollClaim, Claims
  <2>3. ~Recover
    BY <2>1 DEF Recover, RecoverRunning
  <2>4. ~Tick
    <3>1. tasks[t].wait = 0
      BY <2>1 DEF Safe
    <3>2. [tasks[t] EXCEPT !.wait = 0] = tasks[t]
      BY <2>1, <3>1 DEF TaskRow
    <3>. QED  BY <2>1, <3>1, <3>2 DEF Tick, Elapse
  <2>5. RunTask(t) => tasks'[t] = [status |-> "PENDING", retry |-> 0, wait |-> 0]
    BY <2>1 DEF RunTask, SetNextAttemptNow
  <2>. QED  BY <1>1, <2>1, <2>2, <2>3, <2>4, <2>5, RowSteps
<1>. QED  BY <1>1, OwnershipAlways, PTL DEF Spec, FinishedStays
=============================================================================
