--------------------------- MODULE LifecycleProofs ---------------------------
(***************************************************************************)
(* Proofs about the retry counts of a task, on top of the ownership of its *)
(* row: the number of attempts it reports is exact, and CloudTasks         *)
(* implements TaskLifecycle.                                               *)
(***************************************************************************)
EXTENDS OwnershipProofs

USE TaskStoreAssumption, QueueStoreAssumption, CloudTasksAssumption

\* A copy of t's retry count that the poller or a goroutine will write back.
Copies(t) ==
  {job[s].retry : s \in Senders(t)} \cup (IF t \in pending \cup {claimed} THEN {seen[t]} ELSE {})

\* The inductive invariant, for one task.  A copy is as old as the listing, and
\* is still the count of the row.
Tally(t) ==
  /\ tasks[t].retry <= MaxRetries
  /\ tasks[t].status = "ABSENT" => tasks[t].retry = 0
  /\ tasks[t].status = "FAILED" => tasks[t].retry = MaxRetries
  /\ TaskExists(tasks, t) => Copies(t) \subseteq {tasks[t].retry}
  /\ crashes = 0 =>
       /\ tasks[t].status = "RUNNING" => worker = "running"
       /\ TaskExists(tasks, t) => Attempts(tasks[t]) = sent[t]

Tallied == \A t \in TaskIds : born[t] <= 1 => Tally(t)

-----------------------------------------------------------------------------
(* What a step may do to the table, and to the copies.                     *)

\* The insert of CreateTask wins.
Inserted(t) ==
  /\ ~TaskExists(tasks, t)
  /\ \E w \in ScheduleDelays :
       tasks' = [tasks EXCEPT ![t] = [status |-> "PENDING", retry |-> 0, wait |-> w]]
  /\ born' = [born EXCEPT ![t] = @ + 1]
  /\ sent' = [sent EXCEPT ![t] = 0]
  /\ UNCHANGED <<worker, poll, pool, accounts>>

\* What a step may do to the tasks: every other step leaves them alone.
LEMMA TableSteps ==
  ASSUME Accounting, [Next]_vars
  PROVE  \/ UNCHANGED <<tasks, history>>
         \/ (\E S : tasks' = TaskDelete(tasks, S)) /\ UNCHANGED history
         \/ \E t \in TaskIds : Inserted(t) \/ RunTask(t) \/ PollClaim(t)
         \/ Recover \/ Tick
         \/ \E s \in Slots : Complete(s) \/ RetryOrFail(s)
<1>. USE DEF tables, poll, pool, history, accounts
<1>1. CASE Api
  <2>1. ASSUME NEW c \in Clients, CreateTaskInsert(c)
        PROVE  UNCHANGED <<tasks, history>> \/ \E t \in TaskIds : Inserted(t)
    <3>1. req[c].step = "insert" /\ req[c] \in Requests
      BY <2>1 DEF CreateTaskInsert, Accounting, TypeOK
    <3>2. req[c].task \in TaskIds
      BY <3>1 DEF Requests, NoReq
    <3>. QED  BY <2>1, <3>2 DEF CreateTaskInsert, Inserted, TaskCreate
  <2>2. CASE \/ \E q \in Queues : \/ CreateQueue(q) \/ DeleteQueue(q) \/ PauseQueue(q)
                                  \/ ResumeQueue(q) \/ UpdateQueue(q)
             \/ \E u \in TaskIds : DeleteTask(u)
             \/ \E c \in Clients : \/ \E q \in Queues : PurgeGet(c, q)
                                   \/ PurgeDelete(c)
                                   \/ \E u \in TaskIds : CreateTaskGetQueue(c, u)
                                   \/ CreateTaskMakeQueue(c)
    BY <2>2 DEF CreateQueue, DeleteQueue, PauseQueue, ResumeQueue, UpdateQueue, DeleteTask,
                PurgeGet, PurgeDelete, CreateTaskGetQueue, CreateTaskMakeQueue
  <2>3. CASE \E u \in TaskIds : RunTask(u)
    BY <2>3
  <2>4. CASE \E c \in Clients : CreateTaskInsert(c)
    BY <2>1, <2>4
  <2>. QED  BY <1>1, <2>2, <2>3, <2>4 DEF Api
<1>2. CASE Process
  BY <1>2 DEF Process, Start, RecoverFails, Crash
<1>3. CASE Poll
  <2>1. CASE \/ PollStart \/ PollQueue \/ PollLimit \/ PollListError \/ PollDone
             \/ \E T \in SUBSET TaskIds : PollList(T)
             \/ \E u \in TaskIds : PollMiss(u) \/ PollClaimError(u)
             \/ \E s \in Slots : PollSpawn(s)
    BY <2>1 DEF PollStart, PollQueue, PollLimit, PollListError, PollDone, PollList, PollMiss,
                PollClaimError, PollSpawn
  <2>. QED  BY <1>3, <2>1 DEF Poll
<1>4. CASE Dispatch
  <2>1. ASSUME NEW s \in Slots, LoseOutcome(s) \/ Uncount(s) \/ Release(s)
        PROVE  UNCHANGED <<tasks, history>>
    BY <2>1 DEF LoseOutcome, Recorded, Uncount, Release
  <2>. QED  BY <1>4, <2>1 DEF Dispatch
<1>5. CASE UNCHANGED vars
  BY <1>5 DEF vars
<1>. QED  BY <1>1, <1>2, <1>3, <1>4, <1>5 DEF Next

\* New copies are made by the query alone, of the row as it is.
LEMMA CopySteps ==
  ASSUME Accounting, [Next]_vars, NEW t \in TaskIds
  PROVE  Copies(t)' \subseteq Copies(t) \cup {tasks[t].retry}
<1>. USE DEF tables, poll, pool, history, accounts
<1>1. /\ dpc \in [Slots -> {"idle", "sending", "recorded", "uncounted"}]
      /\ job \in [Slots -> Job \cup {None}] /\ seen \in [TaskIds -> Nat]
  BY DEF Accounting, TypeOK
<1>2. CASE UNCHANGED <<pending, claimed, seen, dpc, job>>
  BY <1>2 DEF Copies, Senders
<1>3. CASE Api
  BY <1>2, <1>3, ApiTyped DEF Accounting
<1>4. CASE Crash
  <2>1. Senders(t)' = {} /\ pending' = {} /\ claimed' = None
    BY <1>4 DEF Crash, Return, Senders
  <2>. QED  BY <2>1 DEF Copies
<1>5. CASE Start \/ Recover \/ RecoverFails \/ Tick \/ UNCHANGED vars
  BY <1>2, <1>5 DEF Start, Recover, RecoverFails, Tick, vars
<1>6. CASE PollStart \/ PollQueue \/ PollLimit \/ PollListError \/ PollDone
  <2>1. /\ UNCHANGED <<dpc, job>> /\ pc # "spawn" /\ claimed' \in {claimed, None}
        /\ pending' = {} \/ UNCHANGED <<pending, seen>>
    BY <1>6 DEF PollStart, PollQueue, PollLimit, PollListError, PollDone, NextQueue, Return
  <2>2. claimed = None /\ claimed' = None
    BY <2>1 DEF Accounting, Shape
  <2>3. Senders(t)' = Senders(t)
    BY <2>1 DEF Senders
  <2>. QED  BY <2>1, <2>2, <2>3 DEF Copies
<1>7. ASSUME NEW T \in SUBSET TaskIds, PollList(T)
      PROVE  Copies(t)' \subseteq Copies(t) \cup {tasks[t].retry}
  <2>1. /\ pending' = T /\ UNCHANGED <<dpc, job, claimed>> /\ claimed = None
        /\ t \in T => seen'[t] = tasks[t].retry
    BY <1>7 DEF PollList, Accounting, Shape
  <2>2. Senders(t)' = Senders(t)
    BY <2>1 DEF Senders
  <2>. QED  BY <2>1, <2>2 DEF Copies
<1>8. ASSUME NEW u \in TaskIds, PollMiss(u) \/ PollClaimError(u) \/ PollClaim(u)
      PROVE  Copies(t)' \subseteq Copies(t) \cup {tasks[t].retry}
  <2>1. /\ UNCHANGED <<dpc, job, seen>> /\ pending' \subseteq pending
        /\ claimed' = claimed \/ claimed' \in pending
    BY <1>8 DEF PollMiss, PollClaimError, PollClaim
  <2>2. Senders(t)' = Senders(t)
    BY <2>1 DEF Senders
  <2>. QED  BY <2>1, <2>2 DEF Copies
<1>9. ASSUME NEW s \in Slots, PollSpawn(s)
      PROVE  Copies(t)' \subseteq Copies(t) \cup {tasks[t].retry}
  <2>1. /\ dpc[s] = "idle" /\ dpc' = [dpc EXCEPT ![s] = "sending"]
        /\ job' = [job EXCEPT ![s] = [task |-> claimed, retry |-> seen[claimed]]]
        /\ claimed' = None /\ UNCHANGED <<pending, seen>>
    BY <1>9 DEF PollSpawn
  <2>2. Senders(t)' = IF claimed = t THEN Senders(t) \cup {s} ELSE Senders(t)
    BY <1>1, <2>1 DEF Senders
  <2>3. s \notin Senders(t) /\ \A r \in Slots \ {s} : job'[r] = job[r]
    BY <1>1, <2>1 DEF Senders
  <2>4. job'[s].retry = seen[claimed]
    BY <1>1, <2>1
  <2>5. Senders(t) \subseteq Slots
    BY DEF Senders
  <2>6. {job'[r].retry : r \in Senders(t)'}
          \subseteq {job[r].retry : r \in Senders(t)} \cup (IF claimed = t THEN {seen[t]} ELSE {})
    BY <2>2, <2>3, <2>4, <2>5
  <2>. QED  BY <2>1, <2>6 DEF Copies
<1>10. ASSUME NEW s \in Slots,
              Complete(s) \/ RetryOrFail(s) \/ LoseOutcome(s) \/ Uncount(s) \/ Release(s)
       PROVE  Copies(t)' \subseteq Copies(t) \cup {tasks[t].retry}
  <2>1. /\ UNCHANGED <<pending, claimed, seen>>
        /\ \E p \in {"recorded", "uncounted", "idle"} : dpc' = [dpc EXCEPT ![s] = p]
        /\ \A r \in Slots \ {s} : job'[r] = job[r]
    BY <1>1, <1>10 DEF Complete, RetryOrFail, LoseOutcome, Recorded, Uncount, Release
  <2>2. Senders(t)' \subseteq Senders(t) \ {s}
    BY <1>1, <2>1 DEF Senders
  <2>3. \A r \in Senders(t)' : r \in Senders(t) /\ job'[r] = job[r]
    BY <2>1, <2>2 DEF Senders
  <2>. QED  BY <2>1, <2>3 DEF Copies
<1>. QED
  BY <1>3, <1>4, <1>5, <1>6, <1>7, <1>8, <1>9, <1>10 DEF Next, Process, Poll, Dispatch

\* Only a crash ends the worker.
LEMMA CrashSteps ==
  ASSUME Accounting, [Next]_vars
  PROVE  crashes' = 0 => crashes = 0 /\ (worker = "running" => worker' = "running")
<1>. USE DEF tables, poll, pool, history, accounts
<1>1. crashes \in Nat
  BY DEF Accounting, TypeOK
<1>2. CASE Api
  BY <1>2, ApiTyped DEF Accounting
<1>3. CASE Process
  BY <1>1, <1>3 DEF Process, Start, Recover, RecoverFails, Crash, Tick
<1>4. CASE Poll
  BY <1>4 DEF Poll, PollStart, PollQueue, PollLimit, PollListError, PollDone, PollList, PollMiss,
              PollClaimError, PollClaim, PollSpawn
<1>5. CASE Dispatch
  BY <1>5 DEF Dispatch, Complete, RetryOrFail, LoseOutcome, Recorded, Uncount, Release
<1>6. CASE UNCHANGED vars
  BY <1>6 DEF vars
<1>. QED  BY <1>2, <1>3, <1>4, <1>5, <1>6 DEF Next

-----------------------------------------------------------------------------
\* A step that keeps the retry count of a row, and its status or deletes it.
LEMMA TallyKept ==
  ASSUME Accounting, [Next]_vars, NEW t \in TaskIds, Tally(t),
         \/ tasks'[t] = NoTask
         \/ tasks'[t].status = tasks[t].status /\ tasks'[t].retry = tasks[t].retry,
         sent'[t] = sent[t] \/ ~TaskExists(tasks, t)'
  PROVE  Tally(t)'
<1>1. NoTask.status = "ABSENT" /\ NoTask.retry = 0
  BY DEF NoTask
<1>2. Copies(t)' \subseteq Copies(t) \cup {tasks[t].retry}
  BY CopySteps
<1>3. crashes' = 0 => crashes = 0 /\ (worker = "running" => worker' = "running")
  BY CrashSteps
<1>4. CASE tasks'[t] = NoTask
  BY <1>1, <1>4 DEF Tally, TaskExists
<1>5. CASE tasks'[t].status = tasks[t].status /\ tasks'[t].retry = tasks[t].retry
  <2>1. Attempts(tasks'[t]) = Attempts(tasks[t]) /\ TaskExists(tasks, t)' = TaskExists(tasks, t)
    BY <1>5 DEF Attempts, TaskExists
  <2>. QED  BY <1>2, <1>3, <1>5, <2>1 DEF Tally
<1>. QED  BY <1>4, <1>5

\* The tally of a task inserted once survives every step.
LEMMA TallyStep ==
  ASSUME Accounting, Ownership, Tallied, [Next]_vars, NEW t \in TaskIds, born'[t] <= 1
  PROVE  Tally(t)'
<1>. USE DEF tables, poll, pool, history, accounts
<1>1. /\ tasks \in [TaskIds -> TaskRow] /\ tasks[t] \in TaskRow
      /\ born \in [TaskIds -> Nat] /\ sent \in [TaskIds -> Nat]
  BY DEF Accounting, TypeOK
<1>2. CASE UNCHANGED <<tasks, history>>
  BY <1>2, TallyKept DEF Tallied
<1>3. CASE (\E S : tasks' = TaskDelete(tasks, S)) /\ UNCHANGED history
  <2>1. tasks'[t] \in {tasks[t], NoTask}
    BY <1>3 DEF TaskDelete
  <2>. QED  BY <1>3, <2>1, TallyKept DEF Tallied
<1>4. ASSUME NEW u \in TaskIds, Inserted(u)
      PROVE  Tally(t)'
  <2>1. CASE t # u
    BY <1>1, <1>4, <2>1, TallyKept DEF Inserted, Tallied
  <2>2. CASE t = u
    <3>1. /\ tasks'[t].status = "PENDING" /\ tasks'[t].retry = 0 /\ sent'[t] = 0
          /\ born'[t] = born[t] + 1 /\ UNCHANGED <<poll, pool>>
      BY <1>1, <1>4, <2>2 DEF Inserted
    <3>2. born[t] = 0
      BY <1>1, <3>1
    <3>3. ~Owned(t) /\ t \notin pending
      BY <3>2 DEF Ownership, Safe
    <3>4. Copies(t)' = {}
      BY <3>1, <3>3 DEF Copies, Owned, Senders
    <3>. QED  BY <3>1, <3>4 DEF Tally, Attempts, TaskExists
  <2>. QED  BY <2>1, <2>2
<1>5. ASSUME NEW u \in TaskIds, RunTask(u)
      PROVE  Tally(t)'
  <2>1. CASE t # u
    <3>1. tasks'[t] = tasks[t] /\ sent'[t] = sent[t] /\ born'[t] = born[t]
      BY <1>1, <1>5, <2>1 DEF RunTask, SetNextAttemptNow
    <3>. QED  BY <3>1, TallyKept DEF Tallied
  <2>2. CASE t = u /\ tasks[t].status \notin {"FAILED", "COMPLETED"}
    <3>1. /\ tasks'[t].status = tasks[t].status /\ tasks'[t].retry = tasks[t].retry
          /\ sent' = sent /\ born' = born
      BY <1>1, <1>5, <2>2 DEF RunTask, SetNextAttemptNow, TaskRow
    <3>. QED  BY <3>1, TallyKept DEF Tallied
  <2>3. CASE t = u /\ tasks[t].status \in {"FAILED", "COMPLETED"}
    <3>1. /\ tasks'[t] = [status |-> "PENDING", retry |-> 0, wait |-> 0] /\ sent'[t] = 0
          /\ born' = born /\ UNCHANGED <<poll, pool>>
      BY <1>1, <1>5, <2>3 DEF RunTask, SetNextAttemptNow
    <3>2. ~Owned(t) /\ t \notin pending
      BY <2>3, <3>1 DEF Ownership, Safe
    <3>3. Copies(t)' = {}
      BY <3>1, <3>2 DEF Copies, Owned, Senders
    <3>. QED  BY <3>1, <3>3 DEF Tally, Attempts, TaskExists
  <2>. QED  BY <2>1, <2>2, <2>3
<1>6. ASSUME NEW u \in TaskIds, PollClaim(u)
      PROVE  Tally(t)'
  <2>1. CASE t # u
    <3>1. tasks'[t] = tasks[t] /\ sent'[t] = sent[t] /\ born'[t] = born[t]
      BY <1>1, <1>6, <2>1 DEF PollClaim, Claim
    <3>. QED  BY <3>1, TallyKept DEF Tallied
  <2>2. CASE t = u
    <3>1. /\ tasks[t].status = "PENDING" /\ tasks'[t].status = "RUNNING"
          /\ tasks'[t].retry = tasks[t].retry /\ sent'[t] = sent[t] + 1 /\ born' = born
          /\ worker' = worker /\ crashes' = crashes /\ pc = "claim"
      BY <1>1, <1>6, <2>2 DEF PollClaim, Claim, Claims, TaskRow
    <3>2. worker = "running"
      BY <3>1 DEF Accounting, TypeOK, Shape
    <3>3. Copies(t)' \subseteq Copies(t) \cup {tasks[t].retry} /\ Tally(t)
      BY <3>1, CopySteps DEF Tallied
    <3>4. Attempts(tasks'[t]) = Attempts(tasks[t]) + 1
      BY <3>1 DEF Attempts
    <3>. QED  BY <3>1, <3>2, <3>3, <3>4 DEF Tally, TaskExists
  <2>. QED  BY <2>1, <2>2
<1>7. CASE Recover
  <2>1. CASE tasks[t].status # "RUNNING"
    BY <1>1, <1>7, <2>1, TallyKept DEF Recover, RecoverRunning, Tallied
  <2>2. CASE tasks[t].status = "RUNNING"
    <3>1. /\ tasks'[t].status = "PENDING" /\ tasks'[t].retry = tasks[t].retry
          /\ born' = born /\ worker = "starting" /\ crashes' = crashes
      BY <1>1, <1>7, <2>2 DEF Recover, RecoverRunning, TaskRow
    <3>2. Tally(t) /\ crashes # 0
      BY <2>2, <3>1 DEF Tallied, Tally
    <3>3. Copies(t)' \subseteq Copies(t) \cup {tasks[t].retry}
      BY CopySteps
    <3>. QED  BY <2>2, <3>1, <3>2, <3>3 DEF Tally, TaskExists
  <2>. QED  BY <2>1, <2>2
<1>8. CASE Tick
  <2>1. tasks'[t] = [tasks[t] EXCEPT !.wait = IF tasks[t].wait > 0 THEN tasks[t].wait - 1 ELSE 0]
    BY <1>8 DEF Tick, Elapse
  <2>2. tasks'[t].status = tasks[t].status /\ tasks'[t].retry = tasks[t].retry
    BY <1>1, <2>1 DEF TaskRow
  <2>. QED  BY <1>8, <2>2, TallyKept DEF Tick, Tallied
<1>9. ASSUME NEW s \in Slots, Complete(s) \/ RetryOrFail(s)
      PROVE  Tally(t)'
  <2>1. /\ dpc[s] = "sending" /\ job[s].task \in TaskIds /\ job[s].retry \in Nat
        /\ dpc' = [dpc EXCEPT ![s] = "recorded"]
        /\ UNCHANGED <<job, worker, poll, history, accounts>>
    BY <1>9, OutcomeTyped DEF Accounting, Job, Complete, RetryOrFail
  <2>2. CASE job[s].task # t \/ ~TaskExists(tasks, t)
    <3>1. tasks'[t] = tasks[t]
      BY <1>1, <1>9, <2>2 DEF Complete, RetryOrFail, UpdateStatus, UpdateRetry
    <3>. QED  BY <2>1, <3>1, TallyKept DEF Tallied
  <2>3. CASE job[s].task = t /\ TaskExists(tasks, t)
    <3>1. s \in Senders(t) /\ Safe(t) /\ Tally(t)
      BY <2>1, <2>3 DEF Senders, Ownership, Tallied
    <3>2. /\ job[s].retry = tasks[t].retry /\ tasks[t].status = "RUNNING"
          /\ t \notin pending /\ claimed # t
      <4>1. job[s].retry \in Copies(t)
        BY <3>1 DEF Copies
      <4>. QED  BY <2>3, <3>1, <4>1 DEF Tally, Safe, Owned, TaskExists
    <3>3. Senders(t)' = {}
      <4>1. dpc'[s] = "recorded"
        BY <2>1, <1>9 DEF Accounting, TypeOK
      <4>2. Senders(t)' \subseteq Senders(t) \ {s}
        BY <2>1, <4>1 DEF Senders, Accounting, TypeOK
      <4>. QED  BY <3>1, <4>2 DEF Safe
    <3>4. Copies(t)' = {}
      BY <2>1, <3>2, <3>3 DEF Copies
    <3>5. crashes' = crashes /\ sent' = sent /\ sent[t] \in Nat /\ tasks[t].retry \in Nat
      BY <1>1, <2>1 DEF TaskRow
    <3>6. crashes = 0 => sent[t] = tasks[t].retry + 1
      BY <2>3, <3>1, <3>2 DEF Tally, Attempts
    <3>7. CASE Complete(s)
      <4>1. tasks'[t].status = "COMPLETED" /\ tasks'[t].retry = tasks[t].retry
        BY <1>1, <2>3, <3>7 DEF Complete, UpdateStatus, TaskRow
      <4>. QED  BY <3>1, <3>4, <3>5, <3>6, <4>1 DEF Tally, Attempts, TaskExists
    <3>8. CASE RetryOrFail(s) /\ tasks[t].retry + 1 <= MaxRetries
      <4>1. tasks'[t].status = "PENDING" /\ tasks'[t].retry = tasks[t].retry + 1
        BY <1>1, <2>3, <3>2, <3>8 DEF RetryOrFail, UpdateRetry
      <4>. QED  BY <3>4, <3>5, <3>6, <3>8, <4>1 DEF Tally, Attempts, TaskExists
    <3>9. CASE RetryOrFail(s) /\ ~(tasks[t].retry + 1 <= MaxRetries)
      <4>1. tasks'[t].status = "FAILED" /\ tasks'[t].retry = tasks[t].retry
        BY <1>1, <2>3, <3>2, <3>9 DEF RetryOrFail, UpdateStatus, TaskRow
      <4>2. tasks[t].retry = MaxRetries
        BY <3>1, <3>5, <3>9 DEF Tally
      <4>. QED  BY <3>4, <3>5, <3>6, <4>1, <4>2 DEF Tally, Attempts, TaskExists
    <3>. QED  BY <1>9, <3>7, <3>8, <3>9
  <2>. QED  BY <2>2, <2>3
<1>. QED
  BY <1>2, <1>3, <1>4, <1>5, <1>6, <1>7, <1>8, <1>9, TableSteps

\* The three invariants together, always.
LEMMA TalliedAlways == Spec => [](Accounting /\ Ownership /\ Tallied)
<1>1. Init => Tallied
  <2>. SUFFICES ASSUME Init, NEW t \in TaskIds PROVE Tally(t)
    BY DEF Tallied
  <2>1. tasks[t].status = "ABSENT" /\ tasks[t].retry = 0
    BY DEF Init, NoTask
  <2>. QED  BY <2>1 DEF Tally, TaskExists
<1>2. Accounting /\ Ownership /\ Tallied /\ [Next]_vars => Tallied'
  BY TallyStep DEF Tallied
<1>. QED  BY <1>1, <1>2, OwnershipAlways, PTL DEF Spec

\* Task.Attempts (tasks/model.go) counts the dispatches that were made, through
\* retries, failed statements and forced runs, and a task FAILS after
\* max_retries + 1 of them: the count a goroutine writes back was read when the
\* row was listed, and nobody can have changed it since.
THEOREM AttemptsAreExact == Spec => []AttemptsExact
<1>1. Accounting /\ Tallied => AttemptsExact
  <2>. SUFFICES ASSUME Accounting, Tallied, NEW t \in TaskIds,
                       crashes = 0, born[t] <= 1, TaskExists(tasks, t)
                PROVE  /\ Attempts(tasks[t]) = sent[t]
                       /\ tasks[t].status = "FAILED" => sent[t] = MaxRetries + 1
    BY DEF AttemptsExact
  <2>1. Tally(t)
    BY DEF Tallied
  <2>. QED  BY <2>1 DEF Tally, Attempts
<1>. QED  BY <1>1, TalliedAlways, PTL

-----------------------------------------------------------------------------
(* The refinement.                                                         *)

\* A step that is invisible, and one that moves a single task.
LEMMA LifeStutters ==
  ASSUME \A t \in TaskIds : LifeOf(t)' = LifeOf(t)
  PROVE  UNCHANGED [t \in TaskIds |-> LifeOf(t)]
OBVIOUS

\* One life that moves is a step of TaskLifecycle.
LEMMA LifeMoves ==
  ASSUME NEW t \in TaskIds, NEW from, NEW phase, NEW fails,
         LifeOf(t).phase \in from, LifeOf(t)' = [phase |-> phase, fails |-> fails],
         \A u \in TaskIds \ {t} : LifeOf(u)' = LifeOf(u)
  PROVE  Lifecycle!Move(t, from, phase, fails)
BY DEF Lifecycle!Move

\* The row of t is all that its life depends on.
LEMMA LifeSame ==
  ASSUME NEW t \in TaskIds, born'[t] = born[t],
         tasks'[t].status = tasks[t].status, tasks'[t].retry = tasks[t].retry
  PROVE  LifeOf(t)' = LifeOf(t)
BY DEF LifeOf

\* An outcome that is recorded: the row is RUNNING, or is not there any more.
LEMMA OutcomeImplements ==
  ASSUME Accounting, Ownership, Tallied, NEW s \in Slots, Complete(s) \/ RetryOrFail(s)
  PROVE  [Lifecycle!Next]_[t \in TaskIds |-> LifeOf(t)]
<1>0. PICK t \in TaskIds : job[s].task = t
  BY OutcomeTyped DEF Accounting, Job
<1>1. /\ dpc[s] = "sending" /\ job[s].task = t /\ job[s].retry \in Nat /\ born' = born
      /\ tasks \in [TaskIds -> TaskRow]
  BY <1>0, OutcomeTyped DEF Accounting, Job, history, TypeOK
<1>2. \A u \in TaskIds \ {t} : LifeOf(u)' = LifeOf(u)
  <2>. SUFFICES ASSUME NEW u \in TaskIds \ {t} PROVE LifeOf(u)' = LifeOf(u)
    OBVIOUS
  <2>1. tasks'[u] = tasks[u]
    BY <1>1 DEF Complete, RetryOrFail, UpdateStatus, UpdateRetry
  <2>. QED  BY <1>1, <2>1, LifeSame
<1>3. CASE born[t] > 1 \/ ~TaskExists(tasks, t)
  <2>1. LifeOf(t)' = LifeOf(t)
    <3>1. CASE born[t] > 1
      <4>1. ~(born[t] <= 1)
        BY <1>1, <3>1 DEF Accounting, TypeOK
      <4>. QED  BY <1>1, <4>1 DEF LifeOf
    <3>2. CASE ~TaskExists(tasks, t)
      <4>1. tasks' = tasks
        BY <1>1, <3>2 DEF Complete, RetryOrFail, UpdateStatus, UpdateRetry
      <4>. QED  BY <1>1, <4>1, LifeSame
    <3>. QED  BY <1>3, <3>1, <3>2
  <2>. QED  BY <1>2, <2>1, LifeStutters
<1>4. CASE born[t] <= 1 /\ TaskExists(tasks, t)
  <2>1. s \in Senders(t) /\ Safe(t) /\ Tally(t)
    BY <1>1, <1>4 DEF Senders, Ownership, Tallied
  <2>2. job[s].retry = tasks[t].retry /\ tasks[t].status = "RUNNING" /\ tasks[t].retry \in Nat
    <3>1. job[s].retry \in Copies(t)
      BY <2>1 DEF Copies
    <3>. QED  BY <1>1, <1>4, <2>1, <3>1 DEF Tally, Safe, Owned, TaskExists
  <2>3. LifeOf(t) = [phase |-> "sending", fails |-> tasks[t].retry]
    BY <1>4, <2>2 DEF LifeOf, Phase
  <2>4. CASE Complete(s)
    <3>1. tasks'[t].status = "COMPLETED" /\ tasks'[t].retry = tasks[t].retry
      BY <1>1, <1>4, <2>4 DEF Complete, UpdateStatus, TaskRow
    <3>2. LifeOf(t)' = [phase |-> "completed", fails |-> tasks[t].retry]
      BY <1>1, <1>4, <3>1 DEF LifeOf, Phase
    <3>3. Lifecycle!Move(t, {"sending"}, "completed", LifeOf(t).fails)
      BY <1>1, <1>2, <2>3, <3>2, LifeMoves
    <3>4. Lifecycle!Complete(t)
      BY <1>1, <3>3 DEF Lifecycle!Complete
    <3>. QED  BY <1>1, <3>4 DEF Lifecycle!Next
  <2>5. CASE RetryOrFail(s) /\ tasks[t].retry + 1 <= MaxRetries
    <3>1. tasks'[t].status = "PENDING" /\ tasks'[t].retry = tasks[t].retry + 1
      BY <1>1, <1>4, <2>2, <2>5 DEF RetryOrFail, UpdateRetry
    <3>2. LifeOf(t)' = [phase |-> "queued", fails |-> tasks[t].retry + 1]
      BY <1>1, <1>4, <3>1 DEF LifeOf, Phase
    <3>3. Lifecycle!Move(t, {"sending"}, "queued", LifeOf(t).fails + 1)
      <4>1. LifeOf(t).phase \in {"sending"} /\ LifeOf(t).fails = tasks[t].retry
        BY <2>3
      <4>2. LifeOf(t)' = [phase |-> "queued", fails |-> LifeOf(t).fails + 1]
        BY <3>2, <4>1
      <4>. QED  BY <1>2, <4>1, <4>2, LifeMoves
    <3>4. LifeOf(t).fails < MaxRetries
      BY <2>2, <2>3, <2>5
    <3>5. Lifecycle!Retry(t)
      BY <1>1, <3>3, <3>4 DEF Lifecycle!Retry
    <3>. QED  BY <1>1, <3>5 DEF Lifecycle!Next
  <2>6. CASE RetryOrFail(s) /\ ~(tasks[t].retry + 1 <= MaxRetries)
    <3>1. tasks'[t].status = "FAILED" /\ tasks'[t].retry = tasks[t].retry
      BY <1>1, <1>4, <2>2, <2>6 DEF RetryOrFail, UpdateStatus, TaskRow
    <3>2. LifeOf(t)' = [phase |-> "failed", fails |-> tasks[t].retry]
      BY <1>1, <1>4, <3>1 DEF LifeOf, Phase
    <3>3. Lifecycle!Move(t, {"sending"}, "failed", LifeOf(t).fails)
      BY <1>1, <1>2, <2>3, <3>2, LifeMoves
    <3>4. LifeOf(t).fails = MaxRetries
      BY <2>1, <2>2, <2>3, <2>6 DEF Tally
    <3>5. Lifecycle!Fail(t)
      BY <1>1, <3>3, <3>4 DEF Lifecycle!Fail
    <3>. QED  BY <1>1, <3>5 DEF Lifecycle!Next
  <2>. QED  BY <2>4, <2>5, <2>6
<1>5. born[t] \in Nat
  BY <1>1 DEF Accounting, TypeOK
<1>. QED  BY <1>3, <1>4, <1>5

\* Every step is a step of TaskLifecycle or a stutter.
LEMMA StepImplements ==
  ASSUME Accounting, Ownership, Tallied, [Next]_vars
  PROVE  [Lifecycle!Next]_[t \in TaskIds |-> LifeOf(t)]
<1>. USE DEF tables, poll, pool, history, accounts
<1>1. tasks \in [TaskIds -> TaskRow] /\ born \in [TaskIds -> Nat]
  BY DEF Accounting, TypeOK
<1>2. CASE UNCHANGED <<tasks, history>>
  BY <1>2, LifeSame, LifeStutters
<1>3. CASE (\E S : tasks' = TaskDelete(tasks, S)) /\ UNCHANGED history
  <2>1. PICK S : tasks' = TaskDelete(tasks, S)
    BY <1>3
  <2>2. ASSUME NEW t \in TaskIds
        PROVE  LifeOf(t)' = IF t \in S \cap TaskIds THEN Lifecycle!Gone ELSE LifeOf(t)
    <3>1. CASE t \in S
      <4>1. tasks'[t].status = "ABSENT" /\ tasks'[t].retry = 0
        BY <2>1, <3>1 DEF TaskDelete, NoTask
      <4>. QED  BY <3>1, <4>1 DEF LifeOf, Phase, Lifecycle!Gone
    <3>2. CASE t \notin S
      <4>1. tasks'[t] = tasks[t] /\ born' = born
        BY <1>3, <2>1, <3>2 DEF TaskDelete
      <4>. QED  BY <3>2, <4>1, LifeSame
    <3>. QED  BY <3>1, <3>2
  <2>3. Lifecycle!Remove(S \cap TaskIds)
    BY <2>2 DEF Lifecycle!Remove
  <2>. QED  BY <2>3 DEF Lifecycle!Next
<1>4. ASSUME NEW t \in TaskIds, Inserted(t)
      PROVE  [Lifecycle!Next]_[u \in TaskIds |-> LifeOf(u)]
  <2>1. /\ tasks[t].status = "ABSENT" /\ tasks'[t].status = "PENDING" /\ tasks'[t].retry = 0
        /\ born'[t] = born[t] + 1
    BY <1>1, <1>4 DEF Inserted, TaskExists
  <2>2. \A u \in TaskIds \ {t} : LifeOf(u)' = LifeOf(u)
    BY <1>1, <1>4, LifeSame DEF Inserted
  <2>3. LifeOf(t) = [phase |-> "absent", fails |-> 0]
    <3>1. CASE born[t] <= 1
      BY <2>1, <3>1 DEF LifeOf, Phase, Tallied, Tally
    <3>2. CASE ~(born[t] <= 1)
      BY <3>2 DEF LifeOf
    <3>. QED  BY <3>1, <3>2
  <2>4. CASE born[t] = 0
    <3>1. LifeOf(t)' = [phase |-> "queued", fails |-> 0]
      BY <2>1, <2>4 DEF LifeOf, Phase
    <3>2. Lifecycle!Insert(t)
      BY <2>2, <2>3, <3>1, LifeMoves DEF Lifecycle!Insert
    <3>. QED  BY <3>2 DEF Lifecycle!Next
  <2>5. CASE born[t] # 0
    <3>1. ~(born'[t] <= 1)
      BY <1>1, <2>1, <2>5
    <3>2. LifeOf(t)' = [phase |-> "absent", fails |-> 0]
      BY <3>1 DEF LifeOf
    <3>. QED  BY <2>2, <2>3, <3>2, LifeStutters
  <2>. QED  BY <2>4, <2>5
<1>5. ASSUME NEW t \in TaskIds, RunTask(t)
      PROVE  [Lifecycle!Next]_[u \in TaskIds |-> LifeOf(u)]
  <2>1. \A u \in TaskIds \ {t} : LifeOf(u)' = LifeOf(u)
    <3>1. \A u \in TaskIds \ {t} : tasks'[u] = tasks[u] /\ born'[u] = born[u]
      BY <1>1, <1>5 DEF RunTask, SetNextAttemptNow
    <3>. QED  BY <3>1, LifeSame
  <2>2. CASE tasks[t].status \notin {"FAILED", "COMPLETED"}
    <3>1. tasks'[t].status = tasks[t].status /\ tasks'[t].retry = tasks[t].retry /\ born' = born
      BY <1>1, <1>5, <2>2 DEF RunTask, SetNextAttemptNow, TaskRow
    <3>2. LifeOf(t)' = LifeOf(t)
      BY <3>1, LifeSame
    <3>. QED  BY <2>1, <3>2, LifeStutters
  <2>3. CASE tasks[t].status \in {"FAILED", "COMPLETED"} /\ born[t] <= 1
    <3>1. tasks'[t].status = "PENDING" /\ tasks'[t].retry = 0 /\ born' = born
      BY <1>1, <1>5, <2>3 DEF RunTask, SetNextAttemptNow
    <3>2. LifeOf(t).phase \in {"completed", "failed"}
      BY <2>3 DEF LifeOf, Phase
    <3>3. LifeOf(t)' = [phase |-> "queued", fails |-> 0]
      BY <2>3, <3>1 DEF LifeOf, Phase
    <3>4. Lifecycle!Requeue(t)
      BY <2>1, <3>2, <3>3, LifeMoves DEF Lifecycle!Requeue
    <3>. QED  BY <3>4 DEF Lifecycle!Next
  <2>4. CASE ~(born[t] <= 1)
    <3>1. LifeOf(t)' = LifeOf(t)
      BY <1>5, <2>4 DEF RunTask, LifeOf
    <3>. QED  BY <2>1, <3>1, LifeStutters
  <2>. QED  BY <2>2, <2>3, <2>4
<1>6. ASSUME NEW t \in TaskIds, PollClaim(t)
      PROVE  [Lifecycle!Next]_[u \in TaskIds |-> LifeOf(u)]
  <2>1. \A u \in TaskIds \ {t} : LifeOf(u)' = LifeOf(u)
    <3>1. \A u \in TaskIds \ {t} : tasks'[u] = tasks[u] /\ born'[u] = born[u]
      BY <1>1, <1>6 DEF PollClaim, Claim
    <3>. QED  BY <3>1, LifeSame
  <2>2. CASE born[t] <= 1
    <3>1. /\ tasks[t].status = "PENDING" /\ tasks'[t].status = "RUNNING"
          /\ tasks'[t].retry = tasks[t].retry /\ born' = born
      BY <1>1, <1>6 DEF PollClaim, Claim, Claims, TaskRow
    <3>2. LifeOf(t) = [phase |-> "queued", fails |-> tasks[t].retry]
      BY <2>2, <3>1 DEF LifeOf, Phase
    <3>3. LifeOf(t)' = [phase |-> "sending", fails |-> LifeOf(t).fails]
      BY <2>2, <3>1, <3>2 DEF LifeOf, Phase
    <3>4. LifeOf(t).phase \in {"queued"}
      BY <3>2
    <3>5. Lifecycle!Send(t)
      BY <2>1, <3>3, <3>4, LifeMoves DEF Lifecycle!Send
    <3>. QED  BY <3>5 DEF Lifecycle!Next
  <2>3. CASE ~(born[t] <= 1)
    <3>1. LifeOf(t)' = LifeOf(t)
      BY <1>6, <2>3 DEF PollClaim, LifeOf
    <3>. QED  BY <2>1, <3>1, LifeStutters
  <2>. QED  BY <2>2, <2>3
<1>7. CASE Recover
  <2>1. ASSUME NEW t \in TaskIds
        PROVE  LifeOf(t)' = IF LifeOf(t).phase = "sending"
                            THEN [LifeOf(t) EXCEPT !.phase = "queued"] ELSE LifeOf(t)
    <3>1. born' = born
      BY <1>7 DEF Recover
    <3>2. CASE ~(born[t] <= 1)
      <4>1. LifeOf(t) = [phase |-> "absent", fails |-> 0] /\ LifeOf(t)' = LifeOf(t)
        BY <3>1, <3>2 DEF LifeOf
      <4>. QED  BY <4>1
    <3>3. CASE born[t] <= 1 /\ tasks[t].status = "RUNNING"
      <4>1. tasks'[t].status = "PENDING" /\ tasks'[t].retry = tasks[t].retry
        BY <1>1, <1>7, <3>3 DEF Recover, RecoverRunning, TaskRow
      <4>2. /\ LifeOf(t) = [phase |-> "sending", fails |-> tasks[t].retry]
            /\ LifeOf(t)' = [phase |-> "queued", fails |-> tasks[t].retry]
        BY <3>1, <3>3, <4>1 DEF LifeOf, Phase
      <4>. QED  BY <4>2
    <3>4. CASE born[t] <= 1 /\ tasks[t].status # "RUNNING"
      <4>1. tasks'[t] = tasks[t]
        BY <1>7, <3>4 DEF Recover, RecoverRunning
      <4>2. LifeOf(t).phase # "sending"
        <5>1. tasks[t].status \in {"ABSENT", "PENDING", "COMPLETED", "FAILED"}
          BY <1>1, <3>4 DEF TaskRow, Statuses
        <5>. QED  BY <3>4, <5>1 DEF LifeOf, Phase
      <4>3. LifeOf(t)' = LifeOf(t)
        BY <3>1, <4>1, LifeSame
      <4>. QED  BY <4>2, <4>3
    <3>. QED  BY <3>2, <3>3, <3>4
  <2>2. Lifecycle!Recover
    BY <2>1 DEF Lifecycle!Recover
  <2>. QED  BY <2>2 DEF Lifecycle!Next
<1>8. CASE Tick
  <2>1. ASSUME NEW t \in TaskIds
        PROVE  LifeOf(t)' = LifeOf(t)
    <3>1. /\ tasks'[t] = [tasks[t] EXCEPT !.wait = IF tasks[t].wait > 0
                                                   THEN tasks[t].wait - 1 ELSE 0]
          /\ tasks[t] \in TaskRow /\ born' = born
      BY <1>1, <1>8 DEF Tick, Elapse
    <3>2. tasks'[t].status = tasks[t].status /\ tasks'[t].retry = tasks[t].retry
      BY <3>1 DEF TaskRow
    <3>. QED  BY <3>1, <3>2, LifeSame
  <2>. QED  BY <2>1, LifeStutters
<1>. QED
  BY <1>2, <1>3, <1>4, <1>5, <1>6, <1>7, <1>8, OutcomeImplements, TableSteps

\* CloudTasks implements TaskLifecycle: with queues, polls, slots, goroutines,
\* requests, crashes and failed statements taken away, a task is sent from the
\* queue only, each failure is counted once, max_retries of them are retried and
\* the next one is final (worker.go 166 and 230).
THEOREM LifecycleImplemented == Spec => ImplementsLifecycle
<1>1. Init => Lifecycle!Init
  <2>. SUFFICES ASSUME Init PROVE Lifecycle!Init
    OBVIOUS
  <2>1. ASSUME NEW t \in TaskIds
        PROVE  LifeOf(t) = Lifecycle!Gone
    <3>1. tasks[t].status = "ABSENT" /\ tasks[t].retry = 0 /\ born[t] = 0
      BY DEF Init, NoTask, Zero
    <3>. QED  BY <3>1 DEF LifeOf, Phase, Lifecycle!Gone
  <2>. QED  BY <2>1 DEF Lifecycle!Init
<1>2. Accounting /\ Ownership /\ Tallied /\ [Next]_vars
        => [Lifecycle!Next]_[t \in TaskIds |-> LifeOf(t)]
  BY StepImplements
<1>. QED  BY <1>1, <1>2, TalliedAlways, PTL DEF Spec, ImplementsLifecycle, Lifecycle!Spec
=============================================================================
