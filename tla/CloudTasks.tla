----------------------------- MODULE CloudTasks ------------------------------
(***************************************************************************)
(* The Cloud Tasks side of the emulator: the API handlers (REST, gRPC and  *)
(* the web UI share the same repository calls), the worker's poll loop and *)
(* its dispatch goroutines, around the two tables of QueueStore and        *)
(* TaskStore.                                                              *)
(*                                                                         *)
(* Grain of atomicity: one SQL statement (the database has one connection) *)
(* or one critical section of Worker.mu is one step; a handler or a poll   *)
(* that makes several of them is several steps, and everybody else may run *)
(* in between.  Taking a slot of the semaphore is merged with the Claim    *)
(* that follows it: only the poller takes slots or looks at how many are   *)
(* taken, so nobody can tell the two orders apart.                         *)
(***************************************************************************)
EXTENDS TaskStore, QueueStore

CONSTANTS
  QueueOf,           \* the queue a task's name belongs to
  Slots,             \* the slots of "sem", cfg.WorkerConcurrency of them
  Clients,           \* API requests that may be under way at the same time
  AutoCreateQueues,  \* cfg.AutoCreateQueues
  ScheduleDelays,    \* how far in the future a schedule_time may lie
  RetryDelay,        \* RetryDelay[n]: backoff() before retry n
  MaxInserts,        \* bound: how often one task name is inserted
  MaxCrashes,        \* bound: how often the process dies
  MaxFaults,         \* bound: how many SQL statements of the worker fail
  None               \* "nil"

ASSUME CloudTasksAssumption ==
  /\ QueueOf \in [TaskIds -> Queues]
  /\ IsFiniteSet(Slots)
  /\ AutoCreateQueues \in BOOLEAN
  /\ ScheduleDelays \subseteq Nat
  /\ RetryDelay \in [1 .. MaxRetries -> Nat]
  /\ MaxInserts \in Nat /\ MaxCrashes \in Nat /\ MaxFaults \in Nat
  /\ None \notin TaskIds /\ None \notin Nat

VARIABLES
  queues, tasks,     \* the two tables: all that survives a crash
  worker,            \* "down", "starting" (before RecoverRunning) or "running"
  pc,                \* where pollAndDispatch is
  cur,               \* the queue of its outer loop
  qs,                \* what its ListAll returned
  limit,             \* its "room" and then its "limit"
  pending,           \* listed rows its inner loop has still to claim
  seen,              \* the retry counts those rows had when listed
  claimed,           \* the task it has claimed and not yet handed over
  sem,               \* slots taken
  inflight, buckets, \* Worker.inflight and the tokens of Worker.buckets
  dpc,               \* where each dispatch goroutine is
  job,               \* the task it dispatches, as it was listed
  req,               \* the API request each client has under way
  born,              \* history: how often a name was inserted
  sent,              \* history: dispatches since the insert or re-queue
  crashes, faults    \* history: crashes and failed statements so far

tables   == <<queues, tasks>>
poll     == <<pc, cur, qs, limit, pending, seen, claimed>>
pool     == <<sem, inflight, buckets, dpc, job>>
history  == <<born, sent>>
accounts == <<crashes, faults>>
vars     == <<tables, worker, poll, pool, req, history, accounts>>

-----------------------------------------------------------------------------
Job      == [task : TaskIds, retry : Nat]
NoReq    == [step |-> "idle", queue |-> None, task |-> None]
Requests == {NoReq}
            \cup [step : {"create", "insert"}, queue : Queues, task : TaskIds]
            \cup [step : {"purge"}, queue : Queues, task : {None}]

\* The types of the state.
TypeOK ==
  /\ queues \in [Queues -> QueueRow]
  /\ tasks \in [TaskIds -> TaskRow]
  /\ worker \in {"down", "starting", "running"}
  /\ pc \in {"idle", "queue", "limit", "list", "claim", "spawn"}
  /\ cur \in 1 .. NumQueues + 1
  /\ qs \in [Queues -> QueueRow]
  /\ limit \in Nat
  /\ pending \in SUBSET TaskIds
  /\ seen \in [TaskIds -> Nat]
  /\ claimed \in TaskIds \cup {None}
  /\ sem \in Nat
  /\ inflight \in [Queues -> Nat]
  /\ buckets \in [Queues -> Nat \cup {None}]
  /\ dpc \in [Slots -> {"idle", "sending", "recorded", "uncounted"}]
  /\ job \in [Slots -> Job \cup {None}]
  /\ req \in [Clients -> Requests]
  /\ born \in [TaskIds -> Nat]
  /\ sent \in [TaskIds -> Nat]
  /\ crashes \in Nat
  /\ faults \in Nat

Nothing(S) == [x \in S |-> None]
Zero(S)    == [x \in S |-> 0]

\* An empty database, and the process not yet started.
Init ==
  /\ queues = [q \in Queues |-> NoQueue]
  /\ tasks = [t \in TaskIds |-> NoTask]
  /\ worker = "down"
  /\ pc = "idle" /\ cur = 1 /\ qs = [q \in Queues |-> NoQueue]
  /\ limit = 0 /\ pending = {} /\ seen = Zero(TaskIds) /\ claimed = None
  /\ sem = 0 /\ inflight = Zero(Queues) /\ buckets = Nothing(Queues)
  /\ dpc = [s \in Slots |-> "idle"] /\ job = Nothing(Slots)
  /\ req = [c \in Clients |-> NoReq]
  /\ born = Zero(TaskIds) /\ sent = Zero(TaskIds)
  /\ crashes = 0 /\ faults = 0

InQueue(q) == {t \in TaskIds : QueueOf[t] = q}

-----------------------------------------------------------------------------
(* The API.  Requests are served from the moment the process is up.        *)

Serving == worker # "down"

CreateQueue(q) ==
  /\ Serving /\ ~QueueExists(queues, q)
  /\ \E rl \in RequestedLimits \cup {NoLimits} : queues' = QueueCreate(queues, q, rl)
  /\ UNCHANGED <<tasks, worker, poll, pool, req, history, accounts>>

\* One transaction removes the queue and its tasks.
DeleteQueue(q) ==
  /\ Serving /\ QueueExists(queues, q)
  /\ queues' = QueueDelete(queues, q)
  /\ tasks' = TaskDelete(tasks, InQueue(q))
  /\ UNCHANGED <<worker, poll, pool, req, history, accounts>>

PauseQueue(q) ==
  /\ Serving /\ QueueExists(queues, q)
  /\ queues' = SetState(queues, q, "PAUSED")
  /\ UNCHANGED <<tasks, worker, poll, pool, req, history, accounts>>

ResumeQueue(q) ==
  /\ Serving /\ QueueExists(queues, q)
  /\ queues' = SetState(queues, q, "RUNNING")
  /\ UNCHANGED <<tasks, worker, poll, pool, req, history, accounts>>

UpdateQueue(q) ==
  /\ Serving /\ QueueExists(queues, q)
  /\ \E rl \in RequestedLimits : queues' = UpdateRateLimits(queues, q, rl)
  /\ UNCHANGED <<tasks, worker, poll, pool, req, history, accounts>>

\* Purge reads the queue first and deletes its tasks in a second statement.
PurgeGet(c, q) ==
  /\ Serving /\ req[c] = NoReq
  /\ QueueExists(queues, q)
  /\ req' = [req EXCEPT ![c] = [step |-> "purge", queue |-> q, task |-> None]]
  /\ UNCHANGED <<tables, worker, poll, pool, history, accounts>>

PurgeDelete(c) ==
  /\ req[c].step = "purge"
  /\ tasks' = TaskDelete(tasks, InQueue(req[c].queue))
  /\ req' = [req EXCEPT ![c] = NoReq]
  /\ UNCHANGED <<queues, worker, poll, pool, history, accounts>>

\* CreateTask reads the queue, creates it when it is missing and may be
\* (NOT_FOUND otherwise), and inserts the task: three statements.
CreateTaskGetQueue(c, t) ==
  /\ Serving /\ req[c] = NoReq
  /\ born[t] < MaxInserts
  /\ QueueExists(queues, QueueOf[t]) \/ AutoCreateQueues
  /\ req' = [req EXCEPT ![c] =
               [step  |-> IF QueueExists(queues, QueueOf[t]) THEN "insert" ELSE "create",
                queue |-> QueueOf[t],
                task  |-> t]]
  /\ UNCHANGED <<tables, worker, poll, pool, history, accounts>>

\* ErrAlreadyExists is not an error here.
CreateTaskMakeQueue(c) ==
  /\ req[c].step = "create"
  /\ queues' = QueueCreate(queues, req[c].queue, NoLimits)
  /\ req' = [req EXCEPT ![c].step = "insert"]
  /\ UNCHANGED <<tasks, worker, poll, pool, history, accounts>>

CreateTaskInsert(c) ==
  LET t == req[c].task IN
  /\ req[c].step = "insert"
  /\ \/ /\ TaskExists(tasks, t)
        /\ UNCHANGED <<tasks, history>>
     \/ /\ ~TaskExists(tasks, t) /\ born[t] < MaxInserts
        /\ \E w \in ScheduleDelays : tasks' = TaskCreate(tasks, t, w)
        /\ born' = [born EXCEPT ![t] = @ + 1]
        /\ sent' = [sent EXCEPT ![t] = 0]
  /\ req' = [req EXCEPT ![c] = NoReq]
  /\ UNCHANGED <<queues, worker, poll, pool, accounts>>

DeleteTask(t) ==
  /\ Serving /\ TaskExists(tasks, t)
  /\ tasks' = TaskDelete(tasks, {t})
  /\ UNCHANGED <<queues, worker, poll, pool, req, history, accounts>>

\* tasks.run, and Run and Retry of the web UI.  A finished task is re-queued
\* from scratch, so its dispatches are counted anew.
RunTask(t) ==
  /\ Serving /\ TaskExists(tasks, t)
  /\ tasks' = SetNextAttemptNow(tasks, t)
  /\ sent' = IF tasks[t].status \in {"FAILED", "COMPLETED"}
             THEN [sent EXCEPT ![t] = 0] ELSE sent
  /\ UNCHANGED <<queues, worker, poll, pool, req, born, accounts>>

-----------------------------------------------------------------------------
(* The process.                                                            *)

Start ==
  /\ worker = "down"
  /\ worker' = "starting"
  /\ UNCHANGED <<tables, poll, pool, req, history, accounts>>

\* Worker.Run, up to its loop.
Recover ==
  /\ worker = "starting"
  /\ worker' = "running"
  /\ tasks' = RecoverRunning(tasks)
  /\ UNCHANGED <<queues, poll, pool, req, history, accounts>>

Fault == faults < MaxFaults /\ faults' = faults + 1

\* The statement fails: the error is logged and the loop starts all the same.
RecoverFails ==
  /\ worker = "starting" /\ Fault
  /\ worker' = "running"
  /\ UNCHANGED <<tables, poll, pool, req, history, crashes>>

\* pollAndDispatch returns: its local variables are gone.
Return ==
  /\ pc' = "idle" /\ cur' = 1 /\ qs' = [q \in Queues |-> NoQueue]
  /\ limit' = 0 /\ pending' = {} /\ seen' = Zero(TaskIds) /\ claimed' = None

\* A crash, a kill, or an orderly shutdown: main stops the poll loop but waits
\* for no dispatch, so all that is left of the process is the database.
Crash ==
  /\ worker # "down" /\ crashes < MaxCrashes
  /\ worker' = "down"
  /\ Return
  /\ sem' = 0 /\ inflight' = Zero(Queues) /\ buckets' = Nothing(Queues)
  /\ dpc' = [s \in Slots |-> "idle"] /\ job' = Nothing(Slots)
  /\ req' = [c \in Clients |-> NoReq]
  /\ crashes' = crashes + 1
  /\ UNCHANGED <<tables, history, faults>>

\* Time goes by.
Tick ==
  /\ \E t \in TaskIds : tasks[t].wait > 0
  /\ tasks' = Elapse(tasks)
  /\ UNCHANGED <<queues, worker, poll, pool, req, history, accounts>>

-----------------------------------------------------------------------------
(* pollAndDispatch.                                                        *)

PollStart ==
  /\ worker = "running" /\ pc = "idle"
  /\ pc' = "queue" /\ cur' = 1 /\ qs' = queues
  /\ UNCHANGED <<limit, pending, seen, claimed, tables, worker, pool, req, history, accounts>>

\* The outer loop goes on to the next queue, or ends.
NextQueue ==
  /\ pc' = "queue" /\ cur' = cur + 1
  /\ limit' = 0 /\ pending' = {} /\ seen' = Zero(TaskIds)
  /\ UNCHANGED <<qs, claimed>>

\* Mutant: the pause is not looked at.
ServesPaused(row) == row.state # "ABSENT"

\* Queues ListAll returned and that are not paused.
Serves(row) == row.state # "ABSENT" /\ ~Paused(row)

Room == Cardinality(Slots) - sem

PollQueue ==
  /\ pc = "queue"
  /\ \/ /\ cur > NumQueues
        /\ Return
     \/ /\ cur <= NumQueues /\ ~Serves(qs[cur])
        /\ NextQueue
     \/ /\ cur <= NumQueues /\ Serves(qs[cur]) /\ sem >= Cardinality(Slots)
        /\ Return
     \/ /\ cur <= NumQueues /\ Serves(qs[cur]) /\ sem < Cardinality(Slots)
        /\ pc' = "limit" /\ limit' = Room
        /\ UNCHANGED <<cur, qs, pending, seen, claimed>>
  /\ UNCHANGED <<tables, worker, pool, req, history, accounts>>

\* The capacity of a bucket, max(1, rate).
Capacity(rate) == IF rate >= 1 THEN rate ELSE 1

\* The whole tokens a bucket may hold once it is refilled: how much time went
\* by since the last refill is not known, and a new bucket is full.
Refill(tokens, rate) ==
  IF tokens = None
  THEN {Capacity(rate)}
  ELSE {Lesser(Capacity(rate), tokens + k) : k \in 0 .. Capacity(rate)}

\* Mutant: dispatches in flight are not subtracted.
ConcurrencyOfPoll(q) == qs[q].conc

\* What max_concurrent_dispatches leaves, 0 when there is nothing left.
Concurrency(q) == IF qs[q].conc > inflight[q] THEN qs[q].conc - inflight[q] ELSE 0

\* Mutant: the limit does not take the tokens into account.
PollLimitIgnoresTokens ==
  /\ pc = "limit"
  /\ \E n \in Refill(buckets[cur], qs[cur].rate) :
       LET lim == Lesser(limit, Concurrency(cur)) IN
       /\ buckets' = [buckets EXCEPT ![cur] = n]
       /\ \/ /\ lim = 0 /\ NextQueue
          \/ /\ lim > 0
             /\ pc' = "list" /\ limit' = lim
             /\ UNCHANGED <<cur, qs, pending, seen, claimed>>
  /\ UNCHANGED <<tables, worker, sem, inflight, dpc, job, req, history, accounts>>

\* The critical section that computes the limit.  Every stored limit is
\* positive (QueueCreate), so both limits always apply.
PollLimit ==
  /\ pc = "limit"
  /\ \E n \in Refill(buckets[cur], qs[cur].rate) :
       LET lim == Lesser(Lesser(limit, Concurrency(cur)), n) IN
       /\ buckets' = [buckets EXCEPT ![cur] = n]
       /\ \/ /\ lim = 0 /\ NextQueue
          \/ /\ lim > 0
             /\ pc' = "list" /\ limit' = lim
             /\ UNCHANGED <<cur, qs, pending, seen, claimed>>
  /\ UNCHANGED <<tables, worker, sem, inflight, dpc, job, req, history, accounts>>

\* The query, with the retry counts of the rows as they are now.
PollList(T) ==
  /\ pc = "list"
  /\ T \in ListPendingForQueue(tasks, InQueue(cur), limit)
  /\ pc' = "claim" /\ pending' = T
  /\ seen' = [t \in TaskIds |-> IF t \in T THEN tasks[t].retry ELSE 0]
  /\ UNCHANGED <<cur, qs, limit, claimed, tables, worker, pool, req, history, accounts>>

PollListError ==
  /\ pc = "list" /\ Fault
  /\ NextQueue
  /\ UNCHANGED <<tables, worker, pool, req, history, crashes>>

PollDone ==
  /\ pc = "claim" /\ pending = {}
  /\ NextQueue
  /\ UNCHANGED <<tables, worker, pool, req, history, accounts>>

\* Mutant: a failed claim keeps its slot.
PollMissKeepsSlot(t) ==
  /\ pc = "claim" /\ t \in pending /\ ~Claims(tasks, t)
  /\ pending' = pending \ {t} /\ sem' = sem + 1
  /\ UNCHANGED <<pc, cur, qs, limit, seen, claimed, inflight, buckets, dpc, job,
                 tables, worker, req, history, accounts>>

\* Claim finds the row gone or no longer PENDING: the slot is given back.
PollMiss(t) ==
  /\ pc = "claim" /\ t \in pending /\ ~Claims(tasks, t)
  /\ pending' = pending \ {t}
  /\ UNCHANGED <<pc, cur, qs, limit, seen, claimed, pool, tables, worker, req,
                 history, accounts>>

\* Claim fails: the same way out.
PollClaimError(t) ==
  /\ pc = "claim" /\ t \in pending /\ Fault
  /\ pending' = pending \ {t}
  /\ UNCHANGED <<pc, cur, qs, limit, seen, claimed, pool, tables, worker, req,
                 history, crashes>>

\* Claim wins, and the slot is kept.
PollClaim(t) ==
  /\ pc = "claim" /\ t \in pending /\ Claims(tasks, t)
  /\ tasks' = Claim(tasks, t)
  /\ sem' = sem + 1
  /\ sent' = [sent EXCEPT ![t] = @ + 1]
  /\ pc' = "spawn" /\ claimed' = t /\ pending' = pending \ {t}
  /\ UNCHANGED <<cur, qs, limit, seen, inflight, buckets, dpc, job, queues, worker,
                 req, born, accounts>>

\* The dispatch is counted and its goroutine started, with the row as listed.
PollSpawn(s) ==
  /\ pc = "spawn" /\ dpc[s] = "idle"
  /\ inflight' = [inflight EXCEPT ![cur] = @ + 1]
  /\ buckets' = [buckets EXCEPT ![cur] = @ - 1]
  /\ dpc' = [dpc EXCEPT ![s] = "sending"]
  /\ job' = [job EXCEPT ![s] = [task |-> claimed, retry |-> seen[claimed]]]
  /\ pc' = "claim" /\ claimed' = None
  /\ UNCHANGED <<cur, qs, limit, pending, seen, sem, tables, worker, req,
                 history, accounts>>

-----------------------------------------------------------------------------
(* A dispatch goroutine: the HTTP request and its outcome, recorded in the *)
(* row by the task's id, then the deferred bookkeeping.                    *)

Recorded(s) ==
  /\ dpc[s] = "sending"
  /\ dpc' = [dpc EXCEPT ![s] = "recorded"]
  /\ UNCHANGED <<job, sem, inflight, buckets, queues, worker, poll, req, history>>

\* A 2xx response.
Complete(s) ==
  /\ Recorded(s)
  /\ tasks' = UpdateStatus(tasks, job[s].task, "COMPLETED")
  /\ UNCHANGED accounts

\* Mutant: the last retry is not made.
RetryOneLess(s) ==
  LET nextRetry == job[s].retry + 1 IN
  /\ Recorded(s)
  /\ tasks' = IF nextRetry < MaxRetries
              THEN UpdateRetry(tasks, job[s].task, nextRetry, RetryDelay[nextRetry])
              ELSE UpdateStatus(tasks, job[s].task, "FAILED")
  /\ UNCHANGED accounts

\* Any other response, a transport error, a timeout, or a request that could
\* not be built: retryOrFail.
RetryOrFail(s) ==
  LET nextRetry == job[s].retry + 1 IN
  /\ Recorded(s)
  /\ tasks' = IF nextRetry <= MaxRetries
              THEN UpdateRetry(tasks, job[s].task, nextRetry, RetryDelay[nextRetry])
              ELSE UpdateStatus(tasks, job[s].task, "FAILED")
  /\ UNCHANGED accounts

\* The statement that records the outcome fails, and is not tried again.
LoseOutcome(s) ==
  /\ Recorded(s) /\ Fault
  /\ UNCHANGED <<tasks, crashes>>

\* Mutant: the in-flight count is left as it is.
UncountForgotten(s) ==
  /\ dpc[s] = "recorded"
  /\ dpc' = [dpc EXCEPT ![s] = "uncounted"]
  /\ UNCHANGED <<inflight, job, sem, buckets, tables, worker, poll, req, history, accounts>>

\* Mutant: the queue of the poll loop is taken for the queue of the task.
UncountLoopQueue(s) ==
  /\ dpc[s] = "recorded"
  /\ dpc' = [dpc EXCEPT ![s] = "uncounted"]
  /\ inflight' = [q \in Queues |-> IF q = cur THEN inflight[q] - 1 ELSE inflight[q]]
  /\ UNCHANGED <<job, sem, buckets, tables, worker, poll, req, history, accounts>>

\* The deferred function: inflight first ...
Uncount(s) ==
  /\ dpc[s] = "recorded"
  /\ dpc' = [dpc EXCEPT ![s] = "uncounted"]
  /\ inflight' = [inflight EXCEPT ![QueueOf[job[s].task]] = @ - 1]
  /\ UNCHANGED <<job, sem, buckets, tables, worker, poll, req, history, accounts>>

\* ... and then the slot.
Release(s) ==
  /\ dpc[s] = "uncounted"
  /\ dpc' = [dpc EXCEPT ![s] = "idle"]
  /\ job' = [job EXCEPT ![s] = None]
  /\ sem' = sem - 1
  /\ UNCHANGED <<inflight, buckets, tables, worker, poll, req, history, accounts>>

-----------------------------------------------------------------------------
Api ==
  \/ \E q \in Queues : \/ CreateQueue(q) \/ DeleteQueue(q) \/ PauseQueue(q)
                       \/ ResumeQueue(q) \/ UpdateQueue(q)
  \/ \E t \in TaskIds : DeleteTask(t) \/ RunTask(t)
  \/ \E c \in Clients : \/ \E q \in Queues : PurgeGet(c, q)
                        \/ PurgeDelete(c)
                        \/ \E t \in TaskIds : CreateTaskGetQueue(c, t)
                        \/ CreateTaskMakeQueue(c)
                        \/ CreateTaskInsert(c)

Process == Start \/ Recover \/ RecoverFails \/ Crash \/ Tick

Poll ==
  \/ PollStart \/ PollQueue \/ PollLimit \/ PollListError \/ PollDone
  \/ \E T \in SUBSET TaskIds : PollList(T)
  \/ \E t \in TaskIds : PollMiss(t) \/ PollClaimError(t) \/ PollClaim(t)
  \/ \E s \in Slots : PollSpawn(s)

Dispatch ==
  \E s \in Slots : Complete(s) \/ RetryOrFail(s) \/ LoseOutcome(s) \/ Uncount(s) \/ Release(s)

Next == Api \/ Process \/ Poll \/ Dispatch

Spec == Init /\ [][Next]_vars

-----------------------------------------------------------------------------
(* Safety.                                                                 *)

\* Goroutines that are alive, the ones counted for queue q, and the ones that
\* have t's outcome still to record.
Busy       == {s \in Slots : dpc[s] # "idle"}
Counted(q) == {s \in Slots : dpc[s] \in {"sending", "recorded"} /\ QueueOf[job[s].task] = q}
Senders(t) == {s \in Slots : dpc[s] = "sending" /\ job[s].task = t}

\* The claim pollAndDispatch has won and not handed over yet.
InHand == IF pc = "spawn" THEN 1 ELSE 0

\* No slot of the semaphore leaks and none is given back twice (worker.go 131
\* to 161): the slots taken are those of the live goroutines and of the claim
\* in hand.
SlotsExact == sem = Cardinality(Busy) + InHand

\* "in-flight counts are exact" (worker.go 137): inflight[q] is the number of
\* dispatches of q that have not run their deferred function.
InflightExact == \A q \in Queues : inflight[q] = Cardinality(Counted(q))

\* The rows the poller may still claim.
Granted == IF pc = "list" THEN limit ELSE Cardinality(pending) + InHand

\* However the goroutines and the API interleave with a poll, the limit it
\* computed under the lock stays good until it is used up: what is granted and
\* not yet started fits the free slots (so the "default: return" of the claim
\* loop is never taken), the concurrency limit of the poll, and the tokens.
GrantKept ==
  pc \in {"list", "claim", "spawn"} =>
    /\ sem - InHand + Granted <= Cardinality(Slots)
    /\ inflight[cur] + Granted <= qs[cur].conc
    /\ buckets[cur] # None
    /\ Granted <= buckets[cur]

\* A poll never takes a queue above the max_concurrent_dispatches it read, and
\* never above the number of slots.
DispatchWithinLimit ==
  [][\A q \in Queues : inflight'[q] > inflight[q] =>
       inflight'[q] <= Lesser(qs[q].conc, Cardinality(Slots))]_vars

\* A task that was inserted once is sent by at most one goroutine at a time,
\* and not while the poller holds a claim on it: through retries, runs forced
\* by the API, crashes and failed statements.
AtMostOneDispatch ==
  \A t \in TaskIds : born[t] <= 1 =>
    /\ \A r, s \in Senders(t) : r = s
    /\ claimed = t => Senders(t) = {}

\* As long as no statement of the worker fails, no task is stuck RUNNING: in a
\* process that has recovered, someone is about to record its outcome.
RunningOwned ==
  (worker = "running" /\ faults = 0) =>
    \A t \in TaskIds : (born[t] <= 1 /\ tasks[t].status = "RUNNING") =>
      claimed = t \/ Senders(t) # {}

\* Task.Attempts, which the API reports, is the number of dispatches made, and
\* a task FAILS only after max_retries + 1 of them.  Not across a crash: the
\* dispatch it cuts short is made again and was not counted.
AttemptsExact ==
  \A t \in TaskIds : (crashes = 0 /\ born[t] <= 1 /\ TaskExists(tasks, t)) =>
    /\ Attempts(tasks[t]) = sent[t]
    /\ tasks[t].status = "FAILED" => sent[t] = MaxRetries + 1

\* schedule_time and backoff are respected: between the query and the claim a
\* row that was inserted once cannot become one that is not due.
NeverEarly ==
  [][\A t \in TaskIds :
       (born[t] = 1 /\ tasks[t].status = "PENDING" /\ tasks'[t].status = "RUNNING")
         => tasks[t].wait = 0]_vars

\* A finished task stays as it is until it is deleted or run again by request:
\* no late outcome overwrites it.
FinishedStays ==
  [][\A t \in TaskIds :
       (born[t] = 1 /\ tasks[t].status \in {"COMPLETED", "FAILED"} /\ tasks'[t] # tasks[t])
         => tasks'[t] \in {NoTask, [status |-> "PENDING", retry |-> 0, wait |-> 0]}]_vars

\* The life cycle of a task as its row shows it.  Once a name is inserted a
\* second time the row no longer stands for one task (see OutcomeIsOwn), and
\* the name counts as gone for good.
Phase == [ABSENT |-> "absent", PENDING |-> "queued", RUNNING |-> "sending",
          COMPLETED |-> "completed", FAILED |-> "failed"]

LifeOf(t) ==
  IF born[t] <= 1
  THEN [phase |-> Phase[tasks[t].status], fails |-> tasks[t].retry]
  ELSE [phase |-> "absent", fails |-> 0]

Lifecycle == INSTANCE TaskLifecycle WITH life <- [t \in TaskIds |-> LifeOf(t)]

\* Polls, goroutines, requests, crashes and failed statements together do no
\* more than TaskLifecycle allows (worker.go 166, 230 and tasks/model.go 9):
\* a task is sent from the queue only, one failure is counted once, max_retries
\* failures are retried and the next one is final, and only a request revives
\* a finished task.
ImplementsLifecycle == Lifecycle!Spec

-----------------------------------------------------------------------------
(* Liveness.                                                               *)

\* The ticker, the goroutines and the clock do not stop; a request ends within
\* its timeout.  A bucket keeps its tokens until it is used and gets new ones as
\* time goes by, so a queue that a poll reaches again and again with room for a
\* dispatch has a token for it at last.  Which due rows a query lists is left
\* open.  Clients, crashes and restarts promise nothing.
Fairness ==
  /\ WF_vars(Recover) /\ WF_vars(Tick)
  /\ WF_vars(Poll)
  /\ \A q \in Queues : SF_vars(cur = q /\ PollLimit /\ pc' = "list")
  /\ \A s \in Slots : WF_vars(Complete(s) \/ RetryOrFail(s) \/ Uncount(s) \/ Release(s))

FairSpec == Spec /\ Fairness

Served(t) == worker = "running" /\ Serves(queues[QueueOf[t]])

\* Task u starts to compete for the slots: it is created, or run again.
Joins(u) ==
  tasks[u].status \notin {"PENDING", "RUNNING"} /\ tasks'[u].status = "PENDING"

\* If the other tasks, of whatever queue, stop being created and run again, a
\* PENDING task is dispatched sooner or later, unless it is deleted, its queue
\* paused or deleted, or the process dies first.  However the query picks among
\* the due rows, each of the others is retried max_retries times at most.  The
\* premise is needed: a queue earlier in ListAll that always has due tasks keeps
\* the slots (worker.go 101), and in the task's own queue a stream of rows with
\* an earlier next_attempt_at, past schedule_times for one, is always listed
\* before it (tasks/repository.go 175 to 183).
EventuallyDispatched ==
  \A t \in TaskIds :
    <>[][\A u \in TaskIds \ {t} : ~Joins(u)]_vars
      => ((tasks[t].status = "PENDING" /\ Served(t))
            ~> (tasks[t].status # "PENDING" \/ ~Served(t)))

\* A RUNNING task does not stay RUNNING in a live process.
RunningEnds ==
  \A t \in TaskIds :
    (tasks[t].status = "RUNNING") ~> (tasks[t].status # "RUNNING" \/ worker = "down")

\* A queue that is paused for good has no dispatch in flight from some point on.
PauseDrains ==
  \A q \in Queues : <>[]Paused(queues[q]) => <>[](inflight[q] = 0)

-----------------------------------------------------------------------------
(* What the repository says and the code does not do.                      *)

\* FOREIGN KEY (queue_id) REFERENCES queues(id) (db/db.go 64).
TasksHaveQueues ==
  \A t \in TaskIds : TaskExists(tasks, t) => QueueExists(queues, QueueOf[t])

\* dispatch records the outcome of the task it was given (worker.go 166): a
\* task that was never sent has no outcome.
OutcomeIsOwn ==
  \A t \in TaskIds : tasks[t].status \in {"COMPLETED", "FAILED"} => sent[t] > 0
=============================================================================
