# A TLA+ model of the Cloud Tasks and Cloud Scheduler emulator

This directory holds TLA+ modules that model the control logic of the emulator,
TLC configurations that check them on small instances, and TLAPS proofs for
instances of any size. `PROJECT.json` says which definition stands for which
lines of the source.

    tlc -workers 2 -config DispatchCore.cfg MCCloudTasks     # one run
    tlapm CloudTasksProofs.tla                               # the proofs

## Inventory of the system

One Go process serves a REST API, a gRPC API and a web UI, and runs two
background loops, all over one SQLite file that is opened with a single
connection (`internal/db/db.go`): every SQL statement is atomic, and nothing
larger is, except the one explicit transaction of the queue repository's
`Delete`.

| component | state it keeps | operations | talks to |
|---|---|---|---|
| tasks repository (`internal/tasks`) | table `tasks` | Create, ListPendingForQueue, Claim, UpdateStatus, UpdateRetry, Delete, SetNextAttemptNow, RecoverRunning | SQLite |
| queues repository (`internal/queues`) | table `queues` | Create, ListAll, Delete (with the tasks), SetState, Purge, UpdateRateLimits | SQLite |
| worker (`internal/worker`) | semaphore `sem`, `inflight` and `buckets` per queue (under `mu`), one goroutine per dispatch | Run (recovery, ticker), pollAndDispatch, dispatch, retryOrFail | both repositories, the HTTP target |
| Cloud Tasks API (`internal/api`, `internal/grpcserver/server.go`, `internal/ui`) | none between requests | create, delete, pause, resume, purge and update queues; create, delete, run and list tasks | both repositories |
| scheduler (`internal/scheduler`) | table `jobs`, `Dispatcher.running` (under `mu`), one goroutine per run | Service: Create, Delete, Pause, Resume, Run, Update; Runner: Tick; Dispatcher: Fire | SQLite, the HTTP target |
| Cloud Scheduler API (`internal/api/job_handler.go`, `scheduler_server.go`, `internal/ui/scheduler_handler.go`) | none | one call of the Service each | scheduler |
| process (`cmd/server/main.go`) | none | start, signal, shutdown | starts all of the above |
| configuration (`internal/config`) | the environment as read at start | Load | read by worker, handlers, process |
| database, auth token, HTML rendering | the file; none | | |

What is hard here:

* *Interleaving.* API handlers make several statements (look the queue up,
  create it, insert the task; read a job, compute, write it back). The worker
  lists queues, lists tasks, claims and starts goroutines in separate steps.
  Anything may run between two of them.
* *Stale copies.* A poll works on queues and tasks as they were listed; a
  dispatch writes its outcome by name with the retry count it saw; `Update`
  writes back a whole row it read.
* *Crashes.* Only the tables survive. Rows may be RUNNING, claims made and not
  used. An orderly shutdown does not wait for dispatches, so it is a crash too.
* *Failed statements.* The worker logs them and goes on.
* *Lists.* A client pages through a queue by offset while it changes; the web UI
  counts in one statement and lists in another.
* *Conversions.* Deadlines are rounded to seconds, job durations cut to
  milliseconds, 0 means "default" in one place and "unlimited" in another.
* *Limits.* Slots, `max_concurrent_dispatches` and token buckets are checked
  under a lock and used after it.
* *Names.* Tasks and jobs are known by name only, and names can be used again.

What makes the components correct: slots and in-flight counts are exact; limits
read by a poll are not exceeded; a task is sent by one goroutine at a time, not
before it is due, and its finished state is not overwritten; after a restart no
task is stuck; the attempts reported are the dispatches made; a due task is
dispatched in the end if its competitors do not keep coming; no queue exceeds its rate; a bad request changes nothing;
a walk through the pages of a quiet queue shows every task once; the stored
configuration of a job is valid whatever the order of updates; a job has a next
run exactly when it is enabled, fires at most once for a schedule time, and one
run of it is in flight at a time.

## Modules

| module | models |
|---|---|
| `TaskStore` | the `tasks` table: one operator per SQL statement, from table to table |
| `QueueStore` | the `queues` table, in the same way |
| `CloudTasks` | the composition: API operations, process, poll loop, dispatch goroutines; properties |
| `TaskLifecycle` | abstract: what the emulator promises about one task; `CloudTasks` implements it |
| `Throughput` | the poll loop in time: token buckets, slots and the order of service |
| `TaskApi` | CreateTask from request to answer by REST and gRPC, and listing by REST, gRPC and web UI |
| `Duration` | Go's `int` and `time.Duration`: what fits, what wraps around, what saturates |
| `Backoff` | `worker.backoff` and `RetryConfig.Backoff` |
| `JobConfig` | a job's configuration from the request through mask, defaults, validation and store to the retries of `Fire`; the worker's backoff from the environment |
| `JobScheduler` | Service, Runner and Dispatcher over the `jobs` table; properties |
| `MCCloudTasks`, `MCThroughput`, `MCTaskApi`, `MCJobConfig`, `MCJobScheduler` | constants for TLC |
| `CloudTasksProofs` | type correctness and the worker's accounting |
| `OwnershipProofs` | who may write a task's row |
| `LifecycleProofs` | the retry counts, and that `CloudTasks` implements `TaskLifecycle` |
| `ThroughputProofs` | the buckets keep every queue to its rate; the slots are never exceeded |
| `TaskApiProofs` | requests, answers and pages |
| `JobConfigProofs` | the stored configuration and the waits it leads to |
| `JobSchedulerProofs` | next runs, claims, executions and outcomes |
| `NatFacts` | induction and recursion on the natural numbers, for the proofs |

`CloudTasks` composes `TaskStore` and `QueueStore`; `JobConfig` uses `Backoff`,
and both `Backoff` and `TaskApi` compute with `Duration`.
`Throughput` and `TaskApi` look at parts of the same system from other sides:
the first adds the clock that `CloudTasks` leaves out and reduces a queue to
whether it has due tasks; the second adds requests, answers and lists and
reduces the worker to a change of status.

Operators whose comment starts with `Mutant:` are wrong on purpose: each is a
plausible bug of the definition below it, and TLC finds the listed property
violated when it takes that definition's place. No specification uses them.

### CloudTasks and the code

One step is one SQL statement or one critical section of `Worker.mu`.

* `worker.go`: `pc` says where `pollAndDispatch` is. `PollStart` is `ListAll`
  (if it fails the poll ends, which changes nothing); `PollQueue` the test for
  paused and the free slots; `PollLimit` the critical section with both limits;
  `PollList` the query; `PollMiss`, `PollClaimError` and `PollClaim` the three
  results of `Claim`; `PollSpawn` the counting and the `go` statement. `qs`,
  `pending`, `seen` and `limit` are the local copies.
  A goroutine goes through `dpc` "sending" (request under way), "recorded"
  (outcome written), "uncounted" (`inflight` decremented), "idle" (slot given
  back). `LoseOutcome` is a write that fails.
* Taking a slot and the `Claim` after it are one step. Only the poller takes
  slots and only the poller reads how many are taken, so no one can see the
  state between the two; a goroutine giving a slot back commutes with it. The
  `default: return` of that `select` is never taken: `GrantKept` is the proof.
* Handlers: REST, gRPC and UI make the same repository calls in the same order.
  `CreateTask` is three steps (`CreateTaskGetQueue`, `CreateTaskMakeQueue`,
  `CreateTaskInsert`), `Purge` two. Requests that are refused change nothing
  and have no step. How requests are checked and what the answer shows is in
  `TaskApi`.
* Time is relative: a row has `wait`, the time until it is due, and `Tick`
  lets one unit go by. Ages of due rows are not kept; `ListPendingForQueue`
  may return any choice of due rows of the size the limit allows. No
  fairness is assumed of the choice: `ORDER BY next_attempt_at` does not keep a
  row from being passed over for ever, since clients can add rows with earlier
  times.
* Tokens are whole; how much time went by between two refills is left open
  (`Throughput` has both).
* `born` and `sent` are history variables: how often a name was inserted and
  how often the present task was dispatched. They guard no action except the
  bound on inserts.

### JobScheduler and the code

A schedule is the set of times it fires at, or, for `@every`, a delay that is
added to the time the next run is computed from. `CreateBegin/Check/Insert`,
`ResumeGet/ComputeNext/ResumeWrite` and `UpdateGet/ComputeNext/UpdateWrite` are
the statements of `Create`, `Resume` and `Update` with the reading of the clock
between them. `Pause` reads before it writes, but the write refuses a missing
row by itself, so one step is enough; `Run` makes one statement. `TickList` to
`TickEnd` is `Runner.Tick` with the rows as listed; `Claims` is the
compare-and-swap. A call of `Fire` goes through `epc` "start", "attempt"
(once per HTTP attempt) and "release". Stopping because of
`max_retry_duration` or of a cancelled context is a free choice after a failed
attempt. Waiting between attempts takes no step.

### The refinement

`CloudTasks!LifeOf` maps a row to a phase (absent, queued, sending, completed,
failed) and the failures it has counted; `ImplementsLifecycle` is
`TaskLifecycle!Spec` under that map. Most steps of polls, goroutines and requests
stutter; the claim is `Send`, the outcome is `Complete`, `Retry` or `Fail`,
deleting a task, a purge or a queue deletion is `Remove` of a set of tasks, and
recovery moves every task that was being sent back at once. A name inserted a
second time is mapped to "absent" from then on: an outcome of its first
incarnation may reach the second (`ReusedNameOutcome`), so nothing can be
promised for it. A failed statement stutters: the task stays "sending".

### Throughput and the code

The clock advances in units of 1/`UnitsPerSecond` seconds; a bucket holds
multiples of the same fraction of a token, so refills are exact where the code
computes with floats. A poll reads `now` once and refills every bucket to it;
`late` is how far it lags behind by the time it gets there, at most `MaxPoll`
units. `age` of a bucket is the time since its `last`, capped where a longer time
makes no difference, since the bucket is full by then. `demand` says whether a
queue has due tasks, and clients change it at will; a claim that is missed leaves
it as it is, since other rows of the queue may be due. `allowance` is a history
variable: the number of dispatches the rate leaves a queue over the worst window
that ends now, refilled by the clock and charged by dispatches, independently of
the bucket. `RateEnforced` says it never goes below zero. The burst it starts
with is a full bucket and the tokens of `MaxPoll`: a poll that lags does let a
queue dispatch that much more than a full bucket in a short window, because the
refill after it counts from the earlier `now`.

### TaskApi and the code

CreateTask goes through the steps receive, check, lookup, queue, insert, reread,
in the order both handlers have (`HandlerSteps`). A request has at most one
defect, and each handler refuses its own set of them (`Refuses`): gRPC takes an
unknown method for POST, and its messages cannot hold a malformed time or body.
A queue name no queue can have is noticed only when the queue is to be created.
Deadlines are in quarters of a second: REST rounds to the nearest second, gRPC
up, and the worker takes what is not positive for "default". A `Duration` reaches
to `Half` quarters (2^63 ns in the code): gRPC saturates there, the conversion of
a REST float that no `int` can hold gives the least or the greatest `int`,
depending on the machine, and the worker's product with `time.Second` wraps
around. An `int` of seconds has the same `Half`. Rows are kept in the order of
`ListPage`, newest first. A walk of the API goes from offset to offset as long as
the extra row is there; a walk of the web UI counts, clamps the page, lists, and
follows the "next" link. What happened to the rows in view during a walk (some
entered, some left, which stayed all along) is noted with the walk.

### JobConfig and the code

A request comes by one of three doors with the fields that matter, "body"
standing for all that have neither a default nor a check. `FromJobJSON`,
`JobFromProto` and `FromForm` convert it, `Touched` and `ApplyPatch` are the
update mask, then come `ApplyDefaults`, `Valid` and `Stored`. Paths of a mask are
taken as `snake` has normalised them. `UpdateRead` is `Update` up to the
statement that writes, `UpdateWrite` the statement. Creating is one step: a
creation that finds a row, by its lookup or by the primary key, fails and changes
nothing. `ParseDuration` changes the values in `Rounded`: the product with
`float64(time.Second)` of "1.001s" is 1000999999.99..., which is cut and then
stored as 1000 ms. Up to `MaxExact` (2^52 ns, 52 days) that is all a float can
do; above, floats are coarser than a nanosecond and may be off either way, and
beyond the range of a `Duration` the conversion gives any integer. `JobFromProto`
saturates. `Fire` goes on with the row it began with; timers are exact, and a
negative wait is over at once.

An environment variable is the set of integers it parses to; both unset and
malformed mean the default. `worker.backoff` is compared with its closed form for
every environment and retry number within the bounds, a negative initial or
maximum delay included (the environment may hold any integer).

The backoff loops are recursive functions of the number of iterations; the early
return of `worker.backoff` is taken if any doubling up to the last exceeds the
maximum. The doublings of both and the product of the worker's delay with
`time.Second` wrap around at `Half`: 2^63 in the code; 2^15 in `JobConfig`, where
a maximum of 8000 seconds of 4 ticks is just below it and the doublings of the
initial delay go past it, and 2^7 in `BackoffOverflow`.

## Runs

| run | instance | what it shows |
|---|---|---|
| `DispatchCore` | 2 tasks, 1 queue, 2 slots, limits 2/2 that clients may lower to 1/1, schedule delays 0 and 1, 1 retry | `TypeOK`, `GrantKept`, `AttemptsExact`, `DispatchWithinLimit` |
| `DispatchCrash` | 1 name inserted up to twice, 2 clients, 2 slots, schedule delays 0 and 1, 1 crash, 1 failed statement | `SlotsExact` and `InflightExact` with two goroutines for one name, `AtMostOneDispatch`, `RunningOwned`, `NeverEarly`, `FinishedStays`, `ImplementsLifecycle` |
| `DispatchLive` | 2 tasks of 1 queue, 1 slot, 1 token, 1 crash, fair | `EventuallyDispatched`, `RunningEnds`, `PauseDrains` |
| `Throughput` | 2 queues with rates 1 and 2, 2 slots, half seconds, polls of up to half a second, fair | `TypeOK`, `RateEnforced`, `ServedInOrder` |
| `TaskApi` | 2 clients, 1 walker, 2 of them busy at a time, 3 inserts, pages of 1 and 2, deadlines within and beyond a Duration of 8 bits | `TypeOK`, `BadRequestChangesNothing`, `DeadlineBecomesTimeout`, `AnswerShowsOwnTask`, `NothingMissed`, `NothingTwice`, `UiShowsEachOnce`, `UiPageHasTasks` |
| `JobConfig` | 3 ways to create and 10 to update a job, with durations within and beyond what floats and a Duration of 16 bits hold, 2 clients, 3 writes, 4 retries, 3 environments | `StoredRowValid`, `MaskConfinesUpdate`, `DurationsKept`, `RetriesWithinLimits`, `JobWaitsAsSpecified`, `WorkerWaitsAsSpecified`, `WaitsGrow` |
| `Jobs` | 1 job, a cron schedule and an `@every`, times 1 to 4, 1 edit, 1 run, 1 crash, 1 failed statement | `TypeOK`, `NextRunMatchesState`, `UneditedFiresOnce`, `ClaimsAreDue`, `OutcomeKept` |
| `JobsLive` | 1 name inserted up to twice by 2 clients, 2 runs at a time, 1 retry, 1 failed statement, fair | `OneExecution`, `DueIsClaimed`, `ExecutionEnds` |

Why the bounds are enough: what goes wrong in this code takes two parties for
one row, one slot or one queue, and one of them stale. Two tasks compete for
a limit of one; two slots let a goroutine of an old incarnation overlap with a
new one; one retry reaches both branches
of `retryOrFail`; one crash and one fault hit every state. Symmetry is used for
goroutines, for names in the same queue, and for clients, and only in runs
without liveness. The safety results do not rest on these bounds: all of them,
the refinement included, are proved for any instance.
In `Throughput` a rate of 1 with half seconds makes the slow queue need two polls
for a token, and one unit of lag already separates a poll from its `now`. In
`TaskApi` three rows and pages of one or two give walks of several pages with a
full last page and with a started one; `MaxUnderWay` keeps a walk and a creation,
or two creations, under way together, and `MaxShown` ends a walk of the web UI
that inserts keep prolonging. In `JobConfig` three writes are a creation and two
updates that overlap.

Runs that end in a violation, each against a sentence of the repository:

| run | the repository says | the code |
|---|---|---|
| `OrphanTask` | `db.go:64` a task's queue exists | `CreateTask` against `DeleteQueue` leaves an orphan, which no poll visits (SQLite does not enforce foreign keys unless asked to) |
| `ReusedNameOutcome` | `worker.go:166` records the outcome of the claimed task | it is written to whatever task has the name now |
| `BackoffOverflow` | `scheduler/model.go:226` capped growth from the minimum | the uncapped doublings wrap around |
| `JobFiresTwice` | `runner.go:48` a job cannot fire twice | an edit that read the clock before the claim re-arms the time |

More consequences that are behaviours of the models but have no run:

* a poll that listed a queue before it was paused still dispatches from it
  (`worker.go:97`);
* a listed row that was deleted and created again with a later `schedule_time`
  can be claimed before that time, because `Claim` does not look at the time
  (`worker.go:139`);
* a dispatch that a crash interrupts is not counted, although `Attempts`
  (`tasks/model.go:36`) promises the dispatches made so far;
* a queue behind one that keeps every slot busy is never served: each poll starts
  at the first queue and ends when the slots are taken (`worker.go:101`); within a
  queue a row is passed over as long as clients create rows with an earlier
  `schedule_time` or run others again (`tasks/repository.go:175-183`).
  `ServedInOrder` and `EventuallyDispatched` are what remains true;
* a deadline above 292 years overflows the worker's `Duration` and may end as the
  default timeout (`worker.go:171`), and so may the wait of a task with very large
  or negative delays in the environment (`worker.go:235`);
* a REST deadline below half a second is stored as 0 and means the default
  timeout (`task_handler.go:160`, `worker.go:172`);
* a walk from page to page misses a row when another is deleted, or stops to
  match the filter, behind it, and repeats one after an insert;
* `Update` writes back the row it read, so it undoes a pause or another update
  made in between (`scheduler/repository.go:140-153`);
* a job duration below a millisecond is stored as 0: a minimum backoff of 0 makes
  retries immediate and a `max_retry_duration` of 0 unlimited, and the next update
  of any field replaces the minimum by the default (`repository.go:148`);
* with `INITIAL_BACKOFF_SECONDS` above `MAX_BACKOFF_SECONDS` the first wait
  exceeds the maximum (`worker.go:245`).

`AtMostOneDispatch`, `RunningOwned`, `AttemptsExact`, `NeverEarly` and
`FinishedStays` speak of names inserted once; `DispatchCrash` also explores names
used again, and `ReusedNameOutcome` shows what can happen to them. `RunningOwned`
excludes failed statements: a lost outcome leaves its row RUNNING until the next
start.

### Fairness

`CloudTasks!Fairness`: the ticker keeps calling `pollAndDispatch`, which keeps
going (`WF(Poll)`); recovery runs; time passes; a goroutine goes on, because its
request ends within the dispatch deadline. One strong condition for each
queue stands for data the model leaves out: a bucket keeps its tokens and gains
new ones as time goes by, so a poll that reaches the queue again and again with
slots and concurrency to spare finds a positive limit at last
(`SF(cur = q /\ PollLimit /\ pc' = "list")`). Which of the due rows are listed is
left open. Nothing is assumed of clients, crashes or restarts.
`EventuallyDispatched` therefore has a premise: from some point on the other
tasks, of any queue, are not created or run again. Each of them is then retried
`MaxRetries` times at most, and whatever the order the slots come round to the
task. Without the premise TLC finds it violated. The run has one queue: two of
them with a crash are beyond what TLC checks in minutes, and how a poll shares the
slots among queues is the question of `ServedInOrder`, with two.
`Throughput!Fairness`: the ticker and the clock go on, and a dispatch
ends and gives its slot back; clients promise nothing, so `ServedInOrder` has two
premises: that the demand is there, and that the claims of the queue are not missed
for ever (a row taken away between each listing and its claim).
`JobScheduler!Fairness`: the Runner keeps ticking and every `Fire` goes on,
because an attempt ends within its deadline.

## Proofs

Every invariant and action property that a run checks is also a theorem, for any
values of the constants that satisfy the `ASSUME`s; what is left to TLC is at the
end of this section. The inductive invariants were model-checked on the
instances above before they were proved.

Assumptions. `TaskStore`, `QueueStore`, `CloudTasks`: finite sets of tasks and
slots, positive default limits, natural numbers elsewhere, `None` not a task.
`Throughput`: positive rates, limits and clock resolution. `TaskApi`: finitely
many clients, so that the requests that may still insert can be counted against
the bound on inserts; positive page sizes of the web UI and maximum of the API.
`JobScheduler`: schedules are sets of positive times, or delays. `JobConfig`: the defaults
and the lowest deadline are whole milliseconds and lie within the limits, as in
`model.go`; up to `MaxExact` a duration is parsed one tick short at most, and one
of a single tick exactly (1 ns times `float64(time.Second)` is 1); requests carry integers, of either sign, and so does
the environment.

*Natural numbers* (`NatFacts`). The library states induction and recursion with
an operator as parameter, which the provers cannot instantiate. Here a predicate
is a set and a step is a function: `SetInduction` follows from the
well-foundedness of `<`, and `Recursion` says that the equation of a recursive
function on `Nat` has a solution, hence that the function defined by it satisfies
the equation. All inductions over data below go through these two. Powers of 2
are a recursive function too (`Backoff!Power`), since the provers do not know `^`.

*Accounting* (`CloudTasksProofs`). That the counters stay natural numbers rests
on their being exact, and the tokens on the grant being kept, so these go
together. The inductive invariant is

    Accounting == TypeOK /\ Shape /\ SlotsExact /\ InflightExact /\ GrantKept

where `Shape` ties the program counters to the local variables (a claim is in
hand exactly at "spawn", listed tasks belong to the current queue, a busy
goroutine has a task, the free slots counted before the lock are still free).
Steps of the API and the clock leave poller and pool alone (`BystanderStep`);
each step of the poller or of a goroutine changes one set of slots by one
element. Theorems: `TypeCorrect`, `SlotsAreExact`, `InflightIsExact`,
`GrantIsKept`, and from `GrantKept` before and `InflightExact` after the step
`DispatchStaysWithinLimit`.

*Ownership* (`OwnershipProofs`). `AtMostOneDispatch` is not inductive: a second
sender could come from a claim of a row that is already being sent. The
invariant `Ownership` says, for each name inserted once, that a row somebody has
to record is RUNNING or deleted and is not listed; that a listed row is PENDING
or deleted; that a row which is listed or not PENDING has no time left to wait;
that a name never inserted is nowhere; and, while no statement has failed, that a
RUNNING row has an owner. Theorems: `OneDispatchAtATime`, `RunningIsOwned`, and
with a lemma on what one step may do to a row (`RowSteps`) the action properties
`NeverClaimedEarly` and `FinishedTasksStay`.

*Retry counts and the refinement* (`LifecycleProofs`). A goroutine writes back
the retry count its poll saw, so neither `AttemptsExact` nor the refinement can
be shown from the rows alone. `Tallied` adds, for each name inserted once: every
copy of its retry count that the poller or a goroutine will write back is still
the count of the row; the count never exceeds `MaxRetries`, and a failed row has
reached it; and, before the first crash, the attempts it reports are the
dispatches made. Together with `Ownership`, by which a copy is written only while
its row is RUNNING or gone, this is inductive. Theorems: `AttemptsAreExact`, and
`LifecycleImplemented` (`Spec => ImplementsLifecycle`): initial states map to
initial states, and each step is classified by what it does to the table
(`TableSteps`) and shown to be a step of `TaskLifecycle` or a stutter.

*Rate and slots* (`ThroughputProofs`). `RateEnforced` alone is not inductive:
whether a dispatch may take one more from the allowance depends on the bucket.
The invariant `RateInv` says that a queue without a bucket has its whole burst
left; that the allowance of any other queue is at least the burst, or the tokens
of its bucket and what the rate gives for the bucket's age (`Covered`); and that
the rows a poll may still claim never exceed the whole tokens of a bucket that was
filled in this poll (`Polling`). A refill moves what the age has earned into the
tokens, a unit of time adds the rate on both sides, and a dispatch takes one token
from both. Theorem: `RateIsEnforced`. `TypeCorrect` contains that the slots taken
stay between 0 and `SlotCount`: `SlotInv` says that they are the goroutines of
all queues, added up queue by queue, and that they and the rows a poll may still
claim fit the pool together.

*Scheduler* (`JobSchedulerProofs`). `Shape` consists of the types,
`NextRunMatchesState`, and the same consistency for what is not in the table yet:
the rows and next runs that requests under way are about to write, and the rows a
tick has listed. It gives `TypeCorrect`, `NextRunAlwaysMatches`, `ClaimsDue` and
`OutcomeIsKept`; with it `OneExecution` is inductive (`OneAtATime`).
`UneditedFiresOnce` is not: nothing in it keeps the Runner from claiming a time
that has fired already. The invariant `Ahead` says, for a job inserted once and
not edited, that the next run lies after every time that has fired or is claimed
and about to fire, and that at most one of the two happened for each time. A
claim moves the next run past the time it claims, so this is inductive
(`FiresOncePerTime`).

*Job configuration and waits* (`JobConfigProofs`). `ConfigOK` says that the row
is valid and holds whole milliseconds; that an update under way holds a row that
was stored once, and the valid job computed from it and the request; and that an
execution works with a valid row and within its limits. Cutting to
milliseconds is monotone, so a row that passes `Validate` passes it after it is
stored (`CutFacts`). Theorems: `RowAlwaysValid`, `MaskConfines`, `DurationsStored`,
`RetriesKeepLimits`. `DurationsStored` is about durations up to `MaxExact` by REST and within a
`Duration` by gRPC. The backoff loops are shown to compute their closed forms by
induction on the number of iterations. `WorkerWaitsFollow`: if the two delays and
the wait to be shown fit a `Duration` in nanoseconds, and not both delays are
negative, then no doubling on the way overflows, because one that would has passed
the maximum before (`ProductDoubles`, `ProductFalls`), and the product with
`time.Second` does not either. `JobWaitsFollow`, `WaitsNeverShrink` and
`RetriesKeepLimits` have the premise `[]Fits`: that nothing `RetryConfig.Backoff`
computes for the execution under way overflows a `Duration`. It is needed, as `BackoffOverflow`
shows, and ordinary configurations satisfy it: the defaults (5 s doubled 5 times,
capped at an hour) stay below 2^63 ns for tens of millions of retries.

*Task API and pagination* (`TaskApiProofs`). The invariant `ApiInv` says of the
rows that their numbers fall and that their names differ; of a request that it has
changed nothing before it is found valid, and that the number of the row it
inserted stays with its name; and of each walk how its offset relates to what is
in view. For a walk by page tokens: as long as no row left the view, what stands
before the offset and was there all along has been returned, and as long as none
entered, nothing behind the offset has been. For the web UI: as long as the view
is unchanged, what was shown is a prefix of the list, of whole pages. What makes
offsets work is a fact about sorted lists: what two decreasing lists share comes
no later in the one whose elements the other has as well (`NoLater`, by induction
on the position). Deletions therefore move rows towards the front only and inserts
towards the end only. What the filter returns (`FilteredRows`) is proved by
induction over the rows, and that the clamped page is not empty by arithmetic on
the number of pages (`PagesNeeded`). Theorems: `TypeCorrect`,
`BadRequestsAreHarmless`, `DeadlineIsTimeout` (for deadlines that fit a `Duration`
when rounded up), `AnswersShowOwnTask`,
`PagesMissNothing`, `PagesRepeatNothing`, `UiPagesShowEachOnce`,
`UiPagesHaveTasks`.

Only model-checked: the liveness properties `EventuallyDispatched`, `RunningEnds`,
`PauseDrains`, `ServedInOrder`, `DueIsClaimed` and `ExecutionEnds`. They rest on
fairness, hence on `ENABLED`, which is out of the prover's reach.

## Plan

Done: every component that decides anything is modelled, and every safety
property is proved. What could still be added: theorems about what holds across
names that are used again (how far a late outcome of an earlier incarnation can
reach), and a proof that `TaskLifecycle` itself bounds the number of sends.

## Not modelled

The text of JSON and protobuf messages, names and URLs (a malformed one is a
defect of the request), response bodies beyond whose task and which rows they
show; HTML; cron parsing and time zones (a schedule is its set of times, or a delay); headers
and the auth token; the HTTP request beyond its outcome; the environment beyond
the integers that are computed with; the rates of gRPC requests before they are
converted to integers (one below 1 becomes 0, which means the default of 500);
migrations and SQLite itself; listing queues and jobs, which is one statement
each. A statement of an API handler
that fails ends the request without a change, which is a request that stops
there. Text is left out throughout (`last_error`, log lines).
