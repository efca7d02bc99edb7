---------------------------- MODULE JobScheduler -----------------------------
(***************************************************************************)
(* The Cloud Scheduler side of the emulator: the Service behind the REST,  *)
(* gRPC and web handlers, the Runner's Tick and the Dispatcher's Fire,     *)
(* around the "jobs" table.                                                *)
(*                                                                         *)
(* One SQL statement, one reading of the clock or one critical section of  *)
(* Dispatcher.mu is one step.  Pause reads the job before it writes, but   *)
(* its write refuses a missing job as well, so it is one step; so is Run.  *)
(* A schedule fires at a set of times, or every so often from when its     *)
(* next run is computed (@every); 0 is the zero time.                      *)
(***************************************************************************)
EXTENDS Naturals, FiniteSets

CONSTANTS
  JobIds,      \* full resource names of jobs
  Schedules,   \* schedules in use: "at" the times one fires at, or, if it
               \* is an @every, "every" the delay, which is 0 otherwise
  RetryCount,  \* retryConfig.retryCount, the same for every job
  Clients,     \* API requests that may be under way at the same time
  Execs,       \* bound: calls of Fire that may exist at the same time
  MaxTime,     \* bound: where the clock stops
  MaxInserts,  \* bound: how often one job name is inserted
  MaxEdits,    \* bound: how many requests to resume or update are made
  MaxRuns,     \* bound: how many requests to run a job are made
  MaxCrashes,  \* bound: how often the process dies
  MaxFaults,   \* bound: how many statements of the Runner and of Fire fail
  None         \* "nil"

ASSUME JobSchedulerAssumption ==
  /\ Schedules \subseteq [at : SUBSET (Nat \ {0}), every : Nat]
  /\ RetryCount \in Nat
  /\ None \notin JobIds
  /\ MaxTime \in Nat /\ MaxInserts \in Nat /\ MaxEdits \in Nat
  /\ MaxRuns \in Nat /\ MaxCrashes \in Nat /\ MaxFaults \in Nat

VARIABLES
  now,      \* the clock
  jobs,     \* the table: all that survives a crash
  up,       \* the process runs
  ticking,  \* the Runner is between ListDue and the end of Tick
  tnow,     \* the "now" of that Tick
  due,      \* the jobs it listed and has still to claim
  listed,   \* their rows as listed
  running,  \* Dispatcher.running
  epc,      \* where each call of Fire is
  exec,     \* its job, schedule time and attempt number
  req,      \* the API request each client has under way
  born,     \* history: how often a name was inserted
  edited,   \* history: the jobs a resume or an update has written
  fired,    \* history: how often the Runner fired a job for a schedule time
  count     \* history: edits, runs, crashes and faults so far

table   == <<jobs>>
tick    == <<ticking, tnow, due, listed>>
fires   == <<running, epc, exec>>
history == <<born, edited, fired>>
vars    == <<now, table, up, tick, fires, req, history, count>>

Times  == 1 .. MaxTime
JobRow == [state : {"ENABLED", "PAUSED"}, sched : Schedules, next : Nat,
           last : {"", "OK", "FAILED"}]

\* A name no row has.
NoJob  == [state |-> "ABSENT", sched |-> [at |-> {}, every |-> 0], next |-> 0, last |-> ""]
NoReq  == [op |-> "none", step |-> "idle", job |-> None, row |-> NoJob]
NoExec == [job |-> None, at |-> 0, n |-> 0, forced |-> FALSE]

\* The types of the state.
TypeOK ==
  /\ now \in Nat /\ tnow \in Nat
  /\ jobs \in [JobIds -> JobRow \cup {NoJob}] /\ listed \in [JobIds -> JobRow \cup {NoJob}]
  /\ up \in BOOLEAN /\ ticking \in BOOLEAN
  /\ due \in SUBSET JobIds /\ running \in SUBSET JobIds /\ edited \in SUBSET JobIds
  /\ epc \in [Execs -> {"idle", "start", "attempt", "release"}]
  /\ exec \in [Execs -> [job : JobIds \cup {None}, at : Nat, n : Nat, forced : BOOLEAN]]
  /\ req \in [Clients -> [op   : {"none", "create", "resume", "update"},
                          step : {"idle", "check", "insert", "compute", "write"},
                          job  : JobIds \cup {None},
                          row  : JobRow \cup {NoJob}]]
  /\ born \in [JobIds -> Nat]
  /\ fired \in [JobIds -> [Times -> Nat]]
  /\ count \in [edits : Nat, runs : Nat, crashes : Nat, faults : Nat]

Init ==
  /\ now = 1
  /\ jobs = [j \in JobIds |-> NoJob]
  /\ up = TRUE
  /\ ticking = FALSE /\ tnow = 0 /\ due = {} /\ listed = [j \in JobIds |-> NoJob]
  /\ running = {}
  /\ epc = [e \in Execs |-> "idle"] /\ exec = [e \in Execs |-> NoExec]
  /\ req = [c \in Clients |-> NoReq]
  /\ born = [j \in JobIds |-> 0] /\ edited = {}
  /\ fired = [j \in JobIds |-> [t \in Times |-> 0]]
  /\ count = [edits |-> 0, runs |-> 0, crashes |-> 0, faults |-> 0]

Exists(j) == jobs[j].state # "ABSENT"

\* The earliest time of a set; 0 if there is none.
Earliest(S) == IF S = {} THEN 0 ELSE CHOOSE t \in S : \A u \in S : t <= u

\* Mutant: a schedule time that is the present counts.
NextRunFrom(sched, from) ==
  IF sched.every > 0 THEN from + sched.every ELSE Earliest({t \in sched.at : t >= from})

\* The first time of the schedule strictly after "from"; 0 stands for the
\* error of a schedule that never fires again.
NextRun(sched, from) ==
  IF sched.every > 0 THEN from + sched.every ELSE Earliest({t \in sched.at : t > from})

SetState(j, state, next) == [jobs EXCEPT ![j].state = state, ![j].next = next]

-----------------------------------------------------------------------------
(* Service.                                                                *)

Idle(c) == up /\ req[c] = NoReq

Done(c) == req' = [req EXCEPT ![c] = NoReq]

\* Create: the next run is computed, then the name is looked up, then the row
\* inserted.
CreateBegin(c, j, sched, state) ==
  LET next == IF state = "ENABLED" THEN NextRun(sched, now) ELSE 0 IN
  /\ Idle(c) /\ born[j] < MaxInserts
  /\ state = "ENABLED" => next # 0
  /\ req' = [req EXCEPT ![c] =
               [op |-> "create", step |-> "check", job |-> j,
                row |-> [state |-> state, sched |-> sched, next |-> next, last |-> ""]]]
  /\ UNCHANGED <<now, table, up, tick, fires, history, count>>

\* A taken name is ErrAlreadyExists.
CreateCheck(c) ==
  /\ req[c].step = "check"
  /\ IF Exists(req[c].job) THEN Done(c) ELSE req' = [req EXCEPT ![c].step = "insert"]
  /\ UNCHANGED <<now, table, up, tick, fires, history, count>>

\* A name taken since is refused by the primary key.
CreateInsert(c) ==
  LET j == req[c].job IN
  /\ req[c].step = "insert"
  /\ \/ /\ Exists(j)
        /\ UNCHANGED <<jobs, born>>
     \/ /\ ~Exists(j) /\ born[j] < MaxInserts
        /\ jobs' = [jobs EXCEPT ![j] = req[c].row]
        /\ born' = [born EXCEPT ![j] = @ + 1]
  /\ Done(c)
  /\ UNCHANGED <<now, up, tick, fires, edited, fired, count>>

DeleteJob(j) ==
  /\ up /\ Exists(j)
  /\ jobs' = [jobs EXCEPT ![j] = NoJob]
  /\ UNCHANGED <<now, up, tick, fires, req, history, count>>

\* Mutant: next_run_at is left in place.
PauseKeepsNextRun(j) ==
  /\ up /\ Exists(j)
  /\ jobs' = SetState(j, "PAUSED", jobs[j].next)
  /\ UNCHANGED <<now, up, tick, fires, req, history, count>>

PauseJob(j) ==
  /\ up /\ Exists(j)
  /\ jobs' = SetState(j, "PAUSED", 0)
  /\ UNCHANGED <<now, up, tick, fires, req, history, count>>

Edit == count.edits < MaxEdits /\ count' = [count EXCEPT !.edits = @ + 1]

\* Resume and Update read the row, compute the next run from it (Update only
\* if the row was ENABLED), and write.
ResumeGet(c, j) ==
  /\ Idle(c) /\ Exists(j) /\ Edit
  /\ req' = [req EXCEPT ![c] = [op |-> "resume", step |-> "compute", job |-> j, row |-> jobs[j]]]
  /\ UNCHANGED <<now, table, up, tick, fires, history>>

\* The patch may give a new schedule or leave it alone.
UpdateGet(c, j, sched) ==
  /\ Idle(c) /\ Exists(j) /\ Edit
  /\ req' = [req EXCEPT ![c] =
               [op   |-> "update",
                step |-> IF jobs[j].state = "ENABLED" THEN "compute" ELSE "write",
                job  |-> j,
                row  |-> [jobs[j] EXCEPT !.sched = sched]]]
  /\ UNCHANGED <<now, table, up, tick, fires, history>>

\* A schedule that never fires is refused.
ComputeNext(c) ==
  LET next == NextRun(req[c].row.sched, now) IN
  /\ req[c].step = "compute"
  /\ IF next = 0
     THEN Done(c)
     ELSE req' = [req EXCEPT ![c].step = "write", ![c].row.next = next]
  /\ UNCHANGED <<now, table, up, tick, fires, history, count>>

\* Both writes are by id and find no row if the job was deleted.
ResumeWrite(c) ==
  LET j == req[c].job IN
  /\ req[c].op = "resume" /\ req[c].step = "write"
  /\ jobs' = IF Exists(j) THEN SetState(j, "ENABLED", req[c].row.next) ELSE jobs
  /\ edited' = edited \cup {j}
  /\ Done(c)
  /\ UNCHANGED <<now, up, tick, fires, born, fired, count>>

\* Mutant: the attempt bookkeeping is rewritten too.
UpdateWritesRow(c) ==
  LET j == req[c].job IN
  /\ req[c].op = "update" /\ req[c].step = "write"
  /\ jobs' = IF Exists(j) THEN [jobs EXCEPT ![j] = req[c].row] ELSE jobs
  /\ edited' = edited \cup {j}
  /\ Done(c)
  /\ UNCHANGED <<now, up, tick, fires, born, fired, count>>

\* Every column but the attempt bookkeeping is rewritten.
UpdateWrite(c) ==
  LET j == req[c].job IN
  /\ req[c].op = "update" /\ req[c].step = "write"
  /\ jobs' = IF Exists(j)
             THEN [jobs EXCEPT ![j] = [req[c].row EXCEPT !.last = jobs[j].last]]
             ELSE jobs
  /\ edited' = edited \cup {j}
  /\ Done(c)
  /\ UNCHANGED <<now, up, tick, fires, born, fired, count>>

\* A call of Fire begins in a goroutine of its own.
Spawn(e, j, at, forced) ==
  /\ epc[e] = "idle"
  /\ epc' = [epc EXCEPT ![e] = "start"]
  /\ exec' = [exec EXCEPT ![e] = [job |-> j, at |-> at, n |-> 0, forced |-> forced]]
  /\ UNCHANGED running

RunJob(e, j) ==
  /\ up /\ Exists(j)
  /\ count.runs < MaxRuns /\ count' = [count EXCEPT !.runs = @ + 1]
  /\ Spawn(e, j, now, TRUE)
  /\ UNCHANGED <<now, table, up, tick, req, history>>

-----------------------------------------------------------------------------
(* Runner.                                                                 *)

Fault == count.faults < MaxFaults /\ count' = [count EXCEPT !.faults = @ + 1]

\* Mutant: a job is due after its time only.
ListDueLate ==
  {j \in JobIds : jobs[j].state = "ENABLED" /\ jobs[j].next > 0 /\ jobs[j].next < now}

ListDue == {j \in JobIds : jobs[j].state = "ENABLED" /\ jobs[j].next > 0 /\ jobs[j].next <= now}

TickList ==
  /\ up /\ ~ticking
  /\ ticking' = TRUE /\ tnow' = now /\ due' = ListDue /\ listed' = jobs
  /\ UNCHANGED <<now, table, up, fires, req, history, count>>

\* The next run cannot be computed: the job is paused.
TickPause(j) ==
  /\ ticking /\ j \in due /\ NextRun(listed[j].sched, tnow) = 0
  /\ jobs' = IF Exists(j) THEN SetState(j, "PAUSED", 0) ELSE jobs
  /\ due' = due \ {j}
  /\ UNCHANGED <<now, up, ticking, tnow, listed, fires, req, history, count>>

\* Mutant: the claim does not compare next_run_at.
ClaimsEnabled(j) == jobs[j].state = "ENABLED"

\* The rows the compare-and-swap of Claim matches.
Claims(j) == jobs[j].state = "ENABLED" /\ jobs[j].next = listed[j].next

TickClaim(e, j) ==
  LET next == NextRun(listed[j].sched, tnow) IN
  /\ ticking /\ j \in due /\ next # 0 /\ Claims(j)
  /\ jobs' = [jobs EXCEPT ![j].next = next]
  /\ due' = due \ {j}
  /\ Spawn(e, j, listed[j].next, FALSE)
  /\ UNCHANGED <<now, up, ticking, tnow, listed, req, history, count>>

\* Another writer was there first.
TickMiss(j) ==
  /\ ticking /\ j \in due /\ NextRun(listed[j].sched, tnow) # 0 /\ ~Claims(j)
  /\ due' = due \ {j}
  /\ UNCHANGED <<now, table, up, ticking, tnow, listed, fires, req, history, count>>

\* The statement that claims or pauses the job fails: it stays due for the next
\* Tick.
TickFails(j) ==
  /\ ticking /\ j \in due /\ Fault
  /\ due' = due \ {j}
  /\ UNCHANGED <<now, table, up, ticking, tnow, listed, fires, req, history>>

TickEnd ==
  /\ ticking /\ due = {}
  /\ ticking' = FALSE /\ tnow' = 0 /\ listed' = [j \in JobIds |-> NoJob]
  /\ UNCHANGED <<now, table, up, due, fires, req, history, count>>

-----------------------------------------------------------------------------
(* Dispatcher.Fire.                                                        *)

\* Mutant: acquire does not look at the table of running jobs.
FireAlwaysAcquires(e) ==
  /\ epc[e] = "start"
  /\ running' = running \cup {exec[e].job}
  /\ epc' = [epc EXCEPT ![e] = "attempt"]
  /\ exec' = [exec EXCEPT ![e].n = 1]
  /\ fired' = IF exec[e].forced THEN fired
              ELSE [fired EXCEPT ![exec[e].job][exec[e].at] = @ + 1]
  /\ UNCHANGED <<now, table, up, tick, req, born, edited, count>>

FireAcquire(e) ==
  /\ epc[e] = "start" /\ exec[e].job \notin running
  /\ running' = running \cup {exec[e].job}
  /\ epc' = [epc EXCEPT ![e] = "attempt"]
  /\ exec' = [exec EXCEPT ![e].n = 1]
  /\ fired' = IF exec[e].forced THEN fired
              ELSE [fired EXCEPT ![exec[e].job][exec[e].at] = @ + 1]
  /\ UNCHANGED <<now, table, up, tick, req, born, edited, count>>

\* The previous run is still in flight: this one is skipped.
FireSkip(e) ==
  /\ epc[e] = "start" /\ exec[e].job \in running
  /\ epc' = [epc EXCEPT ![e] = "idle"] /\ exec' = [exec EXCEPT ![e] = NoExec]
  /\ UNCHANGED <<now, table, up, tick, running, req, history, count>>

\* Mutant: a row is made for a job that is gone.
RecordAttemptUpserts(j, outcome) == [jobs EXCEPT ![j].last = outcome]

\* The outcome of an attempt is recorded in the row of that name, if any.
RecordAttempt(j, outcome) == IF Exists(j) THEN [jobs EXCEPT ![j].last = outcome] ELSE jobs

\* An error of that statement is dropped, and the row keeps the old outcome.
Record(j, outcome) ==
  \/ jobs' = RecordAttempt(j, outcome) /\ UNCHANGED count
  \/ Fault /\ UNCHANGED jobs

\* One HTTP attempt.
AttemptOK(e) ==
  /\ epc[e] = "attempt"
  /\ Record(exec[e].job, "OK")
  /\ epc' = [epc EXCEPT ![e] = "release"]
  /\ UNCHANGED <<now, up, tick, running, exec, req, history>>

\* A failed attempt is repeated while retries are left, unless the next one
\* would exceed max_retry_duration or the context is done.
AttemptFailed(e) ==
  /\ epc[e] = "attempt"
  /\ Record(exec[e].job, "FAILED")
  /\ \/ /\ epc' = [epc EXCEPT ![e] = "release"] /\ UNCHANGED exec
     \/ /\ exec[e].n <= RetryCount
        /\ exec' = [exec EXCEPT ![e].n = @ + 1] /\ UNCHANGED epc
  /\ UNCHANGED <<now, up, tick, running, req, history>>

\* Mutant: the name stays in the table of running jobs.
FireForgetsRelease(e) ==
  /\ epc[e] = "release"
  /\ epc' = [epc EXCEPT ![e] = "idle"] /\ exec' = [exec EXCEPT ![e] = NoExec]
  /\ UNCHANGED <<now, table, up, tick, running, req, history, count>>

FireRelease(e) ==
  /\ epc[e] = "release"
  /\ running' = running \ {exec[e].job}
  /\ epc' = [epc EXCEPT ![e] = "idle"] /\ exec' = [exec EXCEPT ![e] = NoExec]
  /\ UNCHANGED <<now, table, up, tick, req, history, count>>

-----------------------------------------------------------------------------
(* The process and the clock.                                              *)

Crash ==
  /\ up /\ count.crashes < MaxCrashes
  /\ up' = FALSE /\ count' = [count EXCEPT !.crashes = @ + 1]
  /\ ticking' = FALSE /\ tnow' = 0 /\ due' = {} /\ listed' = [j \in JobIds |-> NoJob]
  /\ running' = {}
  /\ epc' = [e \in Execs |-> "idle"] /\ exec' = [e \in Execs |-> NoExec]
  /\ req' = [c \in Clients |-> NoReq]
  /\ UNCHANGED <<now, table, history>>

Start ==
  /\ ~up /\ up' = TRUE
  /\ UNCHANGED <<now, table, tick, fires, req, history, count>>

Clock ==
  /\ now < MaxTime /\ now' = now + 1
  /\ UNCHANGED <<table, up, tick, fires, req, history, count>>

Api ==
  \/ \E c \in Clients :
       \/ \E j \in JobIds, sched \in Schedules, state \in {"ENABLED", "PAUSED"} :
            CreateBegin(c, j, sched, state)
       \/ \E j \in JobIds : ResumeGet(c, j)
       \/ \E j \in JobIds, sched \in Schedules : UpdateGet(c, j, sched)
       \/ CreateCheck(c) \/ CreateInsert(c)
       \/ ComputeNext(c) \/ ResumeWrite(c) \/ UpdateWrite(c)
  \/ \E j \in JobIds : \/ DeleteJob(j) \/ PauseJob(j)
                       \/ \E e \in Execs : RunJob(e, j)

Tick ==
  \/ TickList \/ TickEnd
  \/ \E j \in JobIds : \/ TickPause(j) \/ TickMiss(j) \/ TickFails(j)
                       \/ \E e \in Execs : TickClaim(e, j)

FireStep(e) == FireAcquire(e) \/ FireSkip(e) \/ AttemptOK(e) \/ AttemptFailed(e) \/ FireRelease(e)

Next == Api \/ Tick \/ (\E e \in Execs : FireStep(e)) \/ Crash \/ Start \/ Clock

Spec == Init /\ [][Next]_vars

-----------------------------------------------------------------------------
(* Properties.                                                             *)

Executing(e) == epc[e] \in {"attempt", "release"}

\* "At most one execution per job runs at a time" (dispatcher.go 59): for runs
\* by schedule and by request, and for a name deleted and created again; and
\* the guard is given back by every execution that ends.
OneExecution ==
  /\ \A e, f \in Execs : (Executing(e) /\ Executing(f) /\ exec[e].job = exec[f].job) => e = f
  /\ running = {exec[e].job : e \in {f \in Execs : Executing(f)}}

\* A job has a next run exactly when it is ENABLED, however the two-step
\* requests and the Runner interleave: a PAUSED job with a next run, or an
\* ENABLED one without, would be reported wrongly and never fire.
NextRunMatchesState ==
  \A j \in JobIds : (jobs[j].state = "ENABLED") <=> (jobs[j].next > 0)

\* A run by schedule starts neither early nor for a job that is paused, gone
\* or has another next_run_at since it was listed.
ClaimsAreDue ==
  [][\A e \in Execs, j \in JobIds :
       (epc[e] = "idle" /\ epc'[e] = "start" /\ exec'[e].job = j /\ ~exec'[e].forced)
         => /\ jobs[j].state = "ENABLED"
            /\ 0 < jobs[j].next /\ jobs[j].next <= now
            /\ exec'[e].at = jobs[j].next]_vars

\* As long as nobody resumes, updates or re-creates the job, it fires at most
\* once for each schedule time: through failed claims, runs by request and
\* crashes.
UneditedFiresOnce ==
  \A j \in JobIds : (born[j] <= 1 /\ j \notin edited) => \A t \in Times : fired[j][t] <= 1

\* The outcome of the last attempt is written by attempts alone: a request that
\* read the row before the attempt does not bring the old outcome back.
OutcomeKept ==
  [][\A j \in JobIds :
       (jobs'[j].last # jobs[j].last /\ jobs'[j].state # "ABSENT")
         => \E e \in Execs : epc[e] = "attempt" /\ exec[e].job = j]_vars

\* The Runner's ticker and the goroutines of Fire do not stop while the process
\* is up, and an attempt ends within its deadline.
Fairness ==
  /\ WF_vars(Tick)
  /\ \A e \in Execs : WF_vars(FireStep(e))

FairSpec == Spec /\ Fairness

\* A due job is claimed, or the Runner pauses it because its schedule has no
\* further time, or a request or a crash comes in between.
DueIsClaimed ==
  \A j \in JobIds : \A t \in Times :
    (up /\ jobs[j].state = "ENABLED" /\ jobs[j].next = t /\ t <= now)
      ~> (~up \/ jobs[j].state # "ENABLED" \/ jobs[j].next # t)

\* Every execution ends: no job is locked out of further runs.
ExecutionEnds == \A j \in JobIds : (j \in running) ~> (j \notin running)

-----------------------------------------------------------------------------
(* What the repository says and the code does not do.                      *)

\* "a job cannot fire twice" (runner.go 50) for the same schedule time.
FiresOnce ==
  \A j \in JobIds : born[j] <= 1 => \A t \in Times : fired[j][t] <= 1
=============================================================================
