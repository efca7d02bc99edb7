------------------------------ MODULE JobConfig ------------------------------
(***************************************************************************)
(* Where the waits between retries come from.  For a scheduler job: from   *)
(* the request, converted by the REST, gRPC or web handler, through the    *)
(* update mask, the defaults, the validation and the store in milliseconds,*)
(* to the retries of Dispatcher.Fire, which goes on with the row it began  *)
(* with.  For a task: from the environment, through config.Load, to the    *)
(* worker's backoff.  There is one job name; JobScheduler has its state    *)
(* and next run, which are left out here.                                  *)
(*                                                                         *)
(* Time is counted in ticks, nanoseconds in the code, Milli of them to the *)
(* millisecond and Second of them to the second.  Update reads the row in  *)
(* one step and writes it in another.  The answer to a request reads the   *)
(* row once more and changes nothing.                                      *)
(***************************************************************************)
EXTENDS Backoff, FiniteSetsExt

CONSTANTS
  Clients,     \* API requests that may be under way at the same time
  Requests,    \* what clients ask for
  Envs,        \* environments the process may be started in
  Milli,       \* ticks in a millisecond
  Second,      \* ticks in a second
  Rounded,     \* durations that parseDuration changes, and to what
  MaxExact,    \* up to here a float loses no whole tick, 2^52 in the code
  Default,     \* the defaults of model.go
  MinDeadline, MaxDeadline,
  Schedules,   \* schedules that ParseSchedule accepts
  Took,        \* how long an attempt of a job may take
  MaxWrites,   \* bound: how often the row is inserted or updated
  MaxTries,    \* bound: up to which retry the worker's waits are compared
  None         \* "nil"

VARIABLES
  row,     \* the job's row
  req,     \* the update each client has under way
  run,     \* the execution of the job by Fire
  env,     \* the environment of the process
  writes   \* history: how often the row was written

vars == <<row, req, run, env, writes>>

\* The fields of a Job that matter here; span is max_retry_duration.  The body
\* stands for every field without a default and without a check.
Names     == {"schedule", "uri", "method", "body"}
Durations == {"deadline", "span", "min", "max"}
Fields    == Names \cup Durations \cup {"count", "doublings"}

Zero(f) == IF f \in Names THEN "" ELSE 0

\* The defaults are whole seconds.  Up to MaxExact the seconds of a request and
\* their product with float64(time.Second) are off by so little that the
\* conversion to an integer cuts one tick at most, and a single tick is converted
\* exactly; above it the product may be off either way, and beyond the range of a
\* Duration the conversion gives any integer.
ASSUME JobConfigAssumption ==
  /\ Milli \in Nat \ {0} /\ Second \in Nat \ {0, 1} /\ MaxExact \in Nat
  /\ DOMAIN Rounded \subseteq Nat
  /\ \A d \in DOMAIN Rounded : /\ Rounded[d] \in Int
                               /\ d <= MaxExact => d > 1 /\ Rounded[d] = d - 1
  /\ Took \subseteq Nat /\ Schedules \subseteq STRING \ {""}
  /\ Default.deadline \in MinDeadline .. MaxDeadline
  /\ Default.min \in Nat /\ Default.max \in Nat /\ Default.min <= Default.max
  /\ MinDeadline \in Nat /\ MaxDeadline \in Nat /\ MinDeadline % Milli = 0
  /\ \A f \in DOMAIN Default \cap Durations : Default[f] \in Nat /\ Default[f] % Milli = 0
  /\ MaxTries \in Nat

\* What a client sends and what an environment holds.
ASSUME InputAssumption ==
  /\ \A r \in Requests : /\ r.door \in {"rest", "grpc", "ui"}
                         /\ \A f \in Durations : r.job[f] \in Int
  /\ \A e \in Envs : e.initial \subseteq Int /\ e.max \subseteq Int

-----------------------------------------------------------------------------
(* Conversion of a request into a Job.                                     *)

\* parseDuration: a float multiplied and converted to an integer.
ParseDuration(d) == IF d \in DOMAIN Rounded THEN Rounded[d] ELSE d

\* A handler refuses the request: REST refuses a negative duration at once.
Refused(r) == r.door = "rest" /\ \E f \in Durations : r.job[f] < 0

FromJobJSON(j) == [f \in Fields |-> IF f \in Durations THEN ParseDuration(j[f]) ELSE j[f]]

JobFromProto(j) == [f \in Fields |-> IF f \in Durations THEN Saturate(j[f]) ELSE j[f]]

\* The form of the web UI has no field for a duration.
FromForm(j) == [f \in Fields |-> IF f \in Durations \cup {"doublings"} THEN 0 ELSE j[f]]

\* The Job that the handler builds.
Converted(r) ==
  CASE r.door = "rest" -> FromJobJSON(r.job)
    [] r.door = "grpc" -> JobFromProto(r.job)
    [] r.door = "ui"   -> FromForm(r.job)

\* The paths of the mask; those of the web UI are fixed.
Mask(r) == IF r.door = "ui" THEN {"schedule", "http_target", "count"} ELSE r.mask

-----------------------------------------------------------------------------
(* The update mask, the defaults and the validation.                       *)

\* The fields that a path of the mask covers, {} for an unknown path.
Covered(path) ==
  CASE path = "http_target"  -> {"uri", "method", "body"}
    [] path = "retry_config" -> {"count", "span", "min", "max", "doublings"}
    [] OTHER                 -> {path} \cap Fields

\* The fields that an update sets: without a mask, those that are not zero.
Touched(r) ==
  IF Mask(r) = {} THEN {f \in Fields : Converted(r)[f] # Zero(f)}
  ELSE UNION {Covered(path) : path \in Mask(r)}

\* Mutant: a path into the retry configuration replaces all of it.
ApplyPatchRetryWhole(j, r) ==
  [f \in Fields |->
     IF \/ f \in Touched(r)
        \/ f \in Covered("retry_config") /\ Touched(r) \cap Covered("retry_config") # {}
     THEN Converted(r)[f] ELSE j[f]]

\* applyPatch, for a mask whose paths are known.
ApplyPatch(j, r) == [f \in Fields |-> IF f \in Touched(r) THEN Converted(r)[f] ELSE j[f]]

ApplyDefaults(j) ==
  [f \in Fields |-> IF f \in DOMAIN Default /\ j[f] = Zero(f) THEN Default[f] ELSE j[f]]

Valid(j) ==
  /\ j.schedule \in Schedules
  /\ j.uri # "" /\ j.method # ""
  /\ j.deadline \in MinDeadline .. MaxDeadline
  /\ \A f \in {"count", "span", "min", "max", "doublings"} : j[f] \in Nat
  /\ j.min <= j.max

-----------------------------------------------------------------------------
(* The store keeps whole milliseconds.                                     *)

\* Mutant: the columns hold whole seconds.
StoredCoarse(j) ==
  [f \in Fields |-> IF f \in Durations THEN (j[f] \div (3 * Milli)) * 3 * Milli ELSE j[f]]

Stored(j) ==
  [f \in Fields |-> IF f \in Durations THEN (j[f] \div Milli) * Milli ELSE j[f]]

NoReq == [on |-> FALSE]
NoRun == [on |-> FALSE]

Init ==
  /\ row = None
  /\ req = [c \in Clients |-> NoReq]
  /\ run = NoRun
  /\ env \in Envs
  /\ writes = 0

\* Service.Create and Repository.Create.  A creation that finds the row, at
\* its lookup or at its insert, fails and changes nothing.
CreateJob(r) ==
  LET j == ApplyDefaults(Converted(r))
  IN  /\ r.op = "create" /\ ~Refused(r) /\ Valid(j)
      /\ row = None /\ writes < MaxWrites
      /\ row' = Stored(j)
      /\ writes' = writes + 1
      /\ UNCHANGED <<req, run, env>>

\* Service.Update up to the statement that writes.
UpdateRead(c, r) ==
  LET j == ApplyDefaults(ApplyPatch(row, r))
  IN  /\ ~req[c].on /\ writes < MaxWrites
      /\ r.op = "update" /\ ~Refused(r)
      /\ row # None
      /\ \A path \in Mask(r) : Covered(path) # {}
      /\ Valid(j)
      /\ req' = [req EXCEPT ![c] = [on |-> TRUE, r |-> r, read |-> row, job |-> j]]
      /\ UNCHANGED <<row, run, env, writes>>

\* Mutant: the statement writes only the columns of the fields set.
UpdateWriteTouched(c) ==
  LET set == Touched(req[c].r)
  IN  /\ req[c].on
      /\ row' = IF row = None THEN row
                ELSE [f \in Fields |-> IF f \in set THEN Stored(req[c].job)[f] ELSE row[f]]
      /\ req' = [req EXCEPT ![c] = NoReq]
      /\ writes' = writes + 1
      /\ UNCHANGED <<run, env>>

\* Repository.Update: every column is written; a missing row is an error.
UpdateWrite(c) ==
  /\ req[c].on
  /\ row' = IF row = None THEN row ELSE Stored(req[c].job)
  /\ req' = [req EXCEPT ![c] = NoReq]
  /\ writes' = writes + 1
  /\ UNCHANGED <<run, env>>

DeleteJob ==
  /\ row # None
  /\ row' = None
  /\ UNCHANGED <<req, run, env, writes>>

-----------------------------------------------------------------------------
(* Fire, with the row as it was listed or read.                            *)

\* Retry number n comes this long after the failure of attempt n.
Wait(r) == JobBackoff([min |-> r.conf.min, max |-> r.conf.max, doublings |-> r.conf.doublings],
                      r.attempt)

Fire ==
  /\ row # None /\ ~run.on
  /\ run' = [on |-> TRUE, conf |-> row, attempt |-> 1, since |-> 0]
  /\ UNCHANGED <<row, req, env, writes>>

\* Mutant: the wait is not counted against the maximal duration.
GivesUpLate(r, since) ==
  \/ r.attempt > r.conf.count
  \/ r.conf.span > 0 /\ Wrap(since) > r.conf.span

\* The conditions under which Fire makes no further attempt.
GivesUp(r, since) ==
  \/ r.attempt > r.conf.count
  \/ r.conf.span > 0 /\ Wrap(since + Wait(r)) > r.conf.span

\* A wait below 0 is over at once.
AttemptFailed(took) ==
  LET since == run.since + took
  IN  /\ run.on
      /\ run' = IF GivesUp(run, since) THEN NoRun
                ELSE [run EXCEPT !.attempt = @ + 1, !.since = since + Max({0, Wait(run)})]
      /\ UNCHANGED <<row, req, env, writes>>

\* The attempt succeeds, or the process shuts down.
FireEnds ==
  /\ run.on
  /\ run' = NoRun
  /\ UNCHANGED <<row, req, env, writes>>

-----------------------------------------------------------------------------
(* The worker's wait.                                                      *)

\* An environment variable is the set of integers it parses to: {} when it is
\* not set or no number.
GetEnvInt(value, default) == IF value = {} THEN default ELSE CHOOSE i \in value : TRUE

InitialBackoff == GetEnvInt(env.initial, 1)
MaxBackoff     == GetEnvInt(env.max, 60)

\* In ticks: time.Duration(delay) * time.Second.
TaskWait(n) == Wrap(WorkerBackoff(InitialBackoff, MaxBackoff, n) * Second)

-----------------------------------------------------------------------------
Next ==
  \/ \E r \in Requests : CreateJob(r)
  \/ \E c \in Clients, r \in Requests : UpdateRead(c, r)
  \/ \E c \in Clients : UpdateWrite(c)
  \/ DeleteJob
  \/ Fire
  \/ \E took \in Took : AttemptFailed(took)
  \/ FireEnds

Spec == Init /\ [][Next]_vars

-----------------------------------------------------------------------------
(* Properties.                                                             *)

\* The row satisfies Validate whatever the order in which updates read and
\* write: two updates that are valid each on the row it read (one raises the
\* minimum backoff, one lowers the maximum) cannot together store a row that
\* no request could have stored, and cutting to milliseconds keeps it valid.
StoredRowValid == row # None => Valid(row)

\* An update changes no field outside its mask, unless another write came
\* between its read and its write.  A duration that was stored as 0 is the
\* exception: the next update of any field replaces it by the default.
MaskConfinesUpdate ==
  [][\A c \in Clients :
       req[c].on /\ ~req'[c].on /\ row = req[c].read =>
         \A f \in Fields \ Touched(req[c].r) :
            row'[f] # row[f] => row[f] = Zero(f) /\ row'[f] = Default[f]]_vars

\* A duration is stored as requested, short by a millisecond at most: the
\* handler and the store each cut, never round up.  This is so for the durations
\* that the float of REST and the Duration of gRPC can hold: up to 52 days, and
\* to 292 years (job_handler.go 81, scheduler_server.go 183 and 196).
Exact(r, f) == IF r.door = "rest" THEN r.job[f] <= MaxExact ELSE Fit(r.job[f])

DurationsKept ==
  [][\A c \in Clients :
       req[c].on /\ ~req'[c].on /\ row # None =>
         \A f \in Touched(req[c].r) \cap Durations :
            LET d == req[c].r.job[f]
            IN  d # 0 /\ Exact(req[c].r, f) => row'[f] <= d /\ row'[f] >= d - Milli]_vars

\* However the row is edited while Fire retries, the attempts keep to the
\* limits of the row the execution began with: one attempt and retry_count
\* retries, none of them due after max_retry_duration, as long as no wait
\* overflows (see JobWaitInRange) and the time since the first attempt fits a
\* Duration.
RetriesWithinLimits ==
  run.on =>
    /\ run.attempt <= run.conf.count + 1
    /\ run.conf.span > 0 /\ run.attempt > 1 /\ Fit(run.since) => run.since <= run.conf.span

\* The wait of the scheduler (model.go 226): doubled for each retry up to
\* maxDoublings times, then linear, capped.
JobWaitsAsSpecified ==
  run.on =>
    Wait(run) = Min({run.conf.max,
                     IF run.attempt - 1 <= run.conf.doublings
                     THEN run.conf.min * Power[run.attempt - 1]
                     ELSE run.conf.min * Power[run.conf.doublings]
                            * (run.attempt - run.conf.doublings)})

\* The worker waits initial * 2^(n - 1) seconds before retry n, but never more
\* than the maximum, if the environment does not set both below 0.  The first
\* wait is the initial delay even when that exceeds the maximum.  The two and the
\* wait must fit a Duration, which is not checked (worker.go 235 and 244 to 253):
\* then no doubling on the way overflows either, not even one past a large
\* maximum.
WorkerWaitsAsSpecified ==
  InitialBackoff >= 0 \/ MaxBackoff >= 0 =>
    \A n \in 1 .. MaxTries :
      LET seconds == IF n = 1 THEN InitialBackoff
                     ELSE Min({MaxBackoff, InitialBackoff * Power[n - 1]})
      IN  (\A x \in {InitialBackoff, MaxBackoff, seconds} : Fit(x * Second))
            => TaskWait(n) = seconds * Second

\* No retry of a job comes sooner after a failure than the one before it.
WaitsGrow == [][run.on /\ run'.on => Wait(run') >= Wait(run)]_vars

\* The wait of a job is never below its minimum nor above its maximum
\* (model.go 226: "the minimum backoff doubles ..., capped at MaxBackoff").
JobWaitInRange == run.on => run.conf.min <= Wait(run) /\ Wait(run) <= run.conf.max
=============================================================================
