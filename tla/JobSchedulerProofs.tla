------------------------- MODULE JobSchedulerProofs --------------------------
(***************************************************************************)
(* Proofs about the Cloud Scheduler side: the rows keep their shape through*)
(* two-step requests, the Runner claims what is due, a job runs once at a  *)
(* time, and a job nobody edits fires once per schedule time.              *)
(***************************************************************************)
EXTENDS JobScheduler, NatFacts

USE JobSchedulerAssumption

NextMatches(row) == (row.state = "ENABLED") <=> (row.next > 0)

\* What a request has read and computed so far.  A row about to be inserted or
\* written by an update is as consistent as one of the table, a next run about
\* to be written by a resume is one.
Carried(r) ==
  r.step # "idle" =>
    /\ r.job \in JobIds /\ r.row \in JobRow
    /\ r.step \in {"check", "insert"} => NextMatches(r.row) /\ r.row.last = ""
    /\ r.step = "compute" /\ r.op = "update" => r.row.state = "ENABLED"
    /\ r.step = "write" /\ r.op = "update" => NextMatches(r.row)
    /\ r.step = "write" /\ r.op = "resume" => r.row.next > 0

Requests == \A c \in Clients : Carried(req[c])

ExecsNamed == \A e \in Execs : epc[e] # "idle" => exec[e].job \in JobIds

\* What the Runner remembers of a job it has still to claim.
Remembered ==
  /\ tnow <= now
  /\ \A j \in due : /\ listed[j].state = "ENABLED"
                    /\ 0 < listed[j].next /\ listed[j].next <= tnow

Shape == TypeOK /\ Requests /\ ExecsNamed /\ Remembered /\ NextRunMatchesState

\* e has been claimed for j by schedule and has not come to acquire.
Claimed(e, j) == epc[e] = "start" /\ exec[e].job = j /\ ~exec[e].forced

\* The inductive invariant behind UneditedFiresOnce, for one job: every schedule
\* time fired or claimed is one time only and lies before the next run of the
\* row, and nothing was claimed for a job never inserted.
Ahead(j) ==
  /\ \A t \in Times : fired[j][t] <= 1
  /\ \A e \in Execs : Claimed(e, j) /\ exec[e].at \in Times => fired[j][exec[e].at] = 0
  /\ \A e, f \in Execs : Claimed(e, j) /\ Claimed(f, j) /\ exec[e].at = exec[f].at => e = f
  /\ jobs[j].state = "ENABLED" =>
       /\ \A t \in Times : fired[j][t] > 0 => t < jobs[j].next
       /\ \A e \in Execs : Claimed(e, j) => exec[e].at < jobs[j].next
  /\ born[j] = 0 =>
       /\ ~Exists(j)
       /\ \A t \in Times : fired[j][t] = 0
       /\ \A e \in Execs : ~Claimed(e, j)

UneditedAhead == \A j \in JobIds : born[j] <= 1 /\ j \notin edited => Ahead(j)

-----------------------------------------------------------------------------
(* The next run.                                                           *)

\* What the claim of a job and the computation of a request rely on.
LEMMA NextRunIsLater ==
  ASSUME NEW sched \in Schedules, NEW from \in Nat
  PROVE  /\ NextRun(sched, from) \in Nat
         /\ NextRun(sched, from) # 0 => NextRun(sched, from) > from
<1>. DEFINE later == {t \in sched.at : t > from}
<1>1. /\ later \subseteq Nat /\ later \cap {0} = {} /\ sched.every \in Nat
      /\ NextRun(sched, from) = IF sched.every > 0 THEN from + sched.every ELSE Earliest(later)
  BY DEF NextRun
<1>2. CASE later = {}
  BY <1>1, <1>2 DEF Earliest
<1>3. CASE later # {}
  <2>1. \E t \in later : \A u \in later : t <= u
    BY <1>1, <1>3, LeastExists
  <2>2. \A t \in later : t \in Nat /\ t > from
    OBVIOUS
  <2>. HIDE DEF later
  <2>3. Earliest(later) \in later
    BY <2>1, <1>3 DEF Earliest
  <2>4. Earliest(later) \in Nat /\ Earliest(later) > from
    BY <2>2, <2>3
  <2>. QED  BY <2>4, <1>1
<1>. QED  BY <1>2, <1>3

-----------------------------------------------------------------------------
(* The shape of the state.                                                 *)

Counts  == [edits : Nat, runs : Nat, crashes : Nat, faults : Nat]
Request == [op   : {"none", "create", "resume", "update"},
            step : {"idle", "check", "insert", "compute", "write"},
            job  : JobIds \cup {None},
            row  : JobRow \cup {NoJob}]
Execution == [job : JobIds \cup {None}, at : Nat, n : Nat, forced : BOOLEAN]

\* The record of no execution is an execution record.
LEMMA NoExecFacts == NoExec \in Execution
BY DEF NoExec, Execution

\* The absent row has no next run.
LEMMA NoJobFacts == NoJob.state = "ABSENT" /\ NoJob.next = 0 /\ NoJob.last = ""
                    /\ NextMatches(NoJob)
BY DEF NoJob, NextMatches

\* The record of no request is a request record.
LEMMA NoReqFacts == NoReq \in Request /\ NoReq.step = "idle" /\ Carried(NoReq)
BY DEF NoReq, Request, Carried

\* The bounded counters stay counters.
LEMMA CountsKept ==
  ASSUME count \in Counts
  PROVE  /\ Edit => count' \in Counts
         /\ Fault => count' \in Counts
         /\ count' = [count EXCEPT !.runs = @ + 1] => count' \in Counts
         /\ count' = [count EXCEPT !.crashes = @ + 1] => count' \in Counts
BY DEF Counts, Edit, Fault

\* The types that the steps need.
LEMMA ShapeTypes ==
  Shape => /\ now \in Nat /\ tnow \in Nat
           /\ req \in [Clients -> Request] /\ count \in Counts
           /\ born \in [JobIds -> Nat] /\ edited \in SUBSET JobIds
           /\ fired \in [JobIds -> [Times -> Nat]] /\ due \in SUBSET JobIds
           /\ listed \in [JobIds -> JobRow \cup {NoJob}]
BY DEF Shape, TypeOK, Request, Counts

\* A request that moves on and touches nothing else.
LEMMA RequestStep ==
  ASSUME Shape, NEW c \in Clients, NEW r \in Request, Carried(r),
         req' = [req EXCEPT ![c] = r], count' \in Counts,
         UNCHANGED <<now, table, up, tick, fires, history>>
  PROVE  Shape'
<1>1. TypeOK'
  BY DEF Shape, TypeOK, Request, Counts, table, tick, fires, history
<1>2. Requests'
  BY DEF Shape, TypeOK, Requests
<1>3. ExecsNamed' /\ Remembered' /\ NextRunMatchesState'
  BY DEF Shape, ExecsNamed, Remembered, NextRunMatchesState, table, tick, fires
<1>. QED  BY <1>1, <1>2, <1>3 DEF Shape

\* The table, and the calls of Fire.
JobsOK  == jobs \in [JobIds -> JobRow \cup {NoJob}] /\ NextRunMatchesState
FiresOK ==
  /\ running \in SUBSET JobIds
  /\ epc \in [Execs -> {"idle", "start", "attempt", "release"}]
  /\ exec \in [Execs -> Execution]
  /\ ExecsNamed

\* The parts of Shape that the steps change.
LEMMA ShapeParts == Shape => JobsOK /\ FiresOK
BY DEF Shape, TypeOK, JobsOK, FiresOK, Execution

\* A consistent row may be written.
LEMMA RowWritten ==
  ASSUME JobsOK, NEW j \in JobIds, NEW row \in JobRow \cup {NoJob}, NextMatches(row),
         jobs' = [jobs EXCEPT ![j] = row]
  PROVE  JobsOK'
BY DEF JobsOK, NextRunMatchesState, NextMatches

\* A job that exists has a row.
LEMMA RowExists ==
  ASSUME JobsOK, NEW j \in JobIds, Exists(j)
  PROVE  jobs[j] \in JobRow
BY NoJobFacts DEF JobsOK, Exists

\* A pause takes the next run away with the state.
LEMMA PausedRow ==
  ASSUME JobsOK, NEW j \in JobIds, Exists(j), jobs' = SetState(j, "PAUSED", 0)
  PROVE  JobsOK'
<1>. DEFINE row == [jobs[j] EXCEPT !.state = "PAUSED", !.next = 0]
<1>1. jobs[j] \in JobRow
  BY RowExists
<1>2. row \in JobRow /\ row.state = "PAUSED" /\ row.next = 0
  BY <1>1 DEF JobRow
<1>3. jobs' = [jobs EXCEPT ![j] = row]
  BY DEF SetState, JobsOK
<1>. HIDE DEF row
<1>4. NextMatches(row)
  BY <1>2 DEF NextMatches
<1>. QED  BY <1>2, <1>3, <1>4, RowWritten

\* A step that leaves the calls of Fire alone keeps them well formed.
LEMMA UnwrittenFires ==
  ASSUME FiresOK, UNCHANGED fires
  PROVE  FiresOK'
BY DEF FiresOK, ExecsNamed, fires

\* A new call of Fire is well formed.
LEMMA Spawned ==
  ASSUME FiresOK, NEW e \in Execs, NEW j \in JobIds, NEW at \in Nat, NEW forced \in BOOLEAN,
         Spawn(e, j, at, forced)
  PROVE  FiresOK'
BY DEF FiresOK, ExecsNamed, Spawn, Execution

\* Every other step: rows and calls of Fire stay well formed, a request may end,
\* and the Runner has less to claim.
LEMMA OtherStep ==
  ASSUME Shape, JobsOK', FiresOK',
         req' = req \/ \E c \in Clients : Done(c),
         born' \in [JobIds -> Nat], edited' \in SUBSET JobIds,
         fired' \in [JobIds -> [Times -> Nat]], count' \in Counts,
         due' \in SUBSET due, UNCHANGED <<now, up, ticking, tnow, listed>>
  PROVE  Shape'
<1>1. req' \in [Clients -> Request] /\ Requests'
  <2>1. CASE req' = req
    BY <2>1 DEF Shape, TypeOK, Requests, Request
  <2>2. CASE \E c \in Clients : Done(c)
    <3>1. PICK c \in Clients : req' = [req EXCEPT ![c] = NoReq]
      BY <2>2 DEF Done
    <3>2. req' \in [Clients -> Request] /\ req \in [Clients -> Request]
      BY <3>1, NoReqFacts DEF Shape, TypeOK, Request
    <3>. QED  BY <3>1, <3>2, NoReqFacts DEF Shape, Requests
  <2>. QED  BY <2>1, <2>2
<1>2. TypeOK'
  BY <1>1 DEF Shape, TypeOK, Request, Counts, JobsOK, FiresOK, Execution
<1>3. ExecsNamed' /\ Remembered' /\ NextRunMatchesState'
  BY DEF Shape, Remembered, JobsOK, FiresOK
<1>. QED  BY <1>1, <1>2, <1>3 DEF Shape

\* The statements of the Service.
LEMMA ApiShape ==
  ASSUME Shape, Api
  PROVE  Shape'
<1>0. JobsOK /\ FiresOK
  BY ShapeParts
<1>. /\ now \in Nat /\ req \in [Clients -> Request] /\ count \in Counts
     /\ born \in [JobIds -> Nat] /\ edited \in SUBSET JobIds
     /\ fired \in [JobIds -> [Times -> Nat]]
  BY ShapeTypes
<1>1. ASSUME NEW c \in Clients, NEW j \in JobIds, NEW sched \in Schedules,
             NEW state \in {"ENABLED", "PAUSED"}, CreateBegin(c, j, sched, state)
      PROVE  Shape'
  <2>. DEFINE next == IF state = "ENABLED" THEN NextRun(sched, now) ELSE 0
              row  == [state |-> state, sched |-> sched, next |-> next, last |-> ""]
              r    == [op |-> "create", step |-> "check", job |-> j, row |-> row]
  <2>1. next \in Nat /\ (state = "ENABLED" <=> next > 0)
    <3>1. NextRun(sched, now) \in Nat
      BY NextRunIsLater
    <3>2. state = "ENABLED" => NextRun(sched, now) # 0
      BY <1>1 DEF CreateBegin
    <3>. QED  BY <3>1, <3>2
  <2>2. r \in Request /\ Carried(r)
    BY <2>1 DEF Request, Carried, NextMatches, JobRow
  <2>3. req' = [req EXCEPT ![c] = r] /\ UNCHANGED <<now, table, up, tick, fires, history, count>>
    BY <1>1 DEF CreateBegin
  <2>. HIDE DEF r
  <2>. QED  BY <2>2, <2>3, RequestStep
<1>2. ASSUME NEW c \in Clients, NEW j \in JobIds, ResumeGet(c, j)
      PROVE  Shape'
  <2>. DEFINE r == [op |-> "resume", step |-> "compute", job |-> j, row |-> jobs[j]]
  <2>1. jobs[j] \in JobRow
    BY <1>0, <1>2, RowExists DEF ResumeGet
  <2>2. r \in Request /\ Carried(r)
    BY <2>1 DEF Request, Carried
  <2>3. req' = [req EXCEPT ![c] = r] /\ UNCHANGED <<now, table, up, tick, fires, history>>
    BY <1>2 DEF ResumeGet
  <2>4. count' \in Counts
    BY <1>2, CountsKept DEF ResumeGet
  <2>. HIDE DEF r
  <2>. QED  BY <2>2, <2>3, <2>4, RequestStep
<1>3. ASSUME NEW c \in Clients, NEW j \in JobIds, NEW sched \in Schedules, UpdateGet(c, j, sched)
      PROVE  Shape'
  <2>. DEFINE row == [jobs[j] EXCEPT !.sched = sched]
              r   == [op |-> "update", job |-> j, row |-> row,
                      step |-> IF jobs[j].state = "ENABLED" THEN "compute" ELSE "write"]
  <2>1. jobs[j] \in JobRow /\ NextMatches(jobs[j])
    BY <1>0, <1>3, RowExists DEF UpdateGet, JobsOK, NextRunMatchesState, NextMatches
  <2>2. row \in JobRow /\ row.state = jobs[j].state /\ row.next = jobs[j].next
    BY <2>1 DEF JobRow
  <2>. HIDE DEF row
  <2>3. r \in Request /\ Carried(r)
    BY <2>1, <2>2 DEF Request, Carried, NextMatches
  <2>4. req' = [req EXCEPT ![c] = r] /\ UNCHANGED <<now, table, up, tick, fires, history>>
    BY <1>3 DEF UpdateGet, row
  <2>5. count' \in Counts
    BY <1>3, CountsKept DEF UpdateGet
  <2>. HIDE DEF r
  <2>. QED  BY <2>3, <2>4, <2>5, RequestStep
<1>4. ASSUME NEW c \in Clients, CreateCheck(c)
      PROVE  Shape'
  <2>1. Carried(req[c])
    BY DEF Shape, Requests
  <2>2. CASE Done(c)
    BY <1>4, <2>1, <2>2, NoReqFacts, RequestStep DEF CreateCheck, Done
  <2>3. CASE req' = [req EXCEPT ![c].step = "insert"]
    <3>. DEFINE r == [req[c] EXCEPT !.step = "insert"]
    <3>1. r \in Request /\ r.op = req[c].op /\ r.job = req[c].job /\ r.step = "insert"
          /\ r.row = req[c].row
      BY req[c] \in Request DEF Request
    <3>2. req' = [req EXCEPT ![c] = r]
      BY <2>3 DEF Request
    <3>. HIDE DEF r
    <3>3. Carried(r)
      BY <1>4, <2>1, <3>1 DEF CreateCheck, Carried
    <3>. QED  BY <1>4, <3>1, <3>2, <3>3, RequestStep DEF CreateCheck
  <2>. QED  BY <1>4, <2>2, <2>3 DEF CreateCheck
<1>5. ASSUME NEW c \in Clients, ComputeNext(c)
      PROVE  Shape'
  <2>. DEFINE next == NextRun(req[c].row.sched, now)
  <2>1. Carried(req[c])
    BY DEF Shape, Requests
  <2>2. CASE Done(c)
    BY <1>5, <2>1, <2>2, NoReqFacts, RequestStep DEF ComputeNext, Done
  <2>3. CASE next # 0 /\ req' = [req EXCEPT ![c].step = "write", ![c].row.next = next]
    <3>. DEFINE row == [req[c].row EXCEPT !.next = next]
                r   == [req[c] EXCEPT !.step = "write", !.row = row]
    <3>1. req[c].job \in JobIds /\ req[c].row \in JobRow
      BY <1>5, <2>1 DEF ComputeNext, Carried
    <3>2. next \in Nat /\ next > 0
      <4>1. req[c].row.sched \in Schedules
        BY <3>1 DEF JobRow
      <4>2. next \in Nat
        BY <4>1, NextRunIsLater
      <4>. QED  BY <2>3, <4>2
    <3>. HIDE DEF next
    <3>3. row \in JobRow /\ row.state = req[c].row.state /\ row.next = next
      BY <3>1, <3>2 DEF JobRow
    <3>4. req' = [req EXCEPT ![c] = r]
      <4>1. req'[c] = r
        BY <2>3, req[c] \in Request DEF Request
      <4>. QED  BY <2>3, <4>1
    <3>. HIDE DEF row
    <3>5. r \in Request /\ r.op = req[c].op /\ r.job = req[c].job /\ r.step = "write"
          /\ r.row = row
      BY <3>3, req[c] \in Request DEF Request
    <3>. HIDE DEF r
    <3>6. Carried(r)
      BY <1>5, <2>1, <3>1, <3>2, <3>3, <3>5 DEF ComputeNext, Carried, NextMatches
    <3>. QED  BY <1>5, <3>4, <3>5, <3>6, RequestStep DEF ComputeNext
  <2>. QED  BY <1>5, <2>2, <2>3 DEF ComputeNext
<1>6. ASSUME NEW c \in Clients, CreateInsert(c)
      PROVE  Shape'
  <2>. DEFINE j == req[c].job
  <2>1. Carried(req[c]) /\ req[c].step = "insert"
    BY <1>6 DEF Shape, Requests, CreateInsert
  <2>2. j \in JobIds /\ req[c].row \in JobRow /\ NextMatches(req[c].row)
    BY <2>1 DEF Carried
  <2>3. JobsOK'
    <3>1. CASE UNCHANGED jobs
      BY <1>0, <3>1 DEF JobsOK, NextRunMatchesState
    <3>2. CASE jobs' = [jobs EXCEPT ![j] = req[c].row]
      BY <1>0, <2>2, <3>2, RowWritten
    <3>. QED  BY <1>6, <3>1, <3>2 DEF CreateInsert
  <2>4. born' \in [JobIds -> Nat]
    <3>1. born' = born \/ born' = [born EXCEPT ![j] = @ + 1]
      BY <1>6 DEF CreateInsert
    <3>. HIDE DEF j
    <3>. QED  BY <2>2, <3>1
  <2>5. Done(c) /\ UNCHANGED <<now, up, tick, fires, edited, fired, count>>
    BY <1>6 DEF CreateInsert
  <2>. QED  BY <2>3, <2>4, <2>5, <1>0, UnwrittenFires, OtherStep DEF tick
<1>7. ASSUME NEW c \in Clients, ResumeWrite(c) \/ UpdateWrite(c)
      PROVE  Shape'
  <2>. DEFINE j == req[c].job
  <2>1. Carried(req[c]) /\ req[c].step = "write"
    BY <1>7 DEF Shape, Requests, ResumeWrite, UpdateWrite
  <2>2. j \in JobIds /\ req[c].row \in JobRow
    BY <2>1 DEF Carried
  <2>3. JobsOK'
    <3>1. CASE UNCHANGED jobs
      BY <1>0, <3>1 DEF JobsOK, NextRunMatchesState
    <3>2. CASE Exists(j) /\ ResumeWrite(c)
      <4>. DEFINE row == [jobs[j] EXCEPT !.state = "ENABLED", !.next = req[c].row.next]
      <4>1. jobs[j] \in JobRow /\ req[c].row.next \in Nat /\ req[c].row.next > 0
        <5>1. jobs[j] \in JobRow
          BY <1>0, <2>2, <3>2, RowExists
        <5>2. req[c].row.next > 0
          BY <2>1, <3>2 DEF ResumeWrite, Carried
        <5>. QED  BY <2>2, <5>1, <5>2 DEF JobRow
      <4>2. row \in JobRow /\ NextMatches(row)
        BY <4>1 DEF JobRow, NextMatches
      <4>3. jobs' = [jobs EXCEPT ![j] = row]
        BY <3>2, <2>2, <1>0 DEF ResumeWrite, SetState, JobsOK
      <4>. HIDE DEF row
      <4>. QED  BY <1>0, <2>2, <4>2, <4>3, RowWritten
    <3>3. CASE Exists(j) /\ UpdateWrite(c)
      <4>. DEFINE row == [req[c].row EXCEPT !.last = jobs[j].last]
      <4>1. jobs[j] \in JobRow /\ NextMatches(req[c].row)
        <5>1. jobs[j] \in JobRow
          BY <1>0, <2>2, <3>3, RowExists
        <5>. QED  BY <5>1, <2>1, <3>3 DEF UpdateWrite, Carried
      <4>2. row \in JobRow /\ NextMatches(row)
        BY <2>2, <4>1 DEF JobRow, NextMatches
      <4>3. jobs' = [jobs EXCEPT ![j] = row]
        BY <3>3 DEF UpdateWrite
      <4>. HIDE DEF row
      <4>. QED  BY <1>0, <2>2, <4>2, <4>3, RowWritten
    <3>. QED  BY <1>7, <3>1, <3>2, <3>3 DEF ResumeWrite, UpdateWrite
  <2>4. Done(c) /\ edited' = edited \cup {j}
        /\ UNCHANGED <<now, up, tick, fires, born, fired, count>>
    BY <1>7 DEF ResumeWrite, UpdateWrite
  <2>5. edited' \in SUBSET JobIds
    BY <2>2, <2>4 DEF Shape, TypeOK
  <2>. QED  BY <2>3, <2>4, <2>5, <1>0, UnwrittenFires, OtherStep DEF tick
<1>8. ASSUME NEW j \in JobIds, DeleteJob(j) \/ PauseJob(j)
      PROVE  Shape'
  <2>1. JobsOK'
    <3>1. CASE DeleteJob(j)
      <4>1. NextMatches(NoJob) /\ jobs' = [jobs EXCEPT ![j] = NoJob]
        BY <3>1, NoJobFacts DEF DeleteJob
      <4>. QED  BY <1>0, <4>1, RowWritten
    <3>2. CASE PauseJob(j)
      BY <1>0, <3>2, PausedRow DEF PauseJob
    <3>. QED  BY <1>8, <3>1, <3>2
  <2>2. UNCHANGED <<now, up, tick, fires, req, history, count>>
    BY <1>8 DEF DeleteJob, PauseJob
  <2>. QED  BY <2>1, <2>2, <1>0, UnwrittenFires, OtherStep DEF tick, history
<1>9. ASSUME NEW j \in JobIds, NEW e \in Execs, RunJob(e, j)
      PROVE  Shape'
  <2>1. JobsOK' /\ FiresOK'
    BY <1>0, <1>9, Spawned DEF RunJob, JobsOK, NextRunMatchesState, table
  <2>2. count' \in Counts /\ UNCHANGED <<now, up, tick, req, history>>
    BY <1>9, CountsKept DEF RunJob
  <2>. QED  BY <2>1, <2>2, OtherStep DEF tick, history
<1>. QED  BY <1>1, <1>2, <1>3, <1>4, <1>5, <1>6, <1>7, <1>8, <1>9 DEF Api

\* The statements of Runner.Tick.
LEMMA TickShape ==
  ASSUME Shape, Tick
  PROVE  Shape'
<1>0. JobsOK /\ FiresOK
  BY ShapeParts
<1>. /\ now \in Nat /\ tnow \in Nat /\ count \in Counts /\ req \in [Clients -> Request]
     /\ born \in [JobIds -> Nat] /\ edited \in SUBSET JobIds /\ due \in SUBSET JobIds
     /\ fired \in [JobIds -> [Times -> Nat]] /\ listed \in [JobIds -> JobRow \cup {NoJob}]
  BY ShapeTypes
<1>1. CASE TickList \/ TickEnd
  <2>1. TypeOK'
    <3>1. CASE TickList
      <4>1. due' \in SUBSET JobIds
        BY <3>1 DEF TickList, ListDue
      <4>. QED  BY <3>1, <4>1 DEF TickList, Shape, TypeOK, table, fires, history
    <3>2. CASE TickEnd
      BY <3>2 DEF TickEnd, Shape, TypeOK, table, fires, history
    <3>. QED  BY <1>1, <3>1, <3>2
  <2>2. Requests' /\ ExecsNamed' /\ NextRunMatchesState'
    BY <1>1 DEF TickList, TickEnd, Shape, Requests, ExecsNamed, NextRunMatchesState, table, fires
  <2>3. Remembered'
    BY <1>1 DEF TickList, TickEnd, ListDue, Remembered, table
  <2>. QED  BY <2>1, <2>2, <2>3 DEF Shape
<1>2. ASSUME NEW j \in JobIds, TickPause(j) \/ TickMiss(j) \/ TickFails(j)
      PROVE  Shape'
  <2>1. JobsOK'
    <3>1. CASE UNCHANGED jobs
      BY <1>0, <3>1 DEF JobsOK, NextRunMatchesState
    <3>2. CASE Exists(j) /\ jobs' = SetState(j, "PAUSED", 0)
      BY <1>0, <3>2, PausedRow
    <3>. QED  BY <1>2, <3>1, <3>2 DEF TickPause, TickMiss, TickFails, table
  <2>2. count' \in Counts /\ due' \in SUBSET due
        /\ UNCHANGED <<now, up, ticking, tnow, listed, fires, req, history>>
    BY <1>2, CountsKept DEF TickPause, TickMiss, TickFails
  <2>. QED  BY <1>0, <2>1, <2>2, UnwrittenFires, OtherStep DEF history
<1>3. ASSUME NEW j \in JobIds, NEW e \in Execs, TickClaim(e, j)
      PROVE  Shape'
  <2>. DEFINE next == NextRun(listed[j].sched, tnow)
              row  == [jobs[j] EXCEPT !.next = next]
  <2>1. listed[j] \in JobRow /\ jobs[j] \in JobRow /\ jobs[j].state = "ENABLED"
    BY <1>0, <1>3, NoJobFacts DEF TickClaim, Claims, Shape, Remembered, JobsOK
  <2>2. next \in Nat /\ next > 0
    <3>1. listed[j].sched \in Schedules
      BY <2>1 DEF JobRow
    <3>2. next \in Nat
      BY <3>1, NextRunIsLater
    <3>. QED  BY <1>3, <3>2 DEF TickClaim
  <2>3. jobs' = [jobs EXCEPT ![j] = row]
    BY <1>3 DEF TickClaim
  <2>. HIDE DEF next
  <2>4. row \in JobRow /\ row.state = "ENABLED" /\ row.next = next
    BY <2>1, <2>2 DEF JobRow
  <2>. HIDE DEF row
  <2>5. NextMatches(row)
    BY <2>2, <2>4 DEF NextMatches
  <2>6. JobsOK'
    BY <1>0, <2>3, <2>4, <2>5, RowWritten
  <2>7. listed[j].next \in Nat
    BY <2>1 DEF JobRow
  <2>8. FiresOK'
    BY <1>0, <1>3, <2>7, Spawned DEF TickClaim
  <2>9. due' \in SUBSET due /\ UNCHANGED <<now, up, ticking, tnow, listed, req, history, count>>
    BY <1>3 DEF TickClaim
  <2>. QED  BY <2>6, <2>8, <2>9, OtherStep DEF history
<1>. QED  BY <1>1, <1>2, <1>3 DEF Tick

\* RecordAttempt changes neither the state nor the next run.
LEMMA RecordShape ==
  ASSUME JobsOK, count \in Counts, NEW j \in JobIds, NEW outcome \in {"OK", "FAILED"},
         Record(j, outcome)
  PROVE  JobsOK' /\ count' \in Counts
<1>1. CASE UNCHANGED jobs
  BY <1>1, CountsKept DEF Record, JobsOK, NextRunMatchesState
<1>2. CASE Exists(j) /\ jobs' = [jobs EXCEPT ![j].last = outcome] /\ UNCHANGED count
  <2>. DEFINE row == [jobs[j] EXCEPT !.last = outcome]
  <2>1. jobs[j] \in JobRow
    BY <1>2, RowExists
  <2>2. row \in JobRow /\ row.state = jobs[j].state /\ row.next = jobs[j].next
    BY <2>1 DEF JobRow
  <2>3. jobs' = [jobs EXCEPT ![j] = row]
    BY <1>2
  <2>. HIDE DEF row
  <2>4. NextMatches(row)
    BY <2>2 DEF JobsOK, NextRunMatchesState, NextMatches
  <2>. QED  BY <1>2, <2>2, <2>3, <2>4, RowWritten
<1>. QED  BY <1>1, <1>2 DEF Record, RecordAttempt

\* Counting one more attempt, or one more firing.
LEMMA OneMore ==
  /\ \A x \in Execution : [x EXCEPT !.n = @ + 1] \in Execution
  /\ \A f \in [Times -> Nat], t \in Nat : [f EXCEPT ![t] = @ + 1] \in [Times -> Nat]
<1>1. ASSUME NEW x \in Execution PROVE [x EXCEPT !.n = @ + 1] \in Execution
  BY DEF Execution
<1>2. ASSUME NEW f \in [Times -> Nat], NEW t \in Nat
      PROVE  [f EXCEPT ![t] = @ + 1] \in [Times -> Nat]
  <2>1. CASE t \in Times
    <3>1. f[t] + 1 \in Nat
      BY <2>1
    <3>. QED  BY <3>1
  <2>2. CASE t \notin Times
    BY <2>2
  <2>. QED  BY <2>1, <2>2
<1>. QED  BY <1>1, <1>2

\* The steps of Fire.
LEMMA FireShape ==
  ASSUME Shape, NEW e \in Execs, FireStep(e)
  PROVE  Shape'
<1>0. JobsOK /\ FiresOK
  BY ShapeParts
<1>. /\ count \in Counts /\ born \in [JobIds -> Nat] /\ edited \in SUBSET JobIds
     /\ fired \in [JobIds -> [Times -> Nat]]
  BY ShapeTypes
<1>1. CASE FireAcquire(e) \/ FireSkip(e) \/ FireRelease(e)
  <2>1. JobsOK'
    BY <1>0, <1>1 DEF JobsOK, NextRunMatchesState, FireAcquire, FireSkip, FireRelease, table
  <2>2. FiresOK'
    <3>1. exec[e].job \in JobIds
      BY <1>0, <1>1 DEF FireAcquire, FireSkip, FireRelease, FiresOK, ExecsNamed
    <3>2. CASE FireAcquire(e)
      BY <1>0, <3>1, <3>2 DEF FireAcquire, FiresOK, ExecsNamed, Execution
    <3>3. CASE FireSkip(e)
      BY <1>0, <3>3, NoExecFacts DEF FireSkip, FiresOK, ExecsNamed
    <3>4. CASE FireRelease(e)
      BY <1>0, <3>4, NoExecFacts DEF FireRelease, FiresOK, ExecsNamed
    <3>. QED  BY <1>1, <3>2, <3>3, <3>4
  <2>3. fired' \in [JobIds -> [Times -> Nat]]
    <3>1. CASE FireAcquire(e)
      <4>. DEFINE j == exec[e].job
                  f == [fired[j] EXCEPT ![exec[e].at] = @ + 1]
      <4>1. j \in JobIds => f \in [Times -> Nat]
        <5>1. exec[e].at \in Nat
          BY <1>0 DEF FiresOK, Execution
        <5>. QED  BY <5>1, OneMore
      <4>2. fired' = fired \/ fired' = [fired EXCEPT ![j] = f]
        BY <3>1 DEF FireAcquire
      <4>. HIDE DEF f
      <4>. QED  BY <4>1, <4>2
    <3>2. CASE FireSkip(e) \/ FireRelease(e)
      BY <3>2 DEF FireSkip, FireRelease, history
    <3>. QED  BY <1>1, <3>1, <3>2
  <2>4. UNCHANGED <<now, up, tick, req, born, edited, count>>
    BY <1>1 DEF FireAcquire, FireSkip, FireRelease, history
  <2>. QED  BY <2>1, <2>2, <2>3, <2>4, OtherStep DEF tick
<1>2. CASE AttemptOK(e) \/ AttemptFailed(e)
  <2>1. exec[e].job \in JobIds
    BY <1>0, <1>2 DEF AttemptOK, AttemptFailed, FiresOK, ExecsNamed
  <2>2. JobsOK' /\ count' \in Counts
    <3>1. \E outcome \in {"OK", "FAILED"} : Record(exec[e].job, outcome)
      BY <1>2 DEF AttemptOK, AttemptFailed
    <3>. QED  BY <1>0, <2>1, <3>1, RecordShape
  <2>3. FiresOK'
    <3>1. CASE AttemptOK(e)
      BY <1>0, <2>1, <3>1 DEF AttemptOK, FiresOK, ExecsNamed
    <3>2. CASE AttemptFailed(e)
      <4>1. exec' \in [Execs -> Execution]
        <5>1. CASE UNCHANGED exec
          BY <1>0, <5>1 DEF FiresOK
        <5>2. CASE exec' = [exec EXCEPT ![e].n = @ + 1]
          <6>1. exec[e] \in Execution
            BY <1>0 DEF FiresOK
          <6>2. [exec[e] EXCEPT !.n = @ + 1] \in Execution
            BY <6>1, OneMore
          <6>. QED  BY <1>0, <5>2, <6>2 DEF FiresOK
        <5>. QED  BY <3>2, <5>1, <5>2 DEF AttemptFailed
      <4>2. epc' \in [Execs -> {"idle", "start", "attempt", "release"}] /\ UNCHANGED running
        BY <1>0, <3>2 DEF AttemptFailed, FiresOK
      <4>3. \A f \in Execs : exec'[f].job = exec[f].job /\ (epc'[f] # "idle" => epc[f] # "idle")
        BY <1>0, <3>2 DEF AttemptFailed, FiresOK, Execution
      <4>. QED  BY <1>0, <4>1, <4>2, <4>3 DEF FiresOK, ExecsNamed
    <3>. QED  BY <1>2, <3>1, <3>2
  <2>4. UNCHANGED <<now, up, tick, req, history>>
    BY <1>2 DEF AttemptOK, AttemptFailed
  <2>. QED  BY <2>2, <2>3, <2>4, OtherStep DEF tick, history
<1>. QED  BY <1>1, <1>2 DEF FireStep

\* The tables are empty at first.
LEMMA ShapeInit == Init => Shape
<1>. SUFFICES ASSUME Init PROVE Shape
  OBVIOUS
<1>1. TypeOK
  BY DEF Init, TypeOK, NoReq, NoExec, Times
<1>2. Requests /\ ExecsNamed /\ Remembered /\ NextRunMatchesState
  <2>1. Requests /\ ExecsNamed /\ Remembered
    BY NoReqFacts DEF Init, Requests, ExecsNamed, Remembered
  <2>2. NextRunMatchesState
    BY NoJobFacts DEF Init, NextRunMatchesState, NextMatches
  <2>. QED  BY <2>1, <2>2
<1>. QED  BY <1>1, <1>2 DEF Shape

\* Shape is inductive.
LEMMA ShapeStep == Shape /\ [Next]_vars => Shape'
<1>. SUFFICES ASSUME Shape, [Next]_vars PROVE Shape'
  OBVIOUS
<1>1. CASE Crash
  <2>1. TypeOK'
    BY <1>1, ShapeTypes, CountsKept
    DEF Crash, Shape, TypeOK, NoReq, NoExec, Counts, table, history
  <2>2. Requests' /\ ExecsNamed' /\ Remembered' /\ NextRunMatchesState'
    BY <1>1, NoReqFacts, ShapeTypes
    DEF Crash, Shape, Requests, ExecsNamed, Remembered, NextRunMatchesState, table
  <2>. QED  BY <2>1, <2>2 DEF Shape
<1>2. CASE Start \/ Clock \/ UNCHANGED vars
  <2>1. TypeOK'
    <3>1. CASE Start
      BY <3>1 DEF Start, Shape, TypeOK, table, tick, fires, history
    <3>2. CASE Clock
      BY <3>2 DEF Clock, Shape, TypeOK, table, tick, fires, history
    <3>3. CASE UNCHANGED vars
      BY <3>3 DEF vars, Shape, TypeOK, table, tick, fires, history
    <3>. QED  BY <1>2, <3>1, <3>2, <3>3
  <2>2. Requests' /\ ExecsNamed' /\ NextRunMatchesState'
    BY <1>2 DEF Start, Clock, vars, Shape, Requests, ExecsNamed, NextRunMatchesState,
                table, tick, fires
  <2>3. Remembered'
    BY <1>2, ShapeTypes DEF Start, Clock, vars, Shape, Remembered, tick
  <2>. QED  BY <2>1, <2>2, <2>3 DEF Shape
<1>. QED  BY <1>1, <1>2, ApiShape, TickShape, FireShape DEF Next

\* Rows, requests and executions are well formed, always.
LEMMA ShapeAlways == Spec => []Shape
BY ShapeInit, ShapeStep, PTL DEF Spec

\* The types of the state.
THEOREM TypeCorrect == Spec => []TypeOK
BY ShapeAlways, PTL DEF Shape

\* In the table a job has a next run exactly when it is ENABLED, however the
\* two-step requests of Service and the statements of the Runner interleave.
THEOREM NextRunAlwaysMatches == Spec => []NextRunMatchesState
BY ShapeAlways, PTL DEF Shape

-----------------------------------------------------------------------------
(* One execution at a time, and the steps of the claim and of an attempt.  *)

\* The steps that touch a call of Fire.
LEMMA FiresSteps ==
  ASSUME [Next]_vars
  PROVE  \/ UNCHANGED fires
         \/ \E e \in Execs, j \in JobIds : RunJob(e, j) \/ TickClaim(e, j)
         \/ \E e \in Execs : FireStep(e)
         \/ Crash
<1>1. CASE Api
  <2>1. \/ \E e \in Execs, j \in JobIds : RunJob(e, j)
        \/ UNCHANGED fires
    BY <1>1 DEF Api, CreateBegin, CreateCheck, CreateInsert, ResumeGet, UpdateGet, ComputeNext,
                ResumeWrite, UpdateWrite, DeleteJob, PauseJob
  <2>. QED  BY <2>1
<1>2. CASE Tick
  BY <1>2 DEF Tick, TickList, TickEnd, TickPause, TickMiss, TickFails
<1>3. CASE Start \/ Clock \/ UNCHANGED vars
  BY <1>3 DEF Start, Clock, vars
<1>. QED  BY <1>1, <1>2, <1>3 DEF Next

\* The steps that write a row.
LEMMA RowsSteps ==
  ASSUME [Next]_vars
  PROVE  \/ UNCHANGED jobs
         \/ \E c \in Clients : CreateInsert(c) \/ ResumeWrite(c) \/ UpdateWrite(c)
         \/ \E j \in JobIds : DeleteJob(j) \/ PauseJob(j) \/ TickPause(j)
         \/ \E j \in JobIds, e \in Execs : TickClaim(e, j)
         \/ \E e \in Execs : AttemptOK(e) \/ AttemptFailed(e)
<1>1. CASE Api
  BY <1>1 DEF Api, CreateBegin, CreateCheck, ResumeGet, UpdateGet, ComputeNext, RunJob, table
<1>2. CASE Tick
  BY <1>2 DEF Tick, TickList, TickEnd, TickMiss, TickFails, table
<1>3. ASSUME NEW e \in Execs, FireStep(e)
      PROVE  UNCHANGED jobs \/ AttemptOK(e) \/ AttemptFailed(e)
  BY <1>3 DEF FireStep, FireAcquire, FireSkip, FireRelease, table
<1>4. CASE Crash \/ Start \/ Clock \/ UNCHANGED vars
  BY <1>4 DEF Crash, Start, Clock, vars, table
<1>. QED  BY <1>1, <1>2, <1>3, <1>4 DEF Next

\* A write of the state and the next run, or of the next run alone.
LEMMA StateSet ==
  ASSUME jobs \in [JobIds -> JobRow \cup {NoJob}], NEW i \in JobIds, NEW j \in JobIds,
         NEW state, NEW next
  PROVE  /\ jobs' = SetState(i, state, next) =>
              /\ jobs'[j].last = jobs[j].last
              /\ i # j => jobs'[j] = jobs[j]
              /\ i = j => jobs'[j].state = state /\ jobs'[j].next = next
         /\ jobs' = [jobs EXCEPT ![i].next = next] =>
              /\ jobs'[j].last = jobs[j].last
              /\ i # j => jobs'[j] = jobs[j]
              /\ i = j => jobs'[j].state = jobs[j].state /\ jobs'[j].next = next
<1>. DEFINE p == [jobs[i] EXCEPT !.state = state, !.next = next]
            q == [jobs[i] EXCEPT !.next = next]
<1>1. jobs[i] \in JobRow \cup {NoJob}
  OBVIOUS
<1>2. /\ p.last = jobs[i].last /\ p.state = state /\ p.next = next
      /\ q.last = jobs[i].last /\ q.state = jobs[i].state /\ q.next = next
  BY <1>1 DEF JobRow, NoJob
<1>3. /\ SetState(i, state, next) = [jobs EXCEPT ![i] = p]
      /\ [jobs EXCEPT ![i].next = next] = [jobs EXCEPT ![i] = q]
  BY DEF SetState
<1>. HIDE DEF p, q
<1>. QED  BY <1>2, <1>3

\* A step that changes neither the running set nor who executes what.
LEMMA HoldersKept ==
  ASSUME OneExecution, running' = running,
         \A f \in Execs : Executing(f)' <=> Executing(f),
         \A f \in Execs : Executing(f) => exec'[f].job = exec[f].job
  PROVE  OneExecution'
BY DEF OneExecution

\* Only FireAcquire starts to execute, and only a job that is not in the set.
LEMMA OneExecutionStep == Shape /\ OneExecution /\ [Next]_vars => OneExecution'
<1>. SUFFICES ASSUME Shape, OneExecution, [Next]_vars PROVE OneExecution'
  OBVIOUS
<1>0. FiresOK
  BY ShapeParts
<1>1. CASE UNCHANGED fires
  BY <1>1, HoldersKept DEF fires, Executing
<1>2. ASSUME NEW e \in Execs, NEW j \in JobIds, RunJob(e, j) \/ TickClaim(e, j)
      PROVE  OneExecution'
  BY <1>0, <1>2, HoldersKept DEF RunJob, TickClaim, Spawn, Executing, FiresOK
<1>3. ASSUME NEW e \in Execs, FireStep(e)
      PROVE  OneExecution'
  <2>1. CASE FireAcquire(e)
    <3>1. \A f \in Execs : /\ Executing(f)' <=> (Executing(f) \/ f = e)
                           /\ exec'[f].job = exec[f].job
      BY <1>0, <2>1 DEF FireAcquire, Executing, FiresOK, Execution
    <3>2. \A f \in Execs : Executing(f) => exec[f].job # exec[e].job
      BY <2>1 DEF FireAcquire, OneExecution
    <3>3. running' = running \cup {exec[e].job}
      BY <2>1 DEF FireAcquire
    <3>. QED  BY <3>1, <3>2, <3>3 DEF OneExecution
  <2>2. CASE FireSkip(e)
    BY <1>0, <2>2, HoldersKept DEF FireSkip, Executing, FiresOK
  <2>3. CASE AttemptOK(e) \/ AttemptFailed(e)
    BY <1>0, <2>3, HoldersKept DEF AttemptOK, AttemptFailed, Executing, FiresOK, Execution
  <2>4. CASE FireRelease(e)
    <3>1. \A f \in Execs : /\ Executing(f)' <=> (Executing(f) /\ f # e)
                           /\ f # e => exec'[f] = exec[f]
      BY <1>0, <2>4 DEF FireRelease, Executing, FiresOK
    <3>2. running' = running \ {exec[e].job} /\ Executing(e)
      BY <2>4 DEF FireRelease, Executing
    <3>. QED  BY <3>1, <3>2 DEF OneExecution
  <2>. QED  BY <1>3, <2>1, <2>2, <2>3, <2>4 DEF FireStep
<1>4. CASE Crash
  BY <1>4 DEF Crash, OneExecution, Executing
<1>. QED  BY <1>1, <1>2, <1>3, <1>4, FiresSteps

\* At most one execution per job runs at a time, for any number of calls of
\* Fire, and Dispatcher.running holds exactly the jobs that run.
THEOREM OneAtATime == Spec => []OneExecution
<1>1. Init => OneExecution
  BY DEF Init, OneExecution, Executing
<1>. QED  BY <1>1, OneExecutionStep, ShapeAlways, PTL DEF Spec

\* Tick claims a job only when it is due, and for its next run.
THEOREM ClaimsDue == Spec => ClaimsAreDue
<1>. DEFINE A == \A e \in Execs, j \in JobIds :
                   (epc[e] = "idle" /\ epc'[e] = "start" /\ exec'[e].job = j /\ ~exec'[e].forced)
                     => /\ jobs[j].state = "ENABLED"
                        /\ 0 < jobs[j].next /\ jobs[j].next <= now
                        /\ exec'[e].at = jobs[j].next
<1>1. ASSUME Shape, [Next]_vars PROVE A
  <2>. SUFFICES ASSUME NEW e \in Execs, NEW j \in JobIds, epc[e] = "idle", epc'[e] = "start",
                       exec'[e].job = j, ~exec'[e].forced
                PROVE  /\ jobs[j].state = "ENABLED"
                       /\ 0 < jobs[j].next /\ jobs[j].next <= now
                       /\ exec'[e].at = jobs[j].next
    OBVIOUS
  <2>0. FiresOK
    BY <1>1, ShapeParts
  <2>1. CASE UNCHANGED fires
    BY <2>1 DEF fires
  <2>2. ASSUME NEW d \in Execs, NEW i \in JobIds, RunJob(d, i) PROVE FALSE
    BY <2>0, <2>2 DEF RunJob, Spawn, FiresOK
  <2>3. ASSUME NEW d \in Execs, NEW i \in JobIds, TickClaim(d, i)
        PROVE  /\ jobs[j].state = "ENABLED"
               /\ 0 < jobs[j].next /\ jobs[j].next <= now
               /\ exec'[e].at = jobs[j].next
    <3>1. d = e /\ i = j /\ exec'[e].at = listed[j].next
      BY <2>0, <2>3 DEF TickClaim, Spawn, FiresOK
    <3>2. j \in due /\ jobs[j].state = "ENABLED" /\ jobs[j].next = listed[j].next
      BY <2>3, <3>1 DEF TickClaim, Claims
    <3>3. 0 < listed[j].next /\ listed[j].next <= tnow /\ tnow <= now
      BY <1>1, <3>2 DEF Shape, Remembered
    <3>4. listed[j].next \in Nat
      <4>1. listed[j] \in JobRow
        <5>1. listed[j].state = "ENABLED" /\ listed[j] \in JobRow \cup {NoJob}
          BY <1>1, <3>2, ShapeTypes DEF Shape, Remembered
        <5>. QED  BY <5>1, NoJobFacts
      <4>. QED  BY <4>1 DEF JobRow
    <3>. QED  BY <1>1, <3>1, <3>2, <3>3, <3>4, ShapeTypes
  <2>4. ASSUME NEW d \in Execs, FireStep(d) PROVE FALSE
    BY <2>0, <2>4 DEF FireStep, FireAcquire, FireSkip, AttemptOK, AttemptFailed, FireRelease, FiresOK
  <2>5. CASE Crash
    BY <2>5 DEF Crash
  <2>. QED  BY <1>1, <2>1, <2>2, <2>3, <2>4, <2>5, FiresSteps
<1>. QED  BY <1>1, ShapeAlways, PTL DEF Spec, ClaimsAreDue

\* Only an attempt that is running writes last_attempt: no request brings an
\* outcome back that it read earlier.
THEOREM OutcomeIsKept == Spec => OutcomeKept
<1>. DEFINE A == \A j \in JobIds :
                   (jobs'[j].last # jobs[j].last /\ jobs'[j].state # "ABSENT")
                     => \E e \in Execs : epc[e] = "attempt" /\ exec[e].job = j
<1>1. ASSUME Shape, [Next]_vars PROVE A
  <2>. SUFFICES ASSUME NEW j \in JobIds, jobs'[j].last # jobs[j].last, jobs'[j].state # "ABSENT"
                PROVE  \E e \in Execs : epc[e] = "attempt" /\ exec[e].job = j
    OBVIOUS
  <2>0. jobs \in [JobIds -> JobRow \cup {NoJob}]
    BY <1>1, ShapeParts DEF JobsOK
  <2>1. ASSUME NEW c \in Clients, CreateInsert(c) PROVE FALSE
    <3>1. Carried(req[c]) /\ req[c].step = "insert"
      BY <1>1, <2>1 DEF Shape, Requests, CreateInsert
    <3>2. req[c].row.last = "" /\ req[c].job \in JobIds
      BY <3>1 DEF Carried
    <3>3. ~Exists(j) /\ jobs'[j] = req[c].row
      BY <2>0, <2>1, <3>2 DEF CreateInsert
    <3>4. jobs[j].last = ""
      BY <2>0, <3>3, NoJobFacts DEF Exists, JobRow
    <3>. QED  BY <3>2, <3>3, <3>4
  <2>2. ASSUME NEW c \in Clients, ResumeWrite(c) \/ UpdateWrite(c) PROVE FALSE
    <3>1. Carried(req[c]) /\ req[c].step = "write"
      BY <1>1, <2>2 DEF Shape, Requests, ResumeWrite, UpdateWrite
    <3>2. req[c].row \in JobRow /\ req[c].job \in JobIds
      BY <3>1 DEF Carried
    <3>3. CASE ResumeWrite(c)
      BY <2>0, <3>2, <3>3, StateSet, ZenonT(30) DEF ResumeWrite
    <3>4. CASE UpdateWrite(c)
      <4>1. [req[c].row EXCEPT !.last = jobs[j].last].last = jobs[j].last
        BY <3>2 DEF JobRow
      <4>. QED  BY <2>0, <3>2, <3>4, <4>1 DEF UpdateWrite
    <3>. QED  BY <2>2, <3>3, <3>4
  <2>3. ASSUME NEW i \in JobIds, DeleteJob(i) \/ PauseJob(i) \/ TickPause(i) PROVE FALSE
    <3>1. CASE DeleteJob(i)
      BY <2>0, <3>1, NoJobFacts, ZenonT(30) DEF DeleteJob
    <3>2. CASE PauseJob(i) \/ TickPause(i)
      BY <2>0, <3>2, StateSet DEF PauseJob, TickPause
    <3>. QED  BY <2>3, <3>1, <3>2
  <2>4. ASSUME NEW i \in JobIds, NEW e \in Execs, TickClaim(e, i) PROVE FALSE
    BY <2>0, <2>4, StateSet DEF TickClaim
  <2>5. ASSUME NEW e \in Execs, AttemptOK(e) \/ AttemptFailed(e)
        PROVE  \E f \in Execs : epc[f] = "attempt" /\ exec[f].job = j
    BY <2>0, <2>5 DEF AttemptOK, AttemptFailed, Record, RecordAttempt
  <2>. QED  BY <1>1, <2>1, <2>2, <2>3, <2>4, <2>5, RowsSteps
<1>. QED  BY <1>1, ShapeAlways, PTL DEF Spec, OutcomeKept

-----------------------------------------------------------------------------
(* A job nobody edits fires once per schedule time.                        *)

\* The steps that matter for what has fired: all others leave it alone.
LEMMA HistorySteps ==
  ASSUME Shape, [Next]_vars
  PROVE  \/ UNCHANGED <<jobs, fires, born, fired, edited>>
         \/ \E c \in Clients : CreateInsert(c) \/ ResumeWrite(c) \/ UpdateWrite(c)
         \/ \E j \in JobIds : DeleteJob(j) \/ PauseJob(j) \/ TickPause(j)
         \/ \E j \in JobIds, e \in Execs : RunJob(e, j) \/ TickClaim(e, j)
         \/ \E e \in Execs : FireStep(e)
         \/ Crash
<1>1. CASE Api
  BY <1>1, ZenonT(30) DEF Api, CreateBegin, CreateCheck, ResumeGet, UpdateGet, ComputeNext, table, history
<1>2. CASE Tick
  BY <1>2 DEF Tick, TickList, TickEnd, TickMiss, TickFails, table, history
<1>3. CASE Start \/ Clock \/ UNCHANGED vars
  BY <1>3 DEF Start, Clock, vars, table, history
<1>. QED  BY <1>1, <1>2, <1>3 DEF Next

\* A step that claims and fires nothing of j, and moves its next run at most by
\* taking it away.
LEMMA QuietForJob ==
  ASSUME NEW j \in JobIds, Ahead(j), fired'[j] = fired[j], born'[j] = born[j],
         \A e \in Execs : Claimed(e, j)' => Claimed(e, j) /\ exec'[e].at = exec[e].at,
         jobs'[j].state = "ENABLED" => jobs[j].state = "ENABLED" /\ jobs'[j].next = jobs[j].next,
         Exists(j)' => Exists(j)
  PROVE  Ahead(j)'
BY DEF Ahead

\* The first insert of a name: nothing of it was claimed or fired before.
LEMMA InsertKeepsAhead ==
  ASSUME Shape, NEW c \in Clients, CreateInsert(c),
         NEW j \in JobIds, Ahead(j), born'[j] <= 1
  PROVE  Ahead(j)'
<1>1. UNCHANGED <<epc, exec, fired>>
  BY DEF CreateInsert, fires
<1>2. \A e \in Execs : Claimed(e, j)' <=> Claimed(e, j)
  BY <1>1 DEF Claimed
<1>3. jobs \in [JobIds -> JobRow \cup {NoJob}] /\ born \in [JobIds -> Nat]
  BY ShapeTypes, ShapeParts DEF JobsOK
<1>4. CASE jobs'[j] = jobs[j] /\ born'[j] = born[j]
  BY <1>1, <1>2, <1>4, QuietForJob DEF Exists
<1>5. CASE born'[j] = born[j] + 1
  <2>1. born[j] = 0 /\ born'[j] # 0
    BY <1>3, <1>5
  <2>2. (\A t \in Times : fired[j][t] = 0) /\ (\A e \in Execs : ~Claimed(e, j))
    BY <2>1 DEF Ahead
  <2>. QED  BY <1>1, <1>2, <2>1, <2>2 DEF Ahead
<1>. QED  BY <1>3, <1>4, <1>5 DEF CreateInsert

\* The claim moves the next run past the time it claims.
LEMMA ClaimKeepsAhead ==
  ASSUME Shape, NEW e \in Execs, NEW i \in JobIds, TickClaim(e, i), NEW j \in JobIds, Ahead(j)
  PROVE  Ahead(j)'
<1>0. FiresOK /\ jobs \in [JobIds -> JobRow \cup {NoJob}]
  BY ShapeParts DEF JobsOK
<1>1. UNCHANGED <<fired, born>> /\ i \in due /\ Spawn(e, i, listed[i].next, FALSE)
      /\ jobs[i].state = "ENABLED" /\ jobs[i].next = listed[i].next
  BY DEF TickClaim, Claims, history
<1>2. \A f \in Execs : f # e => /\ Claimed(f, j)' <=> Claimed(f, j)
                                /\ exec'[f] = exec[f]
  BY <1>0, <1>1 DEF Spawn, Claimed, FiresOK
<1>3. /\ ~Claimed(e, j)
      /\ Claimed(e, j)' <=> i = j
      /\ exec'[e].at = listed[i].next
  BY <1>0, <1>1 DEF Spawn, Claimed, FiresOK
<1>4. CASE i # j
  <2>1. jobs'[j] = jobs[j]
    BY <1>0, <1>4, StateSet DEF TickClaim
  <2>. QED  BY <1>1, <1>2, <1>3, <1>4, <2>1, QuietForJob DEF Exists
<1>5. CASE i = j
  <2>. DEFINE at   == jobs[j].next
              next == NextRun(listed[j].sched, tnow)
  <2>1. listed[j] \in JobRow /\ jobs[j] \in JobRow
    <3>1. listed[j].state = "ENABLED" /\ listed[j] \in JobRow \cup {NoJob}
      BY <1>1, <1>5, ShapeTypes DEF Shape, Remembered
    <3>. QED  BY <1>0, <1>1, <1>5, <3>1, NoJobFacts
  <2>2. jobs'[j].state = jobs[j].state /\ jobs'[j].next = next /\ next # 0
    BY <1>0, <1>5, StateSet DEF TickClaim
  <2>3. at \in Nat /\ at <= tnow /\ tnow \in Nat
    BY <1>1, <1>5, <2>1, ShapeTypes DEF Shape, Remembered, JobRow
  <2>4. next \in Nat /\ at < next
    <3>1. listed[j].sched \in Schedules
      BY <2>1 DEF JobRow
    <3>2. next \in Nat /\ next > tnow
      BY <2>2, <2>3, <3>1, NextRunIsLater
    <3>. QED  BY <2>3, <3>2
  <2>5. /\ \A t \in Times : fired[j][t] > 0 => t < at
        /\ \A f \in Execs : Claimed(f, j) => exec[f].at < at
        /\ born[j] # 0
    BY <1>1, <1>5 DEF Ahead, Exists
  <2>6. /\ fired[j] \in [Times -> Nat] /\ Times \subseteq Nat
        /\ \A f \in Execs : exec[f].at \in Nat
    BY <1>0, ShapeTypes DEF FiresOK, Execution, Times
  <2>. HIDE DEF at, next
  <2>7. exec'[e].at = at /\ (at \in Times => fired[j][at] = 0)
    BY <1>1, <1>3, <1>5, <2>3, <2>5, <2>6 DEF at
  <2>8. \A f \in Execs : Claimed(f, j)' /\ exec'[f].at \in Times => fired'[j][exec'[f].at] = 0
    BY <1>1, <1>2, <2>7 DEF Ahead
  <2>9. \A f, g \in Execs : Claimed(f, j)' /\ Claimed(g, j)' /\ exec'[f].at = exec'[g].at => f = g
    <3>1. \A f \in Execs : f # e /\ Claimed(f, j)' => exec'[f].at # exec'[e].at
      BY <1>2, <2>3, <2>5, <2>6, <2>7
    <3>. QED  BY <1>2, <3>1 DEF Ahead
  <2>10. /\ \A t \in Times : fired'[j][t] > 0 => t < jobs'[j].next
         /\ \A f \in Execs : Claimed(f, j)' => exec'[f].at < jobs'[j].next
    BY <1>1, <1>2, <2>2, <2>3, <2>4, <2>5, <2>6, <2>7
  <2>. QED  BY <1>1, <2>5, <2>8, <2>9, <2>10 DEF Ahead
<1>. QED  BY <1>4, <1>5

\* What was claimed for a schedule time is fired for it, once.
LEMMA AcquireKeepsAhead ==
  ASSUME Shape, NEW e \in Execs, FireAcquire(e), NEW j \in JobIds, Ahead(j)
  PROVE  Ahead(j)'
<1>0. FiresOK /\ fired \in [JobIds -> [Times -> Nat]]
  BY ShapeParts, ShapeTypes
<1>1. UNCHANGED <<jobs, born>> /\ epc[e] = "start"
  BY DEF FireAcquire, table
<1>2. \A f \in Execs : /\ Claimed(f, j)' <=> Claimed(f, j) /\ f # e
                       /\ exec'[f].at = exec[f].at
  BY <1>0 DEF FireAcquire, Claimed, FiresOK, Execution
<1>3. CASE ~Claimed(e, j)
  <2>1. fired'[j] = fired[j]
    BY <1>0, <1>1, <1>3 DEF FireAcquire, Claimed
  <2>. QED  BY <1>1, <1>2, <2>1, QuietForJob DEF Exists
<1>4. CASE Claimed(e, j)
  <2>1. \A t \in Times : fired'[j][t] = IF t = exec[e].at THEN fired[j][t] + 1 ELSE fired[j][t]
    BY <1>0, <1>4 DEF FireAcquire, Claimed
  <2>2. \A t \in Times : fired[j][t] \in Nat
    BY <1>0
  <2>3. /\ exec[e].at \in Times => fired[j][exec[e].at] = 0
        /\ \A f \in Execs : Claimed(f, j) /\ exec[f].at = exec[e].at => f = e
        /\ jobs[j].state = "ENABLED" => exec[e].at < jobs[j].next
        /\ born[j] # 0
    BY <1>4 DEF Ahead
  <2>4. \A t \in Times : fired'[j][t] <= 1
    BY <2>1, <2>2, <2>3 DEF Ahead
  <2>5. \A f \in Execs : Claimed(f, j)' /\ exec'[f].at \in Times => fired'[j][exec'[f].at] = 0
    BY <1>2, <2>1, <2>3 DEF Ahead
  <2>6. \A f, g \in Execs : Claimed(f, j)' /\ Claimed(g, j)' /\ exec'[f].at = exec'[g].at => f = g
    BY <1>2 DEF Ahead
  <2>7. jobs'[j].state = "ENABLED" =>
          /\ \A t \in Times : fired'[j][t] > 0 => t < jobs'[j].next
          /\ \A f \in Execs : Claimed(f, j)' => exec'[f].at < jobs'[j].next
    BY <1>1, <1>2, <2>1, <2>3 DEF Ahead
  <2>. QED  BY <1>1, <2>3, <2>4, <2>5, <2>6, <2>7 DEF Ahead
<1>. QED  BY <1>3, <1>4

\* What a job nobody edits has claimed or fired stays before its next run.
LEMMA AheadStep == Shape /\ UneditedAhead /\ [Next]_vars => UneditedAhead'
<1>. SUFFICES ASSUME Shape, UneditedAhead, [Next]_vars,
                     NEW j \in JobIds, born'[j] <= 1, j \notin edited'
              PROVE  Ahead(j)'
  BY DEF UneditedAhead
<1>0. /\ FiresOK /\ jobs \in [JobIds -> JobRow \cup {NoJob}]
      /\ fired \in [JobIds -> [Times -> Nat]] /\ born \in [JobIds -> Nat]
  BY ShapeParts, ShapeTypes DEF JobsOK
<1>1. CASE UNCHANGED <<jobs, fires, born, fired, edited>>
  <2>1. Ahead(j)
    BY <1>1 DEF UneditedAhead
  <2>. QED  BY <1>1, <2>1, QuietForJob DEF Claimed, Exists, fires
<1>2. ASSUME NEW c \in Clients, CreateInsert(c)
      PROVE  Ahead(j)'
  <2>1. born[j] <= born'[j] /\ edited' = edited /\ born'[j] \in Nat
    BY <1>0, <1>2 DEF CreateInsert
  <2>2. Ahead(j)
    BY <1>0, <2>1 DEF UneditedAhead
  <2>. QED  BY <1>2, <2>2, InsertKeepsAhead
<1>3. ASSUME NEW c \in Clients, ResumeWrite(c) \/ UpdateWrite(c)
      PROVE  Ahead(j)'
  <2>1. req[c].job # j /\ j \notin edited /\ UNCHANGED <<fires, born, fired>>
    BY <1>3 DEF ResumeWrite, UpdateWrite
  <2>2. jobs'[j] = jobs[j]
    BY <1>0, <1>3, <2>1 DEF ResumeWrite, UpdateWrite, SetState
  <2>3. Ahead(j)
    BY <2>1 DEF UneditedAhead
  <2>. QED  BY <2>1, <2>2, <2>3, QuietForJob DEF Claimed, Exists, fires
<1>4. ASSUME NEW i \in JobIds, DeleteJob(i) \/ PauseJob(i) \/ TickPause(i)
      PROVE  Ahead(j)'
  <2>1. UNCHANGED <<fires, born, fired, edited>>
    BY <1>4 DEF DeleteJob, PauseJob, TickPause, history
  <2>2. /\ jobs'[j].state = "ENABLED" => jobs'[j] = jobs[j]
        /\ Exists(j)' => Exists(j)
    <3>1. CASE DeleteJob(i)
      BY <1>0, <3>1, NoJobFacts DEF DeleteJob, Exists
    <3>2. CASE PauseJob(i) \/ TickPause(i)
      BY <1>0, <3>2, StateSet DEF PauseJob, TickPause, Exists
    <3>. QED  BY <1>4, <3>1, <3>2
  <2>3. Ahead(j)
    BY <2>1 DEF UneditedAhead
  <2>. QED  BY <2>1, <2>2, <2>3, QuietForJob DEF Claimed, fires
<1>5. ASSUME NEW i \in JobIds, NEW e \in Execs, RunJob(e, i)
      PROVE  Ahead(j)'
  <2>1. UNCHANGED <<jobs, born, fired, edited>>
    BY <1>5 DEF RunJob, table, history
  <2>2. \A f \in Execs : Claimed(f, j)' => Claimed(f, j) /\ exec'[f].at = exec[f].at
    BY <1>0, <1>5 DEF RunJob, Spawn, Claimed, FiresOK
  <2>3. Ahead(j)
    BY <2>1 DEF UneditedAhead
  <2>. QED  BY <2>1, <2>2, <2>3, QuietForJob DEF Exists
<1>6. ASSUME NEW i \in JobIds, NEW e \in Execs, TickClaim(e, i)
      PROVE  Ahead(j)'
  <2>1. Ahead(j)
    BY <1>6 DEF UneditedAhead, TickClaim, history
  <2>. QED  BY <1>6, <2>1, ClaimKeepsAhead
<1>7. ASSUME NEW e \in Execs, FireStep(e)
      PROVE  Ahead(j)'
  <2>1. Ahead(j)
    BY <1>7 DEF UneditedAhead, FireStep, FireAcquire, FireSkip, AttemptOK, AttemptFailed,
                FireRelease, history
  <2>2. CASE FireAcquire(e)
    BY <2>1, <2>2, AcquireKeepsAhead
  <2>3. CASE FireSkip(e) \/ FireRelease(e)
    <3>1. \A f \in Execs : Claimed(f, j)' => Claimed(f, j) /\ exec'[f].at = exec[f].at
      BY <1>0, <2>3 DEF FireSkip, FireRelease, Claimed, FiresOK
    <3>2. UNCHANGED <<jobs, born, fired>>
      BY <2>3 DEF FireSkip, FireRelease, table, history
    <3>. QED  BY <2>1, <3>1, <3>2, QuietForJob DEF Exists
  <2>4. CASE AttemptOK(e) \/ AttemptFailed(e)
    <3>1. \A f \in Execs : Claimed(f, j)' => Claimed(f, j) /\ exec'[f].at = exec[f].at
      BY <1>0, <2>4 DEF AttemptOK, AttemptFailed, Claimed, FiresOK
    <3>2. UNCHANGED <<born, fired>>
      BY <2>4 DEF AttemptOK, AttemptFailed, history
    <3>3. jobs'[j].state = jobs[j].state /\ jobs'[j].next = jobs[j].next
      <4>1. \/ UNCHANGED jobs
            \/ \E outcome : jobs' = [jobs EXCEPT ![exec[e].job].last = outcome]
        BY <2>4 DEF AttemptOK, AttemptFailed, Record, RecordAttempt
      <4>2. ASSUME NEW outcome, jobs' = [jobs EXCEPT ![exec[e].job].last = outcome]
            PROVE  jobs'[j].state = jobs[j].state /\ jobs'[j].next = jobs[j].next
        <5>1. jobs[j] \in JobRow \cup {NoJob}
          BY <1>0
        <5>2. LET row == [jobs[j] EXCEPT !.last = outcome]
              IN  row.state = jobs[j].state /\ row.next = jobs[j].next
          BY <5>1 DEF JobRow, NoJob
        <5>3. jobs'[j] \in {jobs[j], [jobs[j] EXCEPT !.last = outcome]}
          BY <1>0, <4>2
        <5>. QED  BY <5>2, <5>3
      <4>. QED  BY <4>1, <4>2
    <3>. QED  BY <2>1, <3>1, <3>2, <3>3, QuietForJob DEF Exists
  <2>. QED  BY <1>7, <2>2, <2>3, <2>4 DEF FireStep
<1>8. CASE Crash
  <2>1. UNCHANGED <<jobs, born, fired, edited>> /\ \A e \in Execs : ~Claimed(e, j)'
    BY <1>8 DEF Crash, Claimed, table, history
  <2>2. Ahead(j)
    BY <2>1 DEF UneditedAhead
  <2>. QED  BY <2>1, <2>2, QuietForJob DEF Exists
<1>. QED  BY <1>1, <1>2, <1>3, <1>4, <1>5, <1>6, <1>7, <1>8, HistorySteps

\* A job that no resume, update or second create touches fires at most once for
\* each schedule time, through failed claims, runs by request and crashes.
THEOREM FiresOncePerTime == Spec => []UneditedFiresOnce
<1>1. Init => UneditedAhead
  <2>. SUFFICES ASSUME Init, NEW j \in JobIds PROVE Ahead(j)
    BY DEF UneditedAhead
  <2>1. jobs[j] = NoJob /\ (\A t \in Times : fired[j][t] = 0) /\ (\A e \in Execs : ~Claimed(e, j))
    BY DEF Init, Claimed
  <2>2. jobs[j].state = "ABSENT"
    BY <2>1, NoJobFacts
  <2>3. \A t \in Times : fired[j][t] <= 1
    BY <2>1
  <2>. QED  BY <2>1, <2>2, <2>3 DEF Ahead, Exists
<1>2. UneditedAhead => UneditedFiresOnce
  BY DEF UneditedAhead, UneditedFiresOnce, Ahead
<1>. QED  BY <1>1, <1>2, AheadStep, ShapeAlways, PTL DEF Spec
=============================================================================
