------------------------------ MODULE TaskStore ------------------------------
(***************************************************************************)
(* The "tasks" table and the SQL statements of internal/tasks that change  *)
(* it.  SQLite runs with a single connection (internal/db/db.go), so each  *)
(* statement is atomic: it is an operator from the table to the new table. *)
(*                                                                         *)
(* A row keeps the columns the control flow depends on.  next_attempt_at   *)
(* is kept relative to the present: "wait" is the time left until the task *)
(* is due, 0 when it is due, and Elapse lets one unit of time go by.       *)
(* max_retries is the same for every row: both CreateTask handlers store   *)
(* cfg.DefaultMaxRetries.                                                  *)
(***************************************************************************)
EXTENDS Naturals, FiniteSets

CONSTANTS
  TaskIds,     \* full resource names of tasks: .../queues/{queue}/tasks/{task}
  MaxRetries   \* cfg.DefaultMaxRetries

ASSUME TaskStoreAssumption ==
  /\ IsFiniteSet(TaskIds)
  /\ MaxRetries \in Nat

Statuses == {"PENDING", "RUNNING", "COMPLETED", "FAILED"}

TaskRow == [status : Statuses \cup {"ABSENT"}, retry : Nat, wait : Nat]

\* A name no row has.
NoTask == [status |-> "ABSENT", retry |-> 0, wait |-> 0]

TaskExists(tbl, t) == tbl[t].status # "ABSENT"

Lesser(a, b) == IF a <= b THEN a ELSE b

-----------------------------------------------------------------------------
\* INSERT of a fresh row; a taken name is refused (ErrAlreadyExists).
TaskCreate(tbl, t, w) ==
  IF TaskExists(tbl, t)
  THEN tbl
  ELSE [tbl EXCEPT ![t] = [status |-> "PENDING", retry |-> 0, wait |-> w]]

\* Due PENDING rows among the names S.
Due(tbl, S) == {t \in S : tbl[t].status = "PENDING" /\ tbl[t].wait = 0}

\* Mutant: LIMIT is ignored.
ListWithoutLimit(tbl, S, n) == {Due(tbl, S)}

\* Mutant: rows that are not due yet are listed too.
ListNotYetDue(tbl, S, n) ==
  LET pending == {t \in S : tbl[t].status = "PENDING"}
  IN  {T \in SUBSET pending : Cardinality(T) = Lesser(n, Cardinality(pending))}

\* The results a query with LIMIT n may return: as many due rows as the limit
\* allows.  Rows that are due are not told apart by age here, so any choice of
\* them is possible, the one ORDER BY next_attempt_at makes among them.
ListPendingForQueue(tbl, S, n) ==
  {T \in SUBSET Due(tbl, S) : Cardinality(T) = Lesser(n, Cardinality(Due(tbl, S)))}

\* The rows Claim's WHERE clause matches: it reports one row affected.
Claims(tbl, t) == tbl[t].status = "PENDING"

Claim(tbl, t) == IF Claims(tbl, t) THEN [tbl EXCEPT ![t].status = "RUNNING"] ELSE tbl

UpdateStatus(tbl, t, status) ==
  IF TaskExists(tbl, t) THEN [tbl EXCEPT ![t].status = status] ELSE tbl

\* Mutant: the retry count is not stored.
UpdateRetryKeepsCount(tbl, t, n, w) ==
  IF TaskExists(tbl, t)
  THEN [tbl EXCEPT ![t] = [status |-> "PENDING", retry |-> tbl[t].retry, wait |-> w]]
  ELSE tbl

UpdateRetry(tbl, t, n, w) ==
  IF TaskExists(tbl, t)
  THEN [tbl EXCEPT ![t] = [status |-> "PENDING", retry |-> n, wait |-> w]]
  ELSE tbl

\* DELETE of the rows named in S; the rows that do not exist are not affected.
TaskDelete(tbl, S) == [t \in TaskIds |-> IF t \in S THEN NoTask ELSE tbl[t]]

\* Mutant: a RUNNING task is re-queued as well.
RequeueRunning(tbl, t) ==
  IF TaskExists(tbl, t)
  THEN [tbl EXCEPT ![t].status = "PENDING", ![t].wait = 0]
  ELSE tbl

\* The task is made due; a finished one starts again from scratch, a RUNNING
\* one is left alone.
SetNextAttemptNow(tbl, t) ==
  CASE tbl[t].status \in {"FAILED", "COMPLETED"} ->
         [tbl EXCEPT ![t] = [status |-> "PENDING", retry |-> 0, wait |-> 0]]
    [] tbl[t].status = "PENDING" -> [tbl EXCEPT ![t].wait = 0]
    [] OTHER -> tbl

\* Mutant: nothing is recovered.
RecoverNothing(tbl) == tbl

RecoverRunning(tbl) ==
  [t \in TaskIds |->
     IF tbl[t].status = "RUNNING" THEN [tbl[t] EXCEPT !.status = "PENDING"] ELSE tbl[t]]

\* One unit of time goes by.
Elapse(tbl) ==
  [t \in TaskIds |-> [tbl[t] EXCEPT !.wait = IF @ > 0 THEN @ - 1 ELSE 0]]

\* Task.Attempts: the dispatch attempts an API response reports.
Attempts(row) == IF row.status = "PENDING" THEN row.retry ELSE row.retry + 1
=============================================================================
