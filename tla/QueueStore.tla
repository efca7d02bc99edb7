----------------------------- MODULE QueueStore ------------------------------
(***************************************************************************)
(* The "queues" table and the SQL statements of internal/queues that       *)
(* change it, as operators from the table to the new table (each statement *)
(* is atomic on the single SQLite connection).                             *)
(*                                                                         *)
(* Queues are numbered in the order of ListAll (project, location, name),  *)
(* which is the order the worker visits them in.                           *)
(***************************************************************************)
EXTENDS Naturals

CONSTANTS
  NumQueues,          \* number of queue names in play
  DefaultRate,        \* DefaultMaxDispatchesPerSecond
  DefaultConcurrent,  \* DefaultMaxConcurrentDispatches
  RequestedLimits     \* the rate limits requests ask for; 0 means "not given"

ASSUME QueueStoreAssumption ==
  /\ NumQueues \in Nat
  /\ DefaultRate \in Nat \ {0}
  /\ DefaultConcurrent \in Nat \ {0}
  /\ RequestedLimits \subseteq [rate : Nat, conc : Nat]

Queues == 1 .. NumQueues

QueueRow == [state : {"RUNNING", "PAUSED", "ABSENT"}, rate : Nat, conc : Nat]

\* A name no row has.
NoQueue == [state |-> "ABSENT", rate |-> 0, conc |-> 0]

QueueExists(tbl, q) == tbl[q].state # "ABSENT"

Paused(row) == row.state = "PAUSED"

-----------------------------------------------------------------------------
Given(asked, otherwise) == IF asked > 0 THEN asked ELSE otherwise

\* INSERT with the defaults for limits that are not given; a taken id is
\* refused (ErrAlreadyExists).
QueueCreate(tbl, q, rl) ==
  IF QueueExists(tbl, q)
  THEN tbl
  ELSE [tbl EXCEPT ![q] = [state |-> "RUNNING",
                           rate  |-> Given(rl.rate, DefaultRate),
                           conc  |-> Given(rl.conc, DefaultConcurrent)]]

\* What an auto-created queue asks for: RateLimits is nil.
NoLimits == [rate |-> 0, conc |-> 0]

QueueDelete(tbl, q) == [tbl EXCEPT ![q] = NoQueue]

SetState(tbl, q, state) ==
  IF QueueExists(tbl, q) THEN [tbl EXCEPT ![q].state = state] ELSE tbl

\* The given (positive) limits replace the stored ones.
UpdateRateLimits(tbl, q, rl) ==
  IF QueueExists(tbl, q)
  THEN [tbl EXCEPT ![q].rate = Given(rl.rate, tbl[q].rate),
                   ![q].conc = Given(rl.conc, tbl[q].conc)]
  ELSE tbl
=============================================================================
