----------------------------- MODULE Throughput ------------------------------
(***************************************************************************)
(* The worker in time: how fast the poll loop may dispatch and whom it     *)
(* serves.  CloudTasks leaves the time between two refills open; here the  *)
(* clock is explicit, queues and their limits are fixed, and of the tasks  *)
(* only matters whether a queue has some that are due.                     *)
(*                                                                         *)
(* Time advances in units of 1 / UnitsPerSecond seconds and a bucket holds *)
(* multiples of 1 / UnitsPerSecond tokens, so a refill is exact.  Times    *)
(* are kept relative to the present.                                       *)
(***************************************************************************)
EXTENDS Integers, FiniteSetsExt

CONSTANTS
  NumQueues,       \* queues, numbered in the order of ListAll
  Rate,            \* Rate[q]: max_dispatches_per_second
  Conc,            \* Conc[q]: max_concurrent_dispatches
  SlotCount,       \* cfg.WorkerConcurrency
  UnitsPerSecond,  \* the resolution of the clock
  MaxPoll,         \* bound: how many units of time one poll may take
  None             \* "nil"

Queues == 1 .. NumQueues

ASSUME ThroughputAssumption ==
  /\ NumQueues \in Nat /\ SlotCount \in Nat /\ MaxPoll \in Nat
  /\ UnitsPerSecond \in Nat \ {0}
  /\ Rate \in [Queues -> Nat \ {0}] /\ Conc \in [Queues -> Nat \ {0}]
  /\ None \notin Nat

VARIABLES
  pc, cur,    \* where pollAndDispatch is, and the queue of its outer loop
  limit,      \* its "room", then its "limit", then the rows still to claim
  late,       \* the time since it read its "now"
  tokens,     \* the tokens of the bucket of each queue
  age,        \* the time since the "last" of that bucket
  sem,        \* the slots that are taken
  inflight,   \* Worker.inflight
  leaving,    \* goroutines of each queue that are uncounted and keep their slot
  demand,     \* has the queue due tasks?
  allowance   \* history: what the rate leaves a queue to dispatch

vars == <<pc, cur, limit, late, tokens, age, sem, inflight, leaving, demand, allowance>>

Second == UnitsPerSecond  \* one second of time, one token of a bucket

Capacity(q) == Rate[q] * Second

\* No bucket whose "last" is longer ago than this is less than full.
MaxAge == Second + MaxPoll

\* What the rate lets a queue dispatch at once: a full bucket, and the tokens of
\* the time by which a poll may lag behind its "now".
Burst(q) == Capacity(q) + Rate[q] * MaxPoll

Init ==
  /\ pc = "idle" /\ cur = 1 /\ limit = 0 /\ late = 0 /\ sem = 0
  /\ tokens = [q \in Queues |-> None] /\ age = [q \in Queues |-> 0]
  /\ inflight = [q \in Queues |-> 0] /\ leaving = [q \in Queues |-> 0]
  /\ demand \in [Queues -> BOOLEAN]
  /\ allowance = [q \in Queues |-> Burst(q)]

-----------------------------------------------------------------------------
(* pollAndDispatch.                                                        *)

PollStart ==
  /\ pc = "idle"
  /\ pc' = "queue" /\ cur' = 1 /\ late' = 0
  /\ UNCHANGED <<limit, tokens, age, sem, inflight, leaving, demand, allowance>>

Return    == pc' = "idle" /\ cur' = 1 /\ limit' = 0 /\ late' = 0
NextQueue == pc' = "queue" /\ cur' = cur + 1 /\ limit' = 0 /\ UNCHANGED late

\* Mutant: the slots that are taken are not subtracted.
PollQueueWholePool ==
  /\ pc = "queue"
  /\ \/ /\ cur > NumQueues \/ sem >= SlotCount
        /\ Return
     \/ /\ cur <= NumQueues /\ sem < SlotCount
        /\ pc' = "limit" /\ limit' = SlotCount
        /\ UNCHANGED <<cur, late>>
  /\ UNCHANGED <<tokens, age, sem, inflight, leaving, demand, allowance>>

\* The poll ends after the last queue, and at once when no slot is free.
PollQueue ==
  /\ pc = "queue"
  /\ \/ /\ cur > NumQueues \/ sem >= SlotCount
        /\ Return
     \/ /\ cur <= NumQueues /\ sem < SlotCount
        /\ pc' = "limit" /\ limit' = SlotCount - sem
        /\ UNCHANGED <<cur, late>>
  /\ UNCHANGED <<tokens, age, sem, inflight, leaving, demand, allowance>>

\* Mutant: a bucket keeps whole tokens only.
RefillWhole(q, dt) ==
  IF tokens[q] = None THEN Capacity(q)
  ELSE (Min({Capacity(q), tokens[q] + dt * Rate[q]}) \div Second) * Second

\* Mutant: a bucket is not capped.
RefillUncapped(q, dt) ==
  IF tokens[q] = None THEN Capacity(q) ELSE tokens[q] + dt * Rate[q]

\* bucket.refill, dt after the last one; a new bucket is full.
Refill(q, dt) ==
  IF tokens[q] = None THEN Capacity(q) ELSE Min({Capacity(q), tokens[q] + dt * Rate[q]})

\* The critical section that computes the limit.
PollLimit ==
  LET full == Refill(cur, age[cur] - late)
      free == IF Conc[cur] > inflight[cur] THEN Conc[cur] - inflight[cur] ELSE 0
      lim  == Min({limit, free, full \div Second})
  IN
  /\ pc = "limit"
  /\ tokens' = [tokens EXCEPT ![cur] = full]
  /\ age' = [age EXCEPT ![cur] = late]
  /\ \/ /\ lim = 0 /\ NextQueue
     \/ /\ lim > 0
        /\ pc' = "list" /\ limit' = lim
        /\ UNCHANGED <<cur, late>>
  /\ UNCHANGED <<sem, inflight, leaving, demand, allowance>>

\* ListPendingForQueue: a row at least when some are due, never above the limit.
PollList ==
  /\ pc = "list"
  /\ \E n \in IF demand[cur] THEN 1 .. limit ELSE {0} : limit' = n
  /\ pc' = "claim"
  /\ UNCHANGED <<cur, late, tokens, age, sem, inflight, leaving, demand, allowance>>

PollDone ==
  /\ pc = "claim" /\ limit = 0
  /\ NextQueue
  /\ UNCHANGED <<tokens, age, sem, inflight, leaving, demand, allowance>>

\* The claim is lost or fails: the slot is given back, and whether the queue has
\* other due tasks is as it was.
PollMiss ==
  /\ pc = "claim" /\ limit > 0
  /\ limit' = limit - 1
  /\ UNCHANGED <<pc, cur, late, tokens, age, sem, inflight, leaving, demand, allowance>>

\* The claim is won: slot, count, token and goroutine.
PollDispatch ==
  /\ pc = "claim" /\ limit > 0
  /\ limit' = limit - 1
  /\ sem' = sem + 1
  /\ inflight' = [inflight EXCEPT ![cur] = @ + 1]
  /\ tokens' = [tokens EXCEPT ![cur] = @ - Second]
  /\ allowance' = [allowance EXCEPT ![cur] = @ - Second]
  /\ UNCHANGED <<pc, cur, late, age, leaving, demand>>

-----------------------------------------------------------------------------
(* The goroutines, the clients and the clock.                              *)

Uncount(q) ==
  /\ inflight[q] > 0
  /\ inflight' = [inflight EXCEPT ![q] = @ - 1]
  /\ leaving' = [leaving EXCEPT ![q] = @ + 1]
  /\ UNCHANGED <<pc, cur, limit, late, tokens, age, sem, demand, allowance>>

Release(q) ==
  /\ leaving[q] > 0
  /\ sem' = sem - 1
  /\ leaving' = [leaving EXCEPT ![q] = @ - 1]
  /\ UNCHANGED <<pc, cur, limit, late, tokens, age, inflight, demand, allowance>>

\* Tasks become due in a queue that had none, or the last of them are deleted.
Toggle(q) ==
  /\ demand' = [demand EXCEPT ![q] = ~@]
  /\ UNCHANGED <<pc, cur, limit, late, tokens, age, sem, inflight, leaving, allowance>>

\* One unit of time.
Tick ==
  /\ pc = "idle" \/ late < MaxPoll
  /\ late' = IF pc = "idle" THEN 0 ELSE late + 1
  /\ age' = [q \in Queues |-> IF tokens[q] = None THEN 0 ELSE Min({MaxAge, age[q] + 1})]
  /\ allowance' = [q \in Queues |-> Min({Burst(q), allowance[q] + Rate[q]})]
  /\ UNCHANGED <<pc, cur, limit, tokens, sem, inflight, leaving, demand>>

Poll == PollStart \/ PollQueue \/ PollLimit \/ PollList \/ PollDone \/ PollMiss \/ PollDispatch

Next == Poll \/ Tick \/ \E q \in Queues : Uncount(q) \/ Release(q) \/ Toggle(q)

\* The ticker and the clock go on, and a dispatch ends within its timeout.  The
\* clients promise nothing.
Fairness ==
  /\ WF_vars(Poll) /\ WF_vars(Tick)
  /\ \A q \in Queues : WF_vars(Uncount(q)) /\ WF_vars(Release(q))

Spec == Init /\ [][Next]_vars /\ Fairness

-----------------------------------------------------------------------------
\* The types of the state; the worker never holds more than its slots.
TypeOK ==
  /\ pc \in {"idle", "queue", "limit", "list", "claim"}
  /\ cur \in 1 .. NumQueues + 1 /\ limit \in 0 .. SlotCount /\ late \in 0 .. MaxPoll
  /\ tokens \in [Queues -> Nat \cup {None}] /\ age \in [Queues -> 0 .. MaxAge]
  /\ inflight \in [Queues -> Nat] /\ leaving \in [Queues -> Nat] /\ sem \in 0 .. SlotCount
  /\ demand \in [Queues -> BOOLEAN] /\ allowance \in [Queues -> Int]

\* "a token bucket enforcing a queue's max dispatches per second" (worker.go
\* 74): in any w seconds a queue dispatches at most one bucket of tasks and
\* Rate[q] for each second of w and of the duration of a poll.  The allowance is
\* what is left of that, over the worst of all windows that end now.
RateEnforced == \A q \in Queues : allowance[q] >= 0

\* Whom a poll serves when slots are short: a queue that keeps having due tasks
\* is dispatched again and again if no queue before it in the order has any and
\* its claims are not missed for ever, whatever the queues behind it ask for
\* (worker.go 101 starts every poll at the first queue and ends it when the slots
\* are taken).  Nothing of the kind holds for a queue behind a busy one, or for
\* one whose every listed row is taken away before it is claimed (worker.go 139
\* to 146).
ServedInOrder ==
  \A q \in Queues :
    (/\ <>[](demand[q] /\ \A p \in 1 .. q - 1 : ~demand[p])
     /\ <>[][~(cur = q /\ PollMiss)]_vars)
      => []<><<inflight'[q] > inflight[q]>>_vars
=============================================================================
