------------------------------- MODULE Backoff -------------------------------
(***************************************************************************)
(* The two backoff computations: backoff() of the worker and               *)
(* RetryConfig.Backoff of the scheduler.  Their loops are recursive        *)
(* functions of the number of iterations, and their arithmetic wraps.      *)
(***************************************************************************)
EXTENDS Duration

\* 2^i, in a form the provers can reason about.
Power[i \in Nat] == IF i = 0 THEN 1 ELSE 2 * Power[i - 1]

-----------------------------------------------------------------------------
\* Mutant: the cap is checked before the doubling.
WorkerBackoffLateCap(initial, max, retryCount) ==
  LET delay[i \in Nat] == IF i = 0 THEN initial
                          ELSE IF delay[i - 1] > max THEN max ELSE Wrap(2 * delay[i - 1])
  IN  delay[retryCount - 1]

\* worker.backoff: the first doubling that exceeds max ends the loop.
WorkerBackoff(initial, max, retryCount) ==
  LET delay[i \in Nat] == IF i = 0 THEN initial ELSE Wrap(2 * delay[i - 1])
  IN  IF \E i \in 1 .. retryCount - 1 : delay[i] > max THEN max ELSE delay[retryCount - 1]

-----------------------------------------------------------------------------
\* base after i doublings, without a cap.
Doubled(base, i) ==
  LET d[k \in Nat] == IF k = 0 THEN base ELSE Wrap(2 * d[k - 1]) IN d[i]

\* d after i doublings, or max as soon as one of them reaches it.
DoubledUpTo(base, max, i) ==
  LET d[k \in Nat] == IF k = 0 THEN [at |-> base, capped |-> FALSE]
                      ELSE IF d[k - 1].capped THEN d[k - 1]
                      ELSE LET next == Wrap(2 * d[k - 1].at)
                           IN  IF max > 0 /\ next >= max
                               THEN [at |-> max, capped |-> TRUE]
                               ELSE [at |-> next, capped |-> FALSE]
  IN  d[i].at

\* Mutant: the linear part starts one step late.
JobBackoffLinearLate(r, retry) ==
  LET doublings == IF retry < 1 THEN 0 ELSE retry - 1
      d == IF doublings <= r.doublings
           THEN DoubledUpTo(r.min, r.max, doublings)
           ELSE Wrap(Doubled(r.min, r.doublings) * (doublings - r.doublings))
  IN  IF r.max > 0 /\ d > r.max THEN r.max ELSE d

\* Mutant: the linear part starts from the minimum.
JobBackoffLinearFromMin(r, retry) ==
  LET doublings == IF retry < 1 THEN 0 ELSE retry - 1
      d == IF doublings <= r.doublings
           THEN DoubledUpTo(r.min, r.max, doublings)
           ELSE Wrap(r.min * (doublings - r.doublings + 1))
  IN  IF r.max > 0 /\ d > r.max THEN r.max ELSE d

\* RetryConfig.Backoff(retry).
JobBackoff(r, retry) ==
  LET doublings == IF retry < 1 THEN 0 ELSE retry - 1
      d == IF doublings <= r.doublings
           THEN DoubledUpTo(r.min, r.max, doublings)
           ELSE Wrap(Doubled(r.min, r.doublings) * (doublings - r.doublings + 1))
  IN  IF r.max > 0 /\ d > r.max THEN r.max ELSE d
=============================================================================
