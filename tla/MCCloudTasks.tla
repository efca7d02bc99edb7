---------------------------- MODULE MCCloudTasks -----------------------------
(***************************************************************************)
(* Instances of CloudTasks for TLC.                                        *)
(***************************************************************************)
EXTENDS CloudTasks, Backoff, TLC

CONSTANTS t1, t2, s1, s2, c1, c2

\* Every task in the first queue.
OneQueue == [t \in TaskIds |-> 1]

\* The worker's backoff with initial and maximum delay 1.
Backoffs == [n \in 1 .. MaxRetries |-> WorkerBackoff(1, 1, n)]

\* The limits a client may ask for.
NoRequests == {}
OneByOne   == {[rate |-> 1, conc |-> 1]}

\* Goroutines are interchangeable; so are names where every task is in the
\* same queue, and clients.
SlotSymmetry == Permutations(Slots)
Symmetry     == SlotSymmetry \cup Permutations(TaskIds) \cup Permutations(Clients)
=============================================================================
