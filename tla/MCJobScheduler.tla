--------------------------- MODULE MCJobScheduler ----------------------------
(***************************************************************************)
(* Instances of JobScheduler for TLC.                                      *)
(***************************************************************************)
EXTENDS JobScheduler, TLC

CONSTANTS j1, j2, e1, e2, c1, c2

Cron(times)  == [at |-> times, every |-> 0]
Every(delay) == [at |-> {}, every |-> delay]

\* Two times and then never again, and every two units from now on; every unit
\* of time.
TwoSchedules == {Cron({2, 4}), Every(2)}
OneSchedule  == {Cron({2, 3})}

Symmetry == Permutations(JobIds) \cup Permutations(Execs) \cup Permutations(Clients)
=============================================================================
