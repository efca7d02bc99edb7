------------------------------ MODULE MCTaskApi ------------------------------
(***************************************************************************)
(* An instance of TaskApi for TLC.                                         *)
(***************************************************************************)
EXTENDS TaskApi

CONSTANTS a, c1, c2, w1

Task(via, defect, id, deadline) == [via |-> via, defect |-> defect, id |-> id, deadline |-> deadline]

\* Deadlines, in quarters of a second: below half a second, half way between two
\* seconds, just above one second, none, the longest that a Duration holds once it
\* is rounded up, and one that is too long for an int; a defect that REST refuses
\* and gRPC lets pass, and a bad queue name.
SomeRequests ==
  {Task("rest", "none", a, 1), Task("rest", "none", Uuid, 6), Task("grpc", "method", a, 5),
   Task("grpc", "none", Uuid, None), Task("rest", "method", a, None),
   Task("grpc", "queue", Uuid, None), Task("grpc", "none", Uuid, 124),
   Task("rest", "none", a, 600)}

Symmetry == Permutations(Clients)

AllOrPending == {None, "PENDING"}
=============================================================================
