----------------------------- MODULE MCJobConfig -----------------------------
(***************************************************************************)
(* Jobs and updates in which every default, limit and conversion matters.  *)
(***************************************************************************)
EXTENDS JobConfig, TLC

Defaults == [method |-> "POST", deadline |-> 8, min |-> 4, max |-> 12, doublings |-> 1]

Blank == [f \in Fields |-> Zero(f)]
Base  == [Blank EXCEPT !.schedule = "hourly", !.uri = "u"]

Ask(door, op, job, mask) == [door |-> door, op |-> op, job |-> job, mask |-> mask]

Configs ==
  { Ask("rest", "create", [Base EXCEPT !.count = 3, !.min = 6, !.span = 13], {}),
    Ask("grpc", "create", [Base EXCEPT !.count = 4, !.min = 3, !.max = 20, !.doublings = 2,
                                        !.deadline = 4], {}),
    Ask("ui",   "create", [Base EXCEPT !.count = 2, !.body = "b"], {}),
    Ask("rest", "update", [Blank EXCEPT !.min = 10], {}),
    Ask("rest", "update", [Blank EXCEPT !.max = 6], {"max"}),
    Ask("rest", "update", [Blank EXCEPT !.min = -1], {"schedule"}),
    Ask("grpc", "update", [Blank EXCEPT !.min = -1, !.span = 40000], {"span"}),
    Ask("grpc", "update", [Blank EXCEPT !.min = 1], {"min"}),
    Ask("grpc", "update", [Blank EXCEPT !.count = 1], {"retry_config"}),
    Ask("grpc", "update", Blank, {"body", "oidc_token"}),
    Ask("ui",   "update", [Base EXCEPT !.count = 2], {}),
    Ask("rest", "update", [Blank EXCEPT !.max = 301], {"max"}),
    Ask("rest", "update", [Blank EXCEPT !.span = 50000], {"span"}) }

\* What the conversion of a float does: one tick short, off upwards where floats
\* are coarser than a tick, and the least Duration where the product exceeds all.
Floats == 6 :> 5 @@ 301 :> 303 @@ 50000 :> -Half

Environments ==
  { [initial |-> {}, max |-> {-3}], [initial |-> {40}, max |-> {8000}],
    [initial |-> {-40}, max |-> {}] }

\* Large maxDoublings, which Validate does not bound.
Steep == { Ask("grpc", "create", [Base EXCEPT !.count = 12, !.min = 3, !.doublings = 8], {}) }

Symmetry == Permutations(Clients)
=============================================================================
