------------------------------- MODULE TaskApi -------------------------------
(***************************************************************************)
(* The task API as its clients see it: CreateTask from the request to the  *)
(* answer, by REST and by gRPC, and the listing of a queue page by page by *)
(* REST, gRPC and the web UI, while tasks are created, deleted and         *)
(* dispatched.                                                             *)
(*                                                                         *)
(* One queue.  Its rows are kept in the order of ListPage, newest first,   *)
(* with what a request or a list can tell apart.  Each SQL statement is    *)
(* one step.  A Duration counts quarters of a second, which a float holds  *)
(* exactly; what is stored are whole seconds, in an int.                   *)
(***************************************************************************)
EXTENDS Duration, SequencesExt

CONSTANTS
  Clients,           \* CreateTask requests that may be under way
  Walkers,           \* clients that page through the queue
  TaskIds,           \* task ids given by clients
  Uuid,              \* an id made up by the handler; no two are the same
  Asked,             \* the CreateTask requests that are made
  AutoCreateQueues,  \* cfg.AutoCreateQueues
  DefaultTimeout,    \* cfg.TaskDispatchTimeoutSecs
  PageSizes,         \* page sizes that are asked for; 0 means "not given"
  MaxPageSize,       \* maxPageSize and defaultPageSize
  UiPageSize,        \* pageSize of the web UI
  Filters,           \* status filters that are asked for; None for all
  MaxUnderWay,       \* bound: how many of the clients and walkers are busy at once
  MaxInserts,        \* bound: how many rows are inserted
  MaxShown,          \* bound: how many rows a walker of the web UI looks at
  None               \* "nil", not given

\* What may be wrong with a request apart from its deadline: a part that is
\* missing or malformed, a task name of another queue, a queue name that no
\* queue can have.
Defects == {"none", "task", "url", "method", "scheduleTime", "body", "name", "queue"}

Requests == [via : {"rest", "grpc"}, defect : Defects, id : TaskIds \cup {Uuid},
             deadline : Int \cup {None}]

ASSUME TaskApiAssumption ==
  /\ IsFiniteSet(Clients)
  /\ Asked \subseteq Requests
  /\ AutoCreateQueues \in BOOLEAN
  /\ DefaultTimeout \in Int /\ Half > 4 * 30
  /\ MaxPageSize \in Nat \ {0} /\ UiPageSize \in Nat \ {0}
  /\ PageSizes \subseteq Nat /\ MaxUnderWay \in Nat /\ MaxInserts \in Nat /\ MaxShown \in Nat
  /\ None \notin Int

VARIABLES
  exists,   \* has the queue a row?
  rows,     \* the rows of its tasks
  inserts,  \* history: how many rows were inserted; it numbers them
  req,      \* the CreateTask request of each client
  answer,   \* the answer to its last one
  walk      \* the page walk of each walker

vars == <<exists, rows, inserts, req, answer, walk>>

Idle     == [step |-> "idle"]
NoAnswer == [code |-> "none"]

Init ==
  /\ exists \in BOOLEAN /\ rows = <<>> /\ inserts = 0
  /\ req = [c \in Clients |-> Idle] /\ answer = [c \in Clients |-> NoAnswer]
  /\ walk = [w \in Walkers |-> Idle]

\* A client is done with a request when it has seen the answer, a walker when it
\* has seen what the walk returned.
UnderWay == {c \in Clients : req[c] # Idle \/ answer[c] # NoAnswer}
            \cup {w \in Walkers : walk[w] # Idle}

Leave(c) ==
  /\ answer[c] # NoAnswer
  /\ answer' = [answer EXCEPT ![c] = NoAnswer]
  /\ UNCHANGED <<exists, rows, inserts, req, walk>>

-----------------------------------------------------------------------------
(* The rows a list can show, and what a change of them means to a walker:  *)
(* which rows were in its view all the time, and whether any came or went, *)
(* since the start of the walk and since the last count of the web UI.     *)

\* The rows that match, in their order.
Filtered(R, filter) ==
  LET upTo[n \in 0 .. Len(R)] ==
        IF n = 0 THEN <<>>
        ELSE IF filter = None \/ R[n].status = filter THEN Append(upTo[n - 1], R[n])
        ELSE upTo[n - 1]
  IN  upTo[Len(R)]

View(R, filter) == {row.nr : row \in ToSet(Filtered(R, filter))}

\* ListPage: LIMIT and OFFSET on the rows that match.
ListPage(filter, limit, offset) ==
  LET match == Filtered(rows, filter)
  IN  SubSeq(match, offset + 1, Min({offset + limit, Len(match)}))

Walking(w) == walk[w].step \notin {"idle", "done", "gone"}

Noticed(w, R) ==
  LET now    == View(R, walk[w].filter)
      before == View(rows, walk[w].filter)
  IN  [walk[w] EXCEPT !.kept    = @ \cap now,
                      !.entered = @ \/ ~(now \subseteq before),
                      !.left    = @ \/ ~(before \subseteq now),
                      !.steady  = @ /\ now = before]

ChangeRows(R) ==
  /\ rows' = R
  /\ walk' = [w \in Walkers |-> IF Walking(w) THEN Noticed(w, R) ELSE walk[w]]

-----------------------------------------------------------------------------
(* CreateTask.                                                             *)

\* What each API refuses without a look at the database.  gRPC takes an unknown
\* method for POST, and its messages cannot hold a malformed time or body.
Refuses == [rest |-> {"task", "url", "method", "scheduleTime", "body", "name"},
            grpc |-> {"task", "url", "name"}]

WellFormed(r) == r.defect \notin Refuses[r.via] /\ (r.deadline = None \/ r.deadline > 0)

\* Mutant: gRPC cuts the fraction off.
StoredDeadlineCut(r) ==
  {IF r.deadline = None THEN 30
   ELSE (r.deadline + (IF r.via = "rest" THEN 2 ELSE 0)) \div 4}

\* The whole seconds that may be stored: REST rounds a float to the nearest, and
\* what the conversion makes of one that no int can hold depends on the machine;
\* gRPC rounds a Duration up.
StoredDeadline(r) ==
  CASE r.deadline = None -> {30}
    [] r.deadline # None /\ r.via = "grpc" -> {(Saturate(r.deadline) + 3) \div 4}
    [] r.deadline # None /\ r.via = "rest" ->
         LET secs == (r.deadline + 2) \div 4
         IN  IF Fit(secs) THEN {secs} ELSE {-Half, Half - 1}

\* The timeout the worker gives a dispatch whose row has secs seconds.
Timeout(secs) ==
  LET timeout == Wrap(4 * secs)
  IN  IF timeout <= 0 THEN Wrap(4 * DefaultTimeout) ELSE timeout

\* Mutant: the queue comes first.
HandlerStepsQueueFirst == [receive |-> "lookup", lookup |-> "check", check |-> "insert"]

\* The order of the handler: "Validate the request fully before touching the
\* database".
HandlerSteps == [receive |-> "check", check |-> "lookup", lookup |-> "insert"]

\* "made": did the request change a table?
Receive(c, r) ==
  /\ c \notin UnderWay /\ Cardinality(UnderWay) < MaxUnderWay
  /\ inserts + Cardinality({d \in Clients : req[d].step \notin {"idle", "reread"}}) < MaxInserts
  /\ req' = [req EXCEPT ![c] = [step |-> HandlerSteps["receive"], r |-> r, made |-> FALSE]]
  /\ UNCHANGED <<exists, rows, inserts, answer, walk>>

Proceed(c, step) == req' = [req EXCEPT ![c].step = step] /\ UNCHANGED answer

Answer(c, a) ==
  /\ answer' = [answer EXCEPT ![c] = a]
  /\ req' = [req EXCEPT ![c] = Idle]

Refuse(c, code) == Answer(c, [code |-> code, made |-> req[c].made])

Check(c) ==
  /\ req[c].step = "check"
  /\ IF WellFormed(req[c].r) THEN Proceed(c, HandlerSteps["check"]) ELSE Refuse(c, "INVALID_ARGUMENT")
  /\ UNCHANGED <<exists, rows, inserts, walk>>

\* No queue has a bad name, so one is never found.
Lookup(c) ==
  /\ req[c].step = "lookup"
  /\ \/ /\ exists /\ req[c].r.defect # "queue"
        /\ Proceed(c, HandlerSteps["lookup"])
     \/ /\ ~exists \/ req[c].r.defect = "queue"
        /\ IF ~AutoCreateQueues THEN Refuse(c, "NOT_FOUND")
           ELSE IF req[c].r.defect = "queue" THEN Refuse(c, "INVALID_ARGUMENT")
           ELSE Proceed(c, "queue")
  /\ UNCHANGED <<exists, rows, inserts, walk>>

\* ErrAlreadyExists is not an error here.
MakeQueue(c) ==
  /\ req[c].step = "queue"
  /\ exists' = TRUE
  /\ req' = [req EXCEPT ![c].step = HandlerSteps["lookup"], ![c].made = ~exists]
  /\ UNCHANGED <<rows, inserts, answer, walk>>

\* The row that has a name; an id that was made up is nobody else's.
Named(id) == {row \in ToSet(rows) : id # Uuid /\ row.id = id}

\* Mutant: names need not be unique.
AlwaysFree(id) == TRUE

Free(id) == Named(id) = {}

\* Mutant: oldest first.
WithNewestLast(row) == Append(rows, row)

\* ORDER BY created_at DESC, rowid DESC.
WithNewest(row) == <<row>> \o rows

InsertTask(c) ==
  LET id == req[c].r.id IN
  /\ req[c].step = "insert"
  /\ IF ~Free(id)
     THEN /\ Refuse(c, "ALREADY_EXISTS")
          /\ UNCHANGED <<rows, inserts, walk>>
     ELSE /\ ChangeRows(WithNewest([id |-> id, nr |-> inserts + 1, status |-> "PENDING"]))
          /\ inserts' = inserts + 1
          /\ req' = [req EXCEPT ![c] = [step |-> "reread", id |-> id, nr |-> inserts + 1]]
          /\ UNCHANGED answer
  /\ UNCHANGED exists

\* The answer shows the row that is stored under the name by now, if any, and
\* what was inserted otherwise.  "there": is the inserted row still there?
\* "own": is it the one that is shown?
Reread(c) ==
  LET nr     == req[c].nr
      stored == {row.nr : row \in Named(req[c].id)}
  IN
  /\ req[c].step = "reread"
  /\ \E shown \in IF stored = {} THEN {nr} ELSE stored :
       Answer(c, [code |-> "OK", own |-> shown = nr, there |-> nr \in View(rows, None)])
  /\ UNCHANGED <<exists, rows, inserts, walk>>

-----------------------------------------------------------------------------
(* What else changes the tables.                                           *)

CreateQueue ==
  /\ ~exists /\ exists' = TRUE
  /\ UNCHANGED <<rows, inserts, req, answer, walk>>

DeleteQueue ==
  /\ exists /\ exists' = FALSE
  /\ ChangeRows(<<>>)
  /\ UNCHANGED <<inserts, req, answer>>

DeleteTask(i) ==
  /\ i \in DOMAIN rows
  /\ ChangeRows(RemoveAt(rows, i))
  /\ UNCHANGED <<exists, inserts, req, answer>>

\* The worker claims a task, or puts it back.
Dispatch(i) ==
  /\ i \in DOMAIN rows
  /\ ChangeRows([rows EXCEPT ![i].status = IF @ = "PENDING" THEN "RUNNING" ELSE "PENDING"])
  /\ UNCHANGED <<exists, inserts, req, answer>>

-----------------------------------------------------------------------------
(* tasks.list of REST and gRPC: the page token is an offset.               *)

NewWalk(kind, step, size, filter) ==
  [step |-> step, kind |-> kind, size |-> size, filter |-> filter,
   at |-> 0, total |-> 0, got |-> <<>>, kept |-> View(rows, filter),
   entered |-> FALSE, left |-> FALSE, steady |-> TRUE]

PageSize(n) == IF n = 0 THEN MaxPageSize ELSE Min({n, MaxPageSize})

List(w) ==
  /\ w \notin UnderWay /\ Cardinality(UnderWay) < MaxUnderWay
  /\ \E n \in PageSizes, f \in Filters :
       walk' = [walk EXCEPT ![w] = NewWalk("api", "page", PageSize(n), f)]
  /\ UNCHANGED <<exists, rows, inserts, req, answer>>

Numbers(page) == [i \in DOMAIN page |-> page[i].nr]

\* Mutant: no extra row is fetched.
NextPageBare(w) ==
  LET k    == walk[w]
      page == ListPage(k.filter, k.size, k.at)
  IN
  /\ walk[w].step = "page"
  /\ walk' = [walk EXCEPT ![w].got = @ \o Numbers(page),
                          ![w].at = @ + Len(page),
                          ![w].step = IF Len(page) > k.size THEN "page" ELSE "done"]
  /\ UNCHANGED <<exists, rows, inserts, req, answer>>

\* Mutant: the extra row is returned as well.
NextPageUncut(w) ==
  LET k    == walk[w]
      page == ListPage(k.filter, k.size + 1, k.at)
  IN
  /\ walk[w].step = "page"
  /\ walk' = [walk EXCEPT ![w].got = @ \o Numbers(page),
                          ![w].at = @ + k.size,
                          ![w].step = IF Len(page) > k.size THEN "page" ELSE "done"]
  /\ UNCHANGED <<exists, rows, inserts, req, answer>>

\* One row more than a page is fetched, to know whether there is a next one.
NextPage(w) ==
  LET k    == walk[w]
      page == ListPage(k.filter, k.size + 1, k.at)
      more == Len(page) > k.size
  IN
  /\ walk[w].step = "page"
  /\ walk' = [walk EXCEPT ![w].got = @ \o Numbers(IF more THEN SubSeq(page, 1, k.size) ELSE page),
                          ![w].at = IF more THEN @ + k.size ELSE @,
                          ![w].step = IF more THEN "page" ELSE "done"]
  /\ UNCHANGED <<exists, rows, inserts, req, answer>>

-----------------------------------------------------------------------------
(* QueueDetail of the web UI: pages are numbered, the tasks are counted in *)
(* a statement of its own, and the walker follows the "next" links.        *)

Browse(w) ==
  /\ w \notin UnderWay /\ Cardinality(UnderWay) < MaxUnderWay
  /\ \E f \in Filters : walk' = [walk EXCEPT ![w] = NewWalk("ui", "open", UiPageSize, f)]
  /\ UNCHANGED <<exists, rows, inserts, req, answer>>

\* The queue is looked up; "at" is the page before the one that is asked for.
OpenPage(w) ==
  /\ walk[w].step = "open" /\ Len(walk[w].got) < MaxShown
  /\ walk' = [walk EXCEPT ![w].step = IF exists THEN "count" ELSE "gone"]
  /\ UNCHANGED <<exists, rows, inserts, req, answer>>

\* Mutant: a started page does not count.
LastPageFloor(total) == total \div UiPageSize

LastPage(total) == (total + UiPageSize - 1) \div UiPageSize

\* The count, and the clamp.
CountTasks(w) ==
  LET total == Cardinality(View(rows, walk[w].filter))
      asked == walk[w].at + 1
  IN
  /\ walk[w].step = "count"
  /\ walk' = [walk EXCEPT ![w].step = "show", ![w].total = total, ![w].steady = TRUE,
                          ![w].at = IF LastPage(total) > 0 /\ asked > LastPage(total)
                                    THEN LastPage(total) ELSE asked]
  /\ UNCHANGED <<exists, rows, inserts, req, answer>>

\* Mutant: there is a next page after a full one.
ShowPageFull(w) ==
  LET k    == walk[w]
      page == ListPage(k.filter, k.size, (k.at - 1) * k.size)
  IN
  /\ walk[w].step = "show"
  /\ walk' = [walk EXCEPT ![w].got = @ \o Numbers(page),
                          ![w].step = IF Len(page) = k.size THEN "open" ELSE "done"]
  /\ UNCHANGED <<exists, rows, inserts, req, answer>>

\* The rows of the page, and its "next" link.
ShowPage(w) ==
  LET k    == walk[w]
      from == (k.at - 1) * k.size
      page == ListPage(k.filter, k.size, from)
      to   == IF page = <<>> THEN 0 ELSE from + Len(page)
  IN
  /\ walk[w].step = "show"
  /\ walk' = [walk EXCEPT ![w].got = @ \o Numbers(page),
                          ![w].step = IF to < k.total THEN "open" ELSE "done"]
  /\ UNCHANGED <<exists, rows, inserts, req, answer>>

Close(w) ==
  /\ walk[w].step \in {"done", "gone"}
  /\ walk' = [walk EXCEPT ![w] = Idle]
  /\ UNCHANGED <<exists, rows, inserts, req, answer>>

-----------------------------------------------------------------------------
Next ==
  \/ \E c \in Clients : \/ \E r \in Asked : Receive(c, r)
                        \/ Check(c) \/ Lookup(c) \/ MakeQueue(c) \/ InsertTask(c) \/ Reread(c)
                        \/ Leave(c)
  \/ CreateQueue \/ DeleteQueue
  \/ \E i \in 1 .. MaxInserts : DeleteTask(i) \/ Dispatch(i)
  \/ \E w \in Walkers : \/ List(w) \/ NextPage(w)
                        \/ Browse(w) \/ OpenPage(w) \/ CountTasks(w) \/ ShowPage(w)
                        \/ Close(w)

Spec == Init /\ [][Next]_vars

-----------------------------------------------------------------------------
\* The types of the state.
TypeOK ==
  /\ exists \in BOOLEAN
  /\ inserts \in 0 .. MaxInserts
  /\ \A i \in DOMAIN rows : rows[i] \in [id : TaskIds \cup {Uuid}, nr : 1 .. inserts,
                                         status : {"PENDING", "RUNNING"}]
  /\ \A i, j \in DOMAIN rows : i < j => rows[i].nr > rows[j].nr
  /\ \A c \in Clients : /\ req[c].step \in {"idle", "check", "lookup", "queue", "insert", "reread"}
                        /\ "r" \in DOMAIN req[c] => req[c].r \in Asked
  /\ \A w \in Walkers : walk[w].step \in {"idle", "page", "open", "count", "show", "done", "gone"}

\* "a bad request never auto-creates a queue" (grpcserver/server.go 235): what
\* is refused as invalid, or for want of a queue, has changed no table.
BadRequestChangesNothing ==
  \A c \in Clients : answer[c].code \in {"INVALID_ARGUMENT", "NOT_FOUND"} => ~answer[c].made

\* The deadline of a request that is going to be inserted becomes the timeout of
\* the dispatch (worker.go 171), off by less than a second; a gRPC client never
\* gets less than it asked for.  A REST deadline below half a second is stored
\* as 0, and the task runs with the default timeout.  All this as long as the
\* deadline, rounded up, fits a Duration (292 years), which no handler checks.
DeadlineBecomesTimeout ==
  \A c \in Clients : req[c].step = "insert" =>
    LET asked == req[c].r.deadline IN
    \A secs \in StoredDeadline(req[c].r) :
      LET quarters == Timeout(secs) IN
      /\ asked = None => quarters = 4 * 30
      /\ asked # None /\ Fit(asked + 3) =>
           /\ req[c].r.via = "grpc" => asked <= quarters /\ quarters < asked + 4
           /\ req[c].r.via = "rest" =>
                IF asked < 2 THEN quarters = Wrap(4 * DefaultTimeout)
                ELSE asked - 2 < quarters /\ quarters <= asked + 2

\* CreateTask reads the row again before it answers (task_handler.go 236,
\* server.go 340): as long as that row was not deleted in between, the answer
\* shows it and not one that someone else has created under the name.
AnswerShowsOwnTask ==
  \A c \in Clients : (answer[c].code = "OK" /\ answer[c].there) => answer[c].own

Is(w, kind)       == walk[w] # Idle /\ walk[w].kind = kind
Finished(w, kind) == walk[w].step = "done" /\ walk[w].kind = kind

\* Page tokens are offsets into a list that changes (task_handler.go 277).  A
\* walk from page to page returns every row that was in its view all along,
\* unless some row left the view: an insert at the front, or a row that starts
\* to match the filter, hides none.
NothingMissed ==
  \A w \in Walkers : (Finished(w, "api") /\ ~walk[w].left) => walk[w].kept \subseteq ToSet(walk[w].got)

\* It returns no row twice, unless some row entered the view.
NothingTwice ==
  \A w \in Walkers : (Is(w, "api") /\ ~walk[w].entered) => IsInjective(walk[w].got)

\* The web UI counts in one statement and lists in another (ui/handler.go 276
\* and 291): a walk along the "next" links shows each task once if the view
\* does not change at all.
UiShowsEachOnce ==
  \A w \in Walkers : (Is(w, "ui") /\ ~walk[w].entered /\ ~walk[w].left) =>
    /\ IsInjective(walk[w].got)
    /\ walk[w].step = "done" => walk[w].kept = ToSet(walk[w].got)

\* "Clamp the page in case tasks were deleted since the link was made" (ui
\* handler.go 286): a link that is out of date leads to a page with tasks on it,
\* as long as there are some and none comes or goes while the page is made.
UiPageHasTasks ==
  [][\A w \in Walkers :
       (/\ walk[w].step = "show" /\ walk'[w].step # "show"
        /\ walk[w].steady /\ View(rows, walk[w].filter) # {})
         => Len(walk'[w].got) > Len(walk[w].got)]_vars
=============================================================================
