---------------------------- MODULE TaskLifecycle ----------------------------
(***************************************************************************)
(* What the emulator promises about its tasks, without queues, polls,      *)
(* slots, goroutines or crashes: a task waits, is sent, waits again after  *)
(* each of its first MaxRetries failures, and ends completed or failed.    *)
(* CloudTasks implements it (CloudTasks!ImplementsLifecycle).              *)
(***************************************************************************)
EXTENDS Naturals

CONSTANTS TaskIds, MaxRetries

VARIABLE life  \* the phase of each task, and the failures it has counted

Gone == [phase |-> "absent", fails |-> 0]

Init == life = [t \in TaskIds |-> Gone]

Move(t, from, phase, fails) ==
  /\ life[t].phase \in from
  /\ life' = [life EXCEPT ![t] = [phase |-> phase, fails |-> fails]]

Insert(t)   == Move(t, {"absent"}, "queued", 0)
Send(t)     == Move(t, {"queued"}, "sending", life[t].fails)
Complete(t) == Move(t, {"sending"}, "completed", life[t].fails)
Retry(t)    == life[t].fails < MaxRetries /\ Move(t, {"sending"}, "queued", life[t].fails + 1)
Fail(t)     == life[t].fails = MaxRetries /\ Move(t, {"sending"}, "failed", life[t].fails)

\* A finished task is run again by request.
Requeue(t) == Move(t, {"completed", "failed"}, "queued", 0)

\* Tasks are deleted, one or a queue of them.
Remove(S) == life' = [t \in TaskIds |-> IF t \in S THEN Gone ELSE life[t]]

\* The tasks whose sending was cut short wait again; it was not a failure.
Recover ==
  life' = [t \in TaskIds |->
             IF life[t].phase = "sending" THEN [life[t] EXCEPT !.phase = "queued"] ELSE life[t]]

Next ==
  \/ \E t \in TaskIds : \/ Insert(t) \/ Send(t) \/ Complete(t) \/ Retry(t) \/ Fail(t)
                        \/ Requeue(t)
  \/ \E S \in SUBSET TaskIds : Remove(S)
  \/ Recover

Spec == Init /\ [][Next]_life
=============================================================================
