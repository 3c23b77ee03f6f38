-------------------------------- MODULE Handoff --------------------------------
(***************************************************************************)
(* What the streamed hand-off from the dependency_graph phase to the build *)
(* phase promises: tasks of the plan appear one after the other, in any    *)
(* grouping, and the phase is declared reconciled only when every task of  *)
(* the plan is there.  It may be declared broken at any time.              *)
(***************************************************************************)
CONSTANT Plan

VARIABLES
  tasks,    \* the descriptors of the plan the framework holds a task for
  outcome   \* "open", "passed" (reconciled), "raised" or "skipped" (no barrier)

handoffVars == <<tasks, outcome>>

Init ==
  /\ tasks = {}
  /\ outcome = "open"

Spawn ==
  /\ \E more \in SUBSET Plan : tasks' = tasks \cup more
  /\ UNCHANGED outcome

Conclude ==
  /\ outcome = "open"
  /\ outcome' \in {"passed", "raised", "skipped"}
  /\ outcome' = "passed" => tasks = Plan
  /\ UNCHANGED tasks

\* The next run plans again.
Restart ==
  /\ outcome # "open"
  /\ tasks' = {}
  /\ outcome' = "open"

Next == Spawn \/ Conclude \/ Restart

Spec == Init /\ [][Next]_handoffVars
================================================================================
