---------------------------- MODULE DagSchedule ----------------------------
(***************************************************************************)
(* What the task graph executor promises, without Redis, Kafka or Postgres *)
(* (comment of TaskGraphExecutor.executeGraph, task-graph.ts 42-46): a     *)
(* task starts only after every task it depends on has finished, and       *)
(* starting is not undone.  One step may start several tasks, because one  *)
(* completion can unblock several dependents.                              *)
(***************************************************************************)
CONSTANTS
  Nodes,      \* the tasks of every submitted graph
  Deps        \* Deps[n]: the tasks n depends on

VARIABLES
  started,    \* tasks handed to an agent queue
  finished    \* tasks an agent has finished

dagVars == <<started, finished>>

DagInit ==
  /\ started = {}
  /\ finished = {}

StartTasks(S) ==
  /\ S \cap started = {}
  /\ \A n \in S : Deps[n] \subseteq finished
  /\ started' = started \cup S
  /\ UNCHANGED finished

FinishTask(n) ==
  /\ n \in started \ finished
  /\ finished' = finished \cup {n}
  /\ UNCHANGED started

DagNext ==
  \/ \E S \in SUBSET Nodes : StartTasks(S)
  \/ \E n \in Nodes : FinishTask(n)

DagSpec == DagInit /\ [][DagNext]_dagVars
=============================================================================
