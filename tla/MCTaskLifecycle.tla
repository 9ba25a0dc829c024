-------------------------- MODULE MCTaskLifecycle --------------------------
(***************************************************************************)
(* Instances of TaskLifecycle for TLC: a tenant whose plan allows one task *)
(* at a time, two tasks (one of them a graph's node where GraphTasks says  *)
(* so), and one polling loop of each kind.                                 *)
(***************************************************************************)
EXTENDS TaskLifecycle

CONSTANTS t1, g1, router, completer, failer

AllTasks == {t1, g1}
Graph == {g1}
OneRouter == {router}
OneCompleter == {completer}
OneFailer == {failer}
=============================================================================
