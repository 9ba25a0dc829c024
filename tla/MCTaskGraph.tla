---------------------------- MODULE MCTaskGraph ----------------------------
(***************************************************************************)
(* Instances of TaskGraph for TLC.                                         *)
(*                                                                         *)
(* Generic: two roots and a join that waits for both, the shape in which   *)
(* concurrent completions race; one leaf of an unroutable type; one batch  *)
(* of one pivot node.                                                      *)
(***************************************************************************)
EXTENDS TaskGraph

CONSTANTS r1, r2, join, leaf, pivot,
          c1, c2, s1

GenericNodes == {r1, r2, join, leaf, pivot}
GenericInitial == {r1, r2, join, leaf}
GenericBatches == {{pivot}}
GenericDeps ==
  [n \in GenericNodes |-> IF n = join THEN {r1, r2}
                          ELSE IF n = leaf THEN {r1} ELSE {}]
GenericRoutable == GenericNodes \ {leaf}

\* The same without the leaf, so that every node can finish.
ProgressNodes == {r1, r2, join, pivot}
ProgressInitial == {r1, r2, join}
ProgressDeps == [n \in ProgressNodes |-> IF n = join THEN {r1, r2} ELSE {}]

TwoCompleters == {c1, c2}
OneCompleter == {c1}
OneInjector == {s1}
AllConns == {"A", "B", "C"}

\* Each polling loop in a process, hence on a connection, of its own.
SeparateConns == [h \in {c1, c2, s1} |-> IF h = c1 THEN "A"
                                         ELSE IF h = c2 THEN "B" ELSE "C"]
\* One orchestrator process: both loops share its connection.
SharedConn == [h \in {c1, s1} |-> "A"]
=============================================================================
