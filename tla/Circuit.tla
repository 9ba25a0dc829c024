------------------------------ MODULE Circuit ------------------------------
(***************************************************************************)
(* The circuit breaker of a connector                                      *)
(* (apps/compatibility-agent/src/connectors/base-connector.ts), as         *)
(* operators on a record.  A platform has one connector per process, so    *)
(* the requests of all tenants share one circuit.                          *)
(*                                                                         *)
(* The clock is reduced to what checkCircuit asks of it: cooled says       *)
(* whether nextAttempt has passed.                                         *)
(***************************************************************************)
EXTENDS Naturals

CONSTANT Threshold          \* circuitBreakerThreshold

ASSUME ThresholdAssumption == Threshold \in Nat \ {0}

CircuitStates == {"closed", "open", "half-open"}

Circuits == [state : CircuitStates, failures : 0 .. Threshold, cooled : BOOLEAN]

\* A new connector, and what resetCircuit leaves.
FreshCircuit == [state |-> "closed", failures |-> 0, cooled |-> FALSE]

\* checkCircuit does not throw.
Admits(c) == c.state # "open" \/ c.cooled

\* checkCircuit lets a request through.  It does not count those it lets through.
Admit(c) == IF c.state = "open" THEN [c EXCEPT !.state = "half-open"] ELSE c

\* Mutant: a success closes the circuit and leaves the failures counted.
OnSuccessKeepsCount(c) == [c EXCEPT !.state = "closed", !.cooled = FALSE]

OnSuccess(c) == [c EXCEPT !.failures = 0, !.state = "closed", !.cooled = FALSE]

\* Failures beyond the threshold are not told apart.
OnFailure(c) ==
  LET failures == IF c.failures < Threshold THEN c.failures + 1 ELSE Threshold
  IN  IF failures >= Threshold
      THEN [state |-> "open", failures |-> failures, cooled |-> FALSE]
      ELSE [c EXCEPT !.failures = failures]

\* The clock reaches nextAttempt.
Cool(c) == [c EXCEPT !.cooled = TRUE]

=============================================================================
