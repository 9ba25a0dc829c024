---------------------------- MODULE MCOnboarding ----------------------------
(* Instances of Onboarding for TLC. *)
EXTENDS Onboarding

CONSTANTS w1, w2, caller

TwoWorkers == {w1, w2}
OneCaller == {caller}
ThreeJobs == 1 .. 3

\* Only a strategy step with autoGoLive takes the tenant to 'going_live'; a
\* second run of the provision step moves it back.
Reruns == {[step |-> "strategy_generate", auto |-> TRUE],
           [step |-> "provision", auto |-> FALSE]}

TwoStarts == [start |-> 2, trigger |-> 1, fault |-> 1, lost |-> 1, stall |-> 1]

=============================================================================
