----------------------------- MODULE MCWebhook -----------------------------
(* Instances of Webhook for TLC. *)
EXTENDS Webhook

CONSTANTS v1, v2, e1, w1, w2

TwoEvents == {v1, v2}
OneEndpoint == {e1}
TwoWorkers == {w1, w2}
WantsAll == [e \in {e1} |-> {v1, v2}]
None == {}
=============================================================================
