-------------------------- MODULE ApprovalDecision --------------------------
(***************************************************************************)
(* What the plan approvals of packages/queue/src/plan-approval.ts promise, *)
(* whatever carries the decision to the agent: a request is decided once,  *)
(* by a person or by its expiry; an agent is answered once, with the       *)
(* decision or, after the deadline, with the request's expiry.             *)
(***************************************************************************)
CONSTANT Requests

VARIABLES
  decision,   \* of a request: none yet, or the one that counts
  overdue,    \* its deadline has passed
  answer      \* what its agent was told

vars == <<decision, overdue, answer>>

Verdicts == {"approved", "rejected"}
Outcomes == Verdicts \cup {"expired"}

Init ==
  /\ decision = [r \in Requests |-> "none"]
  /\ overdue = [r \in Requests |-> FALSE]
  /\ answer = [r \in Requests |-> "none"]

Lapse(r) ==
  /\ ~overdue[r]
  /\ overdue' = [overdue EXCEPT ![r] = TRUE]
  /\ UNCHANGED <<decision, answer>>

\* A person may still decide after the deadline.
Decide(r, verdict) ==
  /\ decision[r] = "none"
  /\ decision' = [decision EXCEPT ![r] = verdict]
  /\ UNCHANGED <<overdue, answer>>

\* Only what is overdue expires; several requests may do so together.
Expire(old) ==
  /\ \A r \in old : decision[r] = "none" /\ overdue[r]
  /\ decision' = [r \in Requests |-> IF r \in old THEN "expired" ELSE decision[r]]
  /\ UNCHANGED <<overdue, answer>>

Answer(r, d) ==
  /\ answer[r] = "none"
  /\ decision[r] = d \/ (d = "expired" /\ overdue[r])
  /\ answer' = [answer EXCEPT ![r] = d]
  /\ UNCHANGED <<decision, overdue>>

Next ==
  \/ \E r \in Requests :
       \/ Lapse(r)
       \/ \E verdict \in Verdicts : Decide(r, verdict)
       \/ \E d \in Outcomes : Answer(r, d)
  \/ \E old \in SUBSET Requests : Expire(old)

Spec == Init /\ [][Next]_vars

=============================================================================
