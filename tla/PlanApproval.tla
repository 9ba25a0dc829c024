---------------------------- MODULE PlanApproval ----------------------------
(***************************************************************************)
(* Plan approvals (packages/queue/src/plan-approval.ts): an agent writes a *)
(* request and polls Redis and the database for its resolution, people     *)
(* approve and reject through the gateway (routes/plan-approval.ts), and   *)
(* a cron job expires what is overdue.  A decision is a row's update and   *)
(* then a note in Redis; each is a step, and so is each read of the poll.  *)
(*                                                                         *)
(* A task that asks again after its process died makes another request.    *)
(***************************************************************************)
EXTENDS Naturals

CONSTANTS
  Requests,    \* rows of plan_approvals, each with its waiting agent
  Reviewers,   \* requests to the gateway being handled
  Expirers,    \* runs of expireOldApprovals
  MaxFaults,   \* bound: calls that throw, processes that end
  NoRequest

ASSUME ApprovalAssumption ==
  /\ NoRequest \notin Requests
  /\ Reviewers \cap Expirers = {}
  /\ MaxFaults \in Nat

VARIABLES
  row,      \* plan_approvals.status, "none" before the insert
  note,     \* approval:result:<id> in Redis
  overdue,  \* expiresAt has passed
  pc,       \* where the agent of a request is
  told,     \* what requestApproval returned to it
  held,     \* the request whose note a reviewer still has to write
  said,     \* that note
  batch,    \* the requests whose notes an expirer still has to write
  faults

vars == <<row, note, overdue, pc, told, held, said, batch, faults>>

Verdicts  == {"approved", "rejected"}
Outcomes  == Verdicts \cup {"expired"}
Positions == {"idle", "loop", "redis", "db", "sleep", "returned", "gone"}

TypeOK ==
  /\ row \in [Requests -> Outcomes \cup {"none", "pending"}]
  /\ note \in [Requests -> Outcomes \cup {"none"}]
  /\ overdue \in [Requests -> BOOLEAN]
  /\ pc \in [Requests -> Positions]
  /\ told \in [Requests -> Outcomes \cup {"none"}]
  /\ held \in [Reviewers -> Requests \cup {NoRequest}]
  /\ said \in [Reviewers -> Verdicts \cup {"none"}]
  /\ batch \in [Expirers -> SUBSET Requests]
  /\ faults \in 0 .. MaxFaults

Init ==
  /\ row = [r \in Requests |-> "none"]
  /\ note = [r \in Requests |-> "none"]
  /\ overdue = [r \in Requests |-> FALSE]
  /\ pc = [r \in Requests |-> "idle"]
  /\ told = [r \in Requests |-> "none"]
  /\ held = [v \in Reviewers |-> NoRequest]
  /\ said = [v \in Reviewers |-> "none"]
  /\ batch = [e \in Expirers |-> {}]
  /\ faults = 0

Fault == faults < MaxFaults /\ faults' = faults + 1

----------------------------------------------------------------------------
(* requestApproval and pollForResolution *)

Goto(r, position) == pc' = [pc EXCEPT ![r] = position]

Ask(r) ==
  /\ pc[r] = "idle"
  /\ row' = [row EXCEPT ![r] = "pending"]
  /\ Goto(r, "loop")
  /\ UNCHANGED <<note, overdue, told, held, said, batch, faults>>

Return(r, outcome) ==
  /\ told' = [told EXCEPT ![r] = outcome]
  /\ Goto(r, "returned")

\* Mutant: the loop has no end.
LoopForever(r) ==
  /\ pc[r] = "loop"
  /\ Goto(r, "redis")
  /\ UNCHANGED <<row, note, overdue, told, held, said, batch, faults>>

\* The condition of the loop.
Loop(r) ==
  /\ pc[r] = "loop"
  /\ IF overdue[r] THEN Return(r, "expired") ELSE Goto(r, "redis") /\ UNCHANGED told
  /\ UNCHANGED <<row, note, overdue, held, said, batch, faults>>

ReadNote(r) ==
  /\ pc[r] = "redis"
  /\ IF note[r] # "none" THEN Return(r, note[r]) ELSE Goto(r, "db") /\ UNCHANGED told
  /\ UNCHANGED <<row, note, overdue, held, said, batch, faults>>

\* Redis throws: fall through to the database.
ReadNoteThrows(r) ==
  /\ pc[r] = "redis"
  /\ Fault
  /\ Goto(r, "db")
  /\ UNCHANGED <<row, note, overdue, told, held, said, batch>>

\* Mutant: the row's status is returned whatever it is.
ReadRowAnyway(r) ==
  /\ pc[r] = "db"
  /\ Return(r, row[r])
  /\ UNCHANGED <<row, note, overdue, held, said, batch, faults>>

ReadRow(r) ==
  /\ pc[r] = "db"
  /\ IF row[r] # "pending" THEN Return(r, row[r]) ELSE Goto(r, "sleep") /\ UNCHANGED told
  /\ UNCHANGED <<row, note, overdue, held, said, batch, faults>>

Wake(r) ==
  /\ pc[r] = "sleep"
  /\ Goto(r, "loop")
  /\ UNCHANGED <<row, note, overdue, told, held, said, batch, faults>>

\* The database throws, or the agent's process ends: the row stays.
Gone(r) ==
  /\ pc[r] \in {"loop", "redis", "db", "sleep"}
  /\ Fault
  /\ Goto(r, "gone")
  /\ UNCHANGED <<row, note, overdue, told, held, said, batch>>

----------------------------------------------------------------------------
(* approveRequest and rejectRequest *)

\* Mutant: UPDATE without its condition on the status.
ReviewAnytime(v, r, verdict) ==
  /\ held[v] = NoRequest
  /\ row[r] # "none"
  /\ row' = [row EXCEPT ![r] = verdict]
  /\ held' = [held EXCEPT ![v] = r]
  /\ said' = [said EXCEPT ![v] = verdict]
  /\ UNCHANGED <<note, overdue, pc, told, batch, faults>>

\* UPDATE ... WHERE status = 'pending'; a request already resolved is left alone.
Review(v, r, verdict) ==
  /\ held[v] = NoRequest
  /\ row[r] = "pending"
  /\ row' = [row EXCEPT ![r] = verdict]
  /\ held' = [held EXCEPT ![v] = r]
  /\ said' = [said EXCEPT ![v] = verdict]
  /\ UNCHANGED <<note, overdue, pc, told, batch, faults>>

Reviewed(v) ==
  /\ held' = [held EXCEPT ![v] = NoRequest]
  /\ said' = [said EXCEPT ![v] = "none"]

Notify(v) ==
  /\ held[v] # NoRequest
  /\ note' = [note EXCEPT ![held[v]] = said[v]]
  /\ Reviewed(v)
  /\ UNCHANGED <<row, overdue, pc, told, batch, faults>>

\* Redis throws, which is caught, or the gateway's process ends.
NotifyFails(v) ==
  /\ held[v] # NoRequest
  /\ Fault
  /\ Reviewed(v)
  /\ UNCHANGED <<row, note, overdue, pc, told, batch>>

----------------------------------------------------------------------------
(* expireOldApprovals *)

\* Mutant: what is overdue expires whatever its status.
ExpireOverdue(e) ==
  /\ batch[e] = {}
  /\ LET old == {r \in Requests : row[r] # "none" /\ overdue[r]}
     IN  /\ old # {}
         /\ row' = [r \in Requests |-> IF r \in old THEN "expired" ELSE row[r]]
         /\ batch' = [batch EXCEPT ![e] = old]
  /\ UNCHANGED <<note, overdue, pc, told, held, said, faults>>

\* Mutant: what is pending expires before its deadline.
ExpirePending(e) ==
  /\ batch[e] = {}
  /\ LET old == {r \in Requests : row[r] = "pending"}
     IN  /\ old # {}
         /\ row' = [r \in Requests |-> IF r \in old THEN "expired" ELSE row[r]]
         /\ batch' = [batch EXCEPT ![e] = old]
  /\ UNCHANGED <<note, overdue, pc, told, held, said, faults>>

Expire(e) ==
  /\ batch[e] = {}
  /\ LET old == {r \in Requests : row[r] = "pending" /\ overdue[r]}
     IN  /\ old # {}
         /\ row' = [r \in Requests |-> IF r \in old THEN "expired" ELSE row[r]]
         /\ batch' = [batch EXCEPT ![e] = old]
  /\ UNCHANGED <<note, overdue, pc, told, held, said, faults>>

NotifyExpired(e, r) ==
  /\ r \in batch[e]
  /\ note' = [note EXCEPT ![r] = "expired"]
  /\ batch' = [batch EXCEPT ![e] = @ \ {r}]
  /\ UNCHANGED <<row, overdue, pc, told, held, said, faults>>

\* The first failure ends the notes of the whole batch.
NotifyExpiredFails(e) ==
  /\ batch[e] # {}
  /\ Fault
  /\ batch' = [batch EXCEPT ![e] = {}]
  /\ UNCHANGED <<row, note, overdue, pc, told, held, said>>

----------------------------------------------------------------------------
(* Time *)

\* expiresAt is computed before the insert, so it may pass before the first poll.
Lapse(r) ==
  /\ row[r] # "none" /\ ~overdue[r]
  /\ overdue' = [overdue EXCEPT ![r] = TRUE]
  /\ UNCHANGED <<row, note, pc, told, held, said, batch, faults>>

\* The notes live for an hour.
ForgetNote(r) ==
  /\ note[r] # "none"
  /\ note' = [note EXCEPT ![r] = "none"]
  /\ UNCHANGED <<row, overdue, pc, told, held, said, batch, faults>>

Poll(r) == Loop(r) \/ ReadNote(r) \/ ReadRow(r) \/ Wake(r)

Next ==
  \/ \E r \in Requests :
       \/ Ask(r) \/ Poll(r) \/ ReadNoteThrows(r) \/ Gone(r) \/ Lapse(r) \/ ForgetNote(r)
       \/ \E v \in Reviewers, verdict \in Verdicts : Review(v, r, verdict)
       \/ \E e \in Expirers : NotifyExpired(e, r)
  \/ \E v \in Reviewers : Notify(v) \/ NotifyFails(v)
  \/ \E e \in Expirers : Expire(e) \/ NotifyExpiredFails(e)

\* The poll goes on and time passes; nobody has to review, and no job has to expire.
Fairness == \A r \in Requests : WF_vars(Poll(r)) /\ WF_vars(Lapse(r))

Spec == Init /\ [][Next]_vars /\ Fairness

----------------------------------------------------------------------------
(* Properties *)

\* What a request's row says of its decision.
DecisionOf(r) == IF row[r] = "pending" THEN "none" ELSE row[r]

Decision == INSTANCE ApprovalDecision WITH
  decision <- [r \in Requests |-> DecisionOf(r)], answer <- told

\* Reviewers who race each other, the expiry and the agent's poll decide a request
\* once, and the agent is told that decision or, when overdue, that it expired.
OneDecision == Decision!Spec

\* An agent goes on with its plan only if a person approved it: what it read, a note
\* or the row, by then or before, is what the row still says.
ApprovedByPerson == \A r \in Requests : told[r] = "approved" => row[r] = "approved"

\* A note that is in Redis or still to be written is what the row says: those who
\* write notes late or not at all never contradict each other.
NotesTellTheRow ==
  /\ \A r \in Requests : note[r] # "none" => note[r] = row[r]
  /\ \A v \in Reviewers : held[v] # NoRequest => said[v] = row[held[v]]
  /\ \A e \in Expirers : \A r \in batch[e] : row[r] = "expired"

\* requestApproval returns, whether or not anybody reviews or expires the request.
AskingEnds == \A r \in Requests : pc[r] = "loop" ~> pc[r] \in {"returned", "gone"}

=============================================================================
