------------------------ MODULE PlanApproval_proofs ------------------------
(***************************************************************************)
(* Proofs about PlanApproval: for any sets of requests, reviewers and      *)
(* expiry jobs, a request is decided once, its notes repeat the decision,  *)
(* an agent that goes on was approved, and the protocol implements         *)
(* ApprovalDecision.                                                       *)
(***************************************************************************)
EXTENDS PlanApproval, TLAPS

\* A reviewer who still has a note to write knows which.
SaidIsVerdict == \A v \in Reviewers : held[v] # NoRequest => said[v] \in Verdicts

\* Only what was asked has a row, and only an agent that returned has been told.
AskedHasRow == \A r \in Requests : pc[r] # "idle" <=> row[r] # "none"

ToldHasReturned == \A r \in Requests : told[r] # "none" => pc[r] = "returned"

\* The inductive invariant.
IInv ==
  /\ TypeOK
  /\ SaidIsVerdict
  /\ AskedHasRow
  /\ ToldHasReturned
  /\ NotesTellTheRow
  /\ ApprovedByPerson

LEMMA InitIInv == Init => IInv
<1>1. SUFFICES ASSUME Init PROVE IInv
  OBVIOUS
<1>2. TypeOK
  BY <1>1, ApprovalAssumption DEF Init, TypeOK, Outcomes, Verdicts, Positions
<1>3. SaidIsVerdict /\ AskedHasRow /\ ToldHasReturned
  BY <1>1 DEF Init, SaidIsVerdict, AskedHasRow, ToldHasReturned
<1>4. NotesTellTheRow /\ ApprovedByPerson
  BY <1>1 DEF Init, NotesTellTheRow, ApprovedByPerson
<1>5. QED
  BY <1>2, <1>3, <1>4 DEF IInv

----------------------------------------------------------------------------
(* One lemma per action, or per group of actions alike. *)

LEMMA AskIInv ==
  ASSUME IInv, NEW r \in Requests, Ask(r)
  PROVE  IInv'
  BY DEF IInv, TypeOK, SaidIsVerdict, AskedHasRow, ToldHasReturned,
         NotesTellTheRow, ApprovedByPerson, Outcomes, Verdicts, Positions, Ask, Goto

LEMMA LoopIInv ==
  ASSUME IInv, NEW r \in Requests, Loop(r)
  PROVE  IInv'
  BY DEF IInv, TypeOK, SaidIsVerdict, AskedHasRow, ToldHasReturned,
         NotesTellTheRow, ApprovedByPerson, Outcomes, Verdicts, Positions, Loop, Goto, Return

LEMMA ReadNoteIInv ==
  ASSUME IInv, NEW r \in Requests, ReadNote(r)
  PROVE  IInv'
  BY DEF IInv, TypeOK, SaidIsVerdict, AskedHasRow, ToldHasReturned,
         NotesTellTheRow, ApprovedByPerson, Outcomes, Verdicts, Positions, ReadNote, Goto, Return

LEMMA ReadRowIInv ==
  ASSUME IInv, NEW r \in Requests, ReadRow(r)
  PROVE  IInv'
  BY DEF IInv, TypeOK, SaidIsVerdict, AskedHasRow, ToldHasReturned,
         NotesTellTheRow, ApprovedByPerson, Outcomes, Verdicts, Positions, ReadRow, Goto, Return

\* The steps that only move the agent's position.
LEMMA MoveIInv ==
  ASSUME IInv, NEW r \in Requests, ReadNoteThrows(r) \/ Wake(r) \/ Gone(r)
  PROVE  IInv'
<1>1. PICK position \in Positions \ {"idle", "returned"} : Goto(r, position)
  BY DEF ReadNoteThrows, Wake, Gone, Positions
<1>2. pc[r] \notin {"idle", "returned"} /\ faults' \in 0 .. MaxFaults
  BY ApprovalAssumption DEF IInv, TypeOK, ReadNoteThrows, Wake, Gone, Fault
<1>3. UNCHANGED <<row, note, overdue, told, held, said, batch>>
  BY DEF ReadNoteThrows, Wake, Gone
<1>4. QED
  BY <1>1, <1>2, <1>3
     DEF IInv, TypeOK, SaidIsVerdict, AskedHasRow, ToldHasReturned,
         NotesTellTheRow, ApprovedByPerson, Positions, Goto

LEMMA TimeIInv ==
  ASSUME IInv, NEW r \in Requests, Lapse(r) \/ ForgetNote(r)
  PROVE  IInv'
<1>1. CASE Lapse(r)
  BY <1>1 DEF IInv, TypeOK, SaidIsVerdict, AskedHasRow, ToldHasReturned,
              NotesTellTheRow, ApprovedByPerson, Lapse
<1>2. CASE ForgetNote(r)
  BY <1>2 DEF IInv, TypeOK, SaidIsVerdict, AskedHasRow, ToldHasReturned,
              NotesTellTheRow, ApprovedByPerson, Outcomes, Verdicts, ForgetNote
<1>3. QED
  BY <1>1, <1>2

LEMMA ReviewIInv ==
  ASSUME IInv, NEW r \in Requests, NEW v \in Reviewers, NEW verdict \in Verdicts,
         Review(v, r, verdict)
  PROVE  IInv'
  BY ApprovalAssumption
     DEF IInv, TypeOK, SaidIsVerdict, AskedHasRow, ToldHasReturned,
         NotesTellTheRow, ApprovedByPerson, Outcomes, Verdicts, Positions, Review

LEMMA NotifyIInv ==
  ASSUME IInv, NEW v \in Reviewers, Notify(v) \/ NotifyFails(v)
  PROVE  IInv'
  BY ApprovalAssumption
     DEF IInv, TypeOK, SaidIsVerdict, AskedHasRow, ToldHasReturned, NotesTellTheRow, ApprovedByPerson,
         Outcomes, Verdicts, Positions, Notify, NotifyFails, Reviewed, Fault

LEMMA ExpireIInv ==
  ASSUME IInv, NEW e \in Expirers, Expire(e)
  PROVE  IInv'
  BY DEF IInv, TypeOK, SaidIsVerdict, AskedHasRow, ToldHasReturned,
         NotesTellTheRow, ApprovedByPerson, Outcomes, Verdicts, Positions, Expire

LEMMA NotifyExpiredIInv ==
  ASSUME IInv, NEW e \in Expirers,
         (\E r \in Requests : NotifyExpired(e, r)) \/ NotifyExpiredFails(e)
  PROVE  IInv'
  BY ApprovalAssumption
     DEF IInv, TypeOK, SaidIsVerdict, AskedHasRow, ToldHasReturned, NotesTellTheRow, ApprovedByPerson,
         Outcomes, Verdicts, Positions, NotifyExpired, NotifyExpiredFails, Fault

----------------------------------------------------------------------------
LEMMA StepIInv == IInv /\ [Next]_vars => IInv'
<1>1. SUFFICES ASSUME IInv, [Next]_vars PROVE IInv'
  OBVIOUS
<1>2. ASSUME NEW r \in Requests, Poll(r) PROVE IInv'
  BY <1>1, <1>2, LoopIInv, ReadNoteIInv, ReadRowIInv, MoveIInv DEF Poll
<1>3. ASSUME NEW r \in Requests,
             Ask(r) \/ ReadNoteThrows(r) \/ Gone(r) \/ Lapse(r) \/ ForgetNote(r)
      PROVE IInv'
  BY <1>1, <1>3, AskIInv, MoveIInv, TimeIInv
<1>4. ASSUME NEW v \in Reviewers,
             \/ \E r \in Requests, verdict \in Verdicts : Review(v, r, verdict)
             \/ Notify(v) \/ NotifyFails(v)
      PROVE IInv'
  BY <1>1, <1>4, ReviewIInv, NotifyIInv
<1>5. ASSUME NEW e \in Expirers,
             \/ \E r \in Requests : NotifyExpired(e, r)
             \/ Expire(e) \/ NotifyExpiredFails(e)
      PROVE IInv'
  BY <1>1, <1>5, ExpireIInv, NotifyExpiredIInv
<1>6. CASE UNCHANGED vars
  BY <1>1, <1>6 DEF vars, IInv, TypeOK, SaidIsVerdict, AskedHasRow, ToldHasReturned,
                    NotesTellTheRow, ApprovedByPerson
<1>7. QED
  BY <1>1, <1>2, <1>3, <1>4, <1>5, <1>6 DEF Next

THEOREM Invariance == Spec => []IInv
<1>1. QED
  BY InitIInv, StepIInv, PTL DEF Spec

\* The state of the protocol keeps its types.
THEOREM TypeCorrect == Spec => []TypeOK
<1>1. IInv => TypeOK
  BY DEF IInv
<1>2. QED
  BY <1>1, Invariance, PTL

\* Whatever is noted in Redis, or still will be, is what the row of the request says.
THEOREM NotesAgree == Spec => []NotesTellTheRow
<1>1. IInv => NotesTellTheRow
  BY DEF IInv
<1>2. QED
  BY <1>1, Invariance, PTL

\* An agent that was told to go on had its request approved, and still has.
THEOREM NothingUnapproved == Spec => []ApprovedByPerson
<1>1. IInv => ApprovedByPerson
  BY DEF IInv
<1>2. QED
  BY <1>1, Invariance, PTL

----------------------------------------------------------------------------
(* The refinement: rows are decisions, what requestApproval returned are   *)
(* answers, and every other step is a stutter.                             *)

\* Nothing is asked at first, so nothing is decided or answered.
LEMMA RefinesInit == Init => Decision!Init
  BY DEF Init, Decision!Init, DecisionOf

\* The steps that change neither row, told nor overdue.
LEMMA RefinesStutter ==
  ASSUME UNCHANGED <<row, overdue, told>>
  PROVE  UNCHANGED Decision!vars
  BY DEF Decision!vars, DecisionOf

LEMMA RefinesAsk ==
  ASSUME IInv, NEW r \in Requests, Ask(r)
  PROVE  UNCHANGED Decision!vars
  BY DEF IInv, TypeOK, AskedHasRow, Ask, Decision!vars, DecisionOf

LEMMA RefinesLapse ==
  ASSUME IInv, NEW r \in Requests, Lapse(r)
  PROVE  Decision!Lapse(r)
  BY DEF Lapse, Decision!Lapse, DecisionOf

\* Whatever the agent is told is the decision, or the expiry of what is overdue.
LEMMA RefinesReturn ==
  ASSUME IInv, NEW r \in Requests, NEW d \in Outcomes, Return(r, d),
         pc[r] # "returned", UNCHANGED <<row, overdue>>,
         row[r] = d \/ (d = "expired" /\ overdue[r])
  PROVE  Decision!Answer(r, d)
  BY DEF IInv, TypeOK, ToldHasReturned, Return, Decision!Answer, DecisionOf, Outcomes, Verdicts

LEMMA RefinesPoll ==
  ASSUME IInv, NEW r \in Requests, Poll(r)
  PROVE  (\E d \in Outcomes : Decision!Answer(r, d)) \/ UNCHANGED Decision!vars
<1>1. CASE Loop(r)
  <2>1. CASE overdue[r]
    BY <1>1, <2>1, RefinesReturn DEF Loop, Outcomes
  <2>2. CASE ~overdue[r]
    BY <1>1, <2>2, RefinesStutter DEF Loop
  <2>3. QED
    BY <2>1, <2>2
<1>2. CASE ReadNote(r)
  <2>1. CASE note[r] # "none"
    <3>1. note[r] \in Outcomes /\ note[r] = row[r]
      BY <2>1 DEF IInv, TypeOK, NotesTellTheRow
    <3>2. QED
      BY <1>2, <2>1, <3>1, RefinesReturn DEF ReadNote
  <2>2. CASE note[r] = "none"
    BY <1>2, <2>2, RefinesStutter DEF ReadNote
  <2>3. QED
    BY <2>1, <2>2
<1>3. CASE ReadRow(r)
  <2>1. CASE row[r] # "pending"
    <3>1. row[r] \in Outcomes
      BY <1>3, <2>1 DEF IInv, TypeOK, AskedHasRow, ReadRow
    <3>2. QED
      BY <1>3, <2>1, <3>1, RefinesReturn DEF ReadRow
  <2>2. CASE row[r] = "pending"
    BY <1>3, <2>2, RefinesStutter DEF ReadRow
  <2>3. QED
    BY <2>1, <2>2
<1>4. CASE Wake(r)
  BY <1>4, RefinesStutter DEF Wake
<1>5. QED
  BY <1>1, <1>2, <1>3, <1>4 DEF Poll

LEMMA RefinesReview ==
  ASSUME IInv, NEW v \in Reviewers, NEW r \in Requests, NEW verdict \in Verdicts,
         Review(v, r, verdict)
  PROVE  Decision!Decide(r, verdict)
  BY DEF IInv, TypeOK, Review, Decision!Decide, DecisionOf, Verdicts

LEMMA RefinesExpire ==
  ASSUME IInv, NEW e \in Expirers, Expire(e)
  PROVE  \E old \in SUBSET Requests : Decision!Expire(old)
<1> DEFINE old == {r \in Requests : row[r] = "pending" /\ overdue[r]}
<1>1. row' = [r \in Requests |-> IF r \in old THEN "expired" ELSE row[r]]
  BY DEF Expire
<1>2. [r \in Requests |-> DecisionOf(r)]'
        = [r \in Requests |-> IF r \in old THEN "expired" ELSE DecisionOf(r)]
  BY <1>1 DEF DecisionOf
<1>3. Decision!Expire(old)
  BY <1>2 DEF Expire, Decision!Expire, DecisionOf
<1>4. QED
  BY <1>3

LEMMA RefinesNext == IInv /\ [Next]_vars => [Decision!Next]_(Decision!vars)
<1>1. SUFFICES ASSUME IInv, [Next]_vars
               PROVE  Decision!Next \/ UNCHANGED Decision!vars
  OBVIOUS
<1>2. ASSUME NEW r \in Requests, Poll(r)
      PROVE  Decision!Next \/ UNCHANGED Decision!vars
  BY <1>1, <1>2, RefinesPoll DEF Decision!Next, Decision!Outcomes, Decision!Verdicts, Outcomes, Verdicts
<1>3. ASSUME NEW r \in Requests, Ask(r)
      PROVE  UNCHANGED Decision!vars
  BY <1>1, <1>3, RefinesAsk
<1>4. ASSUME NEW r \in Requests, Lapse(r)
      PROVE  Decision!Next
  BY <1>1, <1>4, RefinesLapse DEF Decision!Next
<1>5. ASSUME NEW v \in Reviewers, NEW r \in Requests, NEW verdict \in Verdicts,
             Review(v, r, verdict)
      PROVE  Decision!Next
  BY <1>1, <1>5, RefinesReview DEF Decision!Next, Decision!Verdicts, Verdicts
<1>6. ASSUME NEW e \in Expirers, Expire(e)
      PROVE  Decision!Next
  BY <1>1, <1>6, RefinesExpire DEF Decision!Next
<1>7. ASSUME NEW r \in Requests, ReadNoteThrows(r) \/ Gone(r) \/ ForgetNote(r)
      PROVE  UNCHANGED Decision!vars
  BY <1>7, RefinesStutter DEF ReadNoteThrows, Gone, ForgetNote
<1>8. ASSUME NEW v \in Reviewers, Notify(v) \/ NotifyFails(v)
      PROVE  UNCHANGED Decision!vars
  BY <1>8, RefinesStutter DEF Notify, NotifyFails
<1>9. ASSUME NEW e \in Expirers,
             (\E r \in Requests : NotifyExpired(e, r)) \/ NotifyExpiredFails(e)
      PROVE  UNCHANGED Decision!vars
  BY <1>9, RefinesStutter DEF NotifyExpired, NotifyExpiredFails
<1>10. CASE UNCHANGED vars
  BY <1>10, RefinesStutter DEF vars
<1>11. QED
  BY <1>1, <1>2, <1>3, <1>4, <1>5, <1>6, <1>7, <1>8, <1>9, <1>10 DEF Next

\* The protocol implements ApprovalDecision: however reviews, expiry, notes and polls
\* interleave, and whatever fails, requests are decided once and answered truthfully.
THEOREM ImplementsDecision == Spec => OneDecision
<1>1. QED
  BY Invariance, RefinesInit, RefinesNext, PTL DEF Spec, OneDecision, Decision!Spec

=============================================================================
