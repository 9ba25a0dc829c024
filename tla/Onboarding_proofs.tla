-------------------------- MODULE Onboarding_proofs --------------------------
(***************************************************************************)
(* Proofs about Onboarding, for any number of workers, requests, faults    *)
(* and crashes: no onboarding step is skipped, and as long as nobody       *)
(* interferes the chain of jobs is sequential and every move is legal.     *)
(*                                                                         *)
(* transitionTo compares a state with the table and writes later, so the   *)
(* state it compared may be stale when it writes.  The argument does not   *)
(* need it to be fresh: the steps that are done only ever grow, hence what *)
(* the compared state vouched for still holds (MovesEarned).               *)
(*                                                                         *)
(* That a move is legal does need it to be fresh.  It is, as long as one   *)
(* handler at a time runs (OneActor): the handler that runs holds the only *)
(* job, gives it back or publishes the next one when it is over, and then  *)
(* one worker takes it.                                                    *)
(***************************************************************************)
EXTENDS Onboarding, TLAPS

-----------------------------------------------------------------------------
(* The tables. *)

\* The targets a handler moves to without having executed a step for them.
OwnTargets == {"auditing", "provisioning", "strategy_generating", "going_live",
               "shadow_auditing", "failed"}

\* The move to t is one of OwnTargets or the first move of a step that is done.
Backed(t, d) ==
    \/ t \in OwnTargets
    \/ \E step \in Steps : <<step, t>> \in FirstMoves /\ step \in d

\* An edge of STATE_TRANSITIONS asks for its source and its step, no more.
LEMMA EdgeEarned ==
    ASSUME NEW s \in States, NEW t \in States, NEW d,
           <<s, t>> \in Transitions, Earned(s, d), Backed(t, d)
    PROVE  Earned(t, d)
<1>1. CASE t \in OwnTargets
  BY <1>1 DEF OwnTargets, Earned, Transitions, GoneLive, Planned,
     Provisioned, Audited, Connected, Enriched, Scanned
<1>2. ASSUME NEW step \in Steps, <<step, t>> \in FirstMoves, step \in d
      PROVE  Earned(t, d)
  <2>1. /\ step = "shadow_audit" => t = "shadow_complete"
        /\ step = "firmographic_enrichment" => t = "oauth_connecting"
        /\ step = "oauth_connect" => t = "oauth_connected"
        /\ step = "instant_audit" => t = "audit_complete"
        /\ step = "provision" => t = "provisioned"
        /\ step = "strategy_generate" => t = "strategy_ready"
        /\ step = "go_live" => t = "active"
    BY <1>2 DEF FirstMoves
  <2>2. QED
    BY <1>2, <2>1 DEF Earned, Transitions, Steps, GoneLive, Planned,
       Provisioned, Audited, Connected, Enriched, Scanned
<1>3. QED
  BY <1>1, <1>2 DEF Backed

\* More steps earn no less.
LEMMA EarnedGrows ==
    ASSUME NEW s, NEW d, NEW e, d \subseteq e, Earned(s, d)
    PROVE  Earned(s, e)
BY DEF Earned

LEMMA BackedGrows ==
    ASSUME NEW t, NEW d, NEW e, d \subseteq e, Backed(t, d)
    PROVE  Backed(t, e)
BY DEF Backed

\* The automatic moves are among OwnTargets.
LEMMA AutoMovesAreOwn ==
    ASSUME NEW auto, NEW s, NEW t, <<s, t>> \in AutoMoves(auto)
    PROVE  t \in OwnTargets
BY DEF AutoMoves, OwnTargets

-----------------------------------------------------------------------------
(* Types. *)

JobsType == [Jobs -> Job \cup {NoJob}]

\* What a handler owns locally has its type.
HandlersType ==
    /\ pc \in [Handlers -> PCs]
    /\ work \in [Handlers -> Work \cup {StartWork}]
    /\ target \in [Handlers -> States]
    /\ holds \in [Handlers -> Jobs \cup {NoId}]

LEMMA RetriedType ==
    ASSUME NEW j \in Job PROVE Retried(j) \in Job \cup {NoJob}
BY OnboardingAssumption DEF Retried, Job

LEMMA GivenBackType ==
    ASSUME NEW j \in Job PROVE GivenBack(j) \in Job \cup {NoJob}
BY OnboardingAssumption DEF GivenBack, Job

LEMMA TakenType ==
    ASSUME NEW j \in Job PROVE Taken(j) \in Job
BY DEF Taken, Job

\* What a handler makes of its own job, and a new job, keep the queue's type.
LEMMA OwnJobType ==
    ASSUME TypeOK, NEW h \in Handlers
    PROVE  /\ OwnJob(h, Retried) \in JobsType
           /\ OwnJob(h, GivenBack) \in JobsType
           /\ OwnJob(h, Completed) \in JobsType
<1>1. job \in JobsType
  BY DEF TypeOK, JobsType
<1>2. CASE ~Owns(h)
  BY <1>1, <1>2 DEF OwnJob
<1>3. CASE Owns(h)
  <2>1. holds[h] \in Jobs /\ job[holds[h]] \in Job
    BY <1>1, <1>3 DEF Owns, JobsType
  <2>2. /\ Retried(job[holds[h]]) \in Job \cup {NoJob}
        /\ GivenBack(job[holds[h]]) \in Job \cup {NoJob}
        /\ Completed(job[holds[h]]) \in Job \cup {NoJob}
    BY <2>1, RetriedType, GivenBackType DEF Completed
  <2>3. \A r \in Job \cup {NoJob} : [job EXCEPT ![holds[h]] = r] \in JobsType
    BY <1>1, <2>1 DEF JobsType
  <2>4. QED
    BY <1>3, <2>2, <2>3 DEF OwnJob
<1>4. QED
  BY <1>2, <1>3

LEMMA AddedType ==
    ASSUME NEW jobs \in JobsType, NEW w \in Work
    PROVE  Added(jobs, w) \in JobsType
<1>1. [work |-> w, tries |-> 0, stalled |-> 0, held |-> FALSE] \in Job
  BY OnboardingAssumption DEF Job
<1>2. \A j : [jobs EXCEPT ![j] = [work |-> w, tries |-> 0, stalled |-> 0,
                                 held |-> FALSE]] \in JobsType
  BY <1>1 DEF JobsType
<1>3. QED
  BY <1>2 DEF Added

LEMMA GotoType ==
    ASSUME HandlersType, NEW h \in Handlers, NEW p \in PCs, NEW t \in States,
           Goto(h, p, t)
    PROVE  HandlersType'
BY DEF HandlersType, Goto

LEMMA LeaveType ==
    ASSUME HandlersType, NEW h \in Handlers, Leave(h)
    PROVE  HandlersType'
BY DEF HandlersType, Leave, PCs, States

LEMMA ThrowType ==
    ASSUME TypeOK, NEW h \in Handlers, Throw(h)
    PROVE  HandlersType' /\ job' \in JobsType
<1>1. HandlersType /\ job \in JobsType
  BY DEF TypeOK, HandlersType, JobsType
<1>2. CASE Goto(h, "check", "failed") /\ UNCHANGED job
  BY <1>1, <1>2, GotoType DEF PCs, States
<1>3. CASE AttemptFailed(h)
  BY <1>1, <1>3, LeaveType, OwnJobType DEF AttemptFailed
<1>4. QED
  BY <1>2, <1>3 DEF Throw

LEMMA SpendType ==
    ASSUME TypeOK, NEW k \in Kinds, Spend(k)
    PROVE  spent' \in [Kinds -> Nat]
BY OnboardingAssumption DEF TypeOK, Spend

TenantType ==
    /\ state \in States
    /\ status \in {"pending", "provisioning", "active"}
    /\ done \subseteq Steps

SpentType == spent \in [Kinds -> Nat]

LEMMA TypeParts ==
    TypeOK <=> TenantType /\ job \in JobsType /\ HandlersType /\ SpentType
BY DEF TypeOK, TenantType, JobsType, HandlersType, SpentType

LEMMA KindsAre == {"start", "trigger", "fault", "lost", "stall"} = Kinds
BY DEF Kinds

\* The job for the next step, with or without the handler's own job.
LEMMA NextJobType ==
    ASSUME NEW jobs \in JobsType, NEW s \in Steps
    PROVE  Added(jobs, [step |-> s, auto |-> FALSE]) \in JobsType
<1>1. [step |-> s, auto |-> FALSE] \in Work
  BY DEF Work
<1>2. QED
  BY <1>1, AddedType

\* Write: its alternatives.
LEMMA WriteType ==
    ASSUME TypeOK, NEW h \in Handlers, Write(h)
    PROVE  TypeOK'
<1>1. TenantType /\ job \in JobsType /\ HandlersType /\ SpentType
  BY TypeParts
<1>2. TenantType'
  BY <1>1 DEF Write, TenantType, HandlersType
<1>3. SpentType'
  BY <1>1 DEF Write, SpentType
<1>4. HandlersType' /\ job' \in JobsType
  <2>1. CASE NextMove(h)
    <3>1. PICK s \in States : Goto(h, "check", s) /\ UNCHANGED job
      BY <2>1 DEF NextMove
    <3>2. QED
      BY <1>1, <3>1, GotoType DEF PCs
  <2>2. CASE PublishNext(h)
    BY <1>1, <2>2, LeaveType, OwnJobType, NextJobType DEF PublishNext
  <2>3. CASE WaitForGoLive(h)
    BY <1>1, <2>3, LeaveType, OwnJobType DEF WaitForGoLive
  <2>4. CASE Goto(h, "status", "active") /\ UNCHANGED job
    BY <1>1, <2>4, GotoType DEF PCs, States
  <2>5. CASE AttemptFailed(h)
    BY <1>1, <2>5, LeaveType, OwnJobType DEF AttemptFailed
  <2>6. QED
    BY <2>1, <2>2, <2>3, <2>4, <2>5 DEF Write
<1>5. QED
  BY <1>2, <1>3, <1>4, TypeParts DEF TypeOK, TenantType, JobsType, HandlersType,
     SpentType

LEMMA TypeInit == Init => TypeOK
BY OnboardingAssumption DEF Init, TypeOK, Handlers, PCs, States, Job

\* Whoever executes a step has taken a job for it.
Working == \A w \in Handlers : pc[w] = "execute" => work[w] \in Work

LEMMA TypeStep == TypeOK /\ Working /\ [Next]_vars => TypeOK'
<1> SUFFICES ASSUME TypeOK, Working, [Next]_vars PROVE TypeOK'
  OBVIOUS
<1>1. TenantType /\ job \in JobsType /\ HandlersType /\ SpentType
  BY TypeParts
<1>a. /\ TenantType' /\ job' \in JobsType /\ HandlersType' /\ SpentType'
      => TypeOK'
  BY DEF TypeOK, TenantType, JobsType, HandlersType, SpentType
<1>b. /\ UNCHANGED Tenant => TenantType'
      /\ \A k \in Kinds : Spend(k) => SpentType'
  BY <1>1, SpendType DEF Tenant, TenantType, SpentType
<1>2. ASSUME NEW c \in Callers, StartOnboarding(c) PROVE TypeOK'
  <2>1. HandlersType'
    BY <1>1, <1>2, GotoType DEF StartOnboarding, Handlers, PCs, States
  <2>2. QED
    BY <1>1, <1>2, <1>a, <1>b, <2>1, KindsAre DEF StartOnboarding
<1>3. ASSUME NEW w \in Requests, TriggerStep(w) PROVE TypeOK'
  <2>1. HandlersType'
    BY <1>1, <1>3 DEF TriggerStep, HandlersType
  <2>2. job' \in JobsType
    BY <1>1, <1>3, OnboardingAssumption, AddedType DEF TriggerStep
  <2>3. QED
    BY <1>1, <1>3, <1>a, <1>b, <2>1, <2>2, KindsAre DEF TriggerStep
<1>4. ASSUME NEW h \in Handlers, Check(h) PROVE TypeOK'
  <2>1. target[h] \in States /\ SpentType'
    BY <1>1, <1>4 DEF Check, HandlersType, SpentType
  <2>2. HandlersType' /\ job' \in JobsType
    BY <1>1, <1>4, <2>1, GotoType, ThrowType DEF Check, PCs
  <2>3. QED
    BY <1>4, <1>a, <1>b, <2>1, <2>2 DEF Check
<1>5. ASSUME NEW w \in Workers, NEW j \in Jobs, TakeJob(w, j) PROVE TypeOK'
  <2>1. w \in Handlers /\ job[j] \in Job
    BY <1>1, <1>5 DEF TakeJob, JobsType, Handlers
  <2>2. job' \in JobsType
    BY <1>1, <1>5, <2>1, TakenType DEF TakeJob, JobsType
  <2>3. job[j].work \in Work
    BY <2>1 DEF Job
  <2>4. HandlersType'
    BY <1>1, <1>5, <2>1, <2>3 DEF TakeJob, HandlersType, PCs
  <2>5. TenantType' /\ SpentType'
    BY <1>1, <1>5 DEF TakeJob, Tenant, TenantType, SpentType
  <2>6. QED
    BY <1>a, <2>2, <2>4, <2>5
<1>6. ASSUME NEW w \in Workers, Execute(w) PROVE TypeOK'
  <2>0. work[w] \in Work
    BY <1>6 DEF Working, Execute, At, Handlers
  <2>1. TenantType' /\ SpentType' /\ job' \in JobsType
    BY <1>1, <1>6, <2>0 DEF Execute, TenantType, SpentType, Work
  <2>2. PICK s \in States : Goto(w, "check", s)
    BY <1>6 DEF Execute
  <2>3. HandlersType'
    BY <1>1, <2>2, GotoType DEF Handlers, PCs
  <2>4. QED
    BY <1>a, <2>1, <2>3
<1>7. ASSUME NEW w \in Workers, SetActive(w) PROVE TypeOK'
  <2>1. HandlersType' /\ job' \in JobsType
    BY <1>1, <1>7, LeaveType, OwnJobType DEF SetActive, Handlers
  <2>2. TenantType' /\ SpentType'
    BY <1>1, <1>7 DEF SetActive, TenantType, SpentType
  <2>3. QED
    BY <1>a, <2>1, <2>2
<1>8. ASSUME NEW h \in Handlers, Trouble(h) PROVE TypeOK'
  <2>1. CASE CheckFails(h) \/ (h \in Workers /\ ExecuteFails(h))
    BY <2>1, <1>a, <1>b, KindsAre, ThrowType DEF CheckFails, ExecuteFails
  <2>2. CASE WriteThrows(h)
    <3>1. TenantType'
      BY <1>1, <2>2 DEF WriteThrows, TenantType, HandlersType
    <3>2. QED
      BY <2>2, <3>1, <1>a, <1>b, KindsAre, ThrowType DEF WriteThrows
  <2>3. CASE h \in Workers /\ SetActiveThrows(h)
    <3>1. TenantType'
      BY <1>1, <2>3 DEF SetActiveThrows, TenantType
    <3>2. QED
      BY <2>3, <3>1, <1>a, <1>b, KindsAre, ThrowType DEF SetActiveThrows
  <2>4. CASE h \in Workers /\ LoseLock(h)
    <3>1. HandlersType'
      BY <1>1, <2>4 DEF LoseLock, HandlersType
    <3>2. QED
      BY <2>4, <3>1, <1>a, <1>b, KindsAre, OwnJobType DEF LoseLock
  <2>5. CASE Crash(h)
    BY <1>1, <2>5, <1>a, <1>b, KindsAre, OwnJobType, LeaveType DEF Crash
  <2>6. CASE WriteCrashes(h)
    <3>1. TenantType'
      BY <1>1, <2>6 DEF WriteCrashes, TenantType, HandlersType
    <3>2. QED
      BY <1>1, <2>6, <3>1, <1>a, <1>b, KindsAre, OwnJobType, LeaveType
      DEF WriteCrashes
  <2>7. CASE WriteTwice(h)
    <3>1. TenantType'
      BY <1>1, <2>7 DEF WriteTwice, TenantType, HandlersType
    <3>2. job' \in JobsType
      BY <2>7, OwnJobType, NextJobType DEF WriteTwice
    <3>3. HandlersType' /\ SpentType'
      BY <1>1, <2>7, <1>b, KindsAre, LeaveType DEF WriteTwice
    <3>4. QED
      BY <1>a, <3>1, <3>2, <3>3
  <2>10. CASE PublishThrows(h)
    <3>1. TenantType'
      BY <1>1, <2>10 DEF PublishThrows, TenantType, HandlersType
    <3>2. job' \in JobsType
      BY <1>1, <2>10, NextJobType DEF PublishThrows
    <3>3. HandlersType'
      BY <1>1, <2>10, LeaveType, GotoType DEF PublishThrows, PCs, States
    <3>4. SpentType'
      BY <2>10, <1>b, KindsAre DEF PublishThrows
    <3>5. QED
      BY <1>a, <3>1, <3>2, <3>3, <3>4
  <2>8. \/ CheckFails(h) \/ (h \in Workers /\ ExecuteFails(h))
        \/ WriteThrows(h)
        \/ h \in Workers /\ SetActiveThrows(h)
        \/ h \in Workers /\ LoseLock(h)
        \/ Crash(h)
        \/ WriteCrashes(h)
        \/ WriteTwice(h)
        \/ PublishThrows(h)
    BY <1>8 DEF Trouble
  <2>9. QED
    BY <2>1, <2>2, <2>3, <2>4, <2>5, <2>6, <2>7, <2>8, <2>10
<1>9. CASE UNCHANGED vars
  BY <1>9 DEF vars, TypeOK
<1>10. QED
  <2>1. ASSUME NEW h \in Handlers, Progress(h) PROVE TypeOK'
    BY <2>1, <1>4, <1>5, <1>6, <1>7, WriteType DEF Progress
  <2>2. QED
    BY <2>1, <1>2, <1>3, <1>8, <1>9 DEF Next

-----------------------------------------------------------------------------
(* No step is skipped. *)

\* What one handler's next move rests on.
MoveEarned(h) ==
    /\ pc[h] = "check" => Backed(target[h], done)
    /\ pc[h] = "write" => Earned(target[h], done)
    /\ pc[h] = "status" => Earned("active", done)

MovesEarned == \A h \in Handlers : MoveEarned(h)

IInv == TypeOK /\ Working /\ MovesEarned /\ NoStepSkipped

\* A handler that keeps its place keeps what it has earned.
LEMMA MoveEarnedKept ==
    ASSUME NEW h, MoveEarned(h), done \subseteq done',
           pc'[h] = pc[h], target'[h] = target[h]
    PROVE  MoveEarned(h)'
BY EarnedGrows, BackedGrows DEF MoveEarned

LEMMA GotoMoves ==
    ASSUME TypeOK, MovesEarned, Working, NEW h \in Handlers, NEW p, NEW t,
           Goto(h, p, t), done \subseteq done', p # "execute",
           p = "check" => Backed(t, done'),
           p = "write" => Earned(t, done'),
           p = "status" => Earned("active", done')
    PROVE  MovesEarned' /\ Working'
<1>1. \A k \in Handlers \ {h} : pc'[k] = pc[k] /\ target'[k] = target[k]
  BY DEF Goto, TypeOK
<1>2. pc'[h] = p /\ target'[h] = t
  BY DEF Goto, TypeOK
<1>3. MoveEarned(h)'
  BY <1>2 DEF MoveEarned
<1>4. MovesEarned'
  BY <1>1, <1>3, MoveEarnedKept DEF MovesEarned, Handlers
<1>5. Working'
  BY <1>1, <1>2 DEF Working, Goto, Handlers
<1>6. QED
  BY <1>4, <1>5

LEMMA LeaveMoves ==
    ASSUME TypeOK, MovesEarned, Working, NEW h \in Handlers, Leave(h),
           done \subseteq done'
    PROVE  MovesEarned' /\ Working'
<1>1. \A k \in Handlers \ {h} : /\ pc'[k] = pc[k] /\ target'[k] = target[k]
                                /\ work'[k] = work[k]
  BY DEF Leave, TypeOK
<1>2. pc'[h] = "idle"
  BY DEF Leave, TypeOK
<1>3. MoveEarned(h)'
  BY <1>2 DEF MoveEarned
<1>4. MovesEarned'
  BY <1>1, <1>3, MoveEarnedKept DEF MovesEarned, Handlers
<1>5. Working'
  BY <1>1, <1>2 DEF Working, Handlers
<1>6. QED
  BY <1>4, <1>5

LEMMA ThrowMoves ==
    ASSUME TypeOK, MovesEarned, Working, NEW h \in Handlers, Throw(h),
           done \subseteq done'
    PROVE  MovesEarned' /\ Working'
<1>1. Backed("failed", done')
  BY DEF Backed, OwnTargets
<1>2. CASE Goto(h, "check", "failed")
  BY <1>1, <1>2, GotoMoves
<1>3. CASE Leave(h)
  BY <1>3, LeaveMoves
<1>4. QED
  BY <1>2, <1>3 DEF Throw, AttemptFailed

LEMMA SafeInit == Init => Working /\ MovesEarned /\ NoStepSkipped
BY DEF Init, Working, MovesEarned, MoveEarned, NoStepSkipped, Earned, GoneLive,
   Planned, Provisioned, Audited, Connected, Enriched, Scanned

\* Writing the target keeps the tenant's state earned, however late it is.
LEMMA WritesEarned ==
    ASSUME IInv, NEW h \in Handlers, At(h, "write"), state' = target[h],
           UNCHANGED <<status, done>>
    PROVE  NoStepSkipped'
<1>1. Earned(target[h], done)
  BY DEF IInv, MovesEarned, MoveEarned, At
<1>2. Earned(state, done)' /\ (status = "active" => Earned("active", done))'
  BY <1>1, EarnedGrows DEF IInv, NoStepSkipped
<1>3. QED
  BY <1>2 DEF NoStepSkipped

LEMMA TenantKept ==
    ASSUME IInv, UNCHANGED Tenant PROVE NoStepSkipped' /\ done \subseteq done'
BY DEF IInv, NoStepSkipped, Tenant

\* The status becomes 'active' only where 'active' is earned.
LEMMA ActivatesEarned ==
    ASSUME IInv, NEW w \in Handlers, At(w, "status"),
           status' \in {status, "active"}, UNCHANGED <<state, done>>
    PROVE  NoStepSkipped'
<1>1. Earned("active", done)
  BY DEF IInv, MovesEarned, MoveEarned, At
<1>2. QED
  BY <1>1 DEF IInv, NoStepSkipped

LEMMA SafeStep == IInv /\ [Next]_vars => (Working /\ MovesEarned /\ NoStepSkipped)'
<1> DEFINE Safe == Working /\ MovesEarned /\ NoStepSkipped
<1> SUFFICES ASSUME IInv, [Next]_vars PROVE Safe'
  OBVIOUS
<1>1. TypeOK /\ Working /\ MovesEarned /\ NoStepSkipped
  BY DEF IInv
<1>2. ASSUME NEW c \in Callers, StartOnboarding(c) PROVE Safe'
  <2>1. Backed("shadow_auditing", done')
    BY DEF Backed, OwnTargets
  <2>2. NoStepSkipped' /\ done \subseteq done'
    BY <1>2, TenantKept DEF StartOnboarding
  <2>3. Goto(c, "check", "shadow_auditing") /\ c \in Handlers
    BY <1>2 DEF StartOnboarding, Handlers
  <2>4. MovesEarned' /\ Working'
    BY <1>1, <2>1, <2>2, <2>3, GotoMoves
  <2>5. QED
    BY <2>2, <2>4
<1>3. ASSUME NEW w \in Requests, TriggerStep(w) PROVE Safe'
  <2>1. NoStepSkipped' /\ done \subseteq done'
    BY <1>3, TenantKept DEF TriggerStep
  <2>2. pc' = pc /\ target' = target /\ work' = work
    BY <1>3 DEF TriggerStep
  <2>3. MovesEarned'
    BY <1>1, <2>1, <2>2, MoveEarnedKept DEF MovesEarned
  <2>4. Working'
    BY <1>1, <2>2 DEF Working
  <2>5. QED
    BY <2>1, <2>3, <2>4
<1>4. ASSUME NEW h \in Handlers, Check(h) PROVE Safe'
  <2>1. NoStepSkipped' /\ done \subseteq done' /\ done' = done
    BY <1>4, TenantKept DEF Check, Tenant
  <2>2. CASE Throw(h)
    BY <1>1, <2>1, <2>2, ThrowMoves
  <2>3. CASE <<state, target[h]>> \in Transitions /\ Goto(h, "write", target[h])
    <3>1. Backed(target[h], done) /\ Earned(state, done)
      BY <1>1, <1>4 DEF Check, At, MovesEarned, MoveEarned, NoStepSkipped
    <3>2. state \in States /\ target[h] \in States
      BY <1>1 DEF TypeOK
    <3>3. Earned(target[h], done')
      BY <2>1, <2>3, <3>1, <3>2, EdgeEarned
    <3>4. QED
      BY <1>1, <2>1, <2>3, <3>3, GotoMoves
  <2>4. QED
    BY <1>4, <2>2, <2>3 DEF Check
<1>5. ASSUME NEW w \in Workers, NEW j \in Jobs, TakeJob(w, j) PROVE Safe'
  <2>1. NoStepSkipped' /\ done \subseteq done'
    BY <1>5, TenantKept DEF TakeJob
  <2>2. w \in Handlers /\ job[j].work \in Work
    BY <1>1, <1>5 DEF TakeJob, TypeOK, Job, Handlers
  <2>3. /\ \A k \in Handlers \ {w} : pc'[k] = pc[k] /\ work'[k] = work[k]
        /\ pc'[w] = "execute" /\ work'[w] = job[j].work
        /\ target' = target
    BY <1>1, <1>5, <2>2 DEF TakeJob, TypeOK
  <2>4. MoveEarned(w)'
    BY <2>3 DEF MoveEarned
  <2>5. MovesEarned'
    BY <1>1, <2>1, <2>3, <2>4, MoveEarnedKept DEF MovesEarned
  <2>6. Working'
    BY <1>1, <2>2, <2>3 DEF Working
  <2>7. QED
    BY <2>1, <2>5, <2>6
<1>6. ASSUME NEW w \in Workers, Execute(w) PROVE Safe'
  <2>1. w \in Handlers /\ work[w] \in Work
    BY <1>1, <1>6 DEF Execute, At, Working, Handlers
  <2>2. done \subseteq done' /\ work[w].step \in done' /\ state' = state
    BY <1>6 DEF Execute
  <2>3. status' = "active" => status = "active"
    BY <1>6 DEF Execute
  <2>4. NoStepSkipped'
    BY <1>1, <2>2, <2>3, EarnedGrows DEF NoStepSkipped
  <2>5. PICK s \in States : /\ <<work[w].step, s>> \in FirstMoves
                            /\ Goto(w, "check", s)
    BY <1>6 DEF Execute
  <2>6. Backed(s, done')
    BY <2>1, <2>2, <2>5 DEF Backed, Work
  <2>7. MovesEarned' /\ Working'
    BY <1>1, <2>1, <2>2, <2>5, <2>6, GotoMoves
  <2>8. QED
    BY <2>4, <2>7
<1>7. ASSUME NEW w \in Workers, SetActive(w) PROVE Safe'
  <2>1. NoStepSkipped' /\ done \subseteq done'
    BY <1>7, ActivatesEarned DEF SetActive, Handlers
  <2>2. QED
    BY <1>1, <1>7, <2>1, LeaveMoves DEF SetActive, Handlers
<1>8. ASSUME NEW h \in Handlers, Write(h) PROVE Safe'
  <2>1. NoStepSkipped' /\ done \subseteq done' /\ done' = done
    BY <1>8, WritesEarned DEF Write
  <2>2. ASSUME NextMove(h) PROVE MovesEarned' /\ Working'
    <3>1. PICK s \in States : /\ <<target[h], s>> \in AutoMoves(work[h].auto)
                              /\ Goto(h, "check", s)
      BY <2>2 DEF NextMove
    <3>2. Backed(s, done')
      BY <3>1, AutoMovesAreOwn DEF Backed
    <3>3. QED
      BY <1>1, <2>1, <3>1, <3>2, GotoMoves
  <2>3. ASSUME target[h] = "active", Goto(h, "status", "active")
        PROVE  MovesEarned' /\ Working'
    <3>1. Earned("active", done')
      BY <1>1, <1>8, <2>1, <2>3 DEF Write, At, MovesEarned, MoveEarned
    <3>2. QED
      BY <1>1, <2>1, <2>3, <3>1, GotoMoves
  <2>4. ASSUME Leave(h) PROVE MovesEarned' /\ Working'
    BY <1>1, <2>1, <2>4, LeaveMoves
  <2>5. QED
    BY <1>8, <2>1, <2>2, <2>3, <2>4
    DEF Write, PublishNext, WaitForGoLive, AttemptFailed
<1>9. ASSUME NEW h \in Handlers, Trouble(h) PROVE Safe'
  <2>1. CASE CheckFails(h) \/ (h \in Workers /\ ExecuteFails(h))
    BY <1>1, <2>1, TenantKept, ThrowMoves DEF CheckFails, ExecuteFails
  <2>2. CASE WriteThrows(h)
    BY <1>1, <2>2, WritesEarned, ThrowMoves DEF WriteThrows
  <2>3. CASE h \in Workers /\ SetActiveThrows(h)
    BY <1>1, <2>3, ActivatesEarned, ThrowMoves DEF SetActiveThrows
  <2>4. CASE h \in Workers /\ LoseLock(h)
    <3>1. NoStepSkipped' /\ done \subseteq done'
      BY <2>4, TenantKept DEF LoseLock
    <3>2. pc' = pc /\ target' = target /\ work' = work
      BY <2>4 DEF LoseLock
    <3>3. MovesEarned'
      BY <1>1, <3>1, <3>2, MoveEarnedKept DEF MovesEarned
    <3>4. QED
      BY <1>1, <3>1, <3>2, <3>3 DEF Working
  <2>5. CASE Crash(h)
    BY <1>1, <2>5, TenantKept, LeaveMoves DEF Crash
  <2>6. CASE WriteCrashes(h) \/ WriteTwice(h)
    BY <1>1, <2>6, WritesEarned, LeaveMoves DEF WriteCrashes, WriteTwice
  <2>9. CASE PublishThrows(h)
    <3>1. NoStepSkipped' /\ done \subseteq done'
      BY <2>9, WritesEarned DEF PublishThrows
    <3>2. CASE Goto(h, "check", "failed")
      <4>1. Backed("failed", done')
        BY DEF Backed, OwnTargets
      <4>2. QED
        BY <1>1, <3>1, <3>2, <4>1, GotoMoves
    <3>3. CASE Leave(h)
      BY <1>1, <3>1, <3>3, LeaveMoves
    <3>4. QED
      BY <2>9, <3>2, <3>3 DEF PublishThrows
  <2>7. \/ CheckFails(h) \/ (h \in Workers /\ ExecuteFails(h))
        \/ WriteThrows(h)
        \/ h \in Workers /\ SetActiveThrows(h)
        \/ h \in Workers /\ LoseLock(h)
        \/ Crash(h)
        \/ WriteCrashes(h) \/ WriteTwice(h)
        \/ PublishThrows(h)
    BY <1>9 DEF Trouble
  <2>8. QED
    BY <2>1, <2>2, <2>3, <2>4, <2>5, <2>6, <2>7, <2>9
<1>10. CASE UNCHANGED vars
  <2>1. NoStepSkipped' /\ Working'
    BY <1>1, <1>10 DEF vars, NoStepSkipped, Working
  <2>2. MovesEarned'
    BY <1>1, <1>10, MoveEarnedKept DEF vars, MovesEarned
  <2>3. QED
    BY <2>1, <2>2
<1>11. QED
  <2>1. ASSUME NEW h \in Handlers, Progress(h) PROVE Safe'
    BY <2>1, <1>4, <1>5, <1>6, <1>7, <1>8 DEF Progress
  <2>2. QED
    BY <2>1, <1>2, <1>3, <1>9, <1>10 DEF Next

-----------------------------------------------------------------------------
(* One handler at a time. *)

\* As long as it is calm there is one handler that runs, or one job, or the
\* handler that runs has taken the job; before the first start there is neither.
OneActor ==
    Calm =>
      /\ \A h, k \in Handlers : pc[h] # "idle" /\ pc[k] # "idle" => h = k
      /\ \A i, j \in Jobs : job[i] # NoJob /\ job[j] # NoJob => i = j
      /\ \A h \in Handlers, j \in Jobs :
           pc[h] # "idle" /\ job[j] # NoJob => holds[h] = j /\ job[j].held
      /\ spent["start"] = 0 => /\ \A h \in Handlers : pc[h] = "idle"
                               /\ \A j \in Jobs : job[j] = NoJob

\* The state that transitionTo has compared is the state that it overwrites.
Compared ==
    Calm => \A h \in Handlers :
              pc[h] = "write" => <<state, target[h]>> \in Transitions

Chain == OneActor /\ Compared

LEMMA SpendMore ==
    ASSUME TypeOK, NEW k \in Kinds, Spend(k)
    PROVE  /\ spent'[k] = spent[k] + 1
           /\ \A l \in Kinds : spent[l] \in Nat /\ spent'[l] \in Nat /\ spent'[l] >= spent[l]
BY DEF TypeOK, Spend

\* It does not become calm again.
LEMMA CalmBefore ==
    ASSUME TypeOK, UNCHANGED spent \/ \E k \in Kinds : Spend(k), Calm'
    PROVE  Calm /\ (spent'["start"] = 0 => spent["start"] = 0)
<1>1. CASE UNCHANGED spent
  BY <1>1 DEF Calm
<1>2. ASSUME NEW k \in Kinds, Spend(k)
      PROVE  Calm /\ (spent'["start"] = 0 => spent["start"] = 0)
  <2>1. \A l \in {"start", "trigger", "lost", "stall"} :
          spent[l] \in Nat /\ spent'[l] \in Nat /\ spent'[l] >= spent[l]
    BY <1>2, SpendMore, KindsAre
  <2>2. QED
    BY <2>1 DEF Calm
<1>3. QED
  BY <1>1, <1>2

\* A stall, a trigger or a lost answer ends the calm.
LEMMA NoCalmAfter ==
    ASSUME TypeOK, NEW k \in {"trigger", "lost", "stall"}, Spend(k)
    PROVE  ~Calm'
<1>1. k \in Kinds
  BY DEF Kinds
<1>2. spent'[k] = spent[k] + 1 /\ spent[k] \in Nat
  BY <1>1, SpendMore
<1>3. QED
  BY <1>2 DEF Calm

\* The job that is there is the one that the running handler has taken.
LEMMA OnlyJob ==
    ASSUME Chain, Calm, NEW h \in Handlers, pc[h] # "idle", NEW j \in Jobs, job[j] # NoJob
    PROVE  holds[h] = j /\ Owns(h)
BY DEF Chain, OneActor, Owns

\* The running handler goes on.
LEMMA Stays ==
    ASSUME TypeOK, Chain, UNCHANGED spent \/ \E k \in Kinds : Spend(k),
           NEW h \in Handlers, pc[h] # "idle", NEW p \in PCs \ {"idle"}, NEW t \in States,
           Goto(h, p, t), UNCHANGED job,
           p = "write" => <<state', t>> \in Transitions
    PROVE  Chain'
<1> SUFFICES ASSUME Calm' PROVE Chain'
  BY DEF Chain, OneActor, Compared
<1>1. Calm /\ (spent'["start"] = 0 => spent["start"] = 0)
  BY CalmBefore
<1>2. \A k \in Handlers \ {h} : pc[k] = "idle"
  BY <1>1 DEF Chain, OneActor
<1>3. /\ pc'[h] = p /\ target'[h] = t /\ UNCHANGED holds
      /\ \A k \in Handlers \ {h} : pc'[k] = "idle"
  BY <1>2 DEF Goto, TypeOK
<1>4. OneActor'
  BY <1>1, <1>3 DEF Chain, OneActor
<1>5. Compared'
  BY <1>3 DEF Compared
<1>6. QED
  BY <1>4, <1>5 DEF Chain

\* The running handler is over and leaves at most one job.
LEMMA Leaves ==
    ASSUME TypeOK, Chain, UNCHANGED spent \/ \E k \in Kinds : Spend(k),
           NEW h \in Handlers, pc[h] # "idle", Leave(h),
           Calm => \E j : \A i \in Jobs : i # j => job'[i] = NoJob
    PROVE  Chain'
<1> SUFFICES ASSUME Calm' PROVE Chain'
  BY DEF Chain, OneActor, Compared
<1>1. Calm /\ (spent'["start"] = 0 => spent["start"] = 0)
  BY CalmBefore
<1>2. \A k \in Handlers : pc'[k] = "idle"
  BY <1>1 DEF Leave, TypeOK, Chain, OneActor
<1>3. spent'["start"] # 0
  BY <1>1 DEF Chain, OneActor
<1>4. QED
  BY <1>1, <1>2, <1>3 DEF Chain, OneActor, Compared

\* Its own job is the only one, whatever becomes of it.
LEMMA OwnJobOnly ==
    ASSUME TypeOK, Chain, Calm, NEW h \in Handlers, pc[h] # "idle"
    PROVE  /\ \A i \in Jobs : i # holds[h] => OwnJob(h, Retried)[i] = NoJob
           /\ \A i \in Jobs : OwnJob(h, Completed)[i] = NoJob
<1>1. \A i \in Jobs : job[i] # NoJob => holds[h] = i /\ Owns(h)
  BY OnlyJob
<1>2. CASE ~Owns(h)
  BY <1>1, <1>2 DEF OwnJob
<1>3. CASE Owns(h)
  BY <1>1, <1>3 DEF OwnJob, TypeOK, Completed
<1>4. QED
  BY <1>2, <1>3

LEMMA AttemptFailedLeaves ==
    ASSUME TypeOK, Chain, UNCHANGED spent \/ \E k \in Kinds : Spend(k),
           NEW h \in Handlers, pc[h] # "idle", AttemptFailed(h)
    PROVE  Chain'
<1>1. Calm => \A i \in Jobs : i # holds[h] => job'[i] = NoJob
  BY OwnJobOnly DEF AttemptFailed
<1>2. QED
  BY <1>1, Leaves DEF AttemptFailed

LEMMA ThrowChain ==
    ASSUME TypeOK, Chain, UNCHANGED spent \/ \E k \in Kinds : Spend(k),
           NEW h \in Handlers, pc[h] # "idle", Throw(h)
    PROVE  Chain'
<1>1. CASE Goto(h, "check", "failed") /\ UNCHANGED job
  BY <1>1, Stays DEF PCs, States
<1>2. CASE AttemptFailed(h)
  BY <1>2, AttemptFailedLeaves
<1>3. QED
  BY <1>1, <1>2 DEF Throw

LEMMA WriteChain ==
    ASSUME TypeOK, Chain, NEW h \in Handlers, Write(h)
    PROVE  Chain'
<1>1. pc[h] # "idle" /\ UNCHANGED spent
  BY DEF Write, At
<1>2. CASE NextMove(h)
  <2>1. PICK s \in States : Goto(h, "check", s) /\ UNCHANGED job
    BY <1>2 DEF NextMove
  <2>2. QED
    BY <1>1, <2>1, Stays DEF PCs
<1>3. CASE PublishNext(h)
  <2>1. PICK w : job' = Added(OwnJob(h, Completed), w)
    BY <1>3 DEF PublishNext
  <2>2. PICK j, r : job' = [OwnJob(h, Completed) EXCEPT ![j] = r]
    BY <2>1 DEF Added
  <2>3. OwnJob(h, Completed) \in [Jobs -> Job \cup {NoJob}]
    BY OwnJobType DEF JobsType
  <2>4. Calm => \A i \in Jobs : i # j => job'[i] = NoJob
    BY <1>1, <2>2, <2>3, OwnJobOnly
  <2>5. QED
    BY <1>1, <1>3, <2>4, Leaves DEF PublishNext
<1>4. CASE WaitForGoLive(h)
  BY <1>1, <1>4, OwnJobOnly, Leaves DEF WaitForGoLive
<1>5. CASE Goto(h, "status", "active") /\ UNCHANGED job
  BY <1>1, <1>5, Stays DEF PCs, States
<1>6. CASE AttemptFailed(h)
  BY <1>1, <1>6, AttemptFailedLeaves
<1>7. QED
  BY <1>2, <1>3, <1>4, <1>5, <1>6 DEF Write

\* The first start finds nothing under way.
LEMMA StartChain ==
    ASSUME TypeOK, Chain, NEW c \in Callers, StartOnboarding(c)
    PROVE  Chain'
<1> SUFFICES ASSUME Calm' PROVE Chain'
  BY DEF Chain, OneActor, Compared
<1>1. Spend("start") /\ "start" \in Kinds
  BY DEF StartOnboarding, Kinds
<1>2. Calm /\ spent["start"] = 0 /\ spent'["start"] # 0
  <2>1. spent["start"] \in Nat /\ spent'["start"] = spent["start"] + 1
    BY <1>1, SpendMore
  <2>2. QED
    BY <1>1, <2>1, CalmBefore DEF Calm
<1>3. \A h \in Handlers : pc[h] = "idle"
  BY <1>2 DEF Chain, OneActor
<1>4. \A j \in Jobs : job'[j] = NoJob
  BY <1>2 DEF Chain, OneActor, StartOnboarding
<1>5. /\ c \in Handlers /\ pc'[c] = "check"
      /\ \A h \in Handlers \ {c} : pc'[h] = "idle"
  BY <1>3 DEF StartOnboarding, Goto, TypeOK, Handlers
<1>6. QED
  BY <1>2, <1>4, <1>5 DEF Chain, OneActor, Compared

\* A worker takes the only job, and nobody else runs: else the job would be held.
LEMMA TakeChain ==
    ASSUME TypeOK, Chain, NEW w \in Workers, NEW j \in Jobs, TakeJob(w, j)
    PROVE  Chain'
<1> SUFFICES ASSUME Calm' PROVE Chain'
  BY DEF Chain, OneActor, Compared
<1>1. Calm /\ UNCHANGED spent /\ w \in Handlers
  BY DEF TakeJob, Calm, Handlers
<1>2. job[j] # NoJob /\ ~job[j].held
  BY DEF TakeJob
<1>3. \A h \in Handlers : pc[h] = "idle"
  BY <1>1, <1>2 DEF Chain, OneActor
<1>4. \A i \in Jobs : i # j => job'[i] = NoJob
  BY <1>1, <1>2 DEF TakeJob, TypeOK, Chain, OneActor
<1>5. job'[j].held
  BY DEF TakeJob, TypeOK, Taken
<1>6. /\ pc'[w] = "execute" /\ holds'[w] = j
      /\ \A h \in Handlers \ {w} : pc'[h] = "idle"
  BY <1>1, <1>3 DEF TakeJob, TypeOK
<1>7. spent["start"] # 0
  BY <1>1, <1>2 DEF Chain, OneActor
<1>8. OneActor'
  BY <1>1, <1>4, <1>5, <1>6, <1>7 DEF OneActor
<1>9. Compared'
  BY <1>6 DEF Compared
<1>10. QED
  BY <1>8, <1>9 DEF Chain

LEMMA ChainStep == TypeOK /\ Chain /\ [Next]_vars => Chain'
<1> SUFFICES ASSUME TypeOK, Chain, [Next]_vars PROVE Chain'
  OBVIOUS
<1>n. ASSUME ~Calm' PROVE Chain'
  BY <1>n DEF Chain, OneActor, Compared
<1>1. ASSUME NEW c \in Callers, StartOnboarding(c) PROVE Chain'
  BY <1>1, StartChain
<1>2. ASSUME NEW w \in Requests, TriggerStep(w) PROVE Chain'
  BY <1>2, <1>n, NoCalmAfter DEF TriggerStep
<1>3. ASSUME NEW h \in Handlers, Check(h) PROVE Chain'
  <2>1. pc[h] # "idle" /\ UNCHANGED spent /\ UNCHANGED state /\ target[h] \in States
    BY <1>3 DEF Check, At, Tenant, TypeOK
  <2>2. CASE Throw(h)
    BY <2>1, <2>2, ThrowChain
  <2>3. CASE <<state, target[h]>> \in Transitions /\ Goto(h, "write", target[h]) /\ UNCHANGED job
    BY <2>1, <2>3, Stays DEF PCs
  <2>4. QED
    BY <1>3, <2>2, <2>3 DEF Check
<1>4. ASSUME NEW w \in Workers, NEW j \in Jobs, TakeJob(w, j) PROVE Chain'
  BY <1>4, TakeChain
<1>5. ASSUME NEW w \in Workers, Execute(w) PROVE Chain'
  <2>1. PICK s \in States : Goto(w, "check", s)
    BY <1>5 DEF Execute
  <2>2. w \in Handlers /\ pc[w] # "idle" /\ UNCHANGED <<job, spent>>
    BY <1>5 DEF Execute, At, Handlers
  <2>3. QED
    BY <2>1, <2>2, Stays DEF PCs
<1>6. ASSUME NEW w \in Workers, SetActive(w) PROVE Chain'
  <2>1. w \in Handlers /\ pc[w] # "idle" /\ UNCHANGED spent /\ Leave(w)
    BY <1>6 DEF SetActive, At, Handlers
  <2>2. Calm => \A i \in Jobs : job'[i] = NoJob
    BY <1>6, <2>1, OwnJobOnly DEF SetActive
  <2>3. QED
    BY <2>1, <2>2, Leaves
<1>7. ASSUME NEW h \in Handlers, Trouble(h) PROVE Chain'
  <2>1. CASE CheckFails(h) \/ WriteThrows(h) \/ ExecuteFails(h) \/ SetActiveThrows(h)
    <3>1. pc[h] # "idle" /\ Spend("fault") /\ Throw(h)
      BY <2>1 DEF CheckFails, WriteThrows, ExecuteFails, SetActiveThrows, At
    <3>2. QED
      BY <3>1, KindsAre, ThrowChain
  <2>2. CASE Crash(h) \/ WriteCrashes(h) \/ WriteTwice(h) \/ LoseLock(h) \/ PublishThrows(h)
    BY <2>2, <1>n, NoCalmAfter DEF Crash, WriteCrashes, WriteTwice, LoseLock, PublishThrows
  <2>3. QED
    BY <1>7, <2>1, <2>2 DEF Trouble
<1>8. CASE UNCHANGED vars
  BY <1>8 DEF vars, Chain, OneActor, Compared, Calm
<1>9. QED
  <2>1. ASSUME NEW h \in Handlers, Progress(h) PROVE Chain'
    BY <2>1, <1>3, <1>4, <1>5, <1>6, WriteChain DEF Progress
  <2>2. QED
    BY <2>1, <1>1, <1>2, <1>7, <1>8 DEF Next

-----------------------------------------------------------------------------
(* Theorems. *)

(***************************************************************************)
(* The invariant that the theorems below rest on, of every reachable       *)
(* state.                                                                  *)
(***************************************************************************)
THEOREM Inductive == Spec => [](IInv /\ Chain)
<1>1. Init => IInv /\ Chain
  <2>1. Init => Chain
    BY DEF Init, Chain, OneActor, Compared
  <2>2. QED
    BY <2>1, TypeInit, SafeInit DEF IInv
<1>2. IInv /\ Chain /\ [Next]_vars => IInv' /\ Chain'
  BY TypeStep, SafeStep, ChainStep DEF IInv
<1>3. QED
  BY <1>1, <1>2, PTL DEF Spec

(***************************************************************************)
(* The onboarding state machine keeps its types (Onboarding!TypeOK).       *)
(***************************************************************************)
THEOREM OnboardingTypes == Spec => []TypeOK
<1>1. IInv => TypeOK
  BY DEF IInv
<1>2. QED
  BY <1>1, Inductive, PTL

(***************************************************************************)
(* No tenant reaches a state of the onboarding, or the status 'active',    *)
(* without every step before it having been executed: for any number of    *)
(* workers, start requests, triggered steps, faults and crashes, although  *)
(* transitionTo's check and write are not atomic.                          *)
(***************************************************************************)
THEOREM StepsAreEarned == Spec => []NoStepSkipped
<1>1. IInv => NoStepSkipped
  BY DEF IInv
<1>2. QED
  BY <1>1, Inductive, PTL

(***************************************************************************)
(* The chain of jobs is sequential: without a second start, a trigger, a   *)
(* crash, a lost lock or a job added by a call that threw, one handler at  *)
(* a time reads or writes the tenant, however many workers there are, and  *)
(* through all failures and retries of processStep.                        *)
(***************************************************************************)
THEOREM ChainIsSequential == Spec => []OneAtATime
<1>1. Chain => OneAtATime
  BY DEF Chain, OneActor, OneAtATime
<1>2. QED
  BY <1>1, Inductive, PTL

(***************************************************************************)
(* As long as the chain is sequential every state that transitionTo writes *)
(* follows, in STATE_TRANSITIONS, the state that it overwrites: the one it *)
(* has compared is still there.                                            *)
(***************************************************************************)
THEOREM MovesAreLegal == Spec => LegalMoves
<1>1. IInv /\ Chain /\ [Next]_vars =>
        [Calm' /\ state' # state => <<state, state'>> \in Transitions]_vars
  <2> SUFFICES ASSUME TypeOK, Chain, Next, Calm', state' # state
               PROVE  <<state, state'>> \in Transitions
    BY DEF IInv
  <2>1. ASSUME NEW h \in Handlers, Write(h) \/ WriteThrows(h)
        PROVE  <<state, state'>> \in Transitions
    <3>1. At(h, "write") /\ state' = target[h] /\ (UNCHANGED spent \/ Spend("fault"))
      BY <2>1 DEF Write, WriteThrows
    <3>2. Calm
      BY <3>1, CalmBefore, KindsAre
    <3>3. QED
      BY <3>1, <3>2 DEF Chain, Compared, At
  <2>2. ASSUME NEW h \in Handlers, WriteCrashes(h) \/ WriteTwice(h) \/ PublishThrows(h)
        PROVE  FALSE
    BY <2>2, NoCalmAfter DEF WriteCrashes, WriteTwice, PublishThrows
  <2>3. ASSUME NEW h \in Handlers, Progress(h) \/ Trouble(h)
        PROVE  \/ Write(h) \/ WriteThrows(h) \/ WriteCrashes(h) \/ WriteTwice(h)
               \/ PublishThrows(h)
    BY <2>3 DEF Progress, Trouble, Check, TakeJob, Execute, SetActive, CheckFails, Crash,
       ExecuteFails, SetActiveThrows, LoseLock, Tenant
  <2>4. QED
    BY <2>1, <2>2, <2>3 DEF Next, StartOnboarding, TriggerStep, Tenant
<1>2. QED
  BY <1>1, Inductive, PTL DEF Spec, LegalMoves

=============================================================================
