----------------------------- MODULE Onboarding -----------------------------
(***************************************************************************)
(* The onboarding service for one tenant: the HTTP handlers that start the *)
(* flow or trigger a step, the BullMQ queue "onboarding", the workers that *)
(* run its jobs, and the two columns of the tenant's row they share, the   *)
(* onboarding state and the tenant status.                                 *)
(*                                                                         *)
(* OnboardingStateMachine.transitionTo reads the state, compares it with   *)
(* STATE_TRANSITIONS and writes the new one in two database calls without  *)
(* a transaction, then publishes an event that may throw.  Check, Write    *)
(* and the faults follow these calls.  A handler is described by the state *)
(* it is moving to (target); which state or job comes after a written      *)
(* state is the switch of onStepComplete.                                  *)
(*                                                                         *)
(* The announcement of a state, the publication of the job that follows    *)
(* and the completion of the handler's own job are not steps of their own: *)
(* they are part of Write, and so are the ways they fail (WriteThrows,     *)
(* PublishThrows, WriteCrashes, WriteTwice).  No other handler can tell a  *)
(* job that is not published yet from one that nobody has taken yet.       *)
(***************************************************************************)
EXTENDS Naturals, FiniteSets

CONSTANTS
    Workers,        \* concurrent runs of processStep (concurrency: 5)
    Callers,        \* concurrent POST /start requests
    Jobs,           \* places for jobs that are not finished: a bound
    NoId,           \* "holds no job"
    Attempts,       \* BullMQ attempts of a job (3 in createQueue)
    MaxStalled,     \* times BullMQ gives a stalled job back (1 by default)
    Requests,       \* bound: what POST /trigger may ask for
    Limit,          \* bounds: how often each of Kinds may happen
    MaxExtra        \* bound: triggers, stalls and lost answers together; each
                    \* adds a job or runs one twice

\* What is counted: accepted POST /start requests, POST /trigger requests, calls
\* to a step, the database, the queue or Kafka that throw without effect, jobs
\* that the queue takes although the call that adds them throws, and crashes of
\* a handler or expired job locks.
Kinds == {"start", "trigger", "fault", "lost", "stall"}

Steps == {"shadow_audit", "firmographic_enrichment", "oauth_connect",
          "instant_audit", "provision", "strategy_generate", "go_live"}

\* A run of a step, with config.autoGoLive.
Work == [step : Steps, auto : BOOLEAN]

ASSUME OnboardingAssumption ==
    /\ Workers \cap Callers = {}
    /\ Jobs \subseteq Nat /\ NoId \notin Jobs
    /\ Attempts \in Nat \ {0}
    /\ MaxStalled \in Nat
    /\ Requests \subseteq Work
    /\ Limit \in [Kinds -> Nat]
    /\ MaxExtra \in Nat

VARIABLES
    state,      \* tenants.onboardingState
    status,     \* tenants.status
    job,        \* the job in each place of the queue, or NoJob
    pc,         \* where each handler is
    work,       \* the step each handler runs, and its autoGoLive flag
    target,     \* the state each handler is moving the tenant to
    holds,      \* the job a handler holds the lock of
    done,       \* history: the steps whose execute() has returned
    spent       \* how often each of Kinds has happened

vars == <<state, status, job, pc, work, target, holds, done, spent>>

Handlers == Workers \cup Callers

States == {"created", "shadow_auditing", "shadow_complete", "oauth_connecting",
           "oauth_connected", "auditing", "audit_complete", "provisioning",
           "provisioned", "strategy_generating", "strategy_ready",
           "going_live", "active", "failed"}

\* STATE_TRANSITIONS, as the set of its edges.
Transitions ==
    { <<"created", "shadow_auditing">>,
      <<"shadow_auditing", "shadow_complete">>,
      <<"shadow_auditing", "failed">>,
      <<"shadow_complete", "oauth_connecting">>,
      <<"oauth_connecting", "oauth_connected">>,
      <<"oauth_connecting", "shadow_complete">>,
      <<"oauth_connecting", "failed">>,
      <<"oauth_connected", "auditing">>,
      <<"auditing", "audit_complete">>,
      <<"auditing", "oauth_connected">>,
      <<"auditing", "failed">>,
      <<"audit_complete", "provisioning">>,
      <<"provisioning", "provisioned">>,
      <<"provisioning", "audit_complete">>,
      <<"provisioning", "failed">>,
      <<"provisioned", "strategy_generating">>,
      <<"strategy_generating", "strategy_ready">>,
      <<"strategy_generating", "provisioned">>,
      <<"strategy_generating", "failed">>,
      <<"strategy_ready", "going_live">>,
      <<"strategy_ready", "strategy_generating">>,
      <<"going_live", "active">>,
      <<"going_live", "strategy_ready">>,
      <<"going_live", "failed">>,
      <<"failed", "created">> }

\* The first transition onStepComplete makes for a step.
FirstMoves ==
    { <<"shadow_audit", "shadow_complete">>,
      <<"firmographic_enrichment", "oauth_connecting">>,
      <<"oauth_connect", "oauth_connected">>,
      <<"instant_audit", "audit_complete">>,
      <<"provision", "provisioned">>,
      <<"strategy_generate", "strategy_ready">>,
      <<"go_live", "active">> }

\* The transitions onStepComplete makes at once after writing the first.
AutoMoves(auto) ==
    { <<"oauth_connected", "auditing">>,
      <<"audit_complete", "provisioning">>,
      <<"provisioned", "strategy_generating">> }
    \cup { m \in {<<"strategy_ready", "going_live">>} : auto }

\* The job that is published once the state has been written.
Published ==
    { <<"shadow_auditing", "shadow_audit">>,
      <<"shadow_complete", "firmographic_enrichment">>,
      <<"oauth_connecting", "oauth_connect">>,
      <<"auditing", "instant_audit">>,
      <<"provisioning", "provision">>,
      <<"strategy_generating", "strategy_generate">>,
      <<"going_live", "go_live">> }

StartWork == [step |-> "start", auto |-> FALSE]

NoJob == [work |-> StartWork, tries |-> 0, stalled |-> 0, held |-> FALSE]
Job == [work : Work, tries : 0 .. Attempts - 1, stalled : 0 .. MaxStalled,
        held : BOOLEAN]

PCs == {"idle", "execute", "check", "write", "status"}

TypeOK ==
    /\ state \in States
    /\ status \in {"pending", "provisioning", "active"}
    /\ job \in [Jobs -> Job \cup {NoJob}]
    /\ pc \in [Handlers -> PCs]
    /\ work \in [Handlers -> Work \cup {StartWork}]
    /\ target \in [Handlers -> States]
    /\ holds \in [Handlers -> Jobs \cup {NoId}]
    /\ done \subseteq Steps
    /\ spent \in [Kinds -> Nat]

Init ==
    /\ state = "created"
    /\ status = "pending"
    /\ job = [j \in Jobs |-> NoJob]
    /\ pc = [h \in Handlers |-> "idle"]
    /\ work = [h \in Handlers |-> StartWork]
    /\ target = [h \in Handlers |-> "created"]
    /\ holds = [h \in Handlers |-> NoId]
    /\ done = {}
    /\ spent = [k \in Kinds |-> 0]

-----------------------------------------------------------------------------
(* The steps every handler is made of. *)

At(h, p) == pc[h] = p

Tenant == <<state, status, done>>

Spend(kind) ==
    /\ spent[kind] < Limit[kind]
    /\ kind \in {"trigger", "lost", "stall"} =>
          spent["trigger"] + spent["lost"] + spent["stall"] < MaxExtra
    /\ spent' = [spent EXCEPT ![kind] = @ + 1]

\* queue.add: a new job takes the first free place.
Added(jobs, w) ==
    LET free == {j \in Jobs : jobs[j] = NoJob}
        first == CHOOSE j \in free : \A k \in free : j <= k
    IN  [jobs EXCEPT ![first] = [work |-> w, tries |-> 0, stalled |-> 0,
                                 held |-> FALSE]]

HasRoom(jobs) == \E j \in Jobs : jobs[j] = NoJob

\* The handler's next local state; the rest of it is kept.
Goto(h, p, t) ==
    /\ pc' = [pc EXCEPT ![h] = p]
    /\ target' = [target EXCEPT ![h] = t]
    /\ UNCHANGED <<work, holds>>

\* The handler is over and no longer owns a job.
Leave(h) ==
    /\ pc' = [pc EXCEPT ![h] = "idle"]
    /\ target' = [target EXCEPT ![h] = "created"]
    /\ work' = [work EXCEPT ![h] = StartWork]
    /\ holds' = [holds EXCEPT ![h] = NoId]

\* Mutant: a job is retried without end.
RetriedForever(j) ==
    [work |-> j.work, tries |-> j.tries + 1, stalled |-> j.stalled,
     held |-> FALSE]

\* BullMQ after a failed attempt: the job waits for the next one, or is dropped.
Retried(j) ==
    IF j.tries + 1 < Attempts
    THEN [work |-> j.work, tries |-> j.tries + 1, stalled |-> j.stalled,
          held |-> FALSE]
    ELSE NoJob

\* BullMQ gives a stalled job back, MaxStalled times, and then drops it.
GivenBack(j) ==
    IF j.stalled < MaxStalled
    THEN [work |-> j.work, tries |-> j.tries, stalled |-> j.stalled + 1,
          held |-> FALSE]
    ELSE NoJob

Owns(h) == holds[h] \in Jobs /\ job[holds[h]] # NoJob

\* The queue once the job h owns, if it still owns one, has become Op(job).
OwnJob(h, Op(_)) ==
    IF Owns(h) THEN [job EXCEPT ![holds[h]] = Op(job[holds[h]])] ELSE job

Completed(j) == NoJob

AttemptFailed(h) == Leave(h) /\ job' = OwnJob(h, Retried)

\* Mutant: the exception is swallowed, the job completes.
ThrowSwallowed(h) == Leave(h) /\ job' = OwnJob(h, Completed)

(***************************************************************************)
(* An exception.  In processStep the catch block runs onStepFailed, whose  *)
(* own transition may throw too; either way the attempt fails.  A request  *)
(* answers 500.                                                            *)
(***************************************************************************)
Throw(h) ==
    IF h \in Workers /\ target[h] # "failed"
    THEN Goto(h, "check", "failed") /\ UNCHANGED job
    ELSE AttemptFailed(h)

-----------------------------------------------------------------------------
(* Requests. *)

\* POST /start: startOnboarding reads the state before transitionTo does.
StartOnboarding(c) ==
    /\ At(c, "idle")
    /\ state \in {"created", "failed"}
    /\ Spend("start")
    /\ Goto(c, "check", "shadow_auditing")
    /\ UNCHANGED <<Tenant, job>>

\* POST /trigger/:tenantId/:step queues any step at any time.
TriggerStep(w) ==
    /\ Spend("trigger")
    /\ HasRoom(job)
    /\ job' = Added(job, w)
    /\ UNCHANGED <<Tenant, pc, work, target, holds>>

-----------------------------------------------------------------------------
(* processStep. *)

Taken(j) == [work |-> j.work, tries |-> j.tries, stalled |-> j.stalled,
             held |-> TRUE]

TakeJob(w, j) ==
    /\ At(w, "idle")
    /\ job[j] # NoJob /\ ~job[j].held
    /\ job' = [job EXCEPT ![j] = Taken(job[j])]
    /\ pc' = [pc EXCEPT ![w] = "execute"]
    /\ work' = [work EXCEPT ![w] = job[j].work]
    /\ holds' = [holds EXCEPT ![w] = j]
    /\ UNCHANGED <<Tenant, target, spent>>

\* The step's execute() returns; the provision step writes the tenant status.
Execute(w) ==
    /\ At(w, "execute")
    /\ done' = done \cup {work[w].step}
    /\ status' = IF work[w].step = "provision" THEN "provisioning" ELSE status
    /\ \E s \in States : /\ <<work[w].step, s>> \in FirstMoves
                         /\ Goto(w, "check", s)
    /\ UNCHANGED <<state, job, spent>>

\* The step's execute() throws.
ExecuteFails(w) ==
    /\ At(w, "execute")
    /\ Spend("fault")
    /\ Throw(w)
    /\ UNCHANGED Tenant

\* Mutant: transitionTo does not compare with the table.
CheckNothing(h) ==
    /\ At(h, "check")
    /\ Goto(h, "write", target[h])
    /\ UNCHANGED <<Tenant, job, spent>>

\* Mutant: every state may fail.
CheckUnlessFailed(h) ==
    /\ At(h, "check")
    /\ IF target[h] = "failed" \/ <<state, target[h]>> \in Transitions
       THEN Goto(h, "write", target[h]) /\ UNCHANGED job
       ELSE Throw(h)
    /\ UNCHANGED <<Tenant, spent>>

\* transitionTo reads the state and compares it with the table.
Check(h) ==
    /\ At(h, "check")
    /\ IF <<state, target[h]>> \in Transitions
       THEN Goto(h, "write", target[h]) /\ UNCHANGED job
       ELSE Throw(h)
    /\ UNCHANGED <<Tenant, spent>>

\* The read throws.
CheckFails(h) ==
    /\ At(h, "check")
    /\ Spend("fault")
    /\ Throw(h)
    /\ UNCHANGED Tenant

\* Mutant: the next job is published before the transition that it needs.
NextMoveEarly(h) ==
    \E s \in States, t \in Steps :
        /\ <<target[h], s>> \in AutoMoves(work[h].auto)
        /\ <<s, t>> \in Published
        /\ HasRoom(job)
        /\ Goto(h, "check", s)
        /\ job' = Added(job, [step |-> t, auto |-> FALSE])

\* What onStepComplete does after a transition: another one, ...
NextMove(h) ==
    \E s \in States :
        /\ <<target[h], s>> \in AutoMoves(work[h].auto)
        /\ Goto(h, "check", s)
        /\ UNCHANGED job

\* ... or publishOnboardingStep, and the handler is over, ...
PublishNext(h) ==
    \E s \in Steps :
        /\ <<target[h], s>> \in Published
        /\ HasRoom(OwnJob(h, Completed))
        /\ Leave(h)
        /\ job' = Added(OwnJob(h, Completed), [step |-> s, auto |-> FALSE])

\* ... or the tenant waits for go_live.
WaitForGoLive(h) ==
    /\ target[h] = "strategy_ready" /\ ~work[h].auto
    /\ Leave(h)
    /\ job' = OwnJob(h, Completed)

\* transitionTo writes its state, whatever the state is by now.
Write(h) ==
    /\ At(h, "write")
    /\ state' = target[h]
    /\ \/ NextMove(h)
       \/ PublishNext(h)
       \/ WaitForGoLive(h)
       \/ target[h] = "active" /\ Goto(h, "status", "active") /\ UNCHANGED job
       \/ target[h] = "failed" /\ AttemptFailed(h)
    /\ UNCHANGED <<status, done, spent>>

\* The state is written, and announcing it or publishing the next job throws.
WriteThrows(h) ==
    /\ At(h, "write")
    /\ state' = target[h]
    /\ Spend("fault")
    /\ Throw(h)
    /\ UNCHANGED <<status, done>>

\* The next job is published, but the answer is lost and queue.add throws: the
\* connection for producers gives a command up when it breaks, without asking
\* whether Redis has run it.
PublishThrows(h) ==
    /\ At(h, "write")
    /\ state' = target[h]
    /\ Spend("lost")
    /\ HasRoom(job)
    /\ \E s \in Steps :
        /\ <<target[h], s>> \in Published
        /\ job' = Added(job, [step |-> s, auto |-> FALSE])
    /\ IF h \in Workers THEN Goto(h, "check", "failed") ELSE Leave(h)
    /\ UNCHANGED <<status, done>>

\* Once a go_live step has made the tenant active, the status follows.
SetActive(w) ==
    /\ At(w, "status")
    /\ status' = "active"
    /\ Leave(w)
    /\ job' = OwnJob(w, Completed)
    /\ UNCHANGED <<state, done, spent>>

\* The update of the status throws, with or without effect, or publishing
\* 'onboarding.completed' after it does.
SetActiveThrows(w) ==
    /\ At(w, "status")
    /\ status' \in {status, "active"}
    /\ Spend("fault")
    /\ Throw(w)
    /\ UNCHANGED <<state, done>>

-----------------------------------------------------------------------------
(* Crashes and lost locks. *)

\* The lock of a job expires, and its worker goes on without it.
LoseLock(w) ==
    /\ Owns(w)
    /\ Spend("stall")
    /\ job' = OwnJob(w, GivenBack)
    /\ holds' = [holds EXCEPT ![w] = NoId]
    /\ UNCHANGED <<Tenant, pc, work, target>>

\* The process of a handler dies.
Crash(h) ==
    /\ ~At(h, "idle")
    /\ Spend("stall")
    /\ Leave(h)
    /\ job' = OwnJob(h, GivenBack)
    /\ UNCHANGED Tenant

\* The process dies between the write and the publication.
WriteCrashes(h) ==
    /\ At(h, "write")
    /\ state' = target[h]
    /\ Spend("stall")
    /\ Leave(h)
    /\ job' = OwnJob(h, GivenBack)
    /\ UNCHANGED <<status, done>>

\* The next job is published, but the handler's own is given back.
WriteTwice(h) ==
    /\ At(h, "write")
    /\ state' = target[h]
    /\ Spend("stall")
    /\ Owns(h)
    /\ HasRoom(OwnJob(h, GivenBack))
    /\ Leave(h)
    /\ \E s \in Steps :
        /\ <<target[h], s>> \in Published
        /\ job' = Added(OwnJob(h, GivenBack), [step |-> s, auto |-> FALSE])
    /\ UNCHANGED <<status, done>>

-----------------------------------------------------------------------------

Progress(h) ==
    \/ Check(h) \/ Write(h)
    \/ /\ h \in Workers
       /\ \/ \E j \in Jobs : TakeJob(h, j)
          \/ Execute(h)
          \/ SetActive(h)

Trouble(h) ==
    \/ CheckFails(h) \/ WriteThrows(h) \/ PublishThrows(h)
    \/ Crash(h) \/ WriteCrashes(h) \/ WriteTwice(h)
    \/ /\ h \in Workers
       /\ ExecuteFails(h) \/ SetActiveThrows(h) \/ LoseLock(h)

Next ==
    \/ \E c \in Callers : StartOnboarding(c)
    \/ \E w \in Requests : TriggerStep(w)
    \/ \E h \in Handlers : Progress(h) \/ Trouble(h)

Spec == Init /\ [][Next]_vars

\* A handler that is running goes on, and a free worker takes a waiting job.
FairSpec == Spec /\ \A h \in Handlers : WF_vars(Progress(h))

-----------------------------------------------------------------------------
(* Properties. *)

\* The states that lie behind each step.
GoneLive == {"active"}
Planned == GoneLive \cup {"strategy_ready", "going_live"}
Provisioned == Planned \cup {"provisioned", "strategy_generating"}
Audited == Provisioned \cup {"audit_complete", "provisioning"}
Connected == Audited \cup {"oauth_connected", "auditing"}
Enriched == Connected \cup {"oauth_connecting"}
Scanned == Enriched \cup {"shadow_complete"}

\* The steps in d entitle a tenant to state s.
Earned(s, d) ==
    /\ s \in Scanned => "shadow_audit" \in d
    /\ s \in Enriched => "firmographic_enrichment" \in d
    /\ s \in Connected => "oauth_connect" \in d
    /\ s \in Audited => "instant_audit" \in d
    /\ s \in Provisioned => "provision" \in d
    /\ s \in Planned => "strategy_generate" \in d
    /\ s \in GoneLive => "go_live" \in d

(***************************************************************************)
(* No step is skipped: whatever jobs are duplicated, triggered by hand,    *)
(* retried or run by two workers at once, and however stale the state that *)
(* transitionTo compared, the tenant is in a state only if every step      *)
(* before it has been executed, and its status is 'active' only if all of  *)
(* them have.                                                              *)
(***************************************************************************)
NoStepSkipped ==
    /\ Earned(state, done)
    /\ status = "active" => Earned("active", done)

\* One start request, and no trigger, no crash or lost lock, and no job that was
\* added by a call that threw.
Calm ==
    /\ spent["start"] <= 1
    /\ \A k \in {"trigger", "lost", "stall"} : spent[k] = 0

(***************************************************************************)
(* The chain of jobs is sequential: without a second start, a trigger, a   *)
(* crash, a lost lock or a lost answer of the queue there is one handler   *)
(* at a time that may still read or write the tenant, through all calls    *)
(* that fail and BullMQ's own retries.  The check in transitionTo relies   *)
(* on it: it is not atomic with the write.  Each exception is needed.  If  *)
(* the answer to queue.add is lost, onStepFailed runs in one worker while  *)
(* another may run the step that was published.                            *)
(***************************************************************************)
OneAtATime ==
    Calm => \A h, k \in Handlers :
                pc[h] # "idle" /\ pc[k] # "idle" => h = k

(***************************************************************************)
(* Every move is one of STATE_TRANSITIONS as long as the chain is          *)
(* sequential, although the table is compared with a state read earlier.   *)
(***************************************************************************)
LegalMoves ==
    [][Calm' /\ state' # state => <<state, state'>> \in Transitions]_vars

(***************************************************************************)
(* The tenant is not stuck in the middle of a step: a state in which a     *)
(* worker has something to do is left, whether the step succeeds, fails,   *)
(* is not announced or loses its worker (once), and whatever else runs.    *)
(* 'shadow_auditing' is not one of them: startOnboarding writes it and     *)
(* nothing repairs a failed publication of the first job.                  *)
(***************************************************************************)
WorkIsLeft ==
    \A s \in {"oauth_connecting", "auditing", "provisioning",
              "strategy_generating", "going_live"} :
        state = s ~> state # s

=============================================================================
