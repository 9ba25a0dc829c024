--------------------------- MODULE TaskLifecycle ---------------------------
(***************************************************************************)
(* The life of an agent task outside its graph: its row in agent_tasks,    *)
(* its BullMQ job, the agent that runs it (base-worker.ts) and the loops   *)
(* of the orchestrator that route it, hear of its outcome and dispatch     *)
(* what the tenant's limit held back (task-router.ts), for one tenant.     *)
(*                                                                         *)
(* Every await is a step.  withTenantDb is a database transaction: its     *)
(* writes lock their rows and are seen by others at its commit.            *)
(* onTaskFailed runs dispatchQueuedTasksForTenant, which opens a second    *)
(* transaction, before its own commits: outer and inner below.             *)
(*                                                                         *)
(* Left out: priorities, delays and backoff (time), and that BullMQ forgets*)
(* a job id after a thousand later jobs.  Failure reports of one task are  *)
(* alike, so a topic is a count of reports per task.                       *)
(***************************************************************************)
EXTENDS Naturals, Sequences, SequencesExt, FiniteSets

CONSTANTS
  Tasks,        \* task ids of one tenant
  GraphTasks,   \* those inserted by the graph executor, not by routeTask
  CanFail,      \* those whose processTask may throw
  Routers,      \* polling loops over signals
  Completers,   \* polling loops over completions
  Failers,      \* polling loops over failures
  Limit,        \* maxConcurrentTasks of the tenant's plan
  MaxAttempts,  \* agent_tasks.max_attempts (3)
  MaxTries,     \* BullMQ attempts of a job (3)
  MaxFaults     \* bound: injected faults in one behaviour

Handlers == Routers \cup Completers \cup Failers

ASSUME TasksAssumption ==
  /\ IsFiniteSet(Tasks) /\ Tasks # {}
  /\ GraphTasks \subseteq Tasks /\ CanFail \subseteq Tasks

ASSUME LoopsAssumption ==
  /\ Routers \cap Completers = {}
  /\ Failers \cap (Routers \cup Completers) = {}

ASSUME BoundsAssumption ==
  /\ {Limit, MaxAttempts, MaxTries} \subseteq Nat \ {0}
  /\ MaxFaults \in Nat

VARIABLES
  status,       \* agent_tasks.status, "none" before the insert
  attempts,     \* agent_tasks.attempts
  created,      \* the rows in the order of created_at
  job,          \* state of the BullMQ job with the task's id
  tries,        \* attempts of that job that have failed
  completions,  \* completed reports not yet handled
  failures,     \* number of failed reports not yet handled, per task
  pc,           \* where each polling loop is
  task,         \* the task it routes or whose failure it handles
  seen,         \* the attempts it has read from the row
  cap,          \* the capacity it has read
  batch,        \* the pending tasks it still has to dispatch
  inner,        \* uncommitted row writes of its dispatch transaction
  outer,        \* uncommitted write of its failure transaction
  successes,    \* history: how often processTask returned, per task
  undone,       \* history: tasks whose job failed after it was reported done
  faults        \* history: faults injected so far

rowVars == <<status, attempts, created>>
jobVars == <<job, tries>>
topicVars == <<completions, failures>>
loopVars == <<pc, task, seen, cap, batch, inner, outer>>
historyVars == <<successes, undone>>
vars == <<rowVars, jobVars, topicVars, loopVars, historyVars, faults>>

Statuses == {"none", "pending", "queued", "processing", "retrying",
             "completed", "failed"}
JobStates == {"none", "waiting", "starting", "running", "reported", "done",
              "dead"}
Steps == {"idle", "insert", "publish", "repend", "record", "republish",
          "capacity", "select", "send", "mark", "markFailed", "end"}

NoWrite == "none"
NoWrites == [t \in Tasks |-> NoWrite]

At(h, step) == pc[h] = step
Goto(h, step) == pc' = [pc EXCEPT ![h] = step]

\* A row with an uncommitted write; writers of other transactions wait for it.
Locked(t) == \E h \in Handlers : \/ inner[h][t] # NoWrite
                                 \/ outer[h] # NoWrite /\ task[h] = t

\* getDispatchCapacity counts committed rows only.
Active == {t \in Tasks : status[t] \in {"processing", "retrying"}}
Capacity == IF Cardinality(Active) >= Limit THEN 0
            ELSE Limit - Cardinality(Active)

Older(t, u) ==
  \E i, j \in DOMAIN created : i < j /\ created[i] = t /\ created[j] = u

\* A batch is dispatched in the order of created_at.
First(ts) == CHOOSE t \in ts : \A u \in ts \ {t} : Older(t, u)

\* The end of a handler's dispatch: a failure still has to commit.
AfterDispatch(h) == IF h \in Failers THEN "end" ELSE "idle"

Fault ==
  /\ faults < MaxFaults
  /\ faults' = faults + 1

-----------------------------------------------------------------------------
Init ==
  /\ status = [t \in Tasks |-> "none"]
  /\ attempts = [t \in Tasks |-> 0]
  /\ created = <<>>
  /\ job = [t \in Tasks |-> "none"]
  /\ tries = [t \in Tasks |-> 0]
  /\ completions = {}
  /\ failures = [t \in Tasks |-> 0]
  /\ pc = [h \in Handlers |-> "idle"]
  /\ task = [h \in Handlers |-> CHOOSE t \in Tasks : TRUE]
  /\ seen = [h \in Handlers |-> 0]
  /\ cap = [h \in Handlers |-> 0]
  /\ batch = [h \in Handlers |-> {}]
  /\ inner = [h \in Handlers |-> NoWrites]
  /\ outer = [h \in Handlers |-> NoWrite]
  /\ successes = [t \in Tasks |-> 0]
  /\ undone = {}
  /\ faults = 0

\* Mutant: the job id does not identify the task.
AddJobAgain(t) == job' = [job EXCEPT ![t] =
                            IF @ \in {"none", "done", "dead"} THEN "waiting"
                            ELSE @]

\* queue.add with jobId = taskId: nothing happens for an id BullMQ knows.
AddJob(t) == job' = [job EXCEPT ![t] = IF @ = "none" THEN "waiting" ELSE @]

\* The publish throws; after its 5 s timeout the add may still have happened.
AddJobFails(t) ==
  /\ Fault
  /\ AddJob(t) \/ UNCHANGED job

-----------------------------------------------------------------------------
(* Routing: routeTask, and the start of a graph's node.                    *)

New == Tasks \ (ToSet(created) \cup
                {task[r] : r \in {i \in Routers : ~At(i, "idle")}})

\* checkConcurrencyLimit; the insert comes later.
RouteTask(h) ==
  /\ At(h, "idle")
  /\ \E t \in New \ GraphTasks : task' = [task EXCEPT ![h] = t]
  /\ cap' = [cap EXCEPT ![h] = Capacity]
  /\ Goto(h, "insert")
  /\ UNCHANGED <<rowVars, jobVars, topicVars, historyVars, faults, seen, batch,
                 inner, outer>>

\* The graph executor asks for no capacity.
StartNode(h) ==
  /\ At(h, "idle")
  /\ \E t \in New \cap GraphTasks : task' = [task EXCEPT ![h] = t]
  /\ cap' = [cap EXCEPT ![h] = Limit]
  /\ Goto(h, "insert")
  /\ UNCHANGED <<rowVars, jobVars, topicVars, historyVars, faults, seen, batch,
                 inner, outer>>

InsertRow(h) ==
  /\ At(h, "insert")
  /\ created' = Append(created, task[h])
  /\ status' = [status EXCEPT ![task[h]] =
                  IF cap[h] > 0 THEN "queued" ELSE "pending"]
  /\ Goto(h, IF cap[h] > 0 THEN "publish" ELSE "idle")
  /\ UNCHANGED <<attempts, jobVars, topicVars, historyVars, faults, task, seen,
                 cap, batch, inner, outer>>

Publish(h) ==
  /\ At(h, "publish")
  /\ AddJob(task[h])
  /\ Goto(h, "idle")
  /\ UNCHANGED <<rowVars, tries, topicVars, historyVars, faults, task, seen,
                 cap, batch, inner, outer>>

\* routeTask lets the exception go and the row stays queued; the graph executor
\* sets the row to pending.
PublishFails(h) ==
  /\ At(h, "publish")
  /\ AddJobFails(task[h])
  /\ Goto(h, IF task[h] \in GraphTasks THEN "repend" ELSE "idle")
  /\ UNCHANGED <<rowVars, tries, topicVars, historyVars, task, seen, cap, batch,
                 inner, outer>>

Repend(h) ==
  /\ At(h, "repend")
  /\ ~Locked(task[h])
  /\ status' = [status EXCEPT ![task[h]] = "pending"]
  /\ Goto(h, "idle")
  /\ UNCHANGED <<attempts, created, jobVars, topicVars, historyVars, faults,
                 task, seen, cap, batch, inner, outer>>

-----------------------------------------------------------------------------
(* The agent: BaseAgentWorker.handleJob under BullMQ.                      *)

\* Mutant: one attempt too many.
AttemptFailedOnceMore(t) ==
  /\ tries' = [tries EXCEPT ![t] = @ + 1]
  /\ job' = [job EXCEPT ![t] = IF tries[t] < MaxTries THEN "waiting"
                               ELSE "dead"]

\* BullMQ hands a job to one worker and, after a failed attempt, hands it out
\* again until its attempts are used up.
AttemptFailed(t) ==
  /\ tries' = [tries EXCEPT ![t] = @ + 1]
  /\ job' = [job EXCEPT ![t] = IF tries[t] + 1 < MaxTries THEN "waiting"
                               ELSE "dead"]

TakeJob(t) ==
  /\ job[t] = "waiting"
  /\ job' = [job EXCEPT ![t] = "starting"]
  /\ UNCHANGED <<rowVars, tries, topicVars, loopVars, historyVars, faults>>

MarkTaskStarted(t) ==
  /\ job[t] = "starting"
  /\ ~Locked(t)
  /\ status' = [status EXCEPT ![t] = "processing"]
  /\ job' = [job EXCEPT ![t] = "running"]
  /\ UNCHANGED <<attempts, created, tries, topicVars, loopVars, historyVars,
                 faults>>

\* The row update throws before the try block: the attempt fails unreported.
MarkTaskStartedFails(t) ==
  /\ job[t] = "starting"
  /\ Fault
  /\ AttemptFailed(t)
  /\ UNCHANGED <<rowVars, topicVars, loopVars, historyVars>>

\* processTask returned; a report that cannot be published is only logged.
ReportCompleted(t) ==
  /\ job[t] = "running"
  /\ job' = [job EXCEPT ![t] = "reported"]
  /\ successes' = [successes EXCEPT ![t] = @ + 1]
  /\ \/ completions' = completions \cup {t} /\ UNCHANGED faults
     \/ Fault /\ UNCHANGED completions
  /\ UNCHANGED <<rowVars, tries, failures, loopVars, undone>>

\* Mutant: the failure is published to the completed topic.
ReportFailedAsCompleted(t) ==
  /\ t \in CanFail
  /\ job[t] = "running"
  /\ AttemptFailed(t)
  /\ completions' = completions \cup {t}
  /\ UNCHANGED <<rowVars, failures, loopVars, historyVars, faults>>

ReportFailed(t) ==
  /\ t \in CanFail
  /\ job[t] = "running"
  /\ AttemptFailed(t)
  /\ \/ failures' = [failures EXCEPT ![t] = @ + 1] /\ UNCHANGED faults
     \/ Fault /\ UNCHANGED failures
  /\ UNCHANGED <<rowVars, completions, loopVars, historyVars>>

\* The finally block, touchAgentHeartbeat included, and BullMQ's completion.
CloseJob(t) ==
  /\ job[t] = "reported"
  /\ job' = [job EXCEPT ![t] = "done"]
  /\ UNCHANGED <<rowVars, tries, topicVars, loopVars, historyVars, faults>>

\* touchAgentHeartbeat throws in the finally block: the attempt fails although
\* it was reported as completed.
CloseJobFails(t) ==
  /\ job[t] = "reported"
  /\ Fault
  /\ AttemptFailed(t)
  /\ undone' = undone \cup {t}
  /\ UNCHANGED <<rowVars, topicVars, loopVars, successes>>

\* The worker process dies: BullMQ finds the job stalled and hands it out again.
WorkerCrash(t) ==
  /\ job[t] \in {"starting", "running", "reported"}
  /\ Fault
  /\ job' = [job EXCEPT ![t] = "waiting"]
  /\ undone' = IF job[t] = "reported" THEN undone \cup {t} ELSE undone
  /\ UNCHANGED <<rowVars, tries, topicVars, loopVars, successes>>

-----------------------------------------------------------------------------
(* onTaskCompleted of a task without a graph, and onTaskFailed.  A report  *)
(* may be delivered twice.                                                 *)

\* Mutant: nothing is dispatched after a completion.
ReceiveCompletionOnly(h) ==
  /\ At(h, "idle")
  /\ \E t \in completions :
       /\ ~Locked(t)
       /\ status' = [status EXCEPT ![t] = "completed"]
       /\ completions' = completions \ {t}
  /\ UNCHANGED <<attempts, created, jobVars, failures, historyVars, faults,
                 loopVars>>

ReceiveCompletion(h) ==
  /\ At(h, "idle")
  /\ \E t \in completions :
       /\ ~Locked(t)
       /\ status' = [status EXCEPT ![t] = "completed"]
       /\ \/ completions' = completions \ {t} /\ UNCHANGED faults
          \/ Fault /\ UNCHANGED completions
  /\ Goto(h, "capacity")
  /\ UNCHANGED <<attempts, created, jobVars, failures, historyVars, task, seen,
                 cap, batch, inner, outer>>

\* Mutant: the report stays in the topic.
ReceiveFailureAgain(h) ==
  /\ At(h, "idle")
  /\ \E t \in Tasks :
       /\ failures[t] > 0
       /\ task' = [task EXCEPT ![h] = t]
       /\ seen' = [seen EXCEPT ![h] = attempts[t]]
  /\ Goto(h, "record")
  /\ UNCHANGED <<rowVars, jobVars, topicVars, historyVars, faults, cap, batch,
                 inner, outer>>

\* The row is read without locking it.
ReceiveFailure(h) ==
  /\ At(h, "idle")
  /\ \E t \in Tasks :
       /\ failures[t] > 0
       /\ \/ failures' = [failures EXCEPT ![t] = @ - 1] /\ UNCHANGED faults
          \/ Fault /\ UNCHANGED failures
       /\ task' = [task EXCEPT ![h] = t]
       /\ seen' = [seen EXCEPT ![h] = attempts[t]]
  /\ Goto(h, "record")
  /\ UNCHANGED <<rowVars, jobVars, completions, historyVars, cap, batch, inner,
                 outer>>

\* Update, not yet committed: retrying while attempts are left, else failed.
RecordFailure(h) ==
  /\ At(h, "record")
  /\ ~Locked(task[h])
  /\ outer' = [outer EXCEPT ![h] = IF seen[h] < MaxAttempts THEN "retrying"
                                   ELSE "failed"]
  /\ Goto(h, IF seen[h] < MaxAttempts THEN "republish" ELSE "capacity")
  /\ UNCHANGED <<rowVars, jobVars, topicVars, historyVars, faults, task, seen,
                 cap, batch, inner>>

Republish(h) ==
  /\ At(h, "republish")
  /\ AddJob(task[h])
  /\ Goto(h, "capacity")
  /\ UNCHANGED <<rowVars, tries, topicVars, historyVars, faults, task, seen,
                 cap, batch, inner, outer>>

\* The exception rolls the update back.
RepublishFails(h) ==
  /\ At(h, "republish")
  /\ AddJobFails(task[h])
  /\ outer' = [outer EXCEPT ![h] = NoWrite]
  /\ Goto(h, "idle")
  /\ UNCHANGED <<rowVars, tries, topicVars, historyVars, task, seen, cap, batch,
                 inner>>

CommitFailure(h) ==
  /\ At(h, "end")
  /\ status' = [status EXCEPT ![task[h]] = outer[h]]
  /\ attempts' = [attempts EXCEPT ![task[h]] =
                    IF outer[h] = "retrying" THEN seen[h] + 1 ELSE @]
  /\ outer' = [outer EXCEPT ![h] = NoWrite]
  /\ Goto(h, "idle")
  /\ UNCHANGED <<created, jobVars, topicVars, historyVars, faults, task, seen,
                 cap, batch, inner>>

-----------------------------------------------------------------------------
(* dispatchQueuedTasksForTenant, at the end of both handlers.              *)

ReadCapacity(h) ==
  /\ At(h, "capacity")
  /\ cap' = [cap EXCEPT ![h] = Capacity]
  /\ Goto(h, IF Capacity = 0 THEN AfterDispatch(h) ELSE "select")
  /\ UNCHANGED <<rowVars, jobVars, topicVars, historyVars, faults, task, seen,
                 batch, inner, outer>>

\* The oldest pending rows, as many as the capacity.
SelectPending(h) ==
  /\ At(h, "select")
  /\ LET pending == {t \in ToSet(created) : status[t] = "pending"} IN
     batch' = [batch EXCEPT ![h] =
       {t \in pending : Cardinality({u \in pending : Older(u, t)}) < cap[h]}]
  /\ Goto(h, "send")
  /\ UNCHANGED <<rowVars, jobVars, topicVars, historyVars, faults, task, seen,
                 cap, inner, outer>>

SendPending(h) ==
  /\ At(h, "send")
  /\ batch[h] # {}
  /\ AddJob(First(batch[h]))
  /\ Goto(h, "mark")
  /\ UNCHANGED <<rowVars, tries, topicVars, historyVars, faults, task, seen,
                 cap, batch, inner, outer>>

SendPendingFails(h) ==
  /\ At(h, "send")
  /\ batch[h] # {}
  /\ AddJobFails(First(batch[h]))
  /\ Goto(h, "markFailed")
  /\ UNCHANGED <<rowVars, tries, topicVars, historyVars, task, seen, cap, batch,
                 inner, outer>>

\* The row's update, by id alone, whatever became of the row since the select.
\* It waits for other transactions, this handler's own failure one included.
MarkRow(h) ==
  /\ pc[h] \in {"mark", "markFailed"}
  /\ ~Locked(First(batch[h]))
  /\ inner' = [inner EXCEPT ![h][First(batch[h])] =
                 IF At(h, "mark") THEN "queued" ELSE "failed"]
  /\ batch' = [batch EXCEPT ![h] = @ \ {First(@)}]
  /\ Goto(h, "send")
  /\ UNCHANGED <<rowVars, jobVars, topicVars, historyVars, faults, task, seen,
                 cap, outer>>

CommitDispatch(h) ==
  /\ At(h, "send")
  /\ batch[h] = {}
  /\ status' = [t \in Tasks |-> IF inner[h][t] # NoWrite THEN inner[h][t]
                                ELSE status[t]]
  /\ inner' = [inner EXCEPT ![h] = NoWrites]
  /\ Goto(h, AfterDispatch(h))
  /\ UNCHANGED <<attempts, created, jobVars, topicVars, historyVars, faults,
                 task, seen, cap, batch, outer>>

\* A database call throws or the process restarts: open transactions roll back
\* and the report is gone.
AbortHandler(h) ==
  /\ ~At(h, "idle")
  /\ Fault
  /\ batch' = [batch EXCEPT ![h] = {}]
  /\ inner' = [inner EXCEPT ![h] = NoWrites]
  /\ outer' = [outer EXCEPT ![h] = NoWrite]
  /\ Goto(h, "idle")
  /\ UNCHANGED <<rowVars, jobVars, topicVars, historyVars, task, seen, cap>>

-----------------------------------------------------------------------------
Dispatch(h) ==
  \/ ReadCapacity(h) \/ SelectPending(h) \/ SendPending(h) \/ MarkRow(h)
  \/ CommitDispatch(h)

RouterStep(h) == InsertRow(h) \/ Publish(h) \/ Repend(h)
CompleterStep(h) == ReceiveCompletion(h) \/ Dispatch(h)
FailerStep(h) ==
  \/ ReceiveFailure(h) \/ RecordFailure(h) \/ Republish(h) \/ Dispatch(h)
  \/ CommitFailure(h)

WorkerStep(t) ==
  TakeJob(t) \/ MarkTaskStarted(t) \/ ReportCompleted(t) \/ CloseJob(t)

Next ==
  \/ \E h \in Routers : RouteTask(h) \/ StartNode(h) \/ RouterStep(h)
  \/ \E h \in Completers : CompleterStep(h)
  \/ \E h \in Failers : FailerStep(h) \/ RepublishFails(h)
  \/ \E h \in Handlers : PublishFails(h) \/ SendPendingFails(h) \/ AbortHandler(h)
  \/ \E t \in Tasks :
       \/ WorkerStep(t)
       \/ ReportFailed(t)
       \/ MarkTaskStartedFails(t) \/ CloseJobFails(t) \/ WorkerCrash(t)

Spec == Init /\ [][Next]_vars

\* Loops keep polling and BullMQ keeps handing out jobs; processTask returns or
\* throws.
FairSpec ==
  /\ Spec
  /\ \A h \in Routers : WF_vars(RouterStep(h))
  /\ \A h \in Completers : WF_vars(CompleterStep(h))
  /\ \A h \in Failers : WF_vars(FailerStep(h))
  /\ \A t \in Tasks : WF_vars(WorkerStep(t))

-----------------------------------------------------------------------------
TypeOK ==
  /\ status \in [Tasks -> Statuses]
  /\ attempts \in [Tasks -> 0 .. MaxAttempts]
  /\ created \in Seq(Tasks)
  /\ job \in [Tasks -> JobStates]
  /\ tries \in [Tasks -> 0 .. MaxTries]
  /\ completions \subseteq Tasks
  /\ failures \in [Tasks -> Nat]
  /\ pc \in [Handlers -> Steps]
  /\ task \in [Handlers -> Tasks]
  /\ seen \in [Handlers -> 0 .. MaxAttempts]
  /\ cap \in [Handlers -> 0 .. Limit]
  /\ batch \in [Handlers -> SUBSET Tasks]
  /\ inner \in [Handlers -> [Tasks -> {NoWrite, "queued", "failed"}]]
  /\ outer \in [Handlers -> {NoWrite, "retrying", "failed"}]
  /\ successes \in [Tasks -> Nat]
  /\ undone \subseteq Tasks
  /\ faults \in 0 .. MaxFaults

\* A task succeeds at most once, although it may be published by its router, by
\* several dispatchers and by a retry that comes after it was completed; only a
\* job that fails after its report runs again.
RunsOnce == \A t \in Tasks \ undone : successes[t] <= 1

\* A task recorded as completed has been run, whatever happened to its row.
CompletedHasRun ==
  \A t \in Tasks : status[t] = "completed" => successes[t] > 0

\* The router never counts more failed attempts than the agent had, except for
\* a report delivered twice.
CountsRealFailures ==
  \A t \in Tasks : attempts[t] + failures[t] <= tries[t] + faults

\* While no attempt has failed, a pending task is dispatched as long as some
\* task is being processed: the completions that follow free the capacity.
PendingIsDrained ==
  \A t \in Tasks :
    (status[t] = "pending" /\ \E u \in Tasks : status[u] = "processing")
      ~> (status[t] # "pending" \/ faults > 0 \/ \E u \in Tasks : tries[u] > 0)

\* "requeues failed tasks with exponential backoff" (task-router.test.ts 103):
\* once its failures have been handled, a retrying task has a job that can run.
RetryHasJob ==
  (\A h \in Failers : At(h, "idle")) =>
    \A t \in Tasks :
      status[t] = "retrying" /\ failures[t] = 0 => job[t] # "dead"

=============================================================================
