------------------------ MODULE TaskLifecycle_proofs ------------------------
(***************************************************************************)
(* Proofs about TaskLifecycle, for any tasks, loops, limits and faults:    *)
(* a task succeeds at most once, a completed one has run, and the router   *)
(* counts no failure that did not happen.                                  *)
(*                                                                         *)
(* The first two rest on the job: BullMQ ignores an id it knows, so a task *)
(* that has succeeded is never waiting again (Fresh).  The third is a      *)
(* matter of accounts: a failed attempt is a report in the topic, or in    *)
(* the hands of a handler, or counted in the row.  Two handlers may have   *)
(* read the row before either writes it, and the later write may lower the *)
(* count; so what a handler has read is bounded like the row (Accounted).  *)
(*                                                                         *)
(* The bounds of the type invariant are of two kinds.  BullMQ gives a job  *)
(* up at its last try, so one that can still run has a try left (Tries).   *)
(* A failure is only recorded as retrying below the limit of attempts, and *)
(* what was read is not read again before the record commits (Recorded).   *)
(***************************************************************************)
EXTENDS TaskLifecycle, FiniteSetTheorems, TLAPS

-----------------------------------------------------------------------------
(* The inductive invariant. *)

RowTypes == status \in [Tasks -> Statuses] /\ attempts \in [Tasks -> Nat]

JobTypes == job \in [Tasks -> JobStates] /\ tries \in [Tasks -> Nat]

TopicTypes == completions \subseteq Tasks /\ failures \in [Tasks -> Nat]

LoopTypes ==
  /\ pc \in [Handlers -> Steps]
  /\ task \in [Handlers -> Tasks]
  /\ seen \in [Handlers -> Nat]
  /\ inner \in [Handlers -> [Tasks -> {NoWrite, "queued", "failed"}]]
  /\ outer \in [Handlers -> {NoWrite, "retrying", "failed"}]

RestTypes == successes \in [Tasks -> Nat] /\ undone \subseteq Tasks /\ faults \in Nat

Types == RowTypes /\ JobTypes /\ TopicTypes /\ LoopTypes /\ RestTypes

\* A task that has succeeded has no job that could succeed again.
Fresh ==
  \A t \in Tasks \ undone :
    /\ successes[t] <= 1
    /\ job[t] \notin {"reported", "done"} => successes[t] = 0

\* What is reported, or recorded, as completed has been run.
HasRun == \A t \in Tasks : t \in completions \/ status[t] = "completed" => successes[t] > 0

\* The handlers that have a failure report of t in their hands.
Holding(t) == {h \in Failers : pc[h] # "idle" /\ task[h] = t}

\* The failed attempts of t, and the faults, cover what is counted, reported and held.
Accounted ==
  \A t \in Tasks :
    /\ IsFiniteSet(Holding(t))
    /\ attempts[t] + failures[t] + Cardinality(Holding(t)) <= tries[t] + faults
    /\ \A h \in Holding(t) :
         seen[h] + failures[t] + Cardinality(Holding(t)) <= tries[t] + faults

\* A job that is not given up has a try left.
Tries ==
  \A t \in Tasks : tries[t] <= MaxTries /\ (job[t] # "dead" => tries[t] < MaxTries)

\* A failure that is recorded and not yet committed is one of a failure
\* handler, and a retry is one that the attempts it has read allow.
Recorded ==
  /\ \A t \in Tasks : attempts[t] <= MaxAttempts
  /\ \A h \in Handlers :
       /\ seen[h] <= MaxAttempts
       /\ outer[h] # NoWrite =>
            h \in Failers /\ pc[h] \in {"republish", "capacity", "select", "send", "mark",
                                      "markFailed", "end"}
       /\ outer[h] = "retrying" => seen[h] < MaxAttempts

\* What dispatching reads and selects.
DispatchTypes ==
  /\ created \in Seq(Tasks)
  /\ cap \in [Handlers -> 0 .. Limit]
  /\ batch \in [Handlers -> SUBSET Tasks]

Bounded == Tries /\ Recorded /\ DispatchTypes /\ faults <= MaxFaults

IInv == Types /\ Fresh /\ HasRun /\ Accounted /\ Bounded

-----------------------------------------------------------------------------
(* Types. *)

LEMMA AddJobTypes ==
  ASSUME JobTypes, NEW t, AddJob(t), UNCHANGED tries
  PROVE  JobTypes'
BY DEF JobTypes, AddJob, JobStates

LEMMA AttemptFailedTypes ==
  ASSUME JobTypes, NEW t \in Tasks, AttemptFailed(t)
  PROVE  JobTypes'
<1>1. tries' \in [Tasks -> Nat]
  BY DEF JobTypes, AttemptFailed
<1>2. PICK s \in JobStates : job' = [job EXCEPT ![t] = s]
  BY DEF AttemptFailed, JobStates
<1>3. QED
  BY <1>1, <1>2 DEF JobTypes

LEMMA InitTypes == Init => Types
<1> SUFFICES ASSUME Init PROVE Types
  OBVIOUS
<1>1. RowTypes /\ JobTypes /\ TopicTypes
  BY DEF Init, RowTypes, JobTypes, TopicTypes, Statuses, JobStates
<1>2. LoopTypes
  <2>1. (CHOOSE t \in Tasks : TRUE) \in Tasks
    BY TasksAssumption
  <2>2. QED
    BY <2>1 DEF Init, LoopTypes, Steps, NoWrites, NoWrite
<1>3. RestTypes
  BY DEF Init, RestTypes
<1>4. QED
  BY <1>1, <1>2, <1>3 DEF Types

LEMMA StepTypes == Types /\ [Next]_vars => Types'
<1> SUFFICES ASSUME Types, [Next]_vars PROVE Types'
  OBVIOUS
<1> USE DEF Types
<1>h. Routers \subseteq Handlers /\ Completers \subseteq Handlers /\ Failers \subseteq Handlers
  BY DEF Handlers
<1>w. ASSUME UNCHANGED rowVars PROVE RowTypes'
  BY <1>w DEF rowVars, RowTypes
<1>j. ASSUME UNCHANGED jobVars PROVE JobTypes'
  BY <1>j DEF jobVars, JobTypes
<1>t. ASSUME UNCHANGED topicVars PROVE TopicTypes'
  BY <1>t DEF topicVars, TopicTypes
<1>l. ASSUME UNCHANGED loopVars PROVE LoopTypes'
  BY <1>l DEF loopVars, LoopTypes
<1>g. ASSUME NEW h \in Handlers, NEW step \in Steps, Goto(h, step), UNCHANGED <<task, seen, inner>>,
             UNCHANGED outer \/ outer' = [outer EXCEPT ![h] = NoWrite]
      PROVE  LoopTypes'
  BY <1>g DEF Goto, LoopTypes
<1>r. ASSUME UNCHANGED historyVars, UNCHANGED faults \/ Fault PROVE RestTypes'
  BY <1>r DEF historyVars, RestTypes, Fault
<1>1. ASSUME NEW h \in Routers, RouteTask(h) \/ StartNode(h) PROVE Types'
  <2>1. RowTypes' /\ JobTypes' /\ TopicTypes' /\ RestTypes'
    BY <1>1, <1>w, <1>j, <1>t, <1>r DEF RouteTask, StartNode
  <2>2. LoopTypes'
    BY <1>1, <1>h DEF RouteTask, StartNode, New, Goto, LoopTypes, Steps
  <2>3. QED
    BY <2>1, <2>2
<1>2. ASSUME NEW h \in Routers, InsertRow(h) PROVE Types'
  <2>1. JobTypes' /\ TopicTypes' /\ RestTypes'
    BY <1>2, <1>j, <1>t, <1>r DEF InsertRow
  <2>2. LoopTypes'
    BY <1>2, <1>h, <1>g DEF InsertRow, Steps
  <2>3. RowTypes'
    BY <1>2 DEF InsertRow, RowTypes, Statuses
  <2>4. QED
    BY <2>1, <2>2, <2>3
<1>3. ASSUME NEW h \in Routers, Publish(h) PROVE Types'
  BY <1>3, <1>h, <1>w, <1>t, <1>r, <1>g, AddJobTypes DEF Publish, Steps
<1>4. ASSUME NEW h \in Routers, Repend(h) PROVE Types'
  <2>1. JobTypes' /\ TopicTypes' /\ RestTypes' /\ LoopTypes'
    BY <1>4, <1>h, <1>j, <1>t, <1>r, <1>g DEF Repend, Steps
  <2>2. RowTypes'
    BY <1>4 DEF Repend, RowTypes, Statuses
  <2>3. QED
    BY <2>1, <2>2
<1>5. ASSUME NEW h \in Completers, ReceiveCompletion(h) PROVE Types'
  <2>1. JobTypes' /\ RestTypes' /\ LoopTypes'
    BY <1>5, <1>h, <1>j, <1>r, <1>g DEF ReceiveCompletion, Steps
  <2>2. RowTypes' /\ TopicTypes'
    BY <1>5 DEF ReceiveCompletion, RowTypes, TopicTypes, Statuses
  <2>3. QED
    BY <2>1, <2>2
<1>6. ASSUME NEW h \in Handlers, ReadCapacity(h) \/ SelectPending(h) PROVE Types'
  BY <1>6, <1>w, <1>j, <1>t, <1>r, <1>g DEF ReadCapacity, SelectPending, AfterDispatch, Steps
<1>7. ASSUME NEW h \in Handlers, SendPending(h) \/ Republish(h) PROVE Types'
  BY <1>7, <1>w, <1>t, <1>r, <1>g, AddJobTypes DEF SendPending, Republish, Steps
<1>8. ASSUME NEW h \in Handlers, MarkRow(h) PROVE Types'
  <2>1. RowTypes' /\ JobTypes' /\ TopicTypes' /\ RestTypes'
    BY <1>8, <1>w, <1>j, <1>t, <1>r DEF MarkRow
  <2>2. inner' \in [Handlers -> [Tasks -> {NoWrite, "queued", "failed"}]]
    BY <1>8 DEF MarkRow, LoopTypes
  <2>3. LoopTypes'
    BY <1>8, <2>2 DEF MarkRow, LoopTypes, Goto, Steps
  <2>4. QED
    BY <2>1, <2>3
<1>9. ASSUME NEW h \in Handlers, CommitDispatch(h) PROVE Types'
  <2>1. JobTypes' /\ TopicTypes' /\ RestTypes'
    BY <1>9, <1>j, <1>t, <1>r DEF CommitDispatch
  <2>2. RowTypes'
    BY <1>9 DEF CommitDispatch, RowTypes, LoopTypes, Statuses
  <2>3. LoopTypes'
    BY <1>9 DEF CommitDispatch, LoopTypes, Goto, AfterDispatch, Steps, NoWrites
  <2>4. QED
    BY <2>1, <2>2, <2>3
<1>10. ASSUME NEW h \in Failers, ReceiveFailure(h) PROVE Types'
  <2>1. RowTypes' /\ JobTypes' /\ RestTypes'
    BY <1>10, <1>w, <1>j, <1>r DEF ReceiveFailure
  <2>2. TopicTypes'
    BY <1>10 DEF ReceiveFailure, TopicTypes
  <2>3. LoopTypes'
    BY <1>10, <1>h DEF ReceiveFailure, LoopTypes, RowTypes, Goto, Steps
  <2>4. QED
    BY <2>1, <2>2, <2>3
<1>11. ASSUME NEW h \in Failers, RecordFailure(h) PROVE Types'
  <2>1. RowTypes' /\ JobTypes' /\ TopicTypes' /\ RestTypes'
    BY <1>11, <1>w, <1>j, <1>t, <1>r DEF RecordFailure
  <2>2. LoopTypes'
    BY <1>11, <1>h DEF RecordFailure, LoopTypes, Goto, Steps
  <2>3. QED
    BY <2>1, <2>2
<1>12. ASSUME NEW h \in Failers, CommitFailure(h) PROVE Types'
  <2>1. JobTypes' /\ TopicTypes' /\ RestTypes' /\ LoopTypes'
    BY <1>12, <1>h, <1>j, <1>t, <1>r, <1>g DEF CommitFailure, Steps
  <2>2. outer[h] \in Statuses /\ task[h] \in Tasks /\ seen[h] + 1 \in Nat
    BY <1>h DEF LoopTypes, Statuses, NoWrite
  <2>3. status' \in [Tasks -> Statuses]
    BY <1>12, <2>2 DEF CommitFailure, RowTypes
  <2>4. attempts' \in [Tasks -> Nat]
    BY <1>12, <2>2 DEF CommitFailure, RowTypes
  <2>5. QED
    BY <2>1, <2>3, <2>4 DEF RowTypes
<1>13. ASSUME NEW h \in Handlers, PublishFails(h) \/ SendPendingFails(h) \/ RepublishFails(h)
       PROVE  Types'
  <2>1. RowTypes' /\ TopicTypes' /\ RestTypes'
    BY <1>13, <1>w, <1>t, <1>r DEF PublishFails, SendPendingFails, RepublishFails, AddJobFails
  <2>2. JobTypes'
    BY <1>13, <1>j, AddJobTypes
       DEF PublishFails, SendPendingFails, RepublishFails, AddJobFails, jobVars
  <2>3. LoopTypes'
    BY <1>13, <1>g DEF PublishFails, SendPendingFails, RepublishFails, Steps
  <2>4. QED
    BY <2>1, <2>2, <2>3
<1>14. ASSUME NEW h \in Handlers, AbortHandler(h) PROVE Types'
  <2>1. RowTypes' /\ JobTypes' /\ TopicTypes' /\ RestTypes'
    BY <1>14, <1>w, <1>j, <1>t, <1>r DEF AbortHandler
  <2>2. LoopTypes'
    BY <1>14 DEF AbortHandler, LoopTypes, Goto, Steps, NoWrites
  <2>3. QED
    BY <2>1, <2>2
<1>15. ASSUME NEW t \in Tasks, TakeJob(t) \/ CloseJob(t) PROVE Types'
  <2>1. RowTypes' /\ TopicTypes' /\ LoopTypes' /\ RestTypes'
    BY <1>15, <1>w, <1>t, <1>l, <1>r DEF TakeJob, CloseJob
  <2>2. JobTypes'
    BY <1>15 DEF TakeJob, CloseJob, JobTypes, JobStates
  <2>3. QED
    BY <2>1, <2>2
<1>16. ASSUME NEW t \in Tasks, MarkTaskStarted(t) PROVE Types'
  <2>1. TopicTypes' /\ LoopTypes' /\ RestTypes'
    BY <1>16, <1>t, <1>l, <1>r DEF MarkTaskStarted
  <2>2. RowTypes' /\ JobTypes'
    BY <1>16 DEF MarkTaskStarted, RowTypes, Statuses, JobTypes, JobStates
  <2>3. QED
    BY <2>1, <2>2
<1>17. ASSUME NEW t \in Tasks, MarkTaskStartedFails(t) PROVE Types'
  BY <1>17, <1>w, <1>t, <1>l, <1>r, AttemptFailedTypes DEF MarkTaskStartedFails
<1>18. ASSUME NEW t \in Tasks, ReportCompleted(t) PROVE Types'
  <2>1. RowTypes' /\ LoopTypes'
    BY <1>18, <1>w, <1>l DEF ReportCompleted
  <2>2. JobTypes' /\ TopicTypes'
    BY <1>18 DEF ReportCompleted, JobTypes, JobStates, TopicTypes
  <2>3. RestTypes'
    BY <1>18 DEF ReportCompleted, RestTypes, Fault
  <2>4. QED
    BY <2>1, <2>2, <2>3
<1>19. ASSUME NEW t \in Tasks, ReportFailed(t) PROVE Types'
  <2>1. RowTypes' /\ LoopTypes' /\ RestTypes' /\ JobTypes'
    BY <1>19, <1>w, <1>l, <1>r, AttemptFailedTypes DEF ReportFailed
  <2>2. TopicTypes'
    BY <1>19 DEF ReportFailed, TopicTypes
  <2>3. QED
    BY <2>1, <2>2
<1>20. ASSUME NEW t \in Tasks, CloseJobFails(t) \/ WorkerCrash(t) PROVE Types'
  <2>1. RowTypes' /\ LoopTypes' /\ TopicTypes'
    BY <1>20, <1>w, <1>l, <1>t DEF CloseJobFails, WorkerCrash
  <2>2. JobTypes'
    BY <1>20, AttemptFailedTypes DEF CloseJobFails, WorkerCrash, JobTypes, JobStates
  <2>3. RestTypes'
    BY <1>20 DEF CloseJobFails, WorkerCrash, RestTypes, Fault
  <2>4. QED
    BY <2>1, <2>2, <2>3
<1>21. CASE UNCHANGED vars
  BY <1>21, <1>w, <1>j, <1>t, <1>l, <1>r DEF vars
<1>22. QED
  BY <1>h, <1>1, <1>2, <1>3, <1>4, <1>5, <1>6, <1>7, <1>8, <1>9, <1>10, <1>11, <1>12, <1>13, <1>14,
     <1>15, <1>16, <1>17, <1>18, <1>19, <1>20, <1>21
     DEF Next, RouterStep, CompleterStep, FailerStep, Dispatch, WorkerStep

-----------------------------------------------------------------------------
(* Runs. *)

\* Nobody runs t, reports it or records it as completed; jobs may be added.
LEMMA QuietRuns ==
  ASSUME Types, Fresh, HasRun, UNCHANGED historyVars,
         UNCHANGED job \/ \E t : AddJob(t),
         completions' \subseteq completions,
         \A t \in Tasks : status'[t] = "completed" => status[t] = "completed" \/ t \in completions
  PROVE  Fresh' /\ HasRun'
BY DEF Types, JobTypes, Fresh, HasRun, historyVars, AddJob

\* An attempt that had not succeeded before fails.
LEMMA FailedRuns ==
  ASSUME Types, Fresh, HasRun, NEW t \in Tasks, job[t] \in {"starting", "running"}, AttemptFailed(t),
         UNCHANGED <<rowVars, completions, historyVars>>
  PROVE  Fresh' /\ HasRun'
<1>1. PICK s \in {"waiting", "dead"} : job' = [job EXCEPT ![t] = s]
  BY DEF AttemptFailed
<1>2. QED
  BY <1>1 DEF Types, JobTypes, Fresh, HasRun, historyVars, rowVars

LEMMA StepRuns == IInv /\ [Next]_vars => Fresh' /\ HasRun'
<1> SUFFICES ASSUME IInv, [Next]_vars PROVE Fresh' /\ HasRun'
  OBVIOUS
<1> USE DEF IInv
<1>q. ASSUME UNCHANGED <<rowVars, completions, historyVars>>, UNCHANGED job \/ \E t : AddJob(t)
      PROVE  Fresh' /\ HasRun'
  BY <1>q, QuietRuns DEF rowVars
<1>1. ASSUME NEW h \in Handlers,
             \/ RouteTask(h) \/ StartNode(h) \/ Publish(h) \/ PublishFails(h)
             \/ ReadCapacity(h) \/ SelectPending(h) \/ SendPending(h) \/ SendPendingFails(h)
             \/ MarkRow(h) \/ ReceiveFailure(h) \/ RecordFailure(h) \/ Republish(h)
             \/ RepublishFails(h) \/ AbortHandler(h)
      PROVE  Fresh' /\ HasRun'
  <2>1. UNCHANGED <<rowVars, completions, historyVars>>
    BY <1>1 DEF RouteTask, StartNode, Publish, PublishFails, ReadCapacity, SelectPending, SendPending,
       SendPendingFails, MarkRow, ReceiveFailure, RecordFailure, Republish, RepublishFails,
       AbortHandler, topicVars
  <2>2. UNCHANGED job \/ \E t : AddJob(t)
    BY <1>1 DEF RouteTask, StartNode, Publish, PublishFails, ReadCapacity, SelectPending, SendPending,
       SendPendingFails, MarkRow, ReceiveFailure, RecordFailure, Republish, RepublishFails,
       AbortHandler, jobVars, AddJobFails
  <2>3. QED
    BY <1>q, <2>1, <2>2
<1>2. ASSUME NEW h \in Handlers,
             InsertRow(h) \/ Repend(h) \/ CommitDispatch(h) \/ ReceiveCompletion(h) \/ CommitFailure(h)
      PROVE  Fresh' /\ HasRun'
  <2>1. UNCHANGED <<job, historyVars>> /\ completions' \subseteq completions
    BY <1>2 DEF InsertRow, Repend, CommitDispatch, ReceiveCompletion, CommitFailure, jobVars, topicVars
  <2>2. ASSUME NEW t \in Tasks, status'[t] = "completed"
        PROVE  status[t] = "completed" \/ t \in completions
    <3>1. status \in [Tasks -> Statuses] /\ inner[h][t] # "completed" /\ outer[h] # "completed"
      BY DEF Types, RowTypes, LoopTypes, NoWrite
    <3>2. CASE CommitDispatch(h)
      BY <2>2, <3>1, <3>2 DEF CommitDispatch
    <3>3. CASE InsertRow(h) \/ Repend(h) \/ ReceiveCompletion(h) \/ CommitFailure(h)
      BY <2>2, <3>1, <3>3 DEF InsertRow, Repend, ReceiveCompletion, CommitFailure
    <3>4. QED
      BY <1>2, <3>2, <3>3
  <2>3. QED
    BY <2>1, <2>2, QuietRuns
<1>3. ASSUME NEW t \in Tasks, TakeJob(t) \/ MarkTaskStarted(t) \/ ReportCompleted(t) \/ CloseJob(t)
      PROVE  Fresh' /\ HasRun'
  <2>1. CASE TakeJob(t) \/ CloseJob(t)
    BY <2>1 DEF TakeJob, CloseJob, Types, JobTypes, Fresh, HasRun, rowVars, topicVars, historyVars
  <2>2. CASE MarkTaskStarted(t)
    BY <2>2 DEF MarkTaskStarted, Types, JobTypes, RowTypes, Fresh, HasRun, topicVars, historyVars
  <2>3. CASE ReportCompleted(t)
    <3>1. /\ job' = [job EXCEPT ![t] = "reported"]
          /\ successes' = [successes EXCEPT ![t] = @ + 1]
          /\ completions' \subseteq completions \cup {t}
          /\ UNCHANGED <<status, undone>> /\ job[t] = "running"
      BY <2>3 DEF ReportCompleted, rowVars
    <3>2. Fresh'
      BY <3>1 DEF Types, JobTypes, RestTypes, Fresh
    <3>3. HasRun'
      BY <3>1 DEF Types, RestTypes, HasRun
    <3>4. QED
      BY <3>2, <3>3
  <2>4. QED
    BY <1>3, <2>1, <2>2, <2>3
<1>4. ASSUME NEW t \in Tasks, ReportFailed(t) \/ MarkTaskStartedFails(t)
      PROVE  Fresh' /\ HasRun'
  BY <1>4, FailedRuns DEF ReportFailed, MarkTaskStartedFails, topicVars
<1>5. ASSUME NEW t \in Tasks, CloseJobFails(t) \/ WorkerCrash(t)
      PROVE  Fresh' /\ HasRun'
  <2>1. PICK s \in {"waiting", "dead"} : job' = [job EXCEPT ![t] = s]
    BY <1>5 DEF CloseJobFails, WorkerCrash, AttemptFailed
  <2>2. /\ UNCHANGED <<status, completions, successes>>
        /\ undone' = undone \cup {t} \/ (job[t] \in {"starting", "running"} /\ UNCHANGED undone)
    BY <1>5 DEF CloseJobFails, WorkerCrash, rowVars, topicVars
  <2>3. QED
    BY <2>1, <2>2 DEF Types, JobTypes, Fresh, HasRun
<1>6. CASE UNCHANGED vars
  BY <1>6, <1>q DEF vars, jobVars, topicVars
<1>7. QED
  BY <1>1, <1>2, <1>3, <1>4, <1>5, <1>6
     DEF Next, RouterStep, CompleterStep, FailerStep, Dispatch, WorkerStep, Handlers

-----------------------------------------------------------------------------
(* Accounts. *)

LEMMA HoldingNat ==
  ASSUME NEW t, IsFiniteSet(Holding(t))
  PROVE  Cardinality(Holding(t)) \in Nat
BY FS_CardinalityType

\* A report that a handler drops, and an attempt that fails, lighten the accounts.
LEMMA LessHeld ==
  ASSUME Types, Types', Accounted, UNCHANGED <<attempts, failures>>, faults' >= faults,
         \A t \in Tasks : tries'[t] >= tries[t],
         \A h \in Failers : pc'[h] # "idle" => pc[h] # "idle" /\ task'[h] = task[h] /\ seen'[h] = seen[h]
  PROVE  Accounted'
<1> SUFFICES ASSUME NEW t \in Tasks
             PROVE  /\ IsFiniteSet(Holding(t)')
                    /\ attempts[t] + failures[t] + Cardinality(Holding(t)') <= tries'[t] + faults'
                    /\ \A h \in Holding(t)' :
                         seen'[h] + failures[t] + Cardinality(Holding(t)') <= tries'[t] + faults'
  BY DEF Accounted
<1>1. Holding(t)' \subseteq Holding(t) /\ \A h \in Holding(t)' : seen'[h] = seen[h]
  BY DEF Holding
<1>2. IsFiniteSet(Holding(t)) /\ Cardinality(Holding(t)) \in Nat
  BY HoldingNat DEF Accounted
<1>3. /\ IsFiniteSet(Holding(t)')
      /\ Cardinality(Holding(t)') <= Cardinality(Holding(t))
      /\ Cardinality(Holding(t)') \in Nat
  BY <1>1, <1>2, FS_Subset, FS_CardinalityType
<1>4. /\ {attempts[t], failures[t], tries[t], tries'[t], faults, faults'} \subseteq Nat
      /\ \A h \in Holding(t) : seen[h] \in Nat
  BY DEF Types, RowTypes, TopicTypes, JobTypes, RestTypes, LoopTypes, Holding, Handlers
<1>5. attempts[t] + failures[t] + Cardinality(Holding(t)') <= tries'[t] + faults'
  BY <1>2, <1>3, <1>4 DEF Accounted
<1>6. ASSUME NEW h \in Holding(t)'
      PROVE  seen'[h] + failures[t] + Cardinality(Holding(t)') <= tries'[t] + faults'
  <2>1. h \in Holding(t) /\ seen'[h] = seen[h]
    BY <1>1
  <2>2. seen[h] + failures[t] + Cardinality(Holding(t)) <= tries[t] + faults
    BY <2>1 DEF Accounted
  <2>3. QED
    BY <1>2, <1>3, <1>4, <2>1, <2>2
<1>7. QED
  BY <1>3, <1>5, <1>6

\* A failed attempt that is reported.
LEMMA ReportedAccounts ==
  ASSUME Types, Types', Accounted, NEW t \in Tasks, ReportFailed(t)
  PROVE  Accounted'
<1>1. tries' = [tries EXCEPT ![t] = @ + 1] /\ UNCHANGED <<attempts, pc, task, seen>>
  BY DEF ReportFailed, AttemptFailed, rowVars, loopVars
<1>f. \/ failures' = [failures EXCEPT ![t] = @ + 1] /\ UNCHANGED faults
      \/ faults' = faults + 1 /\ UNCHANGED failures
  <2>1. \/ failures' = [failures EXCEPT ![t] = @ + 1] /\ UNCHANGED faults
        \/ Fault /\ UNCHANGED failures
    BY DEF ReportFailed
  <2>2. QED
    BY <2>1 DEF Fault
<1> SUFFICES ASSUME NEW u \in Tasks
             PROVE  /\ IsFiniteSet(Holding(u))
                    /\ attempts[u] + failures'[u] + Cardinality(Holding(u)) <= tries'[u] + faults'
                    /\ \A h \in Holding(u) :
                         seen[h] + failures'[u] + Cardinality(Holding(u)) <= tries'[u] + faults'
  BY <1>1 DEF Accounted, Holding
<1>2. IsFiniteSet(Holding(u)) /\ Cardinality(Holding(u)) \in Nat
  BY HoldingNat DEF Accounted
<1>3. /\ {attempts[u], failures[u], failures'[u], tries[u], tries'[u], faults, faults'} \subseteq Nat
      /\ \A h \in Holding(u) : seen[h] \in Nat
  BY DEF Types, RowTypes, TopicTypes, JobTypes, RestTypes, LoopTypes, Holding, Handlers
<1>4. failures'[u] + tries[u] + faults <= failures[u] + tries'[u] + faults'
  <2>1. tries'[u] = (IF u = t THEN tries[u] + 1 ELSE tries[u])
    BY <1>1 DEF Types, JobTypes
  <2>2. CASE failures' = [failures EXCEPT ![t] = @ + 1] /\ UNCHANGED faults
    BY <1>3, <2>1, <2>2 DEF Types, TopicTypes
  <2>3. CASE faults' = faults + 1 /\ UNCHANGED failures
    BY <1>3, <2>1, <2>3
  <2>4. QED
    BY <1>f, <2>2, <2>3
<1>5. ASSUME NEW n \in Nat, n + failures[u] + Cardinality(Holding(u)) <= tries[u] + faults
      PROVE  n + failures'[u] + Cardinality(Holding(u)) <= tries'[u] + faults'
  BY <1>2, <1>3, <1>4, <1>5
<1>6. ASSUME NEW h \in Holding(u)
      PROVE  seen[h] + failures'[u] + Cardinality(Holding(u)) <= tries'[u] + faults'
  BY <1>3, <1>5, <1>6 DEF Accounted
<1>7. attempts[u] + failures'[u] + Cardinality(Holding(u)) <= tries'[u] + faults'
  BY <1>3, <1>5 DEF Accounted
<1>8. QED
  BY <1>2, <1>6, <1>7

\* A report that a handler takes, or is given beside the one that stays.
LEMMA TakenAccounts ==
  ASSUME Types, Types', Accounted, NEW h \in Failers, ReceiveFailure(h)
  PROVE  Accounted'
<1>1. PICK t \in Tasks :
        /\ failures[t] > 0
        /\ \/ failures' = [failures EXCEPT ![t] = @ - 1] /\ UNCHANGED faults
           \/ faults' = faults + 1 /\ UNCHANGED failures
        /\ task' = [task EXCEPT ![h] = t]
        /\ seen' = [seen EXCEPT ![h] = attempts[t]]
  BY DEF ReceiveFailure, Fault
<1>2. /\ pc[h] = "idle" /\ pc' = [pc EXCEPT ![h] = "record"]
      /\ UNCHANGED <<attempts, tries>>
  BY DEF ReceiveFailure, At, Goto, rowVars, jobVars
<1>h. h \in Handlers
  BY DEF Handlers
<1> SUFFICES ASSUME NEW u \in Tasks
             PROVE  /\ IsFiniteSet(Holding(u)')
                    /\ attempts[u] + failures'[u] + Cardinality(Holding(u)') <= tries[u] + faults'
                    /\ \A k \in Holding(u)' :
                         seen'[k] + failures'[u] + Cardinality(Holding(u)') <= tries[u] + faults'
  BY <1>2 DEF Accounted
<1>3. IsFiniteSet(Holding(u)) /\ Cardinality(Holding(u)) \in Nat /\ h \notin Holding(u)
  BY <1>2, HoldingNat DEF Accounted, Holding
<1>4. /\ {attempts[u], failures[u], failures'[u], tries[u], faults, faults'} \subseteq Nat
      /\ \A k \in Holding(u) : seen[k] \in Nat
  BY DEF Types, RowTypes, TopicTypes, JobTypes, RestTypes, LoopTypes, Holding, Handlers
<1>5. \A k \in Holding(u) : seen'[k] = seen[k]
  BY <1>1, <1>3 DEF Types, LoopTypes, Holding, Handlers
<1>6. CASE u = t
  <2>1. Holding(u)' = Holding(u) \cup {h}
    BY <1>1, <1>2, <1>6, <1>h DEF Holding, Types, LoopTypes, Handlers
  <2>2. IsFiniteSet(Holding(u)') /\ Cardinality(Holding(u)') = Cardinality(Holding(u)) + 1
    BY <1>3, <2>1, FS_AddElement
  <2>3. failures'[u] + 1 + faults <= failures[u] + faults'
    <3>1. CASE failures' = [failures EXCEPT ![t] = @ - 1] /\ UNCHANGED faults
      <4>1. failures'[u] = failures[u] - 1
        BY <1>6, <3>1 DEF Types, TopicTypes
      <4>2. QED
        BY <1>4, <3>1, <4>1
    <3>2. CASE faults' = faults + 1 /\ UNCHANGED failures
      BY <1>4, <3>2
    <3>3. QED
      BY <1>1, <3>1, <3>2
  <2>4. seen'[h] = attempts[u]
    BY <1>1, <1>6, <1>h DEF Types, LoopTypes
  <2>5. failures'[u] + Cardinality(Holding(u)') + faults <= failures[u] + Cardinality(Holding(u)) + faults'
    BY <1>3, <1>4, <2>2, <2>3
  <2>6. attempts[u] + failures'[u] + Cardinality(Holding(u)') <= tries[u] + faults'
    BY <1>3, <1>4, <2>2, <2>5 DEF Accounted
  <2>7. ASSUME NEW k \in Holding(u)
        PROVE  seen'[k] + failures'[u] + Cardinality(Holding(u)') <= tries[u] + faults'
    BY <1>3, <1>4, <1>5, <2>2, <2>5 DEF Accounted
  <2>8. QED
    BY <2>1, <2>2, <2>4, <2>6, <2>7
<1>7. CASE u # t
  <2>1. Holding(u)' = Holding(u)
    BY <1>1, <1>2, <1>3, <1>7, <1>h DEF Holding, Types, LoopTypes, Handlers
  <2>2. failures'[u] = failures[u] /\ faults' >= faults
    BY <1>1, <1>4, <1>7 DEF Types, TopicTypes
  <2>3. QED
    BY <1>3, <1>4, <1>5, <2>1, <2>2 DEF Accounted
<1>8. QED
  BY <1>6, <1>7

\* A handler counts the failure that it holds, from the count that it has read.
LEMMA CountedAccounts ==
  ASSUME Types, Types', Accounted, NEW h \in Failers, CommitFailure(h)
  PROVE  Accounted'
<1> DEFINE t == task[h]
<1>1. /\ pc[h] = "end" /\ pc' = [pc EXCEPT ![h] = "idle"]
      /\ attempts' = [attempts EXCEPT ![t] = IF outer[h] = "retrying" THEN seen[h] + 1 ELSE @]
      /\ UNCHANGED <<failures, tries, task, seen, faults>>
  BY DEF CommitFailure, At, Goto, jobVars, topicVars
<1>2. h \in Handlers /\ t \in Tasks /\ h \in Holding(t)
  BY <1>1 DEF Handlers, Types, LoopTypes, Holding
<1> HIDE DEF t
<1> SUFFICES ASSUME NEW u \in Tasks
             PROVE  /\ IsFiniteSet(Holding(u)')
                    /\ attempts'[u] + failures[u] + Cardinality(Holding(u)') <= tries[u] + faults
                    /\ \A k \in Holding(u)' :
                         seen[k] + failures[u] + Cardinality(Holding(u)') <= tries[u] + faults
  BY <1>1 DEF Accounted
<1>3. IsFiniteSet(Holding(u)) /\ Cardinality(Holding(u)) \in Nat
  BY HoldingNat DEF Accounted
<1>4. /\ {attempts[u], attempts'[u], failures[u], tries[u], faults} \subseteq Nat
      /\ \A k \in Holding(u) : seen[k] \in Nat
  BY DEF Types, RowTypes, TopicTypes, JobTypes, RestTypes, LoopTypes, Holding, Handlers
<1>5. Holding(u)' = Holding(u) \ {h}
  BY <1>1, <1>2 DEF Holding, Types, LoopTypes, Handlers
<1>6. CASE u = t
  <2>1. IsFiniteSet(Holding(u)') /\ Cardinality(Holding(u)') = Cardinality(Holding(u)) - 1
    BY <1>2, <1>3, <1>5, <1>6, FS_RemoveElement
  <2>2. attempts'[u] \in {attempts[u], seen[h] + 1}
    BY <1>1, <1>2, <1>6 DEF Types, RowTypes
  <2>3. seen[h] + failures[u] + Cardinality(Holding(u)) <= tries[u] + faults
    BY <1>2, <1>6 DEF Accounted
  <2>4. attempts[u] + failures[u] + Cardinality(Holding(u)) <= tries[u] + faults
    BY DEF Accounted
  <2>5. seen[h] \in Nat
    BY <1>2, <1>4, <1>6
  <2>6. attempts'[u] + failures[u] + Cardinality(Holding(u)') <= tries[u] + faults
    BY <1>3, <1>4, <2>1, <2>2, <2>3, <2>4, <2>5
  <2>7. ASSUME NEW k \in Holding(u)'
        PROVE  seen[k] + failures[u] + Cardinality(Holding(u)') <= tries[u] + faults
    <3>1. k \in Holding(u)
      BY <1>5
    <3>2. seen[k] + failures[u] + Cardinality(Holding(u)) <= tries[u] + faults
      BY <3>1 DEF Accounted
    <3>3. QED
      BY <1>3, <1>4, <2>1, <3>1, <3>2
  <2>8. QED
    BY <2>1, <2>6, <2>7
<1>7. CASE u # t
  <2>1. Holding(u)' = Holding(u) /\ attempts'[u] = attempts[u]
    BY <1>1, <1>2, <1>5, <1>7 DEF Holding, t, Types, RowTypes
  <2>2. QED
    BY <2>1 DEF Accounted
<1>8. QED
  BY <1>6, <1>7

LEMMA StepAccounted == IInv /\ Types' /\ [Next]_vars => Accounted'
<1> SUFFICES ASSUME IInv, Types', [Next]_vars PROVE Accounted'
  OBVIOUS
<1> USE DEF IInv
<1>h. Routers \subseteq Handlers /\ Completers \subseteq Handlers /\ Failers \subseteq Handlers
  BY DEF Handlers
<1>f. ASSUME UNCHANGED faults \/ Fault PROVE faults' >= faults
  BY <1>f DEF Fault, Types, RestTypes
<1>l. ASSUME UNCHANGED <<attempts, failures, pc, task, seen>>, UNCHANGED faults \/ Fault,
             \A t \in Tasks : tries'[t] >= tries[t]
      PROVE  Accounted'
  BY <1>f, <1>l, LessHeld
<1>t. ASSUME UNCHANGED tries PROVE \A t \in Tasks : tries'[t] >= tries[t]
  BY <1>t DEF Types, JobTypes
\* A loop that hears of no failure.
<1>o. ASSUME NEW h \in Handlers \ Failers, UNCHANGED <<attempts, failures, tries, seen>>,
             UNCHANGED faults \/ Fault,
             \A k \in Handlers \ {h} : pc'[k] = pc[k] /\ task'[k] = task[k]
      PROVE  Accounted'
  BY <1>f, <1>t, <1>o, <1>h, LessHeld
\* A loop that goes on with the failure it has, or drops it.
<1>g. ASSUME NEW h \in Handlers, NEW step, Goto(h, step), ~At(h, "idle") \/ h \notin Failers,
             UNCHANGED <<attempts, failures, tries, task, seen>>, UNCHANGED faults \/ Fault
      PROVE  Accounted'
  <2>1. \A k \in Failers : pc'[k] # "idle" => pc[k] # "idle"
    BY <1>g DEF Goto, At, Types, LoopTypes, Handlers
  <2>2. QED
    BY <1>f, <1>t, <1>g, <2>1, LessHeld
<1>1. ASSUME NEW h \in Routers, RouteTask(h) \/ StartNode(h) PROVE Accounted'
  <2>1. h \in Handlers \ Failers
    BY LoopsAssumption DEF Handlers
  <2>2. UNCHANGED <<attempts, failures, tries, seen, faults>>
    BY <1>1 DEF RouteTask, StartNode, rowVars, jobVars, topicVars
  <2>3. \A k \in Handlers \ {h} : pc'[k] = pc[k] /\ task'[k] = task[k]
    BY <1>1 DEF RouteTask, StartNode, Goto, Types, LoopTypes
  <2>4. QED
    BY <1>o, <2>1, <2>2, <2>3
<1>2. ASSUME NEW h \in Handlers,
             \/ InsertRow(h) \/ Publish(h) \/ PublishFails(h) \/ Repend(h) \/ ReadCapacity(h)
             \/ SelectPending(h) \/ SendPending(h) \/ SendPendingFails(h) \/ MarkRow(h)
             \/ CommitDispatch(h) \/ RecordFailure(h) \/ Republish(h) \/ RepublishFails(h)
             \/ AbortHandler(h)
      PROVE  Accounted'
  <2>1. ~At(h, "idle") /\ \E step : Goto(h, step)
    BY <1>2 DEF InsertRow, Publish, PublishFails, Repend, ReadCapacity, SelectPending, SendPending,
       SendPendingFails, MarkRow, CommitDispatch, RecordFailure, Republish, RepublishFails,
       AbortHandler, At
  <2>2. UNCHANGED <<attempts, failures, tries, task, seen>>
    BY <1>2 DEF InsertRow, Publish, PublishFails, Repend, ReadCapacity, SelectPending, SendPending,
       SendPendingFails, MarkRow, CommitDispatch, RecordFailure, Republish, RepublishFails,
       AbortHandler, rowVars, jobVars, topicVars
  <2>3. UNCHANGED faults \/ Fault
    BY <1>2 DEF InsertRow, Publish, PublishFails, Repend, ReadCapacity, SelectPending, SendPending,
       SendPendingFails, MarkRow, CommitDispatch, RecordFailure, Republish, RepublishFails,
       AbortHandler, AddJobFails
  <2>4. QED
    BY <1>g, <2>1, <2>2, <2>3
<1>3. ASSUME NEW h \in Completers, ReceiveCompletion(h) PROVE Accounted'
  <2>1. h \in Handlers /\ h \notin Failers
    BY LoopsAssumption DEF Handlers
  <2>2. Goto(h, "capacity") /\ UNCHANGED <<attempts, failures, tries, task, seen>>
    BY <1>3 DEF ReceiveCompletion, jobVars
  <2>3. UNCHANGED faults \/ Fault
    BY <1>3 DEF ReceiveCompletion
  <2>4. QED
    BY <1>g, <2>1, <2>2, <2>3
<1>4. ASSUME NEW t \in Tasks,
             \/ TakeJob(t) \/ MarkTaskStarted(t) \/ ReportCompleted(t) \/ CloseJob(t) \/ WorkerCrash(t)
             \/ MarkTaskStartedFails(t) \/ CloseJobFails(t)
      PROVE  Accounted'
  <2>1. UNCHANGED <<attempts, failures, pc, task, seen>>
    BY <1>4 DEF TakeJob, MarkTaskStarted, ReportCompleted, CloseJob, WorkerCrash, MarkTaskStartedFails,
       CloseJobFails, rowVars, topicVars, loopVars
  <2>2. UNCHANGED faults \/ Fault
    BY <1>4 DEF TakeJob, MarkTaskStarted, ReportCompleted, CloseJob, WorkerCrash, MarkTaskStartedFails,
       CloseJobFails
  <2>3. UNCHANGED tries \/ tries' = [tries EXCEPT ![t] = @ + 1]
    BY <1>4 DEF TakeJob, MarkTaskStarted, ReportCompleted, CloseJob, WorkerCrash, MarkTaskStartedFails,
       CloseJobFails, AttemptFailed
  <2>4. \A u \in Tasks : tries'[u] >= tries[u]
    BY <2>3 DEF Types, JobTypes
  <2>5. QED
    BY <1>l, <2>1, <2>2, <2>4
<1>5. ASSUME NEW t \in Tasks, ReportFailed(t) PROVE Accounted'
  BY <1>5, ReportedAccounts
<1>6. ASSUME NEW h \in Failers, ReceiveFailure(h) PROVE Accounted'
  BY <1>6, TakenAccounts
<1>7. ASSUME NEW h \in Failers, CommitFailure(h) PROVE Accounted'
  BY <1>7, CountedAccounts
<1>8. CASE UNCHANGED vars
  BY <1>8, <1>t, <1>l DEF vars, rowVars, jobVars, topicVars, loopVars
<1>9. QED
  BY <1>h, <1>1, <1>2, <1>3, <1>4, <1>5, <1>6, <1>7, <1>8
     DEF Next, RouterStep, CompleterStep, FailerStep, Dispatch, WorkerStep

-----------------------------------------------------------------------------
(* Bounds. *)

LEMMA CapacityBounds == Capacity \in 0 .. Limit
<1>1. IsFiniteSet(Active)
  BY TasksAssumption, FS_Subset DEF Active
<1>2. Cardinality(Active) \in Nat
  BY <1>1, FS_CardinalityType
<1>3. Limit \in Nat
  BY BoundsAssumption
<1>4. QED
  BY <1>2, <1>3 DEF Capacity

LEMMA AddJobTries ==
  ASSUME Types, Tries, NEW t, AddJob(t), UNCHANGED tries
  PROVE  Tries'
BY DEF Types, JobTypes, JobStates, Tries, AddJob

LEMMA AttemptFailedTries ==
  ASSUME Types, Tries, NEW t \in Tasks, job[t] # "dead", AttemptFailed(t)
  PROVE  Tries'
<1>1. MaxTries \in Nat
  BY BoundsAssumption
<1>2. tries[t] \in Nat /\ tries[t] < MaxTries
  BY DEF Types, JobTypes, Tries
<1>3. \A u \in Tasks : tries'[u] = IF u = t THEN tries[t] + 1 ELSE tries[u]
  BY DEF Types, JobTypes, AttemptFailed
<1>4. \A u \in Tasks \ {t} : job'[u] = job[u]
  BY DEF Types, JobTypes, AttemptFailed
<1>5. tries[t] + 1 >= MaxTries => job'[t] = "dead"
  BY <1>1, <1>2 DEF Types, JobTypes, AttemptFailed
<1>6. QED
  BY <1>1, <1>2, <1>3, <1>4, <1>5 DEF Tries

LEMMA StepTries == Types /\ Tries /\ [Next]_vars => Tries'
<1> SUFFICES ASSUME Types, Tries, [Next]_vars PROVE Tries'
  OBVIOUS
<1>u. ASSUME UNCHANGED jobVars PROVE Tries'
  BY <1>u DEF jobVars, Tries
<1>a. ASSUME UNCHANGED tries, UNCHANGED job \/ \E t : AddJob(t) PROVE Tries'
  BY <1>a, <1>u, AddJobTries DEF jobVars
<1>1. ASSUME NEW h,
             \/ RouteTask(h) \/ StartNode(h) \/ InsertRow(h) \/ Repend(h) \/ ReceiveCompletion(h)
             \/ ReadCapacity(h) \/ SelectPending(h) \/ MarkRow(h) \/ CommitDispatch(h)
             \/ ReceiveFailure(h) \/ RecordFailure(h) \/ CommitFailure(h) \/ AbortHandler(h)
      PROVE  Tries'
  BY <1>1, <1>u
     DEF RouteTask, StartNode, InsertRow, Repend, ReceiveCompletion, ReadCapacity, SelectPending,
         MarkRow, CommitDispatch, ReceiveFailure, RecordFailure, CommitFailure, AbortHandler
<1>2. ASSUME NEW h,
             \/ Publish(h) \/ PublishFails(h) \/ SendPending(h) \/ SendPendingFails(h)
             \/ Republish(h) \/ RepublishFails(h)
      PROVE  Tries'
  BY <1>2, <1>a
     DEF Publish, PublishFails, SendPending, SendPendingFails, Republish, RepublishFails, AddJobFails
<1>3. ASSUME NEW t \in Tasks, TakeJob(t) \/ MarkTaskStarted(t) \/ ReportCompleted(t) \/ CloseJob(t)
                              \/ WorkerCrash(t)
      PROVE  Tries'
  <2>1. UNCHANGED tries /\ job[t] # "dead"
    BY <1>3 DEF TakeJob, MarkTaskStarted, ReportCompleted, CloseJob, WorkerCrash
  <2>2. \A u \in Tasks \ {t} : job'[u] = job[u]
    BY <1>3 DEF TakeJob, MarkTaskStarted, ReportCompleted, CloseJob, WorkerCrash, Types, JobTypes
  <2>3. QED
    BY <2>1, <2>2 DEF Tries
<1>4. ASSUME NEW t \in Tasks, MarkTaskStartedFails(t) \/ ReportFailed(t) \/ CloseJobFails(t)
      PROVE  Tries'
  BY <1>4, AttemptFailedTries DEF MarkTaskStartedFails, ReportFailed, CloseJobFails
<1>5. CASE UNCHANGED vars
  BY <1>5, <1>u DEF vars
<1>6. QED
  BY <1>1, <1>2, <1>3, <1>4, <1>5
     DEF Next, RouterStep, CompleterStep, FailerStep, Dispatch, WorkerStep

LEMMA StepRecorded == Types /\ Recorded /\ [Next]_vars => Recorded'
<1> SUFFICES ASSUME Types, Recorded, [Next]_vars PROVE Recorded'
  OBVIOUS
<1>h. Routers \subseteq Handlers /\ Completers \subseteq Handlers /\ Failers \subseteq Handlers
  BY DEF Handlers
<1>m. MaxAttempts \in Nat
  BY BoundsAssumption
<1>u. ASSUME UNCHANGED <<attempts, loopVars>> PROVE Recorded'
  BY <1>u DEF loopVars, Recorded
\* A handler moves on with the record it has, or without one.
<1>g. ASSUME NEW h \in Handlers, NEW step, Goto(h, step), UNCHANGED <<attempts, seen, outer>>,
             \/ outer[h] = NoWrite
             \/ step \in {"republish", "capacity", "select", "send", "mark", "markFailed", "end"}
      PROVE  Recorded'
  BY <1>g DEF Types, LoopTypes, Goto, Recorded
<1>1. ASSUME NEW h \in Handlers, pc[h] \in {"idle", "insert", "publish", "repend"},
             \/ RouteTask(h) \/ StartNode(h) \/ InsertRow(h) \/ Publish(h) \/ Repend(h)
             \/ ReceiveCompletion(h) \/ PublishFails(h)
      PROVE  Recorded'
  <2>1. outer[h] = NoWrite
    BY <1>1 DEF Recorded
  <2>2. UNCHANGED <<attempts, seen, outer>>
    BY <1>1 DEF RouteTask, StartNode, InsertRow, Publish, Repend, ReceiveCompletion, PublishFails,
                rowVars
  <2>3. \E step : Goto(h, step)
    BY <1>1 DEF RouteTask, StartNode, InsertRow, Publish, Repend, ReceiveCompletion, PublishFails
  <2>4. QED
    BY <1>g, <2>1, <2>2, <2>3
<1>2. ASSUME NEW h \in Handlers,
             \/ SelectPending(h) \/ SendPending(h) \/ SendPendingFails(h) \/ MarkRow(h)
             \/ Republish(h)
      PROVE  Recorded'
  BY <1>2, <1>g DEF SelectPending, SendPending, SendPendingFails, MarkRow, Republish, rowVars
<1>3. ASSUME NEW h \in Handlers, ReadCapacity(h) \/ CommitDispatch(h)
      PROVE  Recorded'
  <2>1. outer[h] = NoWrite \/ AfterDispatch(h) = "end"
    BY DEF Recorded, AfterDispatch
  <2>2. QED
    BY <1>3, <1>g, <2>1 DEF ReadCapacity, CommitDispatch, rowVars
<1>4. ASSUME NEW h \in Failers, ReceiveFailure(h) PROVE Recorded'
  <2>1. outer[h] = NoWrite
    BY <1>4, <1>h DEF ReceiveFailure, At, Recorded
  <2>2. PICK t \in Tasks : seen' = [seen EXCEPT ![h] = attempts[t]]
    BY <1>4 DEF ReceiveFailure
  <2>3. UNCHANGED <<attempts, outer>> /\ Goto(h, "record")
    BY <1>4 DEF ReceiveFailure, rowVars
  <2>4. NoWrite # "retrying"
    BY DEF NoWrite
  <2>5. QED
    BY <1>h, <2>1, <2>2, <2>3, <2>4 DEF Types, LoopTypes, Goto, Recorded
<1>5. ASSUME NEW h \in Failers, RecordFailure(h) PROVE Recorded'
  <2>1. /\ UNCHANGED <<attempts, seen>>
        /\ outer' = [outer EXCEPT ![h] = IF seen[h] < MaxAttempts THEN "retrying" ELSE "failed"]
    BY <1>5 DEF RecordFailure, rowVars
  <2>2. pc' = [pc EXCEPT ![h] = IF seen[h] < MaxAttempts THEN "republish" ELSE "capacity"]
    BY <1>5 DEF RecordFailure, Goto
  <2>3. QED
    BY <1>h, <2>1, <2>2 DEF Types, LoopTypes, Recorded
<1>6. ASSUME NEW h \in Handlers, RepublishFails(h) \/ AbortHandler(h) PROVE Recorded'
  <2>1. UNCHANGED <<attempts, seen>> /\ outer' = [outer EXCEPT ![h] = NoWrite] /\ Goto(h, "idle")
    BY <1>6 DEF RepublishFails, AbortHandler, rowVars
  <2>2. NoWrite # "retrying"
    BY DEF NoWrite
  <2>3. QED
    BY <2>1, <2>2 DEF Types, LoopTypes, Goto, Recorded
<1>7. ASSUME NEW h \in Failers, CommitFailure(h) PROVE Recorded'
  <2>1. /\ UNCHANGED seen /\ outer' = [outer EXCEPT ![h] = NoWrite] /\ Goto(h, "idle")
        /\ attempts' = [attempts EXCEPT ![task[h]] = IF outer[h] = "retrying" THEN seen[h] + 1 ELSE @]
    BY <1>7 DEF CommitFailure
  <2>2. \A t \in Tasks : attempts'[t] <= MaxAttempts
    <3>1. outer[h] = "retrying" => seen[h] + 1 <= MaxAttempts
      BY <1>h, <1>m DEF Types, LoopTypes, Recorded
    <3>2. QED
      BY <2>1, <3>1 DEF Types, RowTypes, Recorded
  <2>3. NoWrite # "retrying"
    BY DEF NoWrite
  <2>4. QED
    BY <1>h, <2>1, <2>2, <2>3 DEF Types, LoopTypes, Goto, Recorded
<1>8. ASSUME NEW t \in Tasks,
             \/ TakeJob(t) \/ MarkTaskStarted(t) \/ ReportCompleted(t) \/ CloseJob(t)
             \/ ReportFailed(t) \/ MarkTaskStartedFails(t) \/ CloseJobFails(t) \/ WorkerCrash(t)
      PROVE  Recorded'
  BY <1>8, <1>u
     DEF TakeJob, MarkTaskStarted, ReportCompleted, CloseJob, ReportFailed, MarkTaskStartedFails,
         CloseJobFails, WorkerCrash, rowVars
<1>9. CASE UNCHANGED vars
  BY <1>9, <1>u DEF vars, rowVars
<1>10. ASSUME NEW h \in Handlers,
              \/ RouteTask(h) \/ StartNode(h) \/ InsertRow(h) \/ Publish(h) \/ Repend(h)
              \/ ReceiveCompletion(h) \/ PublishFails(h)
       PROVE  Recorded'
  BY <1>1, <1>10
     DEF RouteTask, StartNode, InsertRow, Publish, Repend, ReceiveCompletion, PublishFails, At
<1>11. QED
  BY <1>h, <1>2, <1>3, <1>4, <1>5, <1>6, <1>7, <1>8, <1>9, <1>10
     DEF Next, RouterStep, CompleterStep, FailerStep, Dispatch, WorkerStep

LEMMA StepDispatch == Types /\ DispatchTypes /\ [Next]_vars => DispatchTypes'
<1> SUFFICES ASSUME Types, DispatchTypes, [Next]_vars PROVE DispatchTypes'
  OBVIOUS
<1>l. Limit \in Nat
  BY BoundsAssumption
<1>h. Routers \subseteq Handlers /\ Completers \subseteq Handlers /\ Failers \subseteq Handlers
  BY DEF Handlers
<1>u. ASSUME UNCHANGED <<created, cap, batch>> PROVE DispatchTypes'
  BY <1>u DEF DispatchTypes
<1>1. ASSUME NEW h \in Routers, RouteTask(h) \/ StartNode(h) PROVE DispatchTypes'
  BY <1>1, <1>l, CapacityBounds DEF RouteTask, StartNode, rowVars, DispatchTypes
<1>2. ASSUME NEW h \in Routers, InsertRow(h) PROVE DispatchTypes'
  BY <1>2, <1>h DEF InsertRow, Types, LoopTypes, DispatchTypes
<1>3. ASSUME NEW h,
             \/ Publish(h) \/ Repend(h) \/ PublishFails(h) \/ ReceiveCompletion(h) \/ SendPending(h)
             \/ SendPendingFails(h) \/ CommitDispatch(h) \/ ReceiveFailure(h) \/ RecordFailure(h)
             \/ Republish(h) \/ RepublishFails(h) \/ CommitFailure(h)
      PROVE  DispatchTypes'
  BY <1>3, <1>u
     DEF Publish, Repend, PublishFails, ReceiveCompletion, SendPending, SendPendingFails,
         CommitDispatch, ReceiveFailure, RecordFailure, Republish, RepublishFails, CommitFailure,
         rowVars
<1>4. ASSUME NEW h, ReadCapacity(h) PROVE DispatchTypes'
  BY <1>4, CapacityBounds DEF ReadCapacity, rowVars, DispatchTypes
<1>5. ASSUME NEW h, SelectPending(h) PROVE DispatchTypes'
  <2>1. ToSet(created) \subseteq Tasks
    BY DEF DispatchTypes, ToSet
  <2>2. QED
    BY <1>5, <2>1 DEF SelectPending, rowVars, DispatchTypes
<1>6. ASSUME NEW h, MarkRow(h) \/ AbortHandler(h) PROVE DispatchTypes'
  BY <1>6 DEF MarkRow, AbortHandler, rowVars, DispatchTypes
<1>7. ASSUME NEW t \in Tasks,
             \/ TakeJob(t) \/ MarkTaskStarted(t) \/ ReportCompleted(t) \/ CloseJob(t)
             \/ ReportFailed(t) \/ MarkTaskStartedFails(t) \/ CloseJobFails(t) \/ WorkerCrash(t)
      PROVE  DispatchTypes'
  BY <1>7, <1>u
     DEF TakeJob, MarkTaskStarted, ReportCompleted, CloseJob, ReportFailed, MarkTaskStartedFails,
         CloseJobFails, WorkerCrash, rowVars, loopVars
<1>8. CASE UNCHANGED vars
  BY <1>8, <1>u DEF vars, rowVars, loopVars
<1>9. QED
  BY <1>1, <1>2, <1>3, <1>4, <1>5, <1>6, <1>7, <1>8
     DEF Next, RouterStep, CompleterStep, FailerStep, Dispatch, WorkerStep

LEMMA StepFaults == faults <= MaxFaults /\ Types /\ [Next]_vars => faults' <= MaxFaults
<1> SUFFICES ASSUME faults <= MaxFaults, Types, [Next]_vars PROVE faults' <= MaxFaults
  OBVIOUS
<1>1. MaxFaults \in Nat /\ faults \in Nat
  BY BoundsAssumption DEF Types, RestTypes
<1>2. Fault => faults' <= MaxFaults
  BY <1>1 DEF Fault
<1>3. UNCHANGED faults \/ Fault
  <2>1. ASSUME NEW h,
               \/ RouteTask(h) \/ StartNode(h) \/ InsertRow(h) \/ Publish(h) \/ Repend(h)
               \/ ReadCapacity(h) \/ SelectPending(h) \/ SendPending(h) \/ MarkRow(h)
               \/ CommitDispatch(h) \/ RecordFailure(h) \/ Republish(h) \/ CommitFailure(h)
        PROVE  UNCHANGED faults
    BY <2>1
       DEF RouteTask, StartNode, InsertRow, Publish, Repend, ReadCapacity, SelectPending,
           SendPending, MarkRow, CommitDispatch, RecordFailure, Republish, CommitFailure
  <2>2. ASSUME NEW h,
               \/ PublishFails(h) \/ SendPendingFails(h) \/ RepublishFails(h) \/ AbortHandler(h)
               \/ ReceiveCompletion(h) \/ ReceiveFailure(h)
        PROVE  UNCHANGED faults \/ Fault
    BY <2>2
       DEF PublishFails, SendPendingFails, RepublishFails, AbortHandler, AddJobFails,
           ReceiveCompletion, ReceiveFailure
  <2>3. ASSUME NEW t,
               \/ TakeJob(t) \/ MarkTaskStarted(t) \/ ReportCompleted(t) \/ CloseJob(t)
               \/ ReportFailed(t) \/ MarkTaskStartedFails(t) \/ CloseJobFails(t) \/ WorkerCrash(t)
        PROVE  UNCHANGED faults \/ Fault
    BY <2>3
       DEF TakeJob, MarkTaskStarted, ReportCompleted, CloseJob, ReportFailed, MarkTaskStartedFails,
           CloseJobFails, WorkerCrash
  <2>4. QED
    BY <2>1, <2>2, <2>3
       DEF Next, RouterStep, CompleterStep, FailerStep, Dispatch, WorkerStep, vars
<1>4. QED
  BY <1>2, <1>3

LEMMA InitBounded == Init => Bounded
<1> SUFFICES ASSUME Init PROVE Bounded
  OBVIOUS
<1>1. {Limit, MaxAttempts, MaxTries} \subseteq Nat \ {0} /\ MaxFaults \in Nat
  BY BoundsAssumption
<1>2. Tries /\ faults <= MaxFaults
  BY <1>1 DEF Init, Tries
<1>3. Recorded
  BY <1>1 DEF Init, Recorded, NoWrite
<1>4. DispatchTypes
  BY <1>1 DEF Init, DispatchTypes
<1>5. QED
  BY <1>2, <1>3, <1>4 DEF Bounded

-----------------------------------------------------------------------------
(* The invariant. *)

LEMMA InitInv == Init => IInv
<1> SUFFICES ASSUME Init PROVE IInv
  OBVIOUS
<1>1. Types
  BY InitTypes
<1>2. Fresh /\ HasRun
  BY DEF Init, Fresh, HasRun
<1>3. Accounted
  <2>1. ASSUME NEW t \in Tasks PROVE Holding(t) = {}
    BY DEF Init, Holding, Handlers
  <2>2. IsFiniteSet({}) /\ Cardinality({}) = 0
    BY FS_EmptySet
  <2>3. ASSUME NEW t \in Tasks PROVE attempts[t] = 0 /\ failures[t] = 0 /\ tries[t] = 0 /\ faults = 0
    BY DEF Init
  <2>4. QED
    BY <2>1, <2>2, <2>3 DEF Accounted
<1>4. QED
  BY <1>1, <1>2, <1>3, InitBounded DEF IInv

LEMMA Inductive == Spec => []IInv
<1>1. IInv /\ [Next]_vars => IInv'
  BY StepTypes, StepRuns, StepAccounted, StepTries, StepRecorded, StepDispatch, StepFaults
     DEF IInv, Bounded
<1>2. QED
  BY InitInv, <1>1, PTL DEF Spec

\* Every variable keeps its type and its bound: no job is tried more often than
\* BullMQ allows, no row counts more attempts than it may, and what
\* dispatchQueuedTasksForTenant reads and selects is within the tenant's limit.
THEOREM TypeCorrect == Spec => []TypeOK
<1>1. IInv => TypeOK
  <2> SUFFICES ASSUME IInv PROVE TypeOK
    OBVIOUS
  <2>1. attempts \in [Tasks -> 0 .. MaxAttempts] /\ tries \in [Tasks -> 0 .. MaxTries]
    BY BoundsAssumption DEF IInv, Types, RowTypes, JobTypes, Bounded, Tries, Recorded
  <2>2. seen \in [Handlers -> 0 .. MaxAttempts]
    BY BoundsAssumption DEF IInv, Types, LoopTypes, Bounded, Recorded
  <2>3. faults \in 0 .. MaxFaults
    BY BoundsAssumption DEF IInv, Types, RestTypes, Bounded
  <2>4. QED
    BY <2>1, <2>2, <2>3
       DEF IInv, Types, RowTypes, JobTypes, TopicTypes, LoopTypes, RestTypes, Bounded,
           DispatchTypes, TypeOK
<1>2. QED
  BY Inductive, <1>1, PTL

\* A task whose job did not fail after its report succeeds at most once, however
\* often routers, dispatchers and retries publish it (queue.add with the task's
\* id as job id; handleJob of base-worker.ts).
THEOREM SucceedsOnce == Spec => []RunsOnce
<1>1. IInv => RunsOnce
  BY DEF IInv, Fresh, RunsOnce
<1>2. QED
  BY Inductive, <1>1, PTL

\* A row that onTaskCompleted has set to completed belongs to a task that some
\* agent has run to its end.
THEOREM CompletedTasksHaveRun == Spec => []CompletedHasRun
<1>1. IInv => CompletedHasRun
  BY DEF IInv, HasRun, CompletedHasRun
<1>2. QED
  BY Inductive, <1>1, PTL

\* What onTaskFailed has counted in the row and what it is still to be told are
\* failed attempts of the job, but for reports delivered twice: although two
\* handlers may read the row before either writes it.
THEOREM FailuresAreReal == Spec => []CountsRealFailures
<1>1. IInv => CountsRealFailures
  <2> SUFFICES ASSUME IInv, NEW t \in Tasks
               PROVE  attempts[t] + failures[t] <= tries[t] + faults
    BY DEF CountsRealFailures
  <2>1. attempts[t] + failures[t] + Cardinality(Holding(t)) <= tries[t] + faults
    BY DEF IInv, Accounted
  <2>2. Cardinality(Holding(t)) \in Nat
    BY HoldingNat DEF IInv, Accounted
  <2>3. {attempts[t], failures[t], tries[t], faults} \subseteq Nat
    BY DEF IInv, Types, RowTypes, TopicTypes, JobTypes, RestTypes
  <2>4. QED
    BY <2>1, <2>2, <2>3
<1>2. QED
  BY Inductive, <1>1, PTL

=============================================================================
