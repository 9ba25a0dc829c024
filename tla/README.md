# NexusZero: models, checks and proofs

TLA+ models of the task execution core of NexusZero, its tenant onboarding, its
webhooks, plan approvals, agent health and the upkeep of its integrations, the TLC
runs that check them on small instances and the theorems that TLAPS proves about
them.  Line numbers refer to the commit these files sit beside.

## 1. The system

NexusZero runs marketing agents for tenants.  Services are Node processes; they
share PostgreSQL (rows), Redis (task graphs, BullMQ queues) and Kafka (reports,
signals, events; polled over HTTP).

| Component | State it keeps | Operations | What is hard | What makes it correct |
|---|---|---|---|---|
| Task graph executor (`apps/orchestrator/src/task-graph.ts`) | one JSON graph per Redis key | `executeGraph`, `onTaskCompleted`, `injectNodes` | optimistic transactions over a shared connection, several processes, deletion beside injection | dependencies first, each node started once, none stranded, no update lost, graphs removed |
| Task router (`task-router.ts`) | rows of `agent_tasks` | `routeTask`, `onTaskFailed`, `dispatchQueuedTasksForTenant`, `onAgentSignal` | check-then-insert, nested transactions, publishing before committing | tasks run once, rows tell the truth, held back tasks get their turn |
| Agent worker (`packages/queue/src/base-worker.ts`) | BullMQ job, row, report | `handleJob` | BullMQ retries beside the router's retries, lost and duplicated reports | as above |
| Orchestrator loops (`apps/orchestrator/src/index.ts`) | position in three topics | polling | a handler that throws drops its message | a dropped message harms nothing but progress |
| Onboarding service (`apps/onboarding-service`) | `tenants.onboardingState`, `tenants.status`, BullMQ queue | start, trigger, seven steps, `transitionTo` | read-check-write without a transaction, retries, stalled jobs | no step skipped, moves follow the table, nobody stuck in the middle of a step |
| Webhook service (`apps/webhook-service`) | deliveries, endpoint failure counts | fan-out, deliver, retry | BullMQ's attempts beside the row's schedule, a crash or a database error after the HTTP call, concurrent failure counts | delivered at least once and boundedly often, rows agree with jobs, dead endpoints disabled |
| Plan approval (`packages/queue/src/plan-approval.ts`) | approval rows, notes in Redis | request, approve, reject, expire, poll | reviewers, expiry and poll race; a decision is a row and, later or never, a note | one decision per request, nothing goes on unapproved, every agent gets an answer |
| Agent rows (`base-worker.ts`, orchestrator `health-monitor.ts`, `scheduler.ts`) | `agents.status`, `currentTaskId`, `lastHeartbeat`; activity counts in each process | start and end of a job, heartbeat, flagging and reviving, emergency stop, activation | several processes and two monitors write one row from what they counted or read before | counts are right; when things calm down the row is too |
| Integrations (`apps/compatibility-agent`: `oauth`, `health`, `healing`, `connectors`) | `integrations` rows, health log, one circuit breaker per platform and process | token refresh, health sweep, healing cycle, reconnection, disconnection, API keys | concurrent cron runs and tasks on one row, rotating refresh tokens, a circuit shared by all tenants, exceptions that end a tenant's healing cycle, a user's writes under running tasks | no token lost in a race, status and error count agree, disconnected stays disconnected, unhealthy is tried |
| Brain (`packages/brain`) | missions, escalations, stores | mission state machine, reaction rules | concurrent signals for one mission | mission states follow their table |

How they interact: the router or the executor inserts a row and adds a BullMQ
job with the task id as job id; a worker runs it and publishes a report; a
polling loop of the orchestrator receives the report, updates the row and, for a
node of a graph, the graph; then it dispatches rows that the tenant's limit held
back.  Onboarding is a chain of jobs of one queue, each step publishing the next.
The worker that runs a job also keeps the row of its agent, which the orchestrator's
monitors and the gateway write too.  The compatibility agent's cron jobs and tasks
share the `integrations` rows with the gateway and the connectors with each other.

**One caveat about the whole.**  In this commit workers publish reports and
signals under `tasks.completed`, `tasks.failed` and `agents.signals`
(`packages/shared/src/constants/event-types.ts`) while the orchestrator polls
`agent-tasks-completed`, `agent-tasks-failed` and `agent-signals`
(`index.ts:111-117`), and the fields differ too (`result` against `output`,
`payload` against `data`).  The modules describe the two sides as if they were
connected, by the message types that the orchestrator's handlers declare.

## 2. Modules

| Module | Models |
|---|---|
| `DagSchedule` | the abstract promise of the executor: a task starts after all it depends on |
| `TaskGraph` | `task-graph.ts` with its callers, one Redis/database/queue call per step |
| `TaskLifecycle` | a task's row, job and reports: router, worker, failure handling, dispatch under the limit |
| `Onboarding` | the onboarding of one tenant |
| `Webhook` | the webhook service: polling loop, dispatcher, delivery workers |
| `ApprovalDecision` | the abstract promise of a plan approval: decided once, answered once |
| `PlanApproval` | `plan-approval.ts` and its routes, one database or Redis call per step |
| `AgentHealth` | the row of one agent and everybody who writes it |
| `Circuit` | the circuit breaker of a connector, as operators on a record |
| `IntegrationHealth` | token refresh, health sweep and healing of the integrations of all tenants and platforms |
| `MCTaskGraph`, `MCTaskLifecycle`, `MCOnboarding`, `MCWebhook`, `MCPlanApproval`, `MCAgentHealth`, `MCIntegrationHealth` | the instances that TLC checks |
| `TaskGraph_proofs` | what holds of the executor whatever connections its loops share |
| `TaskGraphAtomic_proofs` | what holds as long as no loop has cancelled another's WATCH |
| `Onboarding_proofs` | theorems about the onboarding |
| `Webhook_proofs` | theorems about requests, rows and failure counts of the webhook service |
| `PlanApproval_proofs` | theorems about plan approvals, with their refinement |
| `IntegrationHealth_proofs` | theorems about rows, circuit and refresh tokens of the integrations |
| `AgentHealth_proofs` | theorems about the activity counts of the agents' processes |
| `TaskLifecycle_proofs` | theorems about successes, completed rows, counted failures and limits of a task |

### TaskGraph

A *handler* is a polling loop of an orchestrator process: a completer
(`onTaskCompleted`) or an injector (`onAgentSignal`).  Its program counter `pc`
names the next call: `unwatch`, `watch`, `get`, `exec` are one attempt of the
optimistic transaction (`Unwatch`, `Watch`, `Get`/`GetMissing`,
`Commit`/`Retry`/`GiveUp`), `start` is the loop that inserts and publishes ready
nodes (`StartNode`, `StartNodeFails`, `SkipNode`), `tail` the call of
`dispatchQueuedTasksForTenant` (`DispatchPending`), `create` is `executeGraph`.
`graphs`/`present` are the Redis keys, `watched`/`dirty` the WATCH state *per
connection* (`ConnOf` says which loop uses which), `row` and `jobs` are
`agent_tasks.status` and the BullMQ ids that were ever added, `completions` is
the topic.  `claims`, `faults`, `gaveUp` are history.

Faults, one at a time up to `MaxFaults`: a publish that throws (with or without
its effect), a call that throws or a restart (`AbortHandler`), a lost or
duplicated report, the expiry of a key.

`TaskGraph` implements `DagSchedule` with `started <- jobs`.

### TaskLifecycle

Rows (`status`, `attempts`, `created`), jobs (`job`, `tries`), topics
(`completions`, `failures`).  `withTenantDb` is a transaction, so the writes of a
dispatch (`inner`) and of a failure (`outer`) are invisible until their commit and
lock their rows (`Locked`).  A dispatcher's `batch` is the set of rows it has selected,
which it takes in the order of `created_at` (`First`); `onTaskFailed` runs its dispatch *inside* its own
transaction on another connection, which is why there are two.  BullMQ ignores an
`add` with a known job id (`AddJob`); that it forgets ids after a thousand later
jobs is left out.

### Onboarding

`state` and `status` are the two columns, `job` the BullMQ queue (places for jobs
that are not finished, with attempts, stalls and lock), and each handler has a
program counter, the step it runs and the state it is moving to.
`transitionTo` is `Check` (read, compare with `Transitions`) and `Write`.  What
follows a written state is the `switch` of `onStepComplete`, kept as three
tables: `FirstMoves`, `AutoMoves`, `Published`.  Announcing a state, publishing
the next job and completing the own job are part of `Write`; their failures are
`WriteThrows` (before the job is added), `PublishThrows` (the job is added and the
answer lost, so that `queue.add` rejects: `producers.ts:219-227` over the fail-fast
connection of `bullmq-client.ts:11-27`), `WriteCrashes` and `WriteTwice`.  After
`PublishThrows` the handler runs `onStepFailed` while any worker may run the job it
published.  The merge is sound because the
only reader of a published job is a worker that takes it, at any later time, and
nothing else reads what these calls write.

### Webhook

The polling loop is one process (`step`): `Poll` takes some events, then for each
of them `SelectEndpoints`, and for each endpoint `Insert` (the row) and `Add` (the
job) or `MarkDeliveryAsFailed`.  A worker takes a job (`Take`), posts it or rejects
its URL (`Post`, `Reject`), and then makes the database calls of the success path
(`RecordSuccess`, `ResetFailureCount`) or of `handleFailure` (`RecordFailure`,
`CountFailure`, `Disable`), each a step that may throw (`SuccessThrows`,
`FailureThrows`).  `Finish` is BullMQ's completion or retry, `Stall` a job that is
taken from a dead or slow worker, who may go on.  `why` says where `handleFailure`
was called from: only a call in the `try` block is caught and repeated, and only
the call for a rejected URL lets the job complete.  `posts`, `accepted`, `rejected`
and `failures` are history.

Rows and job counters are unrelated variables, since nothing in the code keeps
them together: `RetriesAgree` and `DeliveriesSettle` say that they agree anyway.

### PlanApproval

`row` and `note` are the status column and the key in Redis, `overdue` says that
`expiresAt` has passed.  The agent of a request is at `loop` (the condition of the
`while`), `redis`, `db` or `sleep`; `told` is what `requestApproval` returned.  A
reviewer's UPDATE is `Review`, its note `Notify` or `NotifyFails`; an expirer
updates all overdue rows at once (`Expire`) and then writes their notes one by
one (`NotifyExpired`), until one fails (`NotifyExpiredFails`).  Notes vanish after
an hour (`ForgetNote`), which may be before or after the agent looks.

`PlanApproval` implements `ApprovalDecision` with `decision` the row's status and
`answer <- told`.  The abstract module says what the code promises and what it
does not: an agent may be told "expired" for a request that a person approves later.

### AgentHealth

One row of `agents` (`status`, `current`, `beat`), the processes that run the
tenant's jobs (`mode`, `active`, `tracked`), and their jobs (`pc`, `on`).  Whatever
the code decides from memory or from a row and writes after an `await` is two steps:
`Finish` and `Finished` (the `finally` block), `Heartbeat` and `HeartbeatWritten`,
`Check` and `Flag`, `Recheck` and `Revive`, `GoLive` and `GoneLive`.  A closing process
(`Stop`) has cleared its interval and still ends its jobs.  One heartbeat of a
process is under way at a time: they are 30 s apart.  The start of a job makes two
updates, `MarkTask` (the row of the task, which this module leaves out) and `MarkStarted`
(the agent's), and the monitors may come between them; a write may throw with or without its
effect.  `stopped` remembers that a user has stopped the agent and nobody has
activated it since.  `beat` is the age of
`lastHeartbeat` as the monitors see it; it grows old (`Silence`) when no process
beats for the tenant.  `leaks` counts jobs whose start threw after it was counted.

### IntegrationHealth and Circuit

The rows are integrations of several tenants with several platforms; all rows of a
platform share its connector and so its `circuit`.  `Tokened`, `Refreshable`,
`Configured` and `Rotating` say what a row has or its platform can do.  A process is
one run of a cron job (a refresher, the checks of a sweep, a healer) or of a
reconnection task; `pc` names its next call, `cur` its row, `todo` the rows it has
still to do.  `stored` and `got` follow refresh tokens: a provider that rotates them
accepts the newest only, so what is in a row, or in the hands of another run, goes
stale with each `Exchange`.  Where there is nothing to exchange the result is null
(`SkipRefresh`, `Retrieve`).  `log` and `StatusOf` are the weighted score in integers.
A request to the platform is `Send` (or `FailFast`) and one of its outcomes after
retries; the circuit is shared by all of them, and by requests that leave the rows
alone (`Elsewhere`), and passes through `Admit`, `OnSuccess`, `OnFailure` and, from a
healing cycle, `FreshCircuit` (`Reconnected`, `ResetTripped`).

A healing sweep (`HealSelect`) runs one cycle for each of its `tenants`
(`CycleSelect`), and a cycle tries the tenant's unhealthy rows one by one (`NextHeal`)
and then resets circuits (`healed`).  `attemptReconnection` catches what its first two
strategies throw, but not what the third does: where no link can be made, or
`findFallback` cannot decrypt the token of another row, the exception ends the
tenant's cycle with the rows it has still to do (`NoLink`), and the sweep goes on
with the next tenant.

Users disconnect a row (`Disconnect`), ask for a reconnection (`Reconnect`) or put an
API key in its place (`ConnectApiKey`): that writes 'connected' and a placeholder as
access token (`pending`), which nobody can decrypt, and leaves `errorCount` as it was.

A read that throws is a failed call after it (`ExchangeFails`, `CallThrows`,
`RunThrows`).  Left out: what `createIntegration` does for a queued `oauth_connect`
task (it inserts a new row, and no constraint keeps it to one per tenant and
platform); `processReauthCallback`, whose state `index.ts:148` has deleted before it
is read; 'disconnected' for a row without tokens in `checkIntegration`, which only a
row that has vanished can be, and rows are never deleted; a provider that rejects a
valid token for ever; an `auto_reconnect` without a platform, which is a healing cycle
of one tenant; and the link of strategy 3 itself, which is written to Redis only, so
that `GenerateLink` changes no row.

## 3. Runs

| Run | Expect | States | Shows |
|---|---|---|---|
| `task_graph` | pass | 1.8 M | two completers, one injector, each on a connection of its own, one fault: `ClaimedOnce`, `NoStrandedNode`, `UpdatesAreKept`, `DeletedGraphIsDispatched`, `DagRefinement` |
| `task_graph_progress` | pass | 91 K | the same without faults, under fairness: `ReadyNodesFinish`, `GraphsAreRemoved` |
| `task_lifecycle` | pass | 570 K | a routed and a graph task, a limit of one, one fault: `RunsOnce`, `CompletedHasRun`, `CountsRealFailures`, `PendingIsDrained` |
| `onboarding` | pass | 314 K | two workers and a caller, two starts, one exception, one trigger, stall or lost answer of the queue: `NoStepSkipped`, `OneAtATime`, `LegalMoves`, `WorkIsLeft` |
| `webhook` | pass | 266 K | two events, one endpoint, two workers, one fault or PATCH: `RepeatsAreBounded`, `RetriesAgree`, `FailuresAreCounted`, `DisabledByFailures`, `AtLeastOnce`, `DeliveriesSettle` |
| `integrations` | pass | 2.2 M | one integration under a sweep, a healer, a reconnection and an API key, other requests to its platform, one fault: `TrippedByFailures`, `NewestTokenIsHeld`, `OnlyRunningRevives` |
| `token_races` | pass | 760 K | the integrations of two tenants, for one of which no link can be made, a refresher, a healer, one fault: `StatusMatchesErrors`, `ExpiringIsRefreshed`, `UnhealthyIsTried` |
| `agent_health` | pass | 690 K | two processes, two jobs, both monitors, one fault, one click: `CountsItsJobs`, `RowSettles` |
| `plan_approval` | pass | 45 K | two requests, two reviewers, one expirer, two faults: `NotesTellTheRow`, `ApprovedByPerson`, `OneDecision`, `AskingEnds` |
| `task_graph_shared_connection` | violation | | loops of one process share a connection and lose updates |
| `task_lifecycle_retry` | violation | | a 'retrying' task has no job |
| `emergency_stop` | violation | | a stopped agent takes up the next job |

All runs set `CHECK_DEADLOCK FALSE`: every instance ends when its tasks,
signals and requests are used up, and then nothing has to happen.

### Bounds, and why they are enough

* `task_graph`: two roots and a join are the smallest graph in which completions
  race for a node; a leaf of an unroutable type exercises the skip; one injected
  batch races with both. `MaxAttempts = 2` (5 in the code) makes a retry and a
  final abort happen; the code treats all attempts but the last alike. Two keys,
  since an injection into a deleted graph creates a second one.
* `task_lifecycle`: two tasks for a limit of one is the smallest case in which one
  waits for the other. `MaxAttempts = MaxTries = 2` (3 in the code) allows both
  retry mechanisms to run, to race and to end.
* `onboarding`: three places for unfinished jobs; a fourth is never asked for within
  `MaxExtra = 1`.  `Attempts = 2` (3 in the code): a job is repeated and given up; with
  3 attempts the same properties hold (634 K states), in more than twice the time.  Two
  workers are enough for a duplicated job to run beside the original. The triggered
  steps are the two that lead where the chain alone does not: a strategy step
  with `autoGoLive` and a second provision step.
* `webhook`: two deliveries to one endpoint share its failure count, two workers
  make them at a time or one after the other. `MaxTries = Threshold = 2` (5 and
  50 in the code): a delivery can be retried and fail for good, and the
  threshold is reached by one delivery or by both, by one worker or by two at a
  time, and exceeded.
* `integrations`: one row meets a run of each kind that writes it, so any two of them
  race; the refresher's steps on a token are those of the reconnection, and it has the
  other run.  `MaxErrors = Threshold = Window = 2` (5, 5 and 10 in the code): errors and
  failures are counted and reset in between, and a row is degraded by a failure after
  a pass (they weigh 5 and 4) and disconnected by two.
* `token_races`: two rows of two tenants and platforms, since the healer's sweep goes
  over tenants and an exception ends the cycle of one.  The second row has neither OAuth
  nor a rotating token, so every cycle of its tenant ends with an exception, and the
  refresher skips it.  `Window = Threshold = 1`, since the score and the circuit have the
  run above.  One fault: a second would only lose a second token.
* `agent_health`: two processes beat and write for one tenant; two jobs make a count
  other than 0 and 1, and a process with a job beside one without.  Each kind of monitor
  runs once at a time, as the intervals are minutes longer than a pass.
* `plan_approval`: two reviewers decide differently at once; two requests make
  a batch of which one note can be written and the other lost.
* One fault per behaviour in the other runs.  With two, `WorkIsLeft` of the
  onboarding fails, and not by the model's doing: a worker that has lost its lock meets a database error while it records the
  failure, and no job is left to try again.

### Fairness

Weak fairness of each polling loop's next step (the loop reschedules itself in a
`finally`, `index.ts:92-97`), of the agents (BullMQ hands out waiting jobs;
`processTask` returns or throws), of an onboarding handler that is running, and of
the webhook service's loop (`index.ts:65-68`) and workers (a request ends by itself
or after 15 s, `worker.ts:117`).  In `PlanApproval` the poll goes on and time passes:
nobody has to review, and no cron job has to call `expireOldApprovals` (in this commit
none does).  In `AgentHealth` intervals keep firing (`base-worker.ts:313`,
`health-monitor.ts:19`, `scheduler.ts`) and calls return; no process has to be started
again.  In `IntegrationHealth` cron keeps starting refreshers and healers
(`index.ts:256-303`), and a refresher, healer or reconnection that has begun goes on,
since each of its calls has a timeout; health checks may stop anywhere, since nothing
waits for them.
Never of a fault, a signal, a request or a failure of a task.

## 4. Findings

Each violation run checks one sentence of the repository against the code.

1. `task_graph_shared_connection`: `getRedis` gives all loops of a process one
   connection; `UNWATCH` of one disarms `WATCH` of another ("Atomically appends
   nodes", `task-graph.ts:269`).
2. `task_lifecycle_retry`: the router's retry reuses the job id
   (`producers.ts:88`) and is ignored ("requeues failed tasks with exponential
   backoff", `task-router.test.ts:103`).
3. `emergency_stop`: the status 'paused' is written (`agents.ts:231`) and no worker reads
   it; the next job or heartbeat overwrites it ("pause all agents for this tenant",
   `agents.ts:216`).

Other disagreements met while modelling, which no run repeats:

* `investigate_anomaly`, the root of every anomaly graph (`task-router.ts:243`), is not
  a key of `TASK_TO_AGENT_MAP`: the root is skipped after it was marked dispatched and
  the graph never starts ("Tasks with no dependencies start immediately",
  `task-graph.ts:44`).
* The limit is checked before the row is inserted (`task-router.ts:132-143`); if the
  last running task completes in between, the task stays pending with nothing to
  dispatch it.
* `failed` may only move to `created`, which nothing writes, while `startOnboarding`
  moves to `shadow_auditing` ("Allow restart from failed", `state-machine.ts:24`).
* `go_live` moves from `strategy_ready` to `active`, which the table forbids ("wait for
  user to confirm go-live", `state-machine.ts:161`).
* `isSafeWebhookUrl` also returns false while a name cannot be resolved
  (`worker.ts:48-53`); `handleFailure` then schedules a retry, the job completes, and
  nothing reads `nextRetryAt` ("retry pipeline runs",
  `platform-capabilities-guide.md:1255`).
* Connecting with an API key sets the row 'connected' before anything is validated
  ("Queue credential validation", `api-gateway/.../integrations.ts:399`), keeps its
  `errorCount` and replaces its access token by the text 'pending-validation', which cannot
  be decrypted: refresher, sweep and healer all throw for that row from then on, until a
  reconnection stores tokens.
* A healing cycle stops at the first row for which no link can be made
  (`auto-reconnector.ts:82`, `oauth-manager.ts:30-34`) or whose fallback cannot be decrypted:
  the exception leaves the loop, the tenant's later rows are not tried, in any sweep, and no
  circuit is reset ("Attempt reconnection for each", `healing-orchestrator.ts:45`).
* `MAX_WEBHOOK_FAILURES` is 10 ("Max consecutive webhook failures before disabling",
  `event-types.ts:189-190`) and read nowhere; `worker.ts:210` disables an endpoint at 50.
  `Webhook` has the limit as a parameter: what is said of `Threshold` is true of 50 and
  not of 10.
* A publication may throw although its job was added (`PublishThrows`): `onStepFailed` then
  marks the onboarding failed while another worker runs the next step, and both go through
  the check of `transitionTo` (`state-machine.ts:276`), which neither locks nor
  repeats it when it writes; no document says that this may not be.
* `expireOldApprovals` ("Call from a cron job", `plan-approval.ts:166`) and
  `runReconnectionSweep` have no caller; rows of requests nobody reviews stay 'pending'.
* An approval after the deadline succeeds, although the agent was told "expired".
* `scheduleEscalation` lets the data of an escalation expire when it falls due
  (`escalation.ts:27`, `:37`), so that `checkDueEscalations` would find an id without
  data and drop it (`:58-76`); nothing calls it, either ("escalate to next handler or
  human approval queue", `escalation.ts:9`).

## 5. What is proved

TLAPS checks these for every value of the constants.  Every safety property of a
passing run is among them: type invariants, invariants, action properties and both
refinements.

* `TypeCorrect` (of `TaskGraph_proofs`), `OnboardingTypes`: type correctness.
* `ImplementsDag`: every behaviour of `TaskGraph` is one of `DagSchedule`.  The
  invariant behind it is `DependencyOrder` (theorem `DependenciesFirst`): what a
  stored graph, a handler's snapshot or a message calls completed has finished, and
  what is ready, pending or published has finished dependencies.  It needs neither
  `WATCH` nor exclusive connections, since a stale snapshot only knows fewer
  completions: dependencies come first even in the configuration of finding 1.
* `ReadyNodesAreTaken`: no stored graph holds a node that its recorded completions make
  ready and that nobody has dispatched, whatever connections the loops share and whatever
  updates are lost.  The executor marks in the write that records a completion
  everything the completion makes ready, in whatever graph it has read (`AllSaturated`);
  so a lost update loses its completion as well as its dispatch, and never only one.
* `ClaimedAtMostOnce`, `NoNodeStranded`, `NoLostUpdate`, `DeletionIsSafe`: the
  properties of the `task_graph` run, for any graphs, batches, number of loops, faults
  and *any* assignment of connections, as long as `WatchesRespected`: no `UNWATCH`, `EXEC`
  or restart of another loop has cancelled the `WATCH` of a transaction under way
  (`NoForeignUnwatch`).  That is a condition on what has happened, not on the
  configuration.  Processes that race each other meet it always, since each has its
  connection; the loops of one process, which `getRedis` gives a single connection,
  meet it until the first such interleaving, and finding 1 is one.  So losing a
  `WATCH` to another loop of the process is the only way in which these transactions can
  fail to be atomic.
  None of the four is inductive.  Their invariant (`IInv` of
  `TaskGraphAtomic_proofs`) rests on `WatchSound`: a handler at `exec` whose
  connection is not dirty has read the very graph it overwrites.  Around it:
  nodes that no graph holds yet are in exactly one place (`CarriersSound`) and were
  never claimed (`UnsubmittedAreNew`); stored graphs are disjoint and claim a node
  when they mark it (`StoreSound`); a completed task names a graph that dispatched
  it (`TagsSound`), so that only nodes of a graph are counted as its completions
  and `isComplete` may compare lengths; a graph about to be deleted has dispatched
  everything (`DeletionSafe`), for what is injected into it has no dependencies.
  Steps that give no loop new work are one lemma (`QuietStep`), steps inside a
  transaction another (`AdvanceStep`), the new graph and the commit their own.
* `StepsAreEarned`: no onboarding step is skipped.  `NoStepSkipped` is not
  inductive: a handler between `Check` and `Write` may write a state whatever
  the state is by then.  The strengthening (`IInv` of `Onboarding_proofs`) adds that
  each handler's target is earned by the steps executed so far (`MovesEarned`) and
  that a handler past `execute` runs a real step (`Working`).  Executed steps
  are never undone, so a stale check cannot hurt.
* `ChainIsSequential`, `MovesAreLegal`: nothing in the code makes the check of
  `transitionTo` and its write one step; that no other handler comes between them is a
  property of the chain of jobs.  `Chain` says why, as long as no one starts twice or
  triggers, no worker dies or loses its lock, and no publication throws although its job
  was added (`Calm`): there is at most one handler at
  work and at most one job, and if there are both the handler has taken that job
  (`OneActor`); so what a handler has compared is still the tenant's state when it writes
  (`Compared`).
* `TypeCorrect`, `Repeats`, `Retries`, `Disabling`, `FailuresCount` of `Webhook_proofs`: a job that has lost
  its lock goes on being worked on, so several workers may hold one delivery and nothing
  can be said of the worker of a job.  The invariant counts instead.  A run of a job is an
  attempt that BullMQ has counted, or a stall, or the run of the worker with the lock
  (`Runs`), and each run sends at most one request, sent or about to be (`Posted`); a job
  that may still run has an attempt left (`Attempts`): so `Repeats`.  The
  count of an endpoint, together with the workers about to raise it, is covered by the
  failed attempts and the faults (`Counted`): so `Disabling`, although the workers read
  the count that others raise.  `Retries` has the case without faults: there the worker
  with the lock is the only one, and the row follows its steps (`RowsAgree`).
  `FailuresCount` bounds the count from the other side: as long as an endpoint answers
  nothing with success and no call throws, nothing resets the count and each failed attempt
  is in it or about to be (`Exact`), so the endpoint is disabled at the limit and not
  only after it, however many workers count at once.
* `TypeCorrect`, `NotesAgree`, `NothingUnapproved` of `PlanApproval_proofs`: for any
  number of requests, reviewers, expirers and faults.  `ApprovedByPerson` is not
  inductive: a note that contradicted the row would be an approval out of nothing.
  `IInv` joins it to `NotesTellTheRow` and to what that needs: a note still to be
  written is a verdict (`SaidIsVerdict`), only what was asked has a row
  (`AskedHasRow`), only an agent that returned was told something (`ToldHasReturned`).
* `ImplementsDecision`: every step of `PlanApproval` is a step of `ApprovalDecision`
  or a stutter (the notes and the poll are invisible to it).
* `TypeCorrect`, `StatusAgreesWithErrors`, `CircuitTripsByFailures` of
  `IntegrationHealth_proofs`: one induction (`Base`) over types, what a process's
  position says of it (`Working`, `Judging`) and the circuits.  The agreement of status and
  errors is a property of steps: an API key connects a row and keeps its errors, so no
  state has them agree, and the theorem says that this is the only write that does so.
* `RacesLoseNoToken`: `NewestTokenIsHeld` is not inductive, since two runs about to
  store the token of one row would overwrite each other.  `TokenInv` excludes that:
  what is about to be stored is the newest token (`HoldsNewest`), a run about to store
  a rotated one is the only one who has it (`Alone`), and a token that does not rotate
  stays valid (`Unrotated`).
* `RevivedByRunning`: a run checks the status of a row when it selects it and writes much
  later.  Relative to `Base` it is invariant that whoever has a disconnected row in hand
  had it when it was disconnected, or acts for a user (`HeldBefore`); the other way
  back is an API key; and that only a run
  over a selection has rows still to do (`NoBacklog`).
* `TypeCorrect`, `JobsAreCounted` of `AgentHealth_proofs`: the code lowers a count only
  if it is positive, so the proof has to show that it always is: the job that ends is
  counted, because a job that is under way is under way in some process (`Employed`).
  Type correctness needs `Decided` too: what the end of a job or a revival is about to
  write is one of the agent's statuses, and not the placeholder.
* `SucceedsOnce`, `CompletedTasksHaveRun` of `TaskLifecycle_proofs`: BullMQ ignores an
  id it knows, so the job of a task that has succeeded is never waiting again (`Fresh`),
  and only the report of a success leads to a completed row (`HasRun`).
* `FailuresAreReal`: `CountsRealFailures` is not inductive, for a handler writes the
  count it has read before.  `Accounted` treats a failed attempt as money: it is a
  report in the topic, in the hands of a handler (`Holding`) or counted in the row; and
  what a handler has read is bounded like the row itself, so that two handlers of one
  task may write in any order.

* `TypeCorrect` of `TaskLifecycle_proofs`: two of the bounds in `TypeOK` are earned.  A job
  that is not given up has a try left (`Tries`).  A failure handler writes what it has
  read at the start plus one, so what is recorded as a retry must have been read below the
  limit, and no second reading may come between the record and its commit (`Recorded`).

Assumptions: those the modules name (`TasksAssumption`, `BoundsAssumption`, `NodesAssumption`, `DepsAssumption`,
`RootAssumption`, `LoopsAssumption`, `OnboardingAssumption`, `WebhookAssumption`,
`ApprovalAssumption`, `AgentAssumption`, `IntegrationAssumption`,
`ThresholdAssumption`), evaluated by TLC in every run.

Only model-checked: the liveness properties (`ReadyNodesFinish`,
`GraphsAreRemoved`, `PendingIsDrained`, `WorkIsLeft`, `AtLeastOnce`,
`DeliveriesSettle`, `ExpiringIsRefreshed`, `UnhealthyIsTried`, `RowSettles`, `AskingEnds`), for fairness and ENABLED are out of the
prover's reach; and the three violation runs, which are counterexamples.

## 6. What is not modelled

Task inputs, priorities, delays, logging and tracing; a graph value that is not
JSON; BullMQ forgetting old job ids; `stepBack` (no caller) and `pause`/`resume` of an
onboarding (they set a flag that nothing reads, in a column `tenants` does not have);
the content of an onboarding step; rate limits; schema drift; the compatibility
agent's own onboarding and migration; language models, dashboards.

By lines, most of the repository is not NexusZero's own logic: `src/` of the
repository is a vendored command-line tool of some 500 000 lines, and most of the
rest are user interface, prompts, API wrappers and tests.  The models cover the parts
that keep shared state and meet concurrency or failure.  PROJECT.json lists every
component with its status and every hazard with the property that covers it or the
reason that none does.

## 7. Plan

1. *Done.* `DagSchedule`, `TaskGraph`, `TaskLifecycle`, `Onboarding`, `Webhook`; first
   theorems; the atomicity of `TaskGraph` under `WatchesRespected`.
2. *Done.* `PlanApproval` with its abstract specification and proofs; `AgentHealth`;
   `Circuit` and `IntegrationHealth`.
3. *Done.* Proofs of every safety property of `IntegrationHealth`, `AgentHealth`,
   `TaskLifecycle`, `Webhook` and `Onboarding`.  Next: lemmas about `Circuit` on its own,
   and what the liveness arguments rest on that is safety (measures that only fall).
4. `Missions`: the mission state machine of the brain under concurrent signals; it
   waits for a place among the runs, and its signals come from language models.
5. A composition of `TaskGraph` and `TaskLifecycle`: failing nodes of a graph.

## 8. Notes on the remaining components

* Compatibility agent: its onboarding engine writes states outside the onboarding
  service's table into the same column; `index.ts:148` deletes the OAuth state that
  `processReauthCallback` (`index.ts:165`) reads again.
* Agent rows: `agentTypeEnum` (`schema/agents.ts:3`) lacks types that workers report
  for ('outbound', 'podcast', 'sales-pipeline', 'finance'), so those have no row.
* Rate limit of a connector (`base-connector.ts:192-206`): requests that wait together
  leave together, beyond the limit.
