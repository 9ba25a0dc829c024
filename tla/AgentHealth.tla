---------------------------- MODULE AgentHealth ----------------------------
(***************************************************************************)
(* The row of one agent of one tenant, and those who write it without      *)
(* asking each other: the worker processes that run its jobs and send its  *)
(* heartbeats (packages/queue/src/base-worker.ts), the two monitors of the *)
(* orchestrator (health-monitor.ts, scheduler.ts), and the users who       *)
(* activate and stop agents (api-gateway, onboarding-service).             *)
(*                                                                         *)
(* A write decided from a count in memory or from a row read before is a   *)
(* step after the one that decided it.  The reports, announcements and     *)
(* agent_tasks row of a job are TaskLifecycle's and left out here; a job   *)
(* that processTask fails ends as one that it completes.                   *)
(***************************************************************************)
EXTENDS Naturals, FiniteSets

CONSTANTS
  Workers,      \* worker processes of the agent's type
  Jobs,         \* jobs of the tenant
  Monitors,     \* runs of HealthMonitor.checkHealth, every 30 s
  Schedulers,   \* runs of the scheduler's checkAgentHealth, every 2 min
  MaxFaults,    \* bound: crashes and failing database calls in a behaviour
  MaxClicks,    \* bound: activations and emergency stops
  NoJob,
  NoWorker

ASSUME AgentAssumption ==
  /\ IsFiniteSet(Jobs) /\ NoJob \notin Jobs /\ NoWorker \notin Workers
  /\ Monitors \cap Schedulers = {}
  /\ MaxFaults \in Nat /\ MaxClicks \in Nat

VARIABLES
  status,    \* agents.status
  current,   \* agents.currentTaskId
  beat,      \* agents.lastHeartbeat: null, or within or beyond the last 5 minutes
  mode,      \* of a process: running, shutting down, or not there
  active,    \* its activeJobsByTenant
  tracked,   \* the tenant is in its trackedTenantIds
  beating,   \* the status its interval is about to write
  pc,        \* where a job is
  on,        \* the process that runs it
  ending,    \* the status its finally block is about to write
  mpc,       \* where a monitor's pass is
  revived,   \* the status it is about to give back to the row
  live,      \* the go-live step has read a row it will activate
  leaks,     \* history: jobs whose start threw after they were counted
  stopped,   \* history: stopped by a user, and not activated since
  faults, clicks

agent   == <<status, current, beat>>
process == <<mode, active, tracked, beating, leaks>>
job     == <<pc, on, ending>>
monitor == <<mpc, revived>>
vars    == <<agent, process, job, monitor, live, stopped, faults, clicks>>

Passes   == Monitors \cup Schedulers
Statuses == {"idle", "processing", "paused", "error"}

UnderWay(w) == {j \in Jobs : on[j] = w /\ pc[j] \in {"marking", "starting", "running"}}

\* A process whose interval runs keeps the row of a tenant it tracks fresh.
Beats(w) == mode[w] = "up" /\ tracked[w]

TypeOK ==
  /\ status \in Statuses
  /\ current \in Jobs \cup {NoJob}
  /\ beat \in {"null", "fresh", "stale"}
  /\ mode \in [Workers -> {"up", "closing", "down"}]
  /\ active \in [Workers -> Nat]
  /\ tracked \in [Workers -> BOOLEAN]
  /\ beating \in [Workers -> {"none", "idle", "processing"}]
  /\ pc \in [Jobs -> {"waiting", "marking", "starting", "running", "ending", "done"}]
  /\ on \in [Jobs -> Workers \cup {NoWorker}]
  /\ ending \in [Jobs -> {"none", "idle", "processing"}]
  /\ mpc \in [Passes -> {"off", "flag", "recheck", "revive"}]
  /\ revived \in [Passes -> {"none", "idle", "processing"}]
  /\ live \in BOOLEAN
  /\ stopped \in BOOLEAN
  /\ leaks \in [Workers -> Nat]
  /\ faults \in 0 .. MaxFaults
  /\ clicks \in 0 .. MaxClicks

Init ==
  /\ status = "idle" /\ current = NoJob /\ beat = "null"
  /\ mode = [w \in Workers |-> "up"]
  /\ active = [w \in Workers |-> 0]
  /\ tracked = [w \in Workers |-> FALSE]
  /\ beating = [w \in Workers |-> "none"]
  /\ pc = [j \in Jobs |-> "waiting"]
  /\ on = [j \in Jobs |-> NoWorker]
  /\ ending = [j \in Jobs |-> "none"]
  /\ mpc = [m \in Passes |-> "off"]
  /\ revived = [m \in Passes |-> "none"]
  /\ live = FALSE
  /\ stopped = FALSE
  /\ leaks = [w \in Workers |-> 0]
  /\ faults = 0 /\ clicks = 0

Fault == faults < MaxFaults /\ faults' = faults + 1
Click == clicks < MaxClicks /\ clicks' = clicks + 1

----------------------------------------------------------------------------
(* handleJob *)

\* What touchAgentHeartbeat will write, from a count of jobs.
Activity(count) == IF count > 0 THEN "processing" ELSE "idle"

\* Mutant: a heartbeat refreshes its time only.
TouchTimeOnly(activity) == beat' = "fresh" /\ UNCHANGED <<status, current>>

\* The write of touchAgentHeartbeat: an undefined currentTaskId is not set.
Touch(activity) ==
  /\ status' = activity
  /\ current' = IF activity = "idle" THEN NoJob ELSE current
  /\ beat' = "fresh"

\* The job is counted, then markTaskStarted is awaited outside of the try.
Start(w, j) ==
  /\ mode[w] = "up" /\ pc[j] = "waiting"
  /\ pc' = [pc EXCEPT ![j] = "marking"]
  /\ on' = [on EXCEPT ![j] = w]
  /\ active' = [active EXCEPT ![w] = @ + 1]
  /\ tracked' = [tracked EXCEPT ![w] = TRUE]
  /\ UNCHANGED <<agent, mode, beating, leaks, ending, monitor, live, stopped, faults, clicks>>

\* markTaskStarted writes the task's row, which is not kept here, then the agent's.
MarkTask(j) ==
  /\ pc[j] = "marking"
  /\ pc' = [pc EXCEPT ![j] = "starting"]
  /\ UNCHANGED <<agent, process, on, ending, monitor, live, stopped, faults, clicks>>

MarkAgent(j) == status' = "processing" /\ current' = j /\ beat' = "fresh"

MarkStarted(j) ==
  /\ pc[j] = "starting"
  /\ MarkAgent(j)
  /\ pc' = [pc EXCEPT ![j] = "running"]
  /\ UNCHANGED <<process, on, ending, monitor, live, stopped, faults, clicks>>

\* Mutant: the count goes down only after the write.
FinishKeepsCount(j) ==
  /\ pc[j] = "running"
  /\ ending' = [ending EXCEPT ![j] = Activity(active[on[j]])]
  /\ pc' = [pc EXCEPT ![j] = "ending"]
  /\ UNCHANGED <<agent, process, on, monitor, live, stopped, faults, clicks>>

\* The finally block: the count goes down and decides what is written.
Finish(j) ==
  /\ pc[j] = "running"
  /\ LET left == IF active[on[j]] > 0 THEN active[on[j]] - 1 ELSE 0
     IN  /\ active' = [active EXCEPT ![on[j]] = left]
         /\ ending' = [ending EXCEPT ![j] = Activity(left)]
  /\ pc' = [pc EXCEPT ![j] = "ending"]
  /\ UNCHANGED <<agent, mode, tracked, beating, leaks, on, monitor, live, stopped, faults, clicks>>

\* A job has left its process, for good or to be run again.
Leave(j, position) ==
  /\ pc' = [pc EXCEPT ![j] = position]
  /\ on' = [on EXCEPT ![j] = NoWorker]
  /\ ending' = [ending EXCEPT ![j] = "none"]

Finished(j) ==
  /\ pc[j] = "ending"
  /\ Touch(ending[j])
  /\ Leave(j, "done")
  /\ UNCHANGED <<process, monitor, live, stopped, faults, clicks>>

\* A write of markTaskStarted throws, with or without its effect; the job fails and
\* stays counted.
StartThrows(j) ==
  /\ pc[j] \in {"marking", "starting"}
  /\ Fault
  /\ leaks' = [leaks EXCEPT ![on[j]] = @ + 1]
  /\ UNCHANGED agent \/ (pc[j] = "starting" /\ MarkAgent(j))
  /\ Leave(j, "waiting")
  /\ UNCHANGED <<mode, active, tracked, beating, monitor, live, stopped, clicks>>

\* The write of the finally block throws, with or without its effect: a completed job
\* fails, and is run again.
FinishThrows(j) ==
  /\ pc[j] = "ending"
  /\ Fault
  /\ UNCHANGED agent \/ Touch(ending[j])
  /\ Leave(j, "waiting")
  /\ UNCHANGED <<process, monitor, live, stopped, clicks>>

----------------------------------------------------------------------------
(* startHeartbeat, stop, and the process itself *)

\* One write of an interval is under way at a time.
Heartbeat(w) ==
  /\ Beats(w) /\ beating[w] = "none"
  /\ beating' = [beating EXCEPT ![w] = Activity(active[w])]
  /\ UNCHANGED <<agent, mode, active, tracked, leaks, job, monitor, live, stopped, faults, clicks>>

HeartbeatWritten(w) ==
  /\ beating[w] # "none"
  /\ Touch(beating[w])
  /\ beating' = [beating EXCEPT ![w] = "none"]
  /\ UNCHANGED <<mode, active, tracked, leaks, job, monitor, live, stopped, faults, clicks>>

HeartbeatThrows(w) ==
  /\ beating[w] # "none"
  /\ Fault
  /\ UNCHANGED agent \/ Touch(beating[w])
  /\ beating' = [beating EXCEPT ![w] = "none"]
  /\ UNCHANGED <<mode, active, tracked, leaks, job, monitor, live, stopped, clicks>>

\* addTenantWorker
Track(w) ==
  /\ mode[w] = "up" /\ ~tracked[w]
  /\ tracked' = [tracked EXCEPT ![w] = TRUE]
  /\ UNCHANGED <<agent, mode, active, beating, leaks, job, monitor, live, stopped, faults, clicks>>

\* SIGTERM: the interval is cleared, then the workers wait for their jobs.
Stop(w) ==
  /\ mode[w] = "up"
  /\ Fault
  /\ mode' = [mode EXCEPT ![w] = "closing"]
  /\ UNCHANGED <<agent, active, tracked, beating, leaks, job, monitor, live, stopped, clicks>>

\* What the memory of a process that ends held is gone.
Gone(w) ==
  /\ mode' = [mode EXCEPT ![w] = "down"]
  /\ active' = [active EXCEPT ![w] = 0]
  /\ tracked' = [tracked EXCEPT ![w] = FALSE]
  /\ beating' = [beating EXCEPT ![w] = "none"]
  /\ leaks' = [leaks EXCEPT ![w] = 0]

Exit(w) ==
  /\ mode[w] = "closing" /\ \A j \in Jobs : on[j] # w
  /\ Gone(w)
  /\ UNCHANGED <<agent, job, monitor, live, stopped, faults, clicks>>

\* Its jobs stall, and are given to another process.
Crash(w) ==
  /\ mode[w] # "down"
  /\ Fault
  /\ Gone(w)
  /\ pc' = [j \in Jobs |-> IF on[j] = w THEN "waiting" ELSE pc[j]]
  /\ on' = [j \in Jobs |-> IF on[j] = w THEN NoWorker ELSE on[j]]
  /\ ending' = [j \in Jobs |-> IF on[j] = w THEN "none" ELSE ending[j]]
  /\ UNCHANGED <<agent, monitor, live, stopped, clicks>>

\* start: the tenants it starts with are not tracked.
Boot(w) ==
  /\ mode[w] = "down"
  /\ mode' = [mode EXCEPT ![w] = "up"]
  /\ UNCHANGED <<agent, active, tracked, beating, leaks, job, monitor, live, stopped, faults, clicks>>

\* Five minutes without a write.
Silence ==
  /\ beat = "fresh" /\ \A w \in Workers : ~Beats(w) /\ beating[w] = "none"
  /\ beat' = "stale"
  /\ UNCHANGED <<status, current, process, job, monitor, live, stopped, faults, clicks>>

----------------------------------------------------------------------------
(* The monitors: each select decides what is written later. *)

\* A pass of checkHealth has a second part, the recovery.
NextPart(m) == mpc' = [mpc EXCEPT ![m] = IF m \in Monitors THEN "recheck" ELSE "off"]

Check(m) ==
  /\ mpc[m] = "off"
  /\ status = "processing" /\ beat = "stale"
  /\ mpc' = [mpc EXCEPT ![m] = "flag"]
  /\ UNCHANGED <<agent, process, job, revived, live, stopped, faults, clicks>>

\* Nothing to flag: a scheduler's pass is over.
CheckFindsNone(m) ==
  /\ m \in Monitors /\ mpc[m] = "off"
  /\ ~(status = "processing" /\ beat = "stale")
  /\ NextPart(m)
  /\ UNCHANGED <<agent, process, job, revived, live, stopped, faults, clicks>>

\* Only checkHealth clears currentTaskId.
Flag(m) ==
  /\ mpc[m] = "flag"
  /\ status' = "error"
  /\ current' = IF m \in Monitors THEN NoJob ELSE current
  /\ NextPart(m)
  /\ UNCHANGED <<beat, process, job, revived, live, stopped, faults, clicks>>

\* Mutant: the status to give back is not computed.
RecheckBlindly(m) ==
  /\ mpc[m] = "recheck"
  /\ mpc' = [mpc EXCEPT ![m] = IF status = "error" /\ beat = "fresh" THEN "revive" ELSE "off"]
  /\ UNCHANGED <<agent, process, job, revived, live, stopped, faults, clicks>>

Recheck(m) ==
  /\ mpc[m] = "recheck"
  /\ IF status = "error" /\ beat = "fresh"
     THEN /\ mpc' = [mpc EXCEPT ![m] = "revive"]
          /\ revived' = [revived EXCEPT ![m] = IF current # NoJob THEN "processing" ELSE "idle"]
     ELSE mpc' = [mpc EXCEPT ![m] = "off"] /\ UNCHANGED revived
  /\ UNCHANGED <<agent, process, job, live, stopped, faults, clicks>>

Revive(m) ==
  /\ mpc[m] = "revive"
  /\ status' = revived[m]
  /\ mpc' = [mpc EXCEPT ![m] = "off"]
  /\ revived' = [revived EXCEPT ![m] = "none"]
  /\ UNCHANGED <<current, beat, process, job, live, stopped, faults, clicks>>

----------------------------------------------------------------------------
(* The users *)

\* POST /agents/emergency-stop
EmergencyStop ==
  /\ Click
  /\ status' = "paused" /\ stopped' = TRUE
  /\ UNCHANGED <<current, beat, process, job, monitor, live, faults>>

\* POST /integrations/... activates the agents a user chose.
Activate ==
  /\ Click
  /\ status' = "idle" /\ stopped' = FALSE
  /\ UNCHANGED <<current, beat, process, job, monitor, live, faults>>

\* GoLiveStep reads the tenant's agents and activates those idle or in error.
GoLive ==
  /\ ~live /\ status \in {"idle", "error"}
  /\ Click
  /\ live' = TRUE
  /\ UNCHANGED <<agent, process, job, monitor, stopped, faults>>

GoneLive ==
  /\ live
  /\ status' = "idle" /\ stopped' = FALSE
  /\ live' = FALSE
  /\ UNCHANGED <<current, beat, process, job, monitor, faults, clicks>>

----------------------------------------------------------------------------
JobStep(j)    == MarkTask(j) \/ MarkStarted(j) \/ Finish(j) \/ Finished(j)
JobThrows(j)  == StartThrows(j) \/ FinishThrows(j)
WorkerStep(w) == Heartbeat(w) \/ HeartbeatWritten(w) \/ Exit(w)
WorkerFails(w) == HeartbeatThrows(w) \/ Stop(w) \/ Crash(w)
Pass(m)       == Check(m) \/ CheckFindsNone(m) \/ Flag(m) \/ Recheck(m) \/ Revive(m)

Next ==
  \/ \E j \in Jobs : JobStep(j) \/ JobThrows(j) \/ \E w \in Workers : Start(w, j)
  \/ \E w \in Workers : WorkerStep(w) \/ WorkerFails(w) \/ Track(w) \/ Boot(w)
  \/ Silence
  \/ \E m \in Passes : Pass(m)
  \/ EmergencyStop \/ Activate \/ GoLive \/ GoneLive

\* The intervals and the cron jobs keep firing, and a call that was made returns.
\* Nothing says that a job is published, or that a process is started again.
Fairness ==
  /\ \A j \in Jobs : WF_vars(JobStep(j))
  /\ \A w \in Workers :
       WF_vars(Heartbeat(w)) /\ WF_vars(HeartbeatWritten(w)) /\ WF_vars(Exit(w))
  /\ WF_vars(Silence)
  /\ \A m \in Passes : WF_vars(Pass(m))
  /\ WF_vars(GoneLive)

Spec == Init /\ [][Next]_vars /\ Fairness

----------------------------------------------------------------------------
(* Properties *)

\* The count from which heartbeats are written is that of the jobs under way, and of
\* those whose start threw: jobs that start, end, fail and stall on several processes
\* never make a process believe it is idle when it is not.
CountsItsJobs ==
  \A w \in Workers : active[w] = Cardinality(UnderWay(w)) + leaks[w]

Quiet == \A j \in Jobs : on[j] = NoWorker
Alive == \E w \in Workers : Beats(w)

\* What the row of an agent without jobs may show for good: that it is idle; that it
\* is paused, if a user has stopped it; or that it is processing, as long as a process
\* lives in which the start of a job threw.
Calm ==
  \/ status = "idle" /\ current = NoJob
  \/ status = "paused" /\ stopped
  \/ status = "processing" /\ \E w \in Workers : Beats(w) /\ leaks[w] > 0

\* When jobs, users and failures have calmed down, the row tells the truth whatever
\* order the writes of the processes and the monitors landed in: an agent that is
\* alive is shown neither as in error nor as processing without cause, and one that
\* is gone is not shown as processing.  (That a stopped agent stays paused is not
\* promised here: see PausedStartsNothing.)
RowSettles ==
  []<>~Quiet \/ <>[](IF Alive THEN Calm ELSE status # "processing")

\* POST /agents/emergency-stop pauses all agents of the tenant: no job is taken up
\* by an agent that is paused.
PausedStartsNothing ==
  [][\A j \in Jobs : status = "paused" /\ pc[j] = "waiting" => pc'[j] = "waiting"]_vars

=============================================================================
