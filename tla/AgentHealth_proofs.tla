------------------------- MODULE AgentHealth_proofs -------------------------
(***************************************************************************)
(* Proofs about AgentHealth, for any number of processes, jobs, monitors,  *)
(* faults and clicks: type correctness, and that a process counts its jobs.*)
(*                                                                         *)
(* The count goes down only if it is positive (Finish).  It always is,     *)
(* since the job that ends is itself counted; that takes Employed: a job   *)
(* that is under way is under way in some process, and a job that nobody   *)
(* runs in none.                                                           *)
(***************************************************************************)
EXTENDS AgentHealth, FiniteSetTheorems, TLAPS

-----------------------------------------------------------------------------
(* The inductive invariant. *)

\* Jobs are with a process from their start to their end.
Employed == \A j \in Jobs : on[j] \in Workers <=> pc[j] \in {"marking", "starting", "running", "ending"}

\* What is about to be written has been decided.
Decided ==
  /\ \A j \in Jobs : pc[j] = "ending" => ending[j] # "none"
  /\ \A m \in Passes : mpc[m] = "revive" => revived[m] # "none"

AgentTypes ==
  /\ status \in Statuses
  /\ current \in Jobs \cup {NoJob}
  /\ beat \in {"null", "fresh", "stale"}

ProcessTypes ==
  /\ mode \in [Workers -> {"up", "closing", "down"}]
  /\ active \in [Workers -> Nat]
  /\ tracked \in [Workers -> BOOLEAN]
  /\ beating \in [Workers -> {"none", "idle", "processing"}]
  /\ leaks \in [Workers -> Nat]

JobTypes ==
  /\ pc \in [Jobs -> {"waiting", "marking", "starting", "running", "ending", "done"}]
  /\ on \in [Jobs -> Workers \cup {NoWorker}]
  /\ ending \in [Jobs -> {"none", "idle", "processing"}]

MonitorTypes ==
  /\ mpc \in [Passes -> {"off", "flag", "recheck", "revive"}]
  /\ revived \in [Passes -> {"none", "idle", "processing"}]

RestTypes ==
  /\ live \in BOOLEAN /\ stopped \in BOOLEAN
  /\ faults \in 0 .. MaxFaults /\ clicks \in 0 .. MaxClicks

IInv ==
  /\ AgentTypes /\ ProcessTypes /\ JobTypes /\ MonitorTypes /\ RestTypes
  /\ Employed /\ Decided /\ CountsItsJobs

LEMMA TypeParts ==
  TypeOK <=> AgentTypes /\ ProcessTypes /\ JobTypes /\ MonitorTypes /\ RestTypes
BY DEF TypeOK, AgentTypes, ProcessTypes, JobTypes, MonitorTypes, RestTypes

-----------------------------------------------------------------------------
(* Counting. *)

LEMMA UnderWayFinite ==
  ASSUME NEW w
  PROVE  IsFiniteSet(UnderWay(w)) /\ Cardinality(UnderWay(w)) \in Nat
<1>1. UnderWay(w) \subseteq Jobs
  BY DEF UnderWay
<1>2. QED
  BY <1>1, AgentAssumption, FS_Subset, FS_CardinalityType

\* The jobs under way in each process, and so their number, stay the same.
LEMMA SameJobs ==
  ASSUME CountsItsJobs, UNCHANGED <<active, leaks>>,
         \A j \in Jobs :
            /\ on'[j] \in Workers /\ pc'[j] \in {"marking", "starting", "running"}
                 => on'[j] = on[j] /\ pc[j] \in {"marking", "starting", "running"}
            /\ on[j] \in Workers /\ pc[j] \in {"marking", "starting", "running"}
                 => on'[j] = on[j] /\ pc'[j] \in {"marking", "starting", "running"}
  PROVE  CountsItsJobs'
<1>1. ASSUME NEW w \in Workers PROVE UnderWay(w)' = UnderWay(w)
  BY DEF UnderWay
<1>2. QED
  BY <1>1 DEF CountsItsJobs

LEMMA SameJobsUnchanged ==
  ASSUME CountsItsJobs, UNCHANGED <<active, leaks, on, pc>>
  PROVE  CountsItsJobs'
BY DEF CountsItsJobs, UnderWay

\* j begins in w.
LEMMA OneMore ==
  ASSUME CountsItsJobs, ProcessTypes, JobTypes, NEW w \in Workers, NEW j \in Jobs, pc[j] = "waiting",
         pc' = [pc EXCEPT ![j] = "marking"], on' = [on EXCEPT ![j] = w],
         active' = [active EXCEPT ![w] = @ + 1], UNCHANGED leaks
  PROVE  CountsItsJobs'
<1> SUFFICES ASSUME NEW v \in Workers
             PROVE  active'[v] = Cardinality(UnderWay(v)') + leaks[v]
  BY DEF CountsItsJobs
<1>1. CASE v = w
  <2>1. UnderWay(v)' = UnderWay(v) \cup {j} /\ j \notin UnderWay(v)
    BY <1>1 DEF UnderWay, JobTypes
  <2>2. Cardinality(UnderWay(v)') = Cardinality(UnderWay(v)) + 1
    BY <2>1, UnderWayFinite, FS_AddElement
  <2>3. QED
    BY <1>1, <2>2, UnderWayFinite DEF CountsItsJobs, ProcessTypes
<1>2. CASE v # w
  <2>1. UnderWay(v)' = UnderWay(v)
    BY <1>2 DEF UnderWay, JobTypes
  <2>2. QED
    BY <1>2, <2>1 DEF CountsItsJobs, ProcessTypes
<1>3. QED
  BY <1>1, <1>2

\* j is no longer under way: it is taken off the count, or it leaks.
LEMMA OneLess ==
  ASSUME CountsItsJobs, ProcessTypes, JobTypes, NEW j \in Jobs, on[j] \in Workers,
         pc[j] \in {"marking", "starting", "running"},
         \A k \in Jobs \ {j} : pc'[k] = pc[k] /\ on'[k] = on[k],
         pc'[j] \notin {"marking", "starting", "running"},
         \/ active' = [active EXCEPT ![on[j]] = @ - 1] /\ UNCHANGED leaks
         \/ leaks' = [leaks EXCEPT ![on[j]] = @ + 1] /\ UNCHANGED active
  PROVE  CountsItsJobs'
<1> SUFFICES ASSUME NEW v \in Workers
             PROVE  active'[v] = Cardinality(UnderWay(v)') + leaks'[v]
  BY DEF CountsItsJobs
<1>1. CASE v = on[j]
  <2>1. UnderWay(v)' = UnderWay(v) \ {j} /\ j \in UnderWay(v)
    BY <1>1 DEF UnderWay, JobTypes
  <2>2. Cardinality(UnderWay(v)') = Cardinality(UnderWay(v)) - 1
    BY <2>1, UnderWayFinite, FS_RemoveElement
  <2>3. QED
    BY <1>1, <2>2, UnderWayFinite DEF CountsItsJobs, ProcessTypes
<1>2. CASE v # on[j]
  <2>1. UnderWay(v)' = UnderWay(v)
    BY <1>2 DEF UnderWay, JobTypes
  <2>2. QED
    BY <1>2, <2>1 DEF CountsItsJobs, ProcessTypes
<1>3. QED
  BY <1>1, <1>2

\* A job that ends is counted.
LEMMA CountIsPositive ==
  ASSUME CountsItsJobs, ProcessTypes, NEW j \in Jobs, on[j] \in Workers,
         pc[j] \in {"marking", "starting", "running"}
  PROVE  active[on[j]] > 0
<1>1. j \in UnderWay(on[j])
  BY DEF UnderWay
<1>2. Cardinality(UnderWay(on[j])) > 0
  BY <1>1, UnderWayFinite, FS_EmptySet
<1>3. QED
  BY <1>2, UnderWayFinite DEF CountsItsJobs, ProcessTypes

\* A process that ends has nothing under way and counts nothing.
LEMMA GoneCounts ==
  ASSUME CountsItsJobs, ProcessTypes, NEW w \in Workers, Gone(w),
         \A j \in Jobs : on'[j] # w,
         \A j \in Jobs : on[j] # w => on'[j] = on[j] /\ pc'[j] = pc[j],
         \A j \in Jobs : on[j] = w => on'[j] \notin Workers
  PROVE  CountsItsJobs'
<1> SUFFICES ASSUME NEW v \in Workers
             PROVE  active'[v] = Cardinality(UnderWay(v)') + leaks'[v]
  BY DEF CountsItsJobs
<1>1. CASE v = w
  <2>1. UnderWay(v)' = {}
    BY <1>1 DEF UnderWay
  <2>2. QED
    BY <1>1, <2>1, FS_EmptySet DEF Gone, ProcessTypes
<1>2. CASE v # w
  <2>1. UnderWay(v)' = UnderWay(v)
    BY <1>2 DEF UnderWay
  <2>2. QED
    BY <1>2, <2>1 DEF CountsItsJobs, ProcessTypes, Gone
<1>3. QED
  BY <1>1, <1>2

-----------------------------------------------------------------------------
LEMMA InitInv == Init => IInv
<1> SUFFICES ASSUME Init PROVE IInv
  OBVIOUS
<1>1. /\ AgentTypes /\ RestTypes
      /\ ProcessTypes
      /\ JobTypes /\ MonitorTypes
  <2>1. AgentTypes /\ RestTypes
    <3>1. live = FALSE /\ stopped = FALSE /\ faults = 0 /\ clicks = 0 /\ AgentTypes
      BY DEF Init, AgentTypes, Statuses
    <3>2. faults \in 0 .. MaxFaults /\ clicks \in 0 .. MaxClicks
      BY <3>1, AgentAssumption
    <3>3. QED
      BY <3>1, <3>2 DEF RestTypes
  <2>2. ProcessTypes
    BY DEF Init, ProcessTypes
  <2>3. JobTypes /\ MonitorTypes
    BY DEF Init, JobTypes, MonitorTypes
  <2>4. QED
    BY <2>1, <2>2, <2>3
<1>2. Employed /\ Decided
  BY AgentAssumption DEF Init, Employed, Decided
<1>3. CountsItsJobs
  <2>1. \A w \in Workers : UnderWay(w) = {}
    BY AgentAssumption DEF Init, UnderWay
  <2>2. QED
    BY <2>1, FS_EmptySet DEF Init, CountsItsJobs
<1>4. QED
  BY <1>1, <1>2, <1>3 DEF IInv

LEMMA StepInv == IInv /\ [Next]_vars => IInv'
<1> SUFFICES ASSUME IInv, [Next]_vars PROVE IInv'
  OBVIOUS
<1> USE DEF IInv
<1>p. ASSUME UNCHANGED process PROVE ProcessTypes'
  BY <1>p DEF process, ProcessTypes
<1>j. ASSUME UNCHANGED job, MonitorTypes', \A m \in Passes : mpc'[m] = "revive" => revived'[m] # "none"
      PROVE  JobTypes' /\ Employed' /\ Decided'
  BY <1>j DEF job, JobTypes, Employed, Decided
<1>m. ASSUME UNCHANGED monitor
      PROVE  MonitorTypes' /\ \A m \in Passes : mpc'[m] = "revive" => revived'[m] # "none"
  BY <1>m DEF monitor, MonitorTypes, Decided
<1>a. ASSUME UNCHANGED agent PROVE AgentTypes'
  BY <1>a DEF agent, AgentTypes
<1>f. ASSUME UNCHANGED <<live, stopped, clicks>>, UNCHANGED faults \/ Fault PROVE RestTypes'
  BY <1>f, AgentAssumption DEF RestTypes, Fault
<1>c. ASSUME live' \in BOOLEAN, stopped' \in BOOLEAN, UNCHANGED faults, UNCHANGED clicks \/ Click PROVE RestTypes'
  BY <1>c, AgentAssumption DEF RestTypes, Click
<1>s. ASSUME UNCHANGED <<active, leaks, job>> PROVE CountsItsJobs'
  BY <1>s, SameJobsUnchanged DEF job
<1>t. ASSUME NEW activity \in {"idle", "processing"}, Touch(activity) PROVE AgentTypes'
  BY <1>t DEF Touch, AgentTypes, Statuses
<1>k. ASSUME NEW j \in Jobs, MarkAgent(j) PROVE AgentTypes'
  BY <1>k DEF MarkAgent, AgentTypes, Statuses
\* Jobs.
<1>1. ASSUME NEW w \in Workers, NEW j \in Jobs, Start(w, j) PROVE IInv'
  <2>1. AgentTypes' /\ MonitorTypes' /\ RestTypes'
    BY <1>1, <1>a, <1>m, <1>f DEF Start
  <2>2. ProcessTypes'
    BY <1>1 DEF Start, ProcessTypes
  <2>3. JobTypes' /\ Employed' /\ Decided'
    BY <1>1, AgentAssumption DEF Start, JobTypes, Employed, Decided, monitor
  <2>4. CountsItsJobs'
    BY <1>1, OneMore DEF Start
  <2>5. QED
    BY <2>1, <2>2, <2>3, <2>4
<1>2. ASSUME NEW j \in Jobs, MarkTask(j) \/ MarkStarted(j) PROVE IInv'
  <2>1. ProcessTypes' /\ MonitorTypes' /\ RestTypes'
    BY <1>2, <1>p, <1>m, <1>f DEF MarkTask, MarkStarted
  <2>2. AgentTypes'
    BY <1>2, <1>a, <1>k DEF MarkTask, MarkStarted
  <2>3. JobTypes' /\ Employed' /\ Decided'
    BY <1>2 DEF MarkTask, MarkStarted, JobTypes, Employed, Decided, monitor
  <2>4. CountsItsJobs'
    BY <1>2, SameJobs DEF MarkTask, MarkStarted, process, JobTypes
  <2>5. QED
    BY <2>1, <2>2, <2>3, <2>4
<1>3. ASSUME NEW j \in Jobs, Finish(j) PROVE IInv'
  <2>1. AgentTypes' /\ MonitorTypes' /\ RestTypes'
    BY <1>3, <1>a, <1>m, <1>f DEF Finish
  <2>2. on[j] \in Workers /\ pc[j] = "running"
    BY <1>3 DEF Finish, Employed
  <2>3. active[on[j]] > 0
    BY <2>2, CountIsPositive
  <2>4. active' = [active EXCEPT ![on[j]] = @ - 1]
    BY <1>3, <2>3 DEF Finish
  <2>5. ProcessTypes'
    BY <1>3, <2>2, <2>3, <2>4 DEF Finish, ProcessTypes
  <2>6. PICK a \in {"idle", "processing"} : ending' = [ending EXCEPT ![j] = a]
    BY <1>3 DEF Finish, Activity
  <2>7. JobTypes' /\ Employed' /\ Decided'
    BY <1>3, <2>2, <2>6 DEF Finish, JobTypes, Employed, Decided, monitor
  <2>8. CountsItsJobs'
    BY <1>3, <2>2, <2>4, OneLess DEF Finish, JobTypes
  <2>9. QED
    BY <2>1, <2>5, <2>7, <2>8
<1>4. ASSUME NEW j \in Jobs, Finished(j) PROVE IInv'
  <2>1. ProcessTypes' /\ MonitorTypes' /\ RestTypes'
    BY <1>4, <1>p, <1>m, <1>f DEF Finished
  <2>2. AgentTypes'
    BY <1>4, <1>t DEF Finished, Decided, JobTypes
  <2>3. JobTypes' /\ Employed' /\ Decided'
    BY <1>4, AgentAssumption DEF Finished, Leave, JobTypes, Employed, Decided, monitor
  <2>4. CountsItsJobs'
    BY <1>4, AgentAssumption, SameJobs DEF Finished, Leave, process, JobTypes
  <2>5. QED
    BY <2>1, <2>2, <2>3, <2>4
<1>5. ASSUME NEW j \in Jobs, StartThrows(j) PROVE IInv'
  <2>1. AgentTypes' /\ MonitorTypes' /\ RestTypes'
    BY <1>5, <1>a, <1>k, <1>m, <1>f DEF StartThrows
  <2>2. on[j] \in Workers
    BY <1>5 DEF StartThrows, Employed
  <2>3. ProcessTypes'
    BY <1>5, <2>2 DEF StartThrows, ProcessTypes
  <2>4. JobTypes' /\ Employed' /\ Decided'
    BY <1>5, AgentAssumption DEF StartThrows, Leave, JobTypes, Employed, Decided, monitor
  <2>5. CountsItsJobs'
    BY <1>5, <2>2, OneLess DEF StartThrows, Leave, JobTypes
  <2>6. QED
    BY <2>1, <2>3, <2>4, <2>5
<1>6. ASSUME NEW j \in Jobs, FinishThrows(j) PROVE IInv'
  <2>1. AgentTypes' /\ ProcessTypes' /\ MonitorTypes' /\ RestTypes'
    BY <1>6, <1>a, <1>t, <1>p, <1>m, <1>f DEF FinishThrows, Decided, JobTypes
  <2>2. JobTypes' /\ Employed' /\ Decided'
    BY <1>6, AgentAssumption DEF FinishThrows, Leave, JobTypes, Employed, Decided, monitor
  <2>3. CountsItsJobs'
    BY <1>6, AgentAssumption, SameJobs DEF FinishThrows, Leave, process, JobTypes
  <2>4. QED
    BY <2>1, <2>2, <2>3
\* Processes.
<1>7. ASSUME NEW w \in Workers,
             \/ Heartbeat(w) \/ HeartbeatWritten(w) \/ HeartbeatThrows(w)
             \/ Track(w) \/ Stop(w) \/ Boot(w)
      PROVE  IInv'
  <2>1. MonitorTypes' /\ JobTypes' /\ Employed' /\ Decided'
    BY <1>7, <1>m, <1>j DEF Heartbeat, HeartbeatWritten, HeartbeatThrows, Track, Stop, Boot
  <2>2. RestTypes'
    BY <1>7, <1>f DEF Heartbeat, HeartbeatWritten, HeartbeatThrows, Track, Stop, Boot
  <2>3. AgentTypes'
    BY <1>7, <1>a, <1>t
       DEF Heartbeat, HeartbeatWritten, HeartbeatThrows, Track, Stop, Boot, ProcessTypes
  <2>4. ProcessTypes'
    BY <1>7
       DEF Heartbeat, HeartbeatWritten, HeartbeatThrows, Track, Stop, Boot, ProcessTypes, Activity
  <2>5. CountsItsJobs'
    BY <1>7, <1>s DEF Heartbeat, HeartbeatWritten, HeartbeatThrows, Track, Stop, Boot
  <2>6. QED
    BY <2>1, <2>2, <2>3, <2>4, <2>5
<1>8. ASSUME NEW w \in Workers, Exit(w) PROVE IInv'
  <2>1. AgentTypes' /\ MonitorTypes' /\ RestTypes' /\ JobTypes' /\ Employed' /\ Decided'
    BY <1>8, <1>a, <1>m, <1>f, <1>j DEF Exit
  <2>2. ProcessTypes'
    BY <1>8 DEF Exit, Gone, ProcessTypes
  <2>3. CountsItsJobs'
    BY <1>8, GoneCounts DEF Exit, job
  <2>4. QED
    BY <2>1, <2>2, <2>3
<1>9. ASSUME NEW w \in Workers, Crash(w) PROVE IInv'
  <2>1. AgentTypes' /\ MonitorTypes' /\ RestTypes'
    BY <1>9, <1>a, <1>m, <1>f DEF Crash
  <2>2. ProcessTypes'
    BY <1>9 DEF Crash, Gone, ProcessTypes
  <2>3. JobTypes' /\ Employed' /\ Decided'
    BY <1>9, AgentAssumption DEF Crash, JobTypes, Employed, Decided, monitor
  <2>4. CountsItsJobs'
    BY <1>9, AgentAssumption, GoneCounts DEF Crash
  <2>5. QED
    BY <2>1, <2>2, <2>3, <2>4
\* Monitors, users and the clock.
<1>10. ASSUME NEW m \in Passes, Pass(m) PROVE IInv'
  <2>1. UNCHANGED <<process, job, live, stopped, faults, clicks>>
    BY <1>10 DEF Pass, Check, CheckFindsNone, Flag, Recheck, Revive
  <2>2. AgentTypes'
    BY <1>10
       DEF Pass, Check, CheckFindsNone, Flag, Recheck, Revive, agent, AgentTypes, Statuses,
           MonitorTypes, Decided
  <2>3. MonitorTypes' /\ \A n \in Passes : mpc'[n] = "revive" => revived'[n] # "none"
    BY <1>10
       DEF Pass, Check, CheckFindsNone, Flag, Recheck, Revive, NextPart, MonitorTypes, Decided
  <2>4. QED
    BY <2>1, <2>2, <2>3, <1>p, <1>j, <1>f, <1>s DEF process
<1>11. CASE Silence \/ EmergencyStop \/ Activate \/ GoLive \/ GoneLive
  <2>1. UNCHANGED <<process, job, monitor>>
    BY <1>11 DEF Silence, EmergencyStop, Activate, GoLive, GoneLive
  <2>2. AgentTypes'
    BY <1>11 DEF Silence, EmergencyStop, Activate, GoLive, GoneLive, agent, AgentTypes, Statuses
  <2>3. RestTypes'
    BY <1>11, <1>c, <1>f DEF Silence, EmergencyStop, Activate, GoLive, GoneLive, RestTypes
  <2>4. QED
    BY <2>1, <2>2, <2>3, <1>p, <1>j, <1>m, <1>s DEF process
<1>12. CASE UNCHANGED vars
  BY <1>12, <1>a, <1>p, <1>j, <1>m, <1>f, <1>s DEF vars, process
<1>13. QED
  BY <1>1, <1>2, <1>3, <1>4, <1>5, <1>6, <1>7, <1>8, <1>9, <1>10, <1>11, <1>12
     DEF Next, JobStep, JobThrows, WorkerStep, WorkerFails

-----------------------------------------------------------------------------
\* Every variable keeps its type: no write of a process, a monitor or a user puts
\* anything else into the agent's row.
THEOREM TypeCorrect == Spec => []TypeOK
<1>1. IInv => TypeOK
  BY TypeParts DEF IInv
<1>2. QED
  BY InitInv, StepInv, <1>1, PTL DEF Spec

\* activeJobsByTenant (base-worker.ts) is the number of the process's jobs under way
\* and of those whose start threw, however jobs start, end, fail and stall.
THEOREM JobsAreCounted == Spec => []CountsItsJobs
<1>1. IInv => CountsItsJobs
  BY DEF IInv
<1>2. QED
  BY InitInv, StepInv, <1>1, PTL DEF Spec
=============================================================================
