--------------------------- MODULE Webhook_proofs ---------------------------
(***************************************************************************)
(* Proofs about Webhook, for any events, endpoints, workers, limits and    *)
(* faults: how often a delivery is sent, that BullMQ's attempts and the    *)
(* row agree, what it takes to disable an endpoint, and that failures are  *)
(* counted exactly.                                                        *)
(*                                                                         *)
(* A job that loses its lock goes on being worked on, so several workers   *)
(* may hold the same delivery.  Requests are therefore counted, not tied   *)
(* to workers: a run of a job is an attempt that BullMQ has counted, or a  *)
(* stall, or the run of the worker with the lock, and each run sends at    *)
(* most one request, which it has sent or is about to send (Posted).  In   *)
(* the same way an endpoint's failure count and the workers that are about *)
(* to raise it are covered by the failed attempts, each of which counts    *)
(* once, and once more if a database call threw (Counted).                 *)
(***************************************************************************)
EXTENDS Webhook, FiniteSetTheorems, TLAPS

-----------------------------------------------------------------------------
(* The inductive invariant. *)

LoopTypes ==
  /\ topic \subseteq Events
  /\ batch \subseteq Events
  /\ event \in Events \cup {NoOne}
  /\ targets \subseteq Endpoints
  /\ created \in Deliveries \cup {NoOne}
  /\ step \in LoopSteps

RowTypes ==
  /\ status \in [Endpoints -> Statuses]
  /\ count \in [Endpoints -> Nat]
  /\ row \in [Deliveries -> RowStatuses]

JobTypes ==
  /\ job \in [Deliveries -> JobStates]
  /\ made \in [Deliveries -> Nat]
  /\ stalls \in [Deliveries -> Nat]
  /\ lock \in [Deliveries -> Workers \cup {NoOne}]

WorkerTypes ==
  /\ pc \in [Workers -> WorkerSteps]
  /\ delivery \in [Workers -> Deliveries \cup {NoOne}]
  /\ try \in [Workers -> Nat \ {0}]
  /\ why \in [Workers -> Reasons]

HistoryTypes ==
  /\ posts \in [Deliveries -> Nat]
  /\ accepted \subseteq Deliveries
  /\ rejected \subseteq Deliveries
  /\ failures \in [Endpoints -> Nat]
  /\ faults \in Nat

\* The loop has in hand what it is going to write.
Dispatching ==
  /\ step \in {"fan", "add", "mark"} => event \in Events
  /\ step \in {"add", "mark"} => created \in Deliveries

Busy(w) == pc[w] # "idle"

\* A worker that is not idle works on a delivery.
Employed == \A w \in Workers : Busy(w) => delivery[w] \in Deliveries

Types ==
  /\ LoopTypes /\ RowTypes /\ JobTypes /\ WorkerTypes /\ HistoryTypes
  /\ Dispatching /\ Employed

\* What is still to be dispatched has no job: an event is dispatched once.
Undispatched ==
  /\ topic \cap batch = {}
  /\ event \notin topic \cup batch
  /\ \A v \in topic \cup batch, e \in Endpoints : job[<<v, e>>] = "none"
  /\ event \in Events => \A e \in targets : job[<<event, e>>] = "none"
  /\ step = "add" => job[created] = "none"
  /\ step \in {"add", "mark"} => created[1] = event /\ created[2] \notin targets

\* A locked job is active, with a worker that works on it.
Locking ==
  \A d \in Deliveries :
    /\ job[d] = "active" <=> lock[d] # NoOne
    /\ lock[d] # NoOne => Busy(lock[d]) /\ delivery[lock[d]] = d

\* A job that will run, or runs, has attempts left.
Attempts ==
  \A d \in Deliveries :
    /\ made[d] <= MaxTries
    /\ job[d] \in {"none", "waiting", "active"} => made[d] < MaxTries

\* The workers about to post d: one with the lock, others that have lost it.
Posting(d) == {w \in Workers : At(w, "post") /\ delivery[w] = d}

\* How often d was taken by a worker.
Runs(d) == made[d] + stalls[d] + (IF job[d] = "active" THEN 1 ELSE 0)

Posted ==
  \A d \in Deliveries :
    IsFiniteSet(Posting(d)) /\ posts[d] + Cardinality(Posting(d)) <= Runs(d)

\* The workers that still have to count a failure of e.
Counting(e) == {w \in Workers : pc[w] \in {"row", "count"} /\ Target(delivery[w]) = e}

Counted ==
  /\ \A e \in Endpoints :
       /\ IsFiniteSet(Counting(e))
       /\ count[e] + Cardinality(Counting(e)) <= failures[e] + faults
  /\ \A w \in Workers :
       At(w, "disable") => failures[Target(delivery[w])] + faults >= Threshold

\* Worker w still has its lock, and the row says what it has seen.
Agrees(w) ==
  /\ lock[delivery[w]] = w
  /\ try[w] = made[delivery[w]] + 1
  /\ delivery[w] \notin rejected =>
       /\ pc[w] \in {"row", "count", "disable"} => why[w] # "rejected"
       /\ pc[w] \in {"count", "disable", "threw"} =>
            row[delivery[w]] = IF IsLastAttempt(w) THEN "failed" ELSE "retrying"
       /\ pc[w] \in {"reset", "done"} => row[delivery[w]] = "success"

Agreeing ==
  /\ step # "mark"
  /\ step = "add" => row[created] = "pending"
  /\ \A w \in Workers : Busy(w) => Agrees(w)

\* So it is as long as there are no faults.
RowsAgree == RetriesAgree /\ (faults = 0 => Agreeing)

IInv == Types /\ Undispatched /\ Locking /\ Attempts /\ Posted /\ Counted /\ RowsAgree

-----------------------------------------------------------------------------
(* Types. *)

LEMMA InitTypes == Init => Types
BY WebhookAssumption
   DEF Init, Types, LoopTypes, RowTypes, JobTypes, WorkerTypes, HistoryTypes, Dispatching, Employed,
       Busy, LoopSteps, Statuses, RowStatuses, JobStates, WorkerSteps, Reasons

LEMMA TypesTypeOK == Types => TypeOK
BY DEF Types, LoopTypes, RowTypes, JobTypes, WorkerTypes, HistoryTypes, TypeOK

\* What a worker works on, when it is not idle.
LEMMA InHand ==
  ASSUME Types, NEW w \in Workers, pc[w] # "idle"
  PROVE  /\ delivery[w] \in Deliveries
         /\ Target(delivery[w]) \in Endpoints
BY DEF Types, Employed, Busy, Deliveries, Target

LEMMA FailTypes ==
  ASSUME Types, NEW w \in Workers, pc[w] # "idle", NEW reason \in Reasons, Fail(w, reason),
         UNCHANGED <<delivery, try>>
  PROVE  WorkerTypes' /\ Employed' /\ failures' \in [Endpoints -> Nat]
<1>1. WorkerTypes'
  BY DEF Fail, Goto, Types, WorkerTypes, WorkerSteps
<1>2. Employed'
  BY DEF Fail, Goto, Types, WorkerTypes, Employed, Busy
<1>3. failures' \in [Endpoints -> Nat]
  BY InHand DEF Fail, Types, HistoryTypes
<1>4. QED
  BY <1>1, <1>2, <1>3

\* A worker goes on with its delivery.
LEMMA GoTypes ==
  ASSUME Types, NEW w \in Workers, pc[w] # "idle", NEW s \in WorkerSteps, Goto(w, s),
         UNCHANGED <<delivery, try, why>>
  PROVE  WorkerTypes' /\ Employed'
BY DEF Goto, Types, WorkerTypes, Employed, Busy

LEMMA LeaveTypes ==
  ASSUME Types, NEW w \in Workers, Leave(w)
  PROVE  WorkerTypes' /\ Employed'
<1>1. WorkerTypes'
  BY DEF Leave, Goto, Types, WorkerTypes, WorkerSteps, Reasons
<1>2. Employed'
  BY DEF Leave, Goto, Types, WorkerTypes, Employed, Busy
<1>3. QED
  BY <1>1, <1>2

LEMMA StepTypes == Types /\ [Next]_vars => Types'
<1> SUFFICES ASSUME Types, [Next]_vars PROVE Types'
  OBVIOUS
<1> USE DEF Types
<1>l. ASSUME UNCHANGED loopVars PROVE LoopTypes' /\ Dispatching'
  BY <1>l DEF loopVars, LoopTypes, Dispatching
<1>r. ASSUME UNCHANGED <<status, count, row>> PROVE RowTypes'
  BY <1>r DEF RowTypes
<1>j. ASSUME UNCHANGED jobVars PROVE JobTypes'
  BY <1>j DEF jobVars, JobTypes
<1>w. ASSUME UNCHANGED workerVars PROVE WorkerTypes' /\ Employed'
  BY <1>w DEF workerVars, WorkerTypes, Employed, Busy
<1>f. ASSUME UNCHANGED faults \/ Fault PROVE faults' \in Nat
  BY <1>f DEF Fault, HistoryTypes
<1>h. ASSUME UNCHANGED history, UNCHANGED faults \/ Fault PROVE HistoryTypes'
  BY <1>h, <1>f DEF history, HistoryTypes
<1>1. ASSUME Poll \/ SelectEndpoints \/ NextEvent \/ DropBatch \/ InsertFails PROVE Types'
  <2>1. RowTypes' /\ JobTypes' /\ WorkerTypes' /\ Employed' /\ HistoryTypes'
    BY <1>1, <1>r, <1>j, <1>w, <1>h DEF Poll, SelectEndpoints, NextEvent, DropBatch, InsertFails
  <2>2. LoopTypes'
    BY <1>1 DEF Poll, SelectEndpoints, NextEvent, DropBatch, InsertFails, LoopTypes, LoopSteps
  <2>3. Dispatching'
    BY <1>1 DEF Poll, SelectEndpoints, NextEvent, DropBatch, InsertFails, LoopTypes, Dispatching
  <2>4. QED
    BY <2>1, <2>2, <2>3
<1>2. ASSUME Insert PROVE Types'
  <2>1. JobTypes' /\ WorkerTypes' /\ Employed' /\ HistoryTypes'
    BY <1>2, <1>j, <1>w, <1>h DEF Insert
  <2>2. PICK e \in targets : /\ targets' = targets \ {e}
                             /\ created' = <<event, e>>
                             /\ row' = [row EXCEPT ![<<event, e>>] = "pending"]
    BY <1>2 DEF Insert
  <2>3. <<event, e>> \in Deliveries /\ event \in Events
    BY <1>2 DEF Insert, Dispatching, LoopTypes, Deliveries
  <2>4. LoopTypes' /\ Dispatching'
    BY <1>2, <2>2, <2>3 DEF Insert, LoopTypes, LoopSteps, Dispatching
  <2>5. RowTypes'
    BY <1>2, <2>2 DEF Insert, RowTypes, RowStatuses
  <2>6. QED
    BY <2>1, <2>4, <2>5
<1>3. ASSUME Add \/ MarkDeliveryAsFailed \/ PublishFails PROVE Types'
  <2>1. WorkerTypes' /\ Employed' /\ HistoryTypes'
    BY <1>3, <1>w, <1>h DEF Add, MarkDeliveryAsFailed, PublishFails
  <2>2. LoopTypes' /\ Dispatching'
    BY <1>3 DEF Add, MarkDeliveryAsFailed, PublishFails, LoopTypes, LoopSteps, Dispatching
  <2>3. job' \in [Deliveries -> JobStates] /\ UNCHANGED <<made, stalls, lock>>
    BY <1>3 DEF Add, MarkDeliveryAsFailed, PublishFails, JobTypes, JobStates, jobVars
  <2>4. JobTypes'
    BY <2>3 DEF JobTypes
  <2>5. RowTypes'
    BY <1>3 DEF Add, MarkDeliveryAsFailed, PublishFails, RowTypes, RowStatuses
  <2>6. QED
    BY <2>1, <2>2, <2>4, <2>5
<1>4. ASSUME NEW w \in Workers, Take(w) PROVE Types'
  <2>1. LoopTypes' /\ Dispatching' /\ RowTypes' /\ HistoryTypes'
    BY <1>4, <1>l, <1>r, <1>h DEF Take
  <2>2. PICK d \in Deliveries : /\ job' = [job EXCEPT ![d] = "active"]
                                /\ lock' = [lock EXCEPT ![d] = w]
                                /\ delivery' = [delivery EXCEPT ![w] = d]
                                /\ try' = [try EXCEPT ![w] = made[d] + 1]
    BY <1>4 DEF Take
  <2>3. UNCHANGED <<made, stalls, why>> /\ pc' = [pc EXCEPT ![w] = "post"]
    BY <1>4 DEF Take, Goto
  <2>4. JobTypes'
    BY <2>2, <2>3 DEF JobTypes, JobStates
  <2>5. WorkerTypes'
    BY <2>2, <2>3 DEF WorkerTypes, WorkerSteps, JobTypes
  <2>6. Employed'
    BY <2>2, <2>3 DEF Employed, Busy, WorkerTypes
  <2>7. QED
    BY <2>1, <2>4, <2>5, <2>6
<1>5. ASSUME NEW w \in Workers, Reject(w) \/ Post(w) \/ SuccessThrows(w) PROVE Types'
  <2>1. LoopTypes' /\ Dispatching' /\ RowTypes' /\ JobTypes' /\ faults' \in Nat
    BY <1>5, <1>l, <1>r, <1>j, <1>f DEF Reject, Post, SuccessThrows
  <2>2. pc[w] # "idle" /\ delivery[w] \in Deliveries
    BY <1>5, InHand DEF Reject, Post, SuccessThrows, At
  <2>3. accepted' \subseteq Deliveries /\ rejected' \subseteq Deliveries
    BY <1>5, <2>2 DEF Reject, Post, SuccessThrows, HistoryTypes
  <2>4. posts' \in [Deliveries -> Nat]
    BY <1>5, <2>2 DEF Reject, Post, SuccessThrows, HistoryTypes
  <2>5. \/ \E reason \in Reasons : Fail(w, reason)
        \/ Goto(w, "success") /\ UNCHANGED <<why, failures>>
    BY <1>5 DEF Reject, Post, SuccessThrows, Reasons
  <2>6. WorkerTypes' /\ Employed' /\ failures' \in [Endpoints -> Nat]
    <3>1. UNCHANGED <<delivery, try>>
      BY <1>5 DEF Reject, Post, SuccessThrows
    <3>2. QED
      BY <2>2, <2>5, <3>1, FailTypes, GoTypes DEF HistoryTypes, WorkerSteps
  <2>7. QED
    BY <2>1, <2>3, <2>4, <2>6 DEF HistoryTypes
<1>6. ASSUME NEW w \in Workers,
             RecordSuccess(w) \/ RecordFailure(w) \/ ResetFailureCount(w) \/ CountFailure(w) \/ Disable(w)
      PROVE  Types'
  <2>1. LoopTypes' /\ Dispatching' /\ JobTypes' /\ HistoryTypes'
    BY <1>6, <1>l, <1>j, <1>h
       DEF RecordSuccess, RecordFailure, ResetFailureCount, CountFailure, Disable
  <2>2. pc[w] # "idle" /\ delivery[w] \in Deliveries /\ Target(delivery[w]) \in Endpoints
    BY <1>6, InHand DEF RecordSuccess, RecordFailure, ResetFailureCount, CountFailure, Disable, At
  <2>3. RowTypes'
    BY <1>6, <2>2 DEF RecordSuccess, RecordFailure, ResetFailureCount, CountFailure, Disable, RowTypes,
       Statuses, RowStatuses
  <2>4. WorkerTypes' /\ Employed'
    BY <1>6, <2>2, GoTypes
       DEF RecordSuccess, RecordFailure, ResetFailureCount, CountFailure, Disable, AfterFailure, WorkerSteps
  <2>5. QED
    BY <2>1, <2>3, <2>4
<1>7. ASSUME NEW w \in Workers, FailureThrows(w) PROVE Types'
  <2>1. LoopTypes' /\ Dispatching' /\ JobTypes' /\ RowTypes' /\ HistoryTypes'
    BY <1>7, <1>l, <1>j, <1>r, <1>h DEF FailureThrows
  <2>2. WorkerTypes' /\ Employed'
    BY <1>7 DEF FailureThrows, Goto, WorkerTypes, WorkerSteps, Reasons, Employed, Busy
  <2>3. QED
    BY <2>1, <2>2
<1>8. ASSUME NEW w \in Workers, Finish(w) \/ Stall(w) PROVE Types'
  <2>1. LoopTypes' /\ Dispatching' /\ RowTypes' /\ HistoryTypes'
    BY <1>8, <1>l, <1>r, <1>h DEF Finish, Stall
  <2>2. pc[w] # "idle" /\ delivery[w] \in Deliveries
    BY <1>8, InHand DEF Finish, Stall, At
  <2>3. JobTypes'
    BY <1>8, <2>2 DEF Finish, Stall, JobTypes, JobStates, AfterThrow
  <2>4. WorkerTypes' /\ Employed'
    BY <1>8, <1>w, LeaveTypes DEF Finish, Stall
  <2>5. QED
    BY <2>1, <2>3, <2>4
<1>9. ASSUME NEW e \in Endpoints, Patch(e) PROVE Types'
  <2>1. LoopTypes' /\ Dispatching' /\ JobTypes' /\ WorkerTypes' /\ Employed' /\ HistoryTypes'
    BY <1>9, <1>l, <1>j, <1>w, <1>h DEF Patch
  <2>2. RowTypes'
    BY <1>9 DEF Patch, RowTypes, Statuses
  <2>3. QED
    BY <2>1, <2>2
<1>10. CASE UNCHANGED vars
  BY <1>10, <1>l, <1>r, <1>j, <1>w, <1>h DEF vars
<1>11. QED
  BY <1>1, <1>2, <1>3, <1>4, <1>5, <1>6, <1>7, <1>8, <1>9, <1>10
     DEF Next, LoopStep, WorkerStep, Trouble

-----------------------------------------------------------------------------
(* Jobs. *)

\* A step of the loop publishes the delivery that it has created, or no job at all.
LEMMA LoopJobs ==
  ASSUME IInv, LoopStep \/ DropBatch \/ InsertFails \/ PublishFails
  PROVE  /\ UNCHANGED <<status, count, made, stalls, lock, workerVars, history>>
         /\ \/ UNCHANGED job
            \/ /\ step = "add" /\ created \in Deliveries /\ job[created] = "none"
               /\ job' = [job EXCEPT ![created] = "waiting"]
         /\ UNCHANGED faults \/ Fault
<1> USE DEF IInv, Types, Dispatching, Undispatched
<1>1. CASE Poll \/ SelectEndpoints \/ Insert \/ MarkDeliveryAsFailed \/ NextEvent
  BY <1>1 DEF Poll, SelectEndpoints, Insert, MarkDeliveryAsFailed, NextEvent, jobVars
<1>2. CASE DropBatch \/ InsertFails
  BY <1>2 DEF DropBatch, InsertFails, jobVars
<1>3. CASE Add \/ PublishFails
  BY <1>3 DEF Add, PublishFails
<1>4. QED
  BY <1>1, <1>2, <1>3 DEF LoopStep

LEMMA LoopUndispatched ==
  ASSUME IInv, LoopStep \/ DropBatch \/ InsertFails \/ PublishFails
  PROVE  Undispatched'
<1> USE DEF IInv, Types, LoopTypes, JobTypes, Dispatching, Undispatched
<1>1. CASE Poll
  BY <1>1 DEF Poll, jobVars
<1>2. CASE SelectEndpoints
  BY <1>2 DEF SelectEndpoints, jobVars
<1>3. CASE Insert
  BY <1>3 DEF Insert, jobVars
<1>4. CASE MarkDeliveryAsFailed \/ NextEvent
  BY <1>4, WebhookAssumption DEF MarkDeliveryAsFailed, NextEvent, jobVars
<1>5. CASE DropBatch \/ InsertFails
  BY <1>5, WebhookAssumption DEF DropBatch, InsertFails, jobVars
<1>6. CASE Add \/ PublishFails
  <2>1. UNCHANGED <<topic, batch, event, targets>> /\ step' # "add"
    BY <1>6 DEF Add, PublishFails
  <2>2. step' \in {"add", "mark"} => step = "add" /\ UNCHANGED created
    BY <1>6 DEF Add, PublishFails
  <2>3. ASSUME NEW v \in Events, NEW e \in Endpoints, job[<<v, e>>] = "none", v = event => e \in targets,
               v # event => v \in topic \cup batch
        PROVE  job'[<<v, e>>] = "none"
    <3>1. CASE UNCHANGED job
      BY <2>3, <3>1
    <3>2. CASE job' = [job EXCEPT ![created] = "waiting"] /\ step = "add"
      <4>1. created # <<v, e>>
        BY <2>3, <3>2
      <4>2. QED
        BY <2>3, <3>2, <4>1 DEF Deliveries
    <3>3. QED
      BY <1>6, <3>1, <3>2, LoopJobs DEF LoopStep
  <2>4. \A v \in topic \cup batch, e \in Endpoints : job'[<<v, e>>] = "none"
    BY <2>3
  <2>5. event \in Events => \A e \in targets : job'[<<event, e>>] = "none"
    BY <2>3
  <2>6. QED
    BY <2>1, <2>2, <2>4, <2>5
<1>7. QED
  BY <1>1, <1>2, <1>3, <1>4, <1>5, <1>6 DEF LoopStep

\* Publishing a delivery, or nothing, locks no job and takes no attempt.
LEMMA LoopLocking ==
  ASSUME IInv, LoopStep \/ DropBatch \/ InsertFails \/ PublishFails
  PROVE  Locking' /\ Attempts'
<1>1. UNCHANGED <<made, lock, pc, delivery>>
  BY LoopJobs DEF workerVars
<1>2. ASSUME NEW d \in Deliveries 
      PROVE  job'[d] = job[d] \/ (job[d] = "none" /\ job'[d] = "waiting")
  <2>1. CASE UNCHANGED job
    BY <2>1
  <2>2. CASE job[created] = "none" /\ job' = [job EXCEPT ![created] = "waiting"]
    BY <2>2 DEF IInv, Types, JobTypes
  <2>3. QED
    BY <2>1, <2>2, LoopJobs
<1>3. QED
  BY <1>1, <1>2 DEF IInv, Locking, Attempts, Busy

\* Only the loop writes what is to be dispatched, and workers create no job.
LEMMA WorkerUndispatched ==
  ASSUME IInv, UNCHANGED loopVars, \A d \in Deliveries : job[d] = "none" => job'[d] = "none"
  PROVE  Undispatched'
<1> USE DEF IInv, Types, LoopTypes, Dispatching, Undispatched, loopVars
<1>1. \A v \in topic \cup batch, e \in Endpoints : job'[<<v, e>>] = "none"
  BY DEF Deliveries
<1>2. event \in Events => \A e \in targets : job'[<<event, e>>] = "none"
  BY DEF Deliveries
<1>3. step = "add" => job'[created] = "none"
  OBVIOUS
<1>4. QED
  BY <1>1, <1>2, <1>3

\* The job that w has locked ends, waits again or is given up.
LEMMA UnlockedJob ==
  ASSUME IInv, NEW w \in Workers, pc[w] # "idle", lock[delivery[w]] = w, UNCHANGED loopVars,
         NEW s \in {"waiting", "completed", "failed"},
         job' = [job EXCEPT ![delivery[w]] = s],
         lock' = [lock EXCEPT ![delivery[w]] = NoOne],
         \/ /\ s = "waiting" => made[delivery[w]] + 1 < MaxTries
            /\ made' = [made EXCEPT ![delivery[w]] = @ + 1]
         \/ UNCHANGED made,
         Leave(w) \/ UNCHANGED workerVars
  PROVE  Undispatched' /\ Locking' /\ Attempts'
<1> DEFINE d == delivery[w]
<1>1. d \in Deliveries /\ NoOne \notin Workers
  BY InHand, WebhookAssumption DEF IInv
<1>2. job[d] = "active"
  BY <1>1 DEF IInv, Locking
<1>3. made[d] \in Nat /\ made[d] < MaxTries /\ MaxTries \in Nat
  BY <1>1, <1>2, WebhookAssumption DEF IInv, Types, JobTypes, Attempts
<1> HIDE DEF d
<1>4. Undispatched'
  BY <1>1, <1>2, WorkerUndispatched DEF IInv, Types, JobTypes, d
<1>5. Locking'
  <2> SUFFICES ASSUME NEW c \in Deliveries
               PROVE  /\ job'[c] = "active" <=> lock'[c] # NoOne
                      /\ lock'[c] # NoOne => pc'[lock'[c]] # "idle" /\ delivery'[lock'[c]] = c
    BY DEF Locking, Busy
  <2>1. CASE c = d
    BY <1>1, <2>1 DEF IInv, Types, JobTypes, d
  <2>2. CASE c # d
    <3>1. job'[c] = job[c] /\ lock'[c] = lock[c]
      BY <2>2 DEF d, IInv, Types, JobTypes
    <3>2. /\ job[c] = "active" <=> lock[c] # NoOne
          /\ lock[c] # NoOne => pc[lock[c]] # "idle" /\ delivery[lock[c]] = c /\ lock[c] # w
      BY <2>2 DEF IInv, Locking, Busy, d
    <3>3. lock[c] # NoOne => lock[c] \in Workers
      BY DEF IInv, Types, JobTypes
    <3>4. ASSUME lock[c] # NoOne PROVE pc'[lock[c]] = pc[lock[c]] /\ delivery'[lock[c]] = delivery[lock[c]]
      BY <3>2, <3>3, <3>4 DEF Leave, Goto, workerVars, IInv, Types, WorkerTypes
    <3>5. QED
      BY <3>1, <3>2, <3>4
  <2>3. QED
    BY <2>1, <2>2
<1>6. Attempts'
  <2> SUFFICES ASSUME NEW c \in Deliveries
               PROVE  /\ made'[c] <= MaxTries
                      /\ job'[c] \in {"none", "waiting", "active"} => made'[c] < MaxTries
    BY DEF Attempts
  <2>1. CASE c = d
    <3>1. job'[c] = s
      BY <1>1, <2>1 DEF IInv, Types, JobTypes, d
    <3>2. \/ made'[c] = made[d] + 1 /\ (s = "waiting" => made[d] + 1 < MaxTries)
          \/ made'[c] = made[d]
      BY <1>1, <2>1 DEF IInv, Types, JobTypes, d
    <3>3. QED
      BY <1>3, <3>1, <3>2
  <2>2. CASE c # d
    <3>1. job'[c] = job[c] /\ made'[c] = made[c]
      BY <2>2 DEF IInv, Types, JobTypes, d
    <3>2. QED
      BY <3>1 DEF IInv, Attempts
  <2>3. QED
    BY <2>1, <2>2
<1>7. QED
  BY <1>4, <1>5, <1>6

LEMMA FinishJobs ==
  ASSUME IInv, NEW w \in Workers, Finish(w)
  PROVE  Undispatched' /\ Locking' /\ Attempts'
<1>1. pc[w] # "idle" /\ UNCHANGED loopVars /\ Leave(w)
  BY DEF Finish
<1>2. delivery[w] \in Deliveries /\ made[delivery[w]] \in Nat /\ MaxTries \in Nat
  BY <1>1, InHand, WebhookAssumption DEF IInv, Types, JobTypes
<1>3. CASE lock[delivery[w]] = w
  <2>1. PICK s \in {"waiting", "completed", "failed"} :
          /\ job' = [job EXCEPT ![delivery[w]] = s]
          /\ s = "waiting" => ~(made[delivery[w]] + 1 >= MaxTries)
    BY <1>3 DEF Finish, AfterThrow
  <2>2. /\ lock' = [lock EXCEPT ![delivery[w]] = NoOne]
        /\ made' = [made EXCEPT ![delivery[w]] = @ + 1]
    BY <1>3 DEF Finish
  <2>3. s = "waiting" => made[delivery[w]] + 1 < MaxTries
    BY <1>2, <2>1
  <2>4. QED
    BY <1>1, <1>3, <2>1, <2>2, <2>3, UnlockedJob
<1>4. CASE lock[delivery[w]] # w
  <2>1. UNCHANGED <<job, made, lock>>
    BY <1>4 DEF Finish
  <2>2. Undispatched' /\ Attempts'
    BY <1>1, <2>1, WorkerUndispatched DEF IInv, Attempts
  <2>3. ASSUME NEW d \in Deliveries, lock[d] # NoOne
        PROVE  pc'[lock[d]] # "idle" /\ delivery'[lock[d]] = d
    <3>1. lock[d] \in Workers /\ pc[lock[d]] # "idle" /\ delivery[lock[d]] = d /\ lock[d] # w
      BY <1>4, <2>3 DEF IInv, Types, JobTypes, Locking, Busy
    <3>2. QED
      BY <1>1, <3>1 DEF Leave, Goto, IInv, Types, WorkerTypes
  <2>4. Locking'
    BY <2>1, <2>3 DEF IInv, Locking, Busy
  <2>5. QED
    BY <2>2, <2>4
<1>5. QED
  BY <1>3, <1>4

LEMMA TakeJobs ==
  ASSUME IInv, NEW w \in Workers, Take(w)
  PROVE  Undispatched' /\ Locking' /\ Attempts'
<1>1. PICK d \in Deliveries : /\ job[d] = "waiting"
                              /\ job' = [job EXCEPT ![d] = "active"]
                              /\ lock' = [lock EXCEPT ![d] = w]
                              /\ delivery' = [delivery EXCEPT ![w] = d]
  BY DEF Take
<1>2. /\ pc[w] = "idle" /\ pc' = [pc EXCEPT ![w] = "post"]
      /\ UNCHANGED <<loopVars, made>>
  BY DEF Take, At, Goto
<1>3. NoOne \notin Workers
  BY WebhookAssumption
<1>4. Undispatched'
  BY <1>1, <1>2, WorkerUndispatched DEF IInv, Types, JobTypes
<1>5. Locking'
  <2> SUFFICES ASSUME NEW c \in Deliveries
               PROVE  /\ job'[c] = "active" <=> lock'[c] # NoOne
                      /\ lock'[c] # NoOne => pc'[lock'[c]] # "idle" /\ delivery'[lock'[c]] = c
    BY DEF Locking, Busy
  <2>1. CASE c = d
    BY <1>1, <1>2, <1>3, <2>1 DEF IInv, Types, JobTypes, WorkerTypes
  <2>2. CASE c # d
    <3>1. job'[c] = job[c] /\ lock'[c] = lock[c]
      BY <1>1, <2>2 DEF IInv, Types, JobTypes
    <3>2. /\ job[c] = "active" <=> lock[c] # NoOne
          /\ lock[c] # NoOne => lock[c] \in Workers /\ pc[lock[c]] # "idle" /\ delivery[lock[c]] = c
      BY DEF IInv, Types, JobTypes, Locking, Busy
    <3>3. lock[c] # w
      BY <1>2, <1>3, <3>2
    <3>4. QED
      BY <1>1, <1>2, <3>1, <3>2, <3>3 DEF IInv, Types, WorkerTypes
  <2>3. QED
    BY <2>1, <2>2
<1>6. Attempts'
  BY <1>1, <1>2 DEF IInv, Types, JobTypes, Attempts
<1>7. QED
  BY <1>4, <1>5, <1>6

\* A worker that stays with its delivery.
LEMMA StayJobs ==
  ASSUME IInv, UNCHANGED <<loopVars, jobVars, delivery>>,
         \A w \in Workers : pc[w] # "idle" => pc'[w] # "idle"
  PROVE  Undispatched' /\ Locking' /\ Attempts'
<1>1. Undispatched' /\ Attempts'
  BY WorkerUndispatched DEF jobVars, IInv, Attempts
<1>2. Locking'
  BY DEF jobVars, IInv, Types, JobTypes, Locking, Busy
<1>3. QED
  BY <1>1, <1>2

LEMMA StepJobs == IInv /\ [Next]_vars => Undispatched' /\ Locking' /\ Attempts'
<1> SUFFICES ASSUME IInv, [Next]_vars PROVE Undispatched' /\ Locking' /\ Attempts'
  OBVIOUS
<1>1. CASE LoopStep \/ DropBatch \/ InsertFails \/ PublishFails
  BY <1>1, LoopUndispatched, LoopLocking
<1>2. ASSUME NEW w \in Workers,
             \/ Reject(w) \/ Post(w) \/ RecordSuccess(w) \/ ResetFailureCount(w) \/ SuccessThrows(w)
             \/ RecordFailure(w) \/ CountFailure(w) \/ Disable(w) \/ FailureThrows(w)
      PROVE  Undispatched' /\ Locking' /\ Attempts'
  <2>1. UNCHANGED <<loopVars, jobVars, delivery>>
    BY <1>2 DEF Reject, Post, RecordSuccess, ResetFailureCount, SuccessThrows, RecordFailure,
       CountFailure, Disable, FailureThrows
  <2>2. PICK s \in WorkerSteps \ {"idle"} : pc' = [pc EXCEPT ![w] = s]
    BY <1>2 DEF Reject, Post, RecordSuccess, ResetFailureCount, SuccessThrows, RecordFailure,
       CountFailure, Disable, FailureThrows, Fail, Goto, AfterFailure, WorkerSteps
  <2>3. QED
    BY <2>1, <2>2, StayJobs DEF IInv, Types, WorkerTypes
<1>3. ASSUME NEW w \in Workers, Stall(w) PROVE Undispatched' /\ Locking' /\ Attempts'
  <2>1. PICK s \in {"waiting", "failed"} : job' = [job EXCEPT ![delivery[w]] = s]
    BY <1>3 DEF Stall
  <2>2. /\ pc[w] # "idle" /\ lock[delivery[w]] = w
        /\ lock' = [lock EXCEPT ![delivery[w]] = NoOne]
        /\ UNCHANGED <<loopVars, made>>
        /\ Leave(w) \/ UNCHANGED workerVars
    BY <1>3 DEF Stall, At
  <2>3. QED
    BY <2>1, <2>2, UnlockedJob
<1>4. ASSUME NEW w \in Workers, Take(w) \/ Finish(w) PROVE Undispatched' /\ Locking' /\ Attempts'
  BY <1>4, TakeJobs, FinishJobs
<1>5. ASSUME (\E e \in Endpoints : Patch(e)) \/ UNCHANGED vars
      PROVE  Undispatched' /\ Locking' /\ Attempts'
  BY <1>5, StayJobs DEF Patch, vars, workerVars
<1>6. QED
  BY <1>1, <1>2, <1>3, <1>4, <1>5 DEF Next, WorkerStep, Trouble

-----------------------------------------------------------------------------
(* Requests. *)

LEMMA RunsNat ==
  ASSUME Types, NEW d \in Deliveries
  PROVE  Runs(d) \in Nat
BY DEF Types, JobTypes, Runs

LEMMA RunsNatNext ==
  ASSUME Types', NEW d \in Deliveries
  PROVE  Runs(d)' \in Nat
BY DEF Types, JobTypes, Runs

\* Nobody else is about to send a request, and none is sent.
LEMMA FewerPosting ==
  ASSUME Types, Types', Posted, UNCHANGED posts,
         \A w \in Workers : pc'[w] = "post" => pc[w] = "post" /\ delivery'[w] = delivery[w],
         \A d \in Deliveries : Runs(d)' >= Runs(d)
  PROVE  Posted'
<1> SUFFICES ASSUME NEW d \in Deliveries
             PROVE  IsFiniteSet(Posting(d)') /\ posts[d] + Cardinality(Posting(d)') <= Runs(d)'
  BY DEF Posted
<1>1. Posting(d)' \subseteq Posting(d)
  BY DEF Posting, At
<1>2. IsFiniteSet(Posting(d)) /\ posts[d] + Cardinality(Posting(d)) <= Runs(d)
  BY DEF Posted
<1>3. /\ IsFiniteSet(Posting(d)')
      /\ Cardinality(Posting(d)') <= Cardinality(Posting(d))
      /\ Cardinality(Posting(d)) \in Nat /\ Cardinality(Posting(d)') \in Nat
  BY <1>1, <1>2, FS_Subset, FS_CardinalityType
<1>4. posts[d] \in Nat /\ Runs(d) \in Nat /\ Runs(d)' \in Nat
  BY RunsNat, RunsNatNext DEF Types, HistoryTypes
<1>5. QED
  BY <1>2, <1>3, <1>4

\* A worker takes a job: one more run, and one more request to send.
LEMMA TakePosted ==
  ASSUME IInv, Types', NEW w \in Workers, Take(w)
  PROVE  Posted'
<1>1. PICK c \in Deliveries : /\ job[c] = "waiting"
                              /\ job' = [job EXCEPT ![c] = "active"]
                              /\ delivery' = [delivery EXCEPT ![w] = c]
  BY DEF Take
<1>2. /\ pc[w] = "idle" /\ pc' = [pc EXCEPT ![w] = "post"]
      /\ UNCHANGED <<made, stalls, posts>>
  BY DEF Take, At, Goto, history
<1> SUFFICES ASSUME NEW d \in Deliveries
             PROVE  IsFiniteSet(Posting(d)') /\ posts[d] + Cardinality(Posting(d)') <= Runs(d)'
  BY <1>2 DEF Posted
<1>3. /\ IsFiniteSet(Posting(d)) /\ Cardinality(Posting(d)) \in Nat /\ w \notin Posting(d)
      /\ posts[d] + Cardinality(Posting(d)) <= Runs(d)
  BY <1>2, FS_CardinalityType DEF IInv, Posted, Posting, At
<1>4. posts[d] \in Nat /\ Runs(d) \in Nat
  BY RunsNat DEF IInv, Types, HistoryTypes
<1>5. CASE d = c
  <2>1. Posting(d)' = Posting(d) \cup {w}
    BY <1>1, <1>2, <1>5 DEF IInv, Types, WorkerTypes, Posting, At
  <2>2. IsFiniteSet(Posting(d)') /\ Cardinality(Posting(d)') = Cardinality(Posting(d)) + 1
    BY <1>3, <2>1, FS_AddElement
  <2>3. job'[d] = "active" /\ job[d] = "waiting"
    BY <1>1, <1>5 DEF IInv, Types, JobTypes
  <2>4. Runs(d)' = Runs(d) + 1
    BY <1>2, <2>3 DEF Runs, IInv, Types, JobTypes
  <2>5. QED
    BY <1>3, <1>4, <2>2, <2>4
<1>6. CASE d # c
  <2>1. Posting(d)' = Posting(d)
    BY <1>1, <1>2, <1>6 DEF IInv, Types, WorkerTypes, Posting, At
  <2>2. Runs(d)' = Runs(d)
    BY <1>1, <1>2, <1>6 DEF Runs, IInv, Types, JobTypes
  <2>3. QED
    BY <1>3, <2>1, <2>2
<1>7. QED
  BY <1>5, <1>6

\* A worker sends the request that it was about to send.
LEMMA PostPosted ==
  ASSUME IInv, Types', NEW w \in Workers, Post(w)
  PROVE  Posted'
<1>1. /\ pc[w] = "post"
      /\ posts' = [posts EXCEPT ![delivery[w]] = @ + 1]
      /\ UNCHANGED <<job, made, stalls, delivery>>
  BY DEF Post, At, jobVars
<1>2. PICK s \in {"success", "row"} : pc' = [pc EXCEPT ![w] = s]
  BY DEF Post, Fail, Goto
<1> SUFFICES ASSUME NEW d \in Deliveries
             PROVE  IsFiniteSet(Posting(d)') /\ posts'[d] + Cardinality(Posting(d)') <= Runs(d)
  BY <1>1 DEF Posted, Runs
<1>3. /\ IsFiniteSet(Posting(d)) /\ Cardinality(Posting(d)) \in Nat
      /\ posts[d] + Cardinality(Posting(d)) <= Runs(d)
  BY FS_CardinalityType DEF IInv, Posted
<1>4. posts[d] \in Nat /\ Runs(d) \in Nat
  BY RunsNat DEF IInv, Types, HistoryTypes
<1>5. Posting(d)' = Posting(d) \ {w}
  BY <1>1, <1>2 DEF IInv, Types, WorkerTypes, Posting, At
<1>6. /\ IsFiniteSet(Posting(d)')
      /\ Cardinality(Posting(d)') =
           IF w \in Posting(d) THEN Cardinality(Posting(d)) - 1 ELSE Cardinality(Posting(d))
  BY <1>3, <1>5, FS_RemoveElement
<1>7. CASE d = delivery[w]
  <2>1. w \in Posting(d)
    BY <1>1, <1>7 DEF Posting, At
  <2>2. posts'[d] = posts[d] + 1
    BY <1>1, <1>7 DEF IInv, Types, HistoryTypes
  <2>3. QED
    BY <1>3, <1>4, <1>6, <2>1, <2>2
<1>8. CASE d # delivery[w]
  <2>1. w \notin Posting(d)
    BY <1>8 DEF Posting
  <2>2. posts'[d] = posts[d]
    BY <1>1, <1>8 DEF IInv, Types, HistoryTypes
  <2>3. QED
    BY <1>3, <1>6, <2>1, <2>2
<1>9. QED
  BY <1>7, <1>8

\* The run of a job that ends counts as an attempt, or as a stall.
LEMMA EndedRun ==
  ASSUME IInv, NEW w \in Workers, pc[w] # "idle", lock[delivery[w]] = w,
         NEW s \in {"waiting", "completed", "failed"},
         job' = [job EXCEPT ![delivery[w]] = s],
         \/ made' = [made EXCEPT ![delivery[w]] = @ + 1] /\ UNCHANGED stalls
         \/ stalls' = [stalls EXCEPT ![delivery[w]] = @ + 1] /\ UNCHANGED made,
         NEW d \in Deliveries
  PROVE  Runs(d)' = Runs(d)
<1>1. CASE d = delivery[w]
  <2>1. job[d] = "active" /\ job'[d] # "active"
    BY <1>1, WebhookAssumption DEF IInv, Types, JobTypes, Locking
  <2>2. made'[d] + stalls'[d] = made[d] + stalls[d] + 1
    BY <1>1 DEF IInv, Types, JobTypes
  <2>3. made[d] \in Nat /\ stalls[d] \in Nat
    BY DEF IInv, Types, JobTypes
  <2>4. QED
    BY <2>1, <2>2, <2>3 DEF Runs
<1>2. CASE d # delivery[w]
  BY <1>2 DEF IInv, Types, JobTypes, Runs
<1>3. QED
  BY <1>1, <1>2

LEMMA StepPosted == IInv /\ Types' /\ [Next]_vars => Posted'
<1> SUFFICES ASSUME IInv, Types', [Next]_vars PROVE Posted'
  OBVIOUS
<1>t. Types /\ Posted
  BY DEF IInv
<1>s. ASSUME NEW d \in Deliveries, Runs(d)' = Runs(d) PROVE Runs(d)' >= Runs(d)
  BY <1>s, <1>t, RunsNat
<1>1. CASE LoopStep \/ DropBatch \/ InsertFails \/ PublishFails
  <2>1. UNCHANGED <<posts, pc, delivery, made, stalls>>
    BY <1>1, LoopJobs DEF workerVars, history
  <2>2. ASSUME NEW d \in Deliveries PROVE job'[d] = "active" <=> job[d] = "active"
    <3>1. CASE UNCHANGED job
      BY <3>1
    <3>2. CASE job[created] = "none" /\ job' = [job EXCEPT ![created] = "waiting"]
      BY <3>2 DEF IInv, Types, JobTypes
    <3>3. QED
      BY <1>1, <3>1, <3>2, LoopJobs
  <2>3. \A d \in Deliveries : Runs(d)' = Runs(d)
    BY <2>1, <2>2 DEF Runs
  <2>4. QED
    BY <1>t, <1>s, <2>1, <2>3, FewerPosting
<1>2. ASSUME NEW w \in Workers,
             \/ Reject(w) \/ RecordSuccess(w) \/ ResetFailureCount(w) \/ SuccessThrows(w)
             \/ RecordFailure(w) \/ CountFailure(w) \/ Disable(w) \/ FailureThrows(w)
      PROVE  Posted'
  <2>1. UNCHANGED <<posts, delivery, job, made, stalls>>
    BY <1>2 DEF Reject, RecordSuccess, ResetFailureCount, SuccessThrows, RecordFailure,
       CountFailure, Disable, FailureThrows, jobVars, history
  <2>2. PICK s \in WorkerSteps \ {"idle", "post"} : pc' = [pc EXCEPT ![w] = s]
    BY <1>2 DEF Reject, RecordSuccess, ResetFailureCount, SuccessThrows, RecordFailure,
       CountFailure, Disable, FailureThrows, Fail, Goto, AfterFailure, WorkerSteps
  <2>3. \A v \in Workers : pc'[v] = "post" => pc[v] = "post"
    BY <1>t, <2>2 DEF Types, WorkerTypes
  <2>4. \A d \in Deliveries : Runs(d)' = Runs(d)
    BY <2>1 DEF Runs
  <2>5. QED
    BY <1>t, <1>s, <2>1, <2>3, <2>4, FewerPosting
<1>3. ASSUME NEW w \in Workers, Take(w) \/ Post(w) PROVE Posted'
  BY <1>3, TakePosted, PostPosted
<1>4. ASSUME NEW w \in Workers, Finish(w) \/ Stall(w) PROVE Posted'
  <2>1. UNCHANGED posts /\ (Leave(w) \/ UNCHANGED workerVars)
    BY <1>4 DEF Finish, Stall, history
  <2>2. ASSUME NEW v \in Workers, pc'[v] = "post"
        PROVE  pc[v] = "post" /\ delivery'[v] = delivery[v]
    BY <1>t, <2>1, <2>2 DEF Leave, Goto, workerVars, Types, WorkerTypes
  <2>3. ASSUME NEW d \in Deliveries PROVE Runs(d)' = Runs(d)
    <3>1. CASE Stall(w)
      BY <3>1, EndedRun DEF Stall, At
    <3>2. CASE Finish(w) /\ lock[delivery[w]] = w
      <4>1. PICK s \in {"waiting", "completed", "failed"} : job' = [job EXCEPT ![delivery[w]] = s]
        BY <3>2 DEF Finish, AfterThrow
      <4>2. made' = [made EXCEPT ![delivery[w]] = @ + 1] /\ UNCHANGED stalls /\ pc[w] # "idle"
        BY <3>2 DEF Finish
      <4>3. QED
        BY <3>2, <4>1, <4>2, EndedRun
    <3>3. CASE Finish(w) /\ lock[delivery[w]] # w
      BY <3>3 DEF Finish, Runs
    <3>4. QED
      BY <1>4, <3>1, <3>2, <3>3
  <2>4. QED
    BY <1>t, <1>s, <2>1, <2>2, <2>3, FewerPosting
<1>5. ASSUME (\E e \in Endpoints : Patch(e)) \/ UNCHANGED vars PROVE Posted'
  <2>1. UNCHANGED <<posts, pc, delivery, job, made, stalls>>
    BY <1>5 DEF Patch, vars, workerVars, jobVars, history
  <2>2. \A d \in Deliveries : Runs(d)' = Runs(d)
    BY <2>1 DEF Runs
  <2>3. QED
    BY <1>t, <1>s, <2>1, <2>2, FewerPosting
<1>6. QED
  BY <1>1, <1>2, <1>3, <1>4, <1>5 DEF Next, WorkerStep, Trouble

-----------------------------------------------------------------------------
(* Failures. *)

\* What Counted says of one endpoint, and the numbers in it.
LEMMA CountingNat ==
  ASSUME Types, Counted, NEW e \in Endpoints
  PROVE  /\ IsFiniteSet(Counting(e)) /\ Cardinality(Counting(e)) \in Nat
         /\ count[e] + Cardinality(Counting(e)) <= failures[e] + faults
         /\ count[e] \in Nat /\ failures[e] \in Nat /\ faults \in Nat
BY FS_CardinalityType DEF Types, RowTypes, HistoryTypes, Counted

\* No worker has one more failure to count, and no count rises.
LEMMA FewerCounting ==
  ASSUME Types, Types', Counted, faults' >= faults,
         \A e \in Endpoints : count'[e] <= count[e] /\ failures'[e] >= failures[e],
         \A w \in Workers : pc'[w] \in {"row", "count"} =>
           pc[w] \in {"row", "count"} /\ delivery'[w] = delivery[w],
         \A w \in Workers : pc'[w] = "disable" =>
           pc[w] = "disable" /\ delivery'[w] = delivery[w]
  PROVE  Counted'
<1>1. ASSUME NEW e \in Endpoints
      PROVE  IsFiniteSet(Counting(e)') /\ count'[e] + Cardinality(Counting(e)') <= failures'[e] + faults'
  <2>1. Counting(e)' \subseteq Counting(e)
    BY DEF Counting
  <2>2. /\ IsFiniteSet(Counting(e)') /\ Cardinality(Counting(e)') \in Nat
        /\ Cardinality(Counting(e)') <= Cardinality(Counting(e))
    BY <2>1, CountingNat, FS_Subset, FS_CardinalityType
  <2>3. count'[e] \in Nat /\ failures'[e] \in Nat /\ faults' \in Nat
    BY DEF Types, RowTypes, HistoryTypes
  <2>4. QED
    BY <2>2, <2>3, CountingNat
<1>2. ASSUME NEW w \in Workers, pc'[w] = "disable"
      PROVE  failures'[Target(delivery'[w])] + faults' >= Threshold
  <2> DEFINE e == Target(delivery[w])
  <2>1. e \in Endpoints /\ failures[e] + faults >= Threshold
    BY <1>2, InHand DEF Counted, At
  <2>2. /\ failures[e] \in Nat /\ failures'[e] \in Nat /\ faults \in Nat /\ faults' \in Nat
        /\ Threshold \in Nat
    BY <2>1, WebhookAssumption DEF Types, HistoryTypes
  <2>3. delivery'[w] = delivery[w] /\ failures'[e] >= failures[e]
    BY <1>2, <2>1
  <2> HIDE DEF e
  <2>4. failures'[e] + faults' >= Threshold
    BY <2>1, <2>2, <2>3
  <2>5. QED
    BY <2>3, <2>4 DEF e
<1>3. QED
  BY <1>1, <1>2 DEF Counted, At

\* A worker has one more failure to count: of an attempt that has failed now, or
\* of one it has counted already, because of a fault.
LEMMA OneMoreCounting ==
  ASSUME Types, Types', Counted, NEW w \in Workers, pc[w] \notin {"idle", "row", "count"},
         pc' = [pc EXCEPT ![w] = "row"], UNCHANGED <<count, delivery>>,
         \/ failures' = [failures EXCEPT ![Target(delivery[w])] = @ + 1] /\ faults' >= faults
         \/ UNCHANGED failures /\ faults' = faults + 1
  PROVE  Counted'
<1> DEFINE c == Target(delivery[w])
<1>1. c \in Endpoints
  BY InHand
<1> HIDE DEF c
<1>2. ASSUME NEW e \in Endpoints
      PROVE  /\ failures'[e] \in Nat /\ faults' \in Nat
             /\ failures'[e] + faults' >= failures[e] + faults
             /\ e = c => failures'[e] + faults' >= failures[e] + faults + 1
  <2>1. failures'[e] \in Nat /\ faults' \in Nat
    BY DEF Types, HistoryTypes
  <2>2. CASE failures' = [failures EXCEPT ![Target(delivery[w])] = @ + 1] /\ faults' >= faults
    <3>1. failures'[e] = IF e = c THEN failures[e] + 1 ELSE failures[e]
      BY <1>1, <2>2 DEF Types, HistoryTypes, c
    <3>2. QED
      BY <2>1, <2>2, <3>1, CountingNat
  <2>3. CASE UNCHANGED failures /\ faults' = faults + 1
    BY <2>1, <2>3, CountingNat
  <2>4. QED
    BY <2>1, <2>2, <2>3
<1>3. ASSUME NEW e \in Endpoints
      PROVE  IsFiniteSet(Counting(e)') /\ count[e] + Cardinality(Counting(e)') <= failures'[e] + faults'
  <2>1. CASE e = c
    <3>1. Counting(e)' = Counting(e) \cup {w} /\ w \notin Counting(e)
      BY <2>1 DEF Counting, Types, WorkerTypes, c
    <3>2. IsFiniteSet(Counting(e)') /\ Cardinality(Counting(e)') = Cardinality(Counting(e)) + 1
      BY <3>1, CountingNat, FS_AddElement
    <3>3. QED
      BY <1>2, <2>1, <3>2, CountingNat
  <2>2. CASE e # c
    <3>1. Counting(e)' = Counting(e)
      BY <2>2 DEF Counting, Types, WorkerTypes, c
    <3>2. QED
      BY <1>2, <3>1, CountingNat
  <2>3. QED
    BY <2>1, <2>2
<1>4. ASSUME NEW v \in Workers, pc'[v] = "disable"
      PROVE  failures'[Target(delivery[v])] + faults' >= Threshold
  <2>1. pc[v] = "disable"
    BY <1>4 DEF Types, WorkerTypes
  <2>2. PICK e \in Endpoints : e = Target(delivery[v])
    BY <2>1, InHand
  <2>3. failures[e] + faults >= Threshold /\ Threshold \in Nat
    BY <2>1, <2>2, WebhookAssumption DEF Counted, At
  <2>4. failures'[e] + faults' >= Threshold
    BY <1>2, <2>3, CountingNat
  <2>5. QED
    BY <2>2, <2>4
<1>5. QED
  BY <1>3, <1>4 DEF Counted, At

\* A worker counts a failure: the count that it compares is covered, too.
LEMMA CountCounted ==
  ASSUME Types, Types', Counted, NEW w \in Workers, CountFailure(w)
  PROVE  Counted'
<1> DEFINE c == Target(delivery[w])
<1>1. /\ pc[w] = "count" /\ c \in Endpoints
      /\ count' = [count EXCEPT ![c] = @ + 1]
      /\ UNCHANGED <<delivery, failures, faults>>
  BY InHand DEF CountFailure, At, history
<1>2. PICK s \in {"disable", "done", "threw"} : /\ pc' = [pc EXCEPT ![w] = s]
                                                /\ s = "disable" => count[c] + 1 >= Threshold
  BY DEF CountFailure, Goto, TooMany, AfterFailure
<1>3. w \in Counting(c)
  BY <1>1 DEF Counting
<1>4. c \in Endpoints /\ \A v \in Workers : v \in Counting(c) => Target(delivery[v]) = c
  BY <1>1 DEF Counting
<1> HIDE DEF c
<1>5. ASSUME NEW e \in Endpoints
      PROVE  IsFiniteSet(Counting(e)') /\ count'[e] + Cardinality(Counting(e)') <= failures[e] + faults
  <2>1. Counting(e)' = Counting(e) \ {w}
    BY <1>1, <1>2 DEF Counting, Types, WorkerTypes
  <2>2. /\ IsFiniteSet(Counting(e)')
        /\ Cardinality(Counting(e)') =
             IF w \in Counting(e) THEN Cardinality(Counting(e)) - 1 ELSE Cardinality(Counting(e))
    BY <2>1, CountingNat, FS_RemoveElement
  <2>3. CASE e = c
    <3>1. count'[e] = count[e] + 1
      BY <1>1, <2>3 DEF Types, RowTypes
    <3>2. QED
      BY <1>3, <2>2, <2>3, <3>1, CountingNat
  <2>4. CASE e # c
    <3>1. count'[e] = count[e] /\ w \notin Counting(e)
      BY <1>1, <2>4 DEF Types, RowTypes, Counting, c
    <3>2. QED
      BY <2>2, <3>1, CountingNat
  <2>5. QED
    BY <2>3, <2>4
<1>6. ASSUME s = "disable" PROVE failures[c] + faults >= Threshold
  <2>1. Cardinality(Counting(c)) >= 1
    BY <1>1, <1>3, CountingNat, FS_EmptySet
  <2>2. count[c] + 1 >= Threshold /\ Threshold \in Nat
    BY <1>2, <1>6, WebhookAssumption
  <2>3. QED
    BY <1>1, <2>1, <2>2, CountingNat
<1>7. ASSUME NEW v \in Workers, pc'[v] = "disable"
      PROVE  failures[Target(delivery[v])] + faults >= Threshold
  <2>1. CASE v = w
    BY <1>1, <1>2, <1>6, <1>7, <2>1 DEF Types, WorkerTypes, c
  <2>2. CASE v # w
    BY <1>2, <1>7, <2>2 DEF Types, WorkerTypes, Counted, At
  <2>3. QED
    BY <2>1, <2>2
<1>8. QED
  BY <1>1, <1>5, <1>7 DEF Counted, At

LEMMA StepCounted == IInv /\ Types' /\ [Next]_vars => Counted'
<1> SUFFICES ASSUME IInv, Types', [Next]_vars PROVE Counted'
  OBVIOUS
<1>t. Types /\ Counted
  BY DEF IInv
<1>f. ASSUME UNCHANGED faults \/ Fault PROVE faults' >= faults
  BY <1>f, <1>t DEF Fault, Types, HistoryTypes
<1>c. ASSUME NEW e \in Endpoints PROVE count[e] <= count[e] /\ failures[e] >= failures[e]
  BY <1>t, CountingNat
<1>1. CASE LoopStep \/ DropBatch \/ InsertFails \/ PublishFails
  <2>1. UNCHANGED <<count, failures, pc, delivery>> /\ faults' >= faults
    BY <1>1, <1>f, LoopJobs DEF workerVars, history
  <2>2. QED
    BY <1>t, <1>c, <2>1, FewerCounting
<1>2. ASSUME NEW w \in Workers,
             RecordSuccess(w) \/ ResetFailureCount(w) \/ RecordFailure(w) \/ Disable(w)
      PROVE  Counted'
  <2>1. UNCHANGED <<failures, delivery, faults>> /\ faults' >= faults
    BY <1>2, <1>f DEF RecordSuccess, ResetFailureCount, RecordFailure, Disable, history
  <2>2. PICK s \in WorkerSteps \ {"row", "disable"} :
          pc' = [pc EXCEPT ![w] = s] /\ (s = "count" => pc[w] = "row")
    BY <1>2 DEF RecordSuccess, ResetFailureCount, RecordFailure, Disable, Goto, At, AfterFailure, WorkerSteps
  <2>3. ASSUME NEW e \in Endpoints PROVE count'[e] <= count[e]
    BY <1>2, <1>t DEF RecordSuccess, ResetFailureCount, RecordFailure, Disable, Types, RowTypes
  <2>4. ASSUME NEW v \in Workers
        PROVE  /\ pc'[v] \in {"row", "count"} => pc[v] \in {"row", "count"}
               /\ pc'[v] = "disable" => pc[v] = "disable"
    BY <1>t, <2>2 DEF Types, WorkerTypes
  <2>5. QED
    BY <1>t, <1>c, <2>1, <2>3, <2>4, FewerCounting
<1>3. ASSUME NEW w \in Workers, Reject(w) \/ SuccessThrows(w) \/ Post(w) PROVE Counted'
  <2>1. /\ pc[w] \in {"post", "success", "reset"}
        /\ UNCHANGED <<count, delivery>> /\ faults' >= faults
    BY <1>3, <1>f DEF Reject, SuccessThrows, Post, At
  <2>2. CASE \E reason : Fail(w, reason)
    BY <1>t, <2>1, <2>2, OneMoreCounting DEF Fail, Goto
  <2>3. CASE Goto(w, "success") /\ UNCHANGED failures
    <3>1. ASSUME NEW v \in Workers
          PROVE  /\ pc'[v] \in {"row", "count"} => pc[v] \in {"row", "count"}
                 /\ pc'[v] = "disable" => pc[v] = "disable"
      BY <1>t, <2>3 DEF Goto, Types, WorkerTypes
    <3>2. QED
      BY <1>t, <1>c, <2>1, <2>3, <3>1, FewerCounting
  <2>4. QED
    BY <1>3, <2>2, <2>3 DEF Reject, SuccessThrows, Post
<1>4. ASSUME NEW w \in Workers, CountFailure(w) PROVE Counted'
  BY <1>4, <1>t, CountCounted
<1>5. ASSUME NEW w \in Workers, FailureThrows(w) PROVE Counted'
  <2>1. /\ UNCHANGED <<count, failures, delivery>>
        /\ faults' = faults + 1 /\ faults' >= faults
        /\ pc[w] \in {"row", "count", "disable"}
        /\ pc' \in {[pc EXCEPT ![w] = "row"], [pc EXCEPT ![w] = "threw"]}
    BY <1>5, <1>f DEF FailureThrows, Goto, Fault, history
  <2>2. CASE pc[w] = "disable" /\ pc' = [pc EXCEPT ![w] = "row"]
    BY <1>t, <2>1, <2>2, OneMoreCounting
  <2>3. CASE pc[w] \in {"row", "count"} \/ pc' = [pc EXCEPT ![w] = "threw"]
    <3>1. ASSUME NEW v \in Workers
          PROVE  /\ pc'[v] \in {"row", "count"} => pc[v] \in {"row", "count"}
                 /\ pc'[v] = "disable" => pc[v] = "disable"
      BY <1>t, <2>1, <2>3 DEF Types, WorkerTypes
    <3>2. QED
      BY <1>t, <1>c, <2>1, <3>1, FewerCounting
  <2>4. QED
    BY <2>1, <2>2, <2>3
<1>6. ASSUME NEW w \in Workers, Take(w) \/ Finish(w) \/ Stall(w) PROVE Counted'
  <2>1. UNCHANGED <<count, failures>> /\ faults' >= faults
    BY <1>6, <1>f DEF Take, Finish, Stall, history
  <2>2. \/ \E s \in {"idle", "post"} : \E d : /\ pc' = [pc EXCEPT ![w] = s]
                                             /\ delivery' = [delivery EXCEPT ![w] = d]
        \/ UNCHANGED <<pc, delivery>>
    BY <1>6 DEF Take, Finish, Stall, Leave, Goto, workerVars
  <2>3. ASSUME NEW v \in Workers, pc'[v] \in {"row", "count", "disable"}
        PROVE  pc'[v] = pc[v] /\ delivery'[v] = delivery[v]
    BY <1>t, <2>2, <2>3 DEF Types, WorkerTypes
  <2>4. QED
    BY <1>t, <1>c, <2>1, <2>3, FewerCounting
<1>7. ASSUME (\E e \in Endpoints : Patch(e)) \/ UNCHANGED vars PROVE Counted'
  <2>1. UNCHANGED <<count, failures, pc, delivery>> /\ faults' >= faults
    BY <1>7, <1>f DEF Patch, vars, workerVars, history
  <2>2. QED
    BY <1>t, <1>c, <2>1, FewerCounting
<1>8. QED
  BY <1>1, <1>2, <1>3, <1>4, <1>5, <1>6, <1>7 DEF Next, WorkerStep, Trouble

-----------------------------------------------------------------------------
(* Rows. *)

\* Without faults a busy worker has its job to itself.
LEMMA Alone ==
  ASSUME IInv, faults = 0, NEW w \in Workers, pc[w] # "idle"
  PROVE  /\ delivery[w] \in Deliveries /\ lock[delivery[w]] = w /\ job[delivery[w]] = "active"
         /\ \A v \in Workers \ {w} : pc[v] # "idle" => delivery[v] # delivery[w]
<1>1. delivery[w] \in Deliveries /\ lock[delivery[w]] = w
  BY InHand DEF IInv, RowsAgree, Agreeing, Agrees, Busy
<1>2. job[delivery[w]] = "active"
  BY <1>1, WebhookAssumption DEF IInv, Locking
<1>3. \A v \in Workers \ {w} : pc[v] # "idle" => lock[delivery[v]] = v
  BY DEF IInv, RowsAgree, Agreeing, Agrees, Busy
<1>4. QED
  BY <1>1, <1>2, <1>3

\* A worker that goes on with its delivery writes no other row.
LEMMA OneRow ==
  ASSUME IInv, faults = 0, NEW w \in Workers, pc[w] # "idle",
         UNCHANGED <<loopVars, jobVars, delivery, try>>, rejected \subseteq rejected',
         \A c \in Deliveries \ {delivery[w]} : row'[c] = row[c],
         \A v \in Workers \ {w} : pc'[v] = pc[v] /\ why'[v] = why[v],
         Agrees(w)'
  PROVE  RowsAgree'
<1>1. RetriesAgree'
  BY Alone DEF IInv, RowsAgree, RetriesAgree, jobVars
<1>2. step # "mark" /\ (step = "add" => row'[created] = "pending")
  <2>1. step = "add" => created \in Deliveries /\ job[created] = "none"
    BY DEF IInv, Types, Dispatching, Undispatched
  <2>2. QED
    BY <2>1, Alone DEF IInv, RowsAgree, Agreeing
<1>3. ASSUME NEW v \in Workers, pc'[v] # "idle" PROVE Agrees(v)'
  <2>1. CASE v = w
    BY <2>1
  <2>2. CASE v # w
    <3>1. pc'[v] = pc[v] /\ why'[v] = why[v]
      BY <2>2
    <3>2. Agrees(v) /\ delivery[v] \in Deliveries /\ delivery[v] # delivery[w]
      BY <1>3, <2>2, <3>1, Alone DEF IInv, RowsAgree, Agreeing, Busy
    <3>3. row'[delivery[v]] = row[delivery[v]]
      BY <3>2
    <3>4. QED
      BY <3>1, <3>2, <3>3 DEF Agrees, IsLastAttempt, jobVars
  <2>3. QED
    BY <2>1, <2>2
<1>4. QED
  BY <1>1, <1>2, <1>3 DEF RowsAgree, Agreeing, Busy, loopVars

\* A worker that is busy, with or without a row to write.
LEMMA BusyRow ==
  ASSUME IInv, faults = 0, faults' = 0, NEW w \in Workers,
         \/ Reject(w) \/ Post(w) \/ RecordSuccess(w) \/ ResetFailureCount(w)
         \/ RecordFailure(w) \/ CountFailure(w) \/ Disable(w)
  PROVE  RowsAgree'
<1>1. /\ pc[w] # "idle"
      /\ UNCHANGED <<loopVars, jobVars, delivery, try>>
      /\ rejected \subseteq rejected'
  BY DEF Reject, Post, RecordSuccess, ResetFailureCount, RecordFailure, CountFailure, Disable, At, history
<1>2. \A c \in Deliveries \ {delivery[w]} : row'[c] = row[c]
  BY DEF Reject, Post, RecordSuccess, ResetFailureCount, RecordFailure, CountFailure, Disable,
     IInv, Types, RowTypes
<1>3. \A v \in Workers \ {w} : pc'[v] = pc[v] /\ why'[v] = why[v]
  BY DEF Reject, Post, RecordSuccess, ResetFailureCount, RecordFailure, CountFailure, Disable,
     Fail, Goto, AfterFailure, IInv, Types, WorkerTypes
<1>4. Agrees(w) /\ delivery[w] \in Deliveries
  BY <1>1, Alone DEF IInv, RowsAgree, Agreeing, Busy
<1> DEFINE R == IF IsLastAttempt(w) THEN "failed" ELSE "retrying"
<1>r. IsLastAttempt(w)' <=> IsLastAttempt(w)
  BY <1>1 DEF IsLastAttempt
<1>5. /\ delivery[w] \notin rejected' =>
           /\ pc'[w] \in {"row", "count", "disable"} => why'[w] # "rejected"
           /\ pc'[w] \in {"count", "disable", "threw"} => row'[delivery[w]] = R
           /\ pc'[w] \in {"reset", "done"} => row'[delivery[w]] = "success"
  <2>s. ASSUME NEW s \in WorkerSteps, Goto(w, s)
        PROVE  pc'[w] = s
    BY <2>s DEF Goto, IInv, Types, WorkerTypes
  <2>y. ASSUME NEW reason \in Reasons, Fail(w, reason) PROVE pc'[w] = "row" /\ why'[w] = reason
    BY <2>s, <2>y DEF Fail, IInv, Types, WorkerTypes, WorkerSteps
  <2>1. CASE Reject(w)
    BY <2>1 DEF Reject
  <2>2. CASE Post(w)
    <3>1. CASE Goto(w, "success")
      BY <2>s, <3>1 DEF WorkerSteps
    <3>2. CASE \E reason \in {"http", "caught"} : Fail(w, reason)
      BY <2>y, <3>2 DEF Reasons
    <3>3. QED
      BY <2>2, <3>1, <3>2 DEF Post
  <2>3. CASE RecordSuccess(w)
    <3>1. pc'[w] = "reset" /\ row'[delivery[w]] = "success"
      BY <2>3, <2>s, <1>4 DEF RecordSuccess, WorkerSteps, IInv, Types, RowTypes
    <3>2. QED
      BY <3>1
  <2>4. CASE ResetFailureCount(w)
    <3>1. pc[w] = "reset" /\ pc'[w] = "done" /\ UNCHANGED <<row, rejected>>
      BY <2>4, <2>s DEF ResetFailureCount, At, WorkerSteps, history
    <3>2. QED
      BY <1>4, <3>1 DEF Agrees
  <2>5. CASE RecordFailure(w)
    <3>1. pc[w] = "row" /\ pc'[w] = "count" /\ UNCHANGED <<why, rejected>>
      BY <2>5, <2>s DEF RecordFailure, At, WorkerSteps, history
    <3>2. row'[delivery[w]] = R
      BY <2>5, <1>4 DEF RecordFailure, IInv, Types, RowTypes
    <3>3. QED
      BY <1>4, <3>1, <3>2 DEF Agrees
  <2>6. CASE CountFailure(w) \/ Disable(w)
    <3>1. pc[w] \in {"count", "disable"} /\ UNCHANGED <<row, why, rejected>>
      BY <2>6 DEF CountFailure, Disable, At, history
    <3>2. pc'[w] \in {"disable", AfterFailure(w)}
      BY <2>6, <2>s DEF CountFailure, Disable, AfterFailure, WorkerSteps
    <3>3. QED
      BY <1>4, <3>1, <3>2 DEF Agrees, AfterFailure
  <2>7. QED
    BY <2>1, <2>2, <2>3, <2>4, <2>5, <2>6
<1>6. Agrees(w)'
  BY <1>1, <1>4, <1>5, <1>r DEF Agrees, jobVars
<1>7. QED
  BY <1>1, <1>2, <1>3, <1>6, OneRow

\* A worker that takes a job is the only one that has it.
LEMMA TakeRow ==
  ASSUME IInv, faults = 0, NEW w \in Workers, Take(w)
  PROVE  RowsAgree'
<1>1. PICK d \in Deliveries : /\ job[d] = "waiting"
                              /\ job' = [job EXCEPT ![d] = "active"]
                              /\ lock' = [lock EXCEPT ![d] = w]
                              /\ delivery' = [delivery EXCEPT ![w] = d]
                              /\ try' = [try EXCEPT ![w] = made[d] + 1]
  BY DEF Take
<1>2. /\ pc[w] = "idle" /\ pc' = [pc EXCEPT ![w] = "post"]
      /\ UNCHANGED <<loopVars, row, made, why, rejected>>
  BY DEF Take, At, Goto, history
<1>3. RetriesAgree'
  BY <1>1, <1>2 DEF IInv, Types, JobTypes, RowsAgree, RetriesAgree
<1>4. step # "mark" /\ (step = "add" => row'[created] = "pending")
  BY <1>2 DEF IInv, RowsAgree, Agreeing
<1>5. ASSUME NEW v \in Workers, pc'[v] # "idle" PROVE Agrees(v)'
  <2>1. CASE v = w
    <3>1. pc'[w] = "post" /\ delivery'[w] = d /\ try'[w] = made[d] + 1 /\ lock'[d] = w
      BY <1>1, <1>2 DEF IInv, Types, WorkerTypes, JobTypes
    <3>2. QED
      BY <1>2, <2>1, <3>1 DEF Agrees
  <2>2. CASE v # w
    <3>1. pc'[v] = pc[v] /\ delivery'[v] = delivery[v] /\ try'[v] = try[v]
      BY <1>1, <1>2, <2>2 DEF IInv, Types, WorkerTypes
    <3>2. Agrees(v) /\ delivery[v] \in Deliveries /\ delivery[v] # d
      BY <1>1, <1>5, <3>1, Alone DEF IInv, RowsAgree, Agreeing, Busy
    <3>3. lock'[delivery[v]] = lock[delivery[v]]
      BY <1>1, <3>2 DEF IInv, Types, JobTypes
    <3>4. QED
      BY <1>2, <3>1, <3>2, <3>3 DEF Agrees, IsLastAttempt
  <2>3. QED
    BY <2>1, <2>2
<1>6. QED
  BY <1>2, <1>3, <1>4, <1>5 DEF RowsAgree, Agreeing, Busy, loopVars

\* The row agrees with what BullMQ makes of the attempt that ends.
LEMMA FinishRow ==
  ASSUME IInv, faults = 0, NEW w \in Workers, Finish(w)
  PROVE  RowsAgree'
<1> DEFINE d == delivery[w]
<1>1. /\ pc[w] \in {"done", "threw"}
      /\ pc' = [pc EXCEPT ![w] = "idle"]
      /\ delivery' = [delivery EXCEPT ![w] = NoOne]
      /\ try' = [try EXCEPT ![w] = 1]
      /\ why' = [why EXCEPT ![w] = "caught"]
      /\ UNCHANGED <<loopVars, row, rejected>>
  BY DEF Finish, Leave, Goto, history
<1>2. d \in Deliveries /\ lock[d] = w /\ Agrees(w)
  BY <1>1, Alone DEF IInv, RowsAgree, Agreeing, Busy
<1>3. /\ job' = [job EXCEPT ![d] = IF pc[w] = "done" THEN "completed" ELSE AfterThrow(d)]
      /\ made' = [made EXCEPT ![d] = @ + 1]
      /\ lock' = [lock EXCEPT ![d] = NoOne]
  BY <1>2 DEF Finish, At
<1>4. pc[w] = "threw" /\ d \notin rejected =>
        row[d] = IF AfterThrow(d) = "failed" THEN "failed" ELSE "retrying"
  <2>1. try[w] = made[d] + 1
    BY <1>2 DEF Agrees
  <2>2. pc[w] = "threw" /\ d \notin rejected =>
          row[d] = IF made[d] + 1 >= MaxTries THEN "failed" ELSE "retrying"
    BY <1>2, <2>1 DEF Agrees, IsLastAttempt
  <2>3. QED
    BY <2>2 DEF AfterThrow
<1>5. pc[w] = "done" /\ d \notin rejected => row[d] = "success"
  BY <1>2 DEF Agrees
<1>6. d \in Deliveries
  BY <1>2
<1>7. \A v \in Workers \ {w} :
        pc[v] # "idle" => Agrees(v) /\ delivery[v] \in Deliveries /\ delivery[v] # d
  BY <1>1, Alone DEF IInv, RowsAgree, Agreeing, Busy
<1> HIDE DEF d
<1>8. RetriesAgree'
  <2> SUFFICES ASSUME NEW c \in Deliveries, c \notin rejected
               PROVE  /\ job'[c] = "waiting" => row[c] \in {"pending", "retrying"}
                      /\ job'[c] = "completed" => row[c] = "success"
                      /\ job'[c] = "failed" => row[c] = "failed"
    BY <1>1 DEF RetriesAgree
  <2>1. CASE c = d
    <3>1. job'[c] = IF pc[w] = "done" THEN "completed" ELSE AfterThrow(d)
      BY <1>3, <2>1 DEF IInv, Types, JobTypes
    <3>2. AfterThrow(d) \in {"waiting", "failed"}
      BY DEF AfterThrow
    <3>3. QED
      BY <1>1, <1>4, <1>5, <2>1, <3>1, <3>2
  <2>2. CASE c # d
    <3>1. job'[c] = job[c]
      BY <1>3, <2>2 DEF IInv, Types, JobTypes
    <3>2. QED
      BY <3>1 DEF IInv, RowsAgree, RetriesAgree
  <2>3. QED
    BY <2>1, <2>2
<1>9. ASSUME NEW v \in Workers, pc'[v] # "idle" PROVE Agrees(v)'
  <2>1. v # w
    BY <1>1, <1>9 DEF IInv, Types, WorkerTypes
  <2>2. pc'[v] = pc[v] /\ delivery'[v] = delivery[v] /\ try'[v] = try[v] /\ why'[v] = why[v]
    BY <1>1, <2>1 DEF IInv, Types, WorkerTypes
  <2>3. Agrees(v) /\ delivery[v] \in Deliveries /\ delivery[v] # d
    BY <1>7, <1>9, <2>1, <2>2
  <2>4. lock'[delivery[v]] = lock[delivery[v]] /\ made'[delivery[v]] = made[delivery[v]]
    BY <1>3, <2>3 DEF IInv, Types, JobTypes
  <2>5. QED
    BY <1>1, <2>2, <2>3, <2>4 DEF Agrees, IsLastAttempt
<1>10. step # "mark" /\ (step = "add" => row[created] = "pending")
  BY DEF IInv, RowsAgree, Agreeing
<1>11. QED
  BY <1>1, <1>8, <1>9, <1>10 DEF RowsAgree, Agreeing, Busy, loopVars

\* The loop writes the row of a delivery that has no job yet.
LEMMA LoopRow ==
  ASSUME IInv, Types', faults = 0, LoopStep
  PROVE  RowsAgree'
<1>1. UNCHANGED <<made, lock, pc, delivery, try, why, rejected>>
  BY LoopJobs DEF workerVars, history
<1>2. ASSUME NEW w \in Workers, pc[w] # "idle"
      PROVE  Agrees(w) /\ delivery[w] \in Deliveries /\ job[delivery[w]] = "active"
  BY <1>2, Alone DEF IInv, RowsAgree, Agreeing, Busy
<1>3. step # "mark"
  BY DEF IInv, RowsAgree, Agreeing
<1>4. ASSUME \A d \in Deliveries : job[d] # "none" => row'[d] = row[d]
      PROVE  \A w \in Workers : Busy(w)' => Agrees(w)'
  BY <1>1, <1>2, <1>4 DEF Agrees, IsLastAttempt, Busy
<1>5. CASE Poll \/ SelectEndpoints \/ NextEvent
  <2>1. UNCHANGED <<row, job>> /\ step' \notin {"add", "mark"}
    BY <1>5 DEF Poll, SelectEndpoints, NextEvent, jobVars
  <2>2. RetriesAgree'
    BY <1>1, <2>1 DEF IInv, RowsAgree, RetriesAgree
  <2>3. QED
    BY <1>4, <2>1, <2>2 DEF RowsAgree, Agreeing
<1>6. CASE Insert
  <2>1. PICK e \in targets : created' = <<event, e>> /\ row' = [row EXCEPT ![<<event, e>>] = "pending"]
    BY <1>6 DEF Insert
  <2>2. step = "fan" /\ step' = "add" /\ UNCHANGED job
    BY <1>6 DEF Insert, jobVars
  <2>3. created' \in Deliveries /\ job[created'] = "none"
    BY <2>1, <2>2 DEF IInv, Types, LoopTypes, Dispatching, Undispatched, Deliveries
  <2>4. /\ row'[created'] = "pending"
        /\ \A d \in Deliveries : job[d] # "none" => row'[d] = row[d]
    BY <2>1, <2>3 DEF IInv, Types, RowTypes
  <2>5. RetriesAgree'
    BY <1>1, <2>2, <2>4 DEF IInv, RowsAgree, RetriesAgree
  <2>6. QED
    BY <1>4, <2>2, <2>4, <2>5 DEF RowsAgree, Agreeing
<1>7. CASE Add
  <2>1. /\ step = "add" /\ step' = "fan" /\ job' = [job EXCEPT ![created] = "waiting"]
        /\ UNCHANGED row
    BY <1>7 DEF Add
  <2>2. row[created] = "pending"
    BY <2>1 DEF IInv, RowsAgree, Agreeing
  <2>3. RetriesAgree'
    BY <1>1, <2>1, <2>2 DEF IInv, Types, JobTypes, RowsAgree, RetriesAgree
  <2>4. QED
    BY <1>4, <2>1, <2>3 DEF RowsAgree, Agreeing
<1>8. QED
  BY <1>3, <1>5, <1>6, <1>7 DEF LoopStep, MarkDeliveryAsFailed

LEMMA StepRows == IInv /\ Types' /\ [Next]_vars => RowsAgree'
<1> SUFFICES ASSUME IInv, Types', [Next]_vars PROVE RowsAgree'
  OBVIOUS
<1>1. CASE faults' # 0
  BY <1>1 DEF RowsAgree, RetriesAgree
<1>2. CASE faults' = 0
  <2>1. faults = 0 /\ ~Fault
    <3>1. faults \in Nat
      BY DEF IInv, Types, HistoryTypes
    <3>2. UNCHANGED faults \/ Fault
      <4>1. CASE LoopStep \/ DropBatch \/ InsertFails \/ PublishFails
        BY <4>1, LoopJobs
      <4>2. ASSUME NEW w \in Workers, WorkerStep(w) PROVE UNCHANGED faults \/ Fault
        BY <4>2 DEF WorkerStep, Take, Reject, Post, RecordSuccess, ResetFailureCount, RecordFailure,
           CountFailure, Disable, Finish
      <4>3. QED
        BY <4>1, <4>2 DEF Next, Trouble, SuccessThrows, FailureThrows, Stall, Patch, vars
    <3>3. QED
      BY <1>2, <3>1, <3>2 DEF Fault
  <2>2. CASE LoopStep
    BY <2>1, <2>2, LoopRow
  <2>3. ASSUME NEW w \in Workers, WorkerStep(w) PROVE RowsAgree'
    BY <1>2, <2>1, <2>3, TakeRow, BusyRow, FinishRow DEF WorkerStep
  <2>4. CASE UNCHANGED vars
    BY <2>4 DEF vars, loopVars, jobVars, workerVars, history, IInv, RowsAgree, RetriesAgree, Agreeing,
       Agrees, Busy, IsLastAttempt
  <2>5. QED
    BY <2>1, <2>2, <2>3, <2>4
       DEF Next, Trouble, DropBatch, InsertFails, PublishFails, SuccessThrows, FailureThrows, Stall, Patch
<1>3. QED
  BY <1>1, <1>2

-----------------------------------------------------------------------------
(* Theorems. *)

LEMMA InitIInv == Init => IInv
<1> SUFFICES ASSUME Init PROVE IInv
  OBVIOUS
<1>1. Types
  BY InitTypes
<1>2. Undispatched
  BY WebhookAssumption DEF Init, Undispatched, Deliveries
<1>3. Locking /\ Attempts
  BY WebhookAssumption DEF Init, Locking, Attempts
<1>4. Posted
  <2>1. ASSUME NEW d \in Deliveries PROVE Posting(d) = {} /\ posts[d] = 0 /\ Runs(d) = 0
    BY DEF Init, Posting, Runs, At
  <2>2. QED
    BY <2>1, FS_EmptySet DEF Posted
<1>5. Counted
  <2>1. ASSUME NEW e \in Endpoints PROVE Counting(e) = {} /\ count[e] = 0 /\ failures[e] = 0
    BY DEF Init, Counting
  <2>2. QED
    BY <2>1, FS_EmptySet DEF Init, Counted, At
<1>6. RowsAgree
  BY DEF Init, RowsAgree, RetriesAgree, Agreeing, Busy
<1>7. QED
  BY <1>1, <1>2, <1>3, <1>4, <1>5, <1>6 DEF IInv

LEMMA StepIInv == IInv /\ [Next]_vars => IInv'
BY StepTypes, StepJobs, StepPosted, StepCounted, StepRows DEF IInv

\* The invariant that the theorems below rest on, of every reachable state.
THEOREM Inductive == Spec => []IInv
<1>1. QED
  BY InitIInv, StepIInv, PTL DEF Spec

\* The variables of the webhook service keep their types.
THEOREM TypeCorrect == Spec => []TypeOK
<1>1. IInv => TypeOK
  BY TypesTypeOK DEF IInv
<1>2. QED
  BY <1>1, Inductive, PTL

\* However workers lose their jobs and whatever throws, an endpoint gets a
\* delivery at most as often as its job may be attempted, and once more for
\* every stall (processDelivery posts before it records anything).
THEOREM Repeats == Spec => []RepeatsAreBounded
<1>1. IInv => RepeatsAreBounded
  <2> SUFFICES ASSUME IInv, NEW d \in Deliveries PROVE posts[d] <= MaxTries + stalls[d]
    BY DEF RepeatsAreBounded
  <2>1. /\ Cardinality(Posting(d)) \in Nat
        /\ posts[d] + Cardinality(Posting(d)) <= Runs(d)
    BY FS_CardinalityType DEF IInv, Posted
  <2>2. /\ made[d] \in Nat /\ stalls[d] \in Nat /\ posts[d] \in Nat /\ MaxTries \in Nat
    BY WebhookAssumption DEF IInv, Types, JobTypes, HistoryTypes
  <2>3. made[d] <= MaxTries /\ (job[d] = "active" => made[d] < MaxTries)
    BY DEF IInv, Attempts
  <2>4. Runs(d) <= MaxTries + stalls[d] /\ Runs(d) \in Nat
    BY <2>2, <2>3 DEF Runs
  <2>5. QED
    BY <2>1, <2>2, <2>4
<1>2. QED
  BY <1>1, Inductive, PTL

\* Without faults the attempts that BullMQ counts and the row that handleFailure
\* writes from attemptsMade agree on whether a delivery will be tried again.
THEOREM Retries == Spec => []RetriesAgree
<1>1. IInv => RetriesAgree
  BY DEF IInv, RowsAgree
<1>2. QED
  BY <1>1, Inductive, PTL

\* handleFailure disables an endpoint only after as many failed attempts and
\* faults as the threshold says, although it compares a count that successes
\* reset, and concurrent workers raise, between its two updates.
THEOREM Disabling == Spec => DisabledByFailures
<1>1. IInv /\ [Next]_vars =>
        [\A e \in Endpoints :
           status[e] # "disabled" /\ status'[e] = "disabled" => failures[e] + faults >= Threshold]_vars
  <2> SUFFICES ASSUME IInv, Next, NEW e \in Endpoints, status[e] # "disabled", status'[e] = "disabled"
               PROVE  failures[e] + faults >= Threshold
    OBVIOUS
  <2>1. ASSUME NEW w \in Workers, Disable(w) PROVE failures[e] + faults >= Threshold
    BY <2>1 DEF Disable, At, IInv, Types, RowTypes, Counted
  <2>2. ASSUME NEW w \in Workers, WorkerStep(w), ~Disable(w) PROVE UNCHANGED status
    BY <2>2 DEF WorkerStep, Take, Reject, Post, RecordSuccess, ResetFailureCount, RecordFailure,
       CountFailure, Finish
  <2>3. ASSUME NEW c \in Endpoints, Patch(c) PROVE FALSE
    BY <2>3 DEF Patch, IInv, Types, RowTypes
  <2>4. CASE LoopStep \/ Trouble
    BY <2>4, LoopJobs DEF Trouble, SuccessThrows, FailureThrows, Stall
  <2>5. QED
    BY <2>1, <2>2, <2>3, <2>4 DEF Next
<1>2. QED
  BY <1>1, Inductive, PTL DEF Spec, DisabledByFailures

-----------------------------------------------------------------------------
(* Counting exactly, without faults. *)

Silent(e) == \A d \in accepted : Target(d) # e

\* What is known of an endpoint that has answered nothing with success.
ExactAt(e) ==
  /\ failures[e] = count[e] + Cardinality(Counting(e))
  /\ status[e] = "disabled" => count[e] >= Threshold
  /\ \A w \in WorkersAt("disable", e) : count[e] >= Threshold
  /\ count[e] >= Threshold => status[e] = "disabled" \/ WorkersAt("disable", e) # {}

Exact ==
  /\ \A w \in Workers : pc[w] \in {"success", "reset"} => delivery[w] \in accepted
  /\ \A e \in Endpoints : Silent(e) => ExactAt(e)

ExactWithoutFaults == faults = 0 => Exact

\* Nothing of what ExactAt says is changed.
LEMMA SameExact ==
  ASSUME NEW e \in Endpoints, ExactAt(e),
         failures'[e] = failures[e], count'[e] = count[e], status'[e] = status[e],
         \A w \in Workers :
           /\ w \in Counting(e)' <=> w \in Counting(e)
           /\ w \in WorkersAt("disable", e)' <=> w \in WorkersAt("disable", e)
  PROVE  ExactAt(e)'
<1>1. Counting(e)' = Counting(e) /\ WorkersAt("disable", e)' = WorkersAt("disable", e)
  BY DEF Counting, WorkersAt
<1>2. QED
  BY <1>1 DEF ExactAt

\* A worker fails, and has a failure to count from now on.
LEMMA FailExact ==
  ASSUME Types, Counted, NEW w \in Workers, NEW e \in Endpoints, ExactAt(e), pc[w] = "post",
         \E reason : Fail(w, reason), UNCHANGED <<count, status, delivery>>
  PROVE  ExactAt(e)'
<1> DEFINE c == Target(delivery[w])
<1>1. c \in Endpoints /\ pc' = [pc EXCEPT ![w] = "row"] /\ failures' = [failures EXCEPT ![c] = @ + 1]
  BY InHand DEF Fail, Goto
<1>2. WorkersAt("disable", e)' = WorkersAt("disable", e)
  BY <1>1 DEF WorkersAt, At, Types, WorkerTypes
<1>3. CASE e = c
  <2>1. Counting(e)' = Counting(e) \cup {w} /\ w \notin Counting(e)
    BY <1>1, <1>3 DEF Counting, Types, WorkerTypes
  <2>2. Cardinality(Counting(e)') = Cardinality(Counting(e)) + 1
    BY <2>1, CountingNat, FS_AddElement
  <2>3. failures'[e] = failures[e] + 1
    BY <1>1, <1>3 DEF Types, HistoryTypes
  <2>4. QED
    BY <1>2, <2>2, <2>3, CountingNat DEF ExactAt
<1>4. CASE e # c
  <2>1. Counting(e)' = Counting(e)
    BY <1>1, <1>4 DEF Counting, Types, WorkerTypes
  <2>2. failures'[e] = failures[e]
    BY <1>1, <1>4 DEF Types, HistoryTypes
  <2>3. QED
    BY <1>2, <2>1, <2>2 DEF ExactAt
<1>5. QED
  BY <1>3, <1>4

\* A worker counts its failure; at the limit it goes on to disable the endpoint.
LEMMA CountExact ==
  ASSUME Types, Counted, NEW w \in Workers, NEW e \in Endpoints, ExactAt(e), CountFailure(w)
  PROVE  ExactAt(e)'
<1> DEFINE c == Target(delivery[w])
<1>1. /\ pc[w] = "count" /\ c \in Endpoints
      /\ count' = [count EXCEPT ![c] = @ + 1]
      /\ UNCHANGED <<delivery, failures, status>>
  BY InHand DEF CountFailure, At, history
<1>2. PICK s \in {"disable", "done", "threw"} :
        /\ pc' = [pc EXCEPT ![w] = s]
        /\ s = "disable" <=> count[c] + 1 >= Threshold /\ status[c] # "disabled"
  BY DEF CountFailure, Goto, TooMany, AfterFailure
<1>3. CASE e = c
  <2>1. Counting(e)' = Counting(e) \ {w} /\ w \in Counting(e)
    BY <1>1, <1>2, <1>3 DEF Counting, Types, WorkerTypes
  <2>2. Cardinality(Counting(e)') = Cardinality(Counting(e)) - 1
    BY <2>1, CountingNat, FS_RemoveElement
  <2>3. count'[e] = count[e] + 1
    BY <1>1, <1>3 DEF Types, RowTypes
  <2>4. WorkersAt("disable", e)' =
          IF s = "disable" THEN WorkersAt("disable", e) \cup {w} ELSE WorkersAt("disable", e)
    BY <1>1, <1>2, <1>3 DEF WorkersAt, At, Types, WorkerTypes
  <2>5. failures'[e] = count'[e] + Cardinality(Counting(e)')
    <3>1. failures[e] = count[e] + Cardinality(Counting(e)) /\ failures'[e] = failures[e]
      BY <1>1 DEF ExactAt
    <3>2. QED
      BY <2>2, <2>3, <3>1, CountingNat
  <2>6. /\ status'[e] = "disabled" => count'[e] >= Threshold
        /\ \A v \in WorkersAt("disable", e)' : count'[e] >= Threshold
    BY <1>1, <1>2, <1>3, <2>3, <2>4, CountingNat, WebhookAssumption DEF ExactAt
  <2>7. ASSUME count'[e] >= Threshold
        PROVE  status'[e] = "disabled" \/ WorkersAt("disable", e)' # {}
    BY <1>1, <1>2, <1>3, <2>3, <2>4, <2>7
  <2>8. QED
    BY <2>5, <2>6, <2>7 DEF ExactAt
<1>4. CASE e # c
  <2>1. count'[e] = count[e]
    BY <1>1, <1>4 DEF Types, RowTypes
  <2>2. Counting(e)' = Counting(e) /\ WorkersAt("disable", e)' = WorkersAt("disable", e)
    BY <1>1, <1>2, <1>4 DEF Counting, WorkersAt, At, Types, WorkerTypes
  <2>3. QED
    BY <1>1, <2>1, <2>2 DEF ExactAt
<1>5. QED
  BY <1>3, <1>4

LEMMA DisableExact ==
  ASSUME Types, NEW w \in Workers, NEW e \in Endpoints, ExactAt(e), Disable(w)
  PROVE  ExactAt(e)'
<1> DEFINE c == Target(delivery[w])
<1>1. /\ pc[w] = "disable" /\ c \in Endpoints
      /\ status' = [status EXCEPT ![c] = "disabled"]
      /\ UNCHANGED <<delivery, failures, count>>
  BY InHand DEF Disable, At, history
<1>2. PICK s \in {"done", "threw"} : pc' = [pc EXCEPT ![w] = s]
  BY DEF Disable, Goto, AfterFailure
<1>3. Counting(e)' = Counting(e) /\ WorkersAt("disable", e)' = WorkersAt("disable", e) \ {w}
  BY <1>1, <1>2 DEF Counting, WorkersAt, At, Types, WorkerTypes
<1>4. CASE e = c
  <2>1. w \in WorkersAt("disable", e) /\ status'[e] = "disabled"
    BY <1>1, <1>4 DEF WorkersAt, At, Types, RowTypes
  <2>2. QED
    BY <1>1, <1>3, <2>1 DEF ExactAt
<1>5. CASE e # c
  <2>1. w \notin WorkersAt("disable", e) /\ status'[e] = status[e]
    BY <1>1, <1>5 DEF WorkersAt, Types, RowTypes
  <2>2. QED
    BY <1>1, <1>3, <2>1 DEF ExactAt
<1>6. QED
  BY <1>4, <1>5

LEMMA StepExact == IInv /\ ExactWithoutFaults /\ [Next]_vars => ExactWithoutFaults'
<1> SUFFICES ASSUME IInv, faults = 0 => Exact, [Next]_vars, faults' = 0 PROVE Exact'
  BY DEF ExactWithoutFaults
<1>t. Types /\ Types' /\ Counted
  BY StepTypes DEF IInv
<1>n. faults \in Nat
  BY <1>t DEF Types, HistoryTypes
<1>f. faults = 0 /\ ~Fault /\ Exact
  <2>1. ~Fault
    BY <1>n DEF Fault
  <2>2. CASE \E w \in Workers : Reject(w)
    BY <1>n, <2>1, <2>2 DEF Reject
  <2>3. CASE ~(\E w \in Workers : Reject(w))
    BY <1>n, <2>1, <2>3
       DEF Next, LoopStep, WorkerStep, Trouble, Poll, SelectEndpoints, Insert, Add,
           MarkDeliveryAsFailed, NextEvent, DropBatch, InsertFails, PublishFails, Take, Post,
           RecordSuccess, ResetFailureCount, RecordFailure, CountFailure, Disable, Finish,
           SuccessThrows, FailureThrows, Stall, Patch, vars
  <2>4. QED
    BY <2>1, <2>2, <2>3
<1>a. accepted \subseteq accepted'
  BY LoopJobs
     DEF Next, WorkerStep, Trouble, DropBatch, InsertFails, PublishFails, Take, Reject, Post,
         RecordSuccess, ResetFailureCount, RecordFailure, CountFailure, Disable, Finish,
         SuccessThrows, FailureThrows, Stall, Patch, vars, history
<1>s. ASSUME NEW e \in Endpoints, Silent(e)' PROVE Silent(e) /\ ExactAt(e)
  BY <1>a, <1>f, <1>s DEF Silent, Exact
<1>1. CASE LoopStep \/ UNCHANGED vars
  <2>1. UNCHANGED <<workerVars, history, status, count>>
    BY <1>1
       DEF LoopStep, Poll, SelectEndpoints, Insert, Add, MarkDeliveryAsFailed, NextEvent, vars
  <2>2. ASSUME NEW e \in Endpoints, Silent(e)' PROVE ExactAt(e)'
    BY <1>s, <2>1, <2>2, SameExact DEF workerVars, history, Counting, WorkersAt, At
  <2>3. QED
    BY <1>f, <2>1, <2>2 DEF Exact, workerVars, history
<1>2. ASSUME NEW w \in Workers,
             Take(w) \/ RecordSuccess(w) \/ RecordFailure(w) \/ Finish(w)
             \/ (Post(w) /\ UNCHANGED failures)
      PROVE  Exact'
  <2>1. UNCHANGED <<failures, count, status>>
    BY <1>2 DEF Take, RecordSuccess, RecordFailure, Finish, Post, history
  <2>2. PICK s \in {"post", "success", "reset", "count", "idle"}, d \in Deliveries \cup {NoOne} :
          /\ pc' = [pc EXCEPT ![w] = s] /\ delivery' = [delivery EXCEPT ![w] = d]
          /\ s \in {"success", "reset"} => d \in accepted'
          /\ s = "count" => pc[w] = "row" /\ d = delivery[w]
          /\ pc[w] \notin {"count", "disable"} /\ (pc[w] = "row" => s = "count")
    <3>1. CASE Take(w)
      BY <3>1 DEF Take, Goto, At
    <3>2. CASE RecordSuccess(w) \/ RecordFailure(w)
      BY <1>f, <1>t, <3>2
         DEF RecordSuccess, RecordFailure, Goto, At, Exact, Types, WorkerTypes, history
    <3>3. CASE Finish(w)
      BY <3>3 DEF Finish, Leave, Goto
    <3>4. CASE Post(w) /\ UNCHANGED failures
      <4>1. Goto(w, "success") /\ accepted' = accepted \cup {delivery[w]} /\ UNCHANGED delivery
            /\ At(w, "post")
        <5>1. ~(\E reason : Fail(w, reason))
          <6>1. Target(delivery[w]) \in Endpoints
            BY <1>t, <3>4, InHand DEF Post, At
          <6>2. QED
            BY <1>t, <3>4, <6>1 DEF Fail, Types, HistoryTypes
        <5>2. QED
          BY <3>4, <5>1 DEF Post
      <4>2. QED
        BY <1>t, <4>1 DEF Goto, At, Types, WorkerTypes
    <3>5. QED
      BY <1>2, <3>1, <3>2, <3>3, <3>4
  <2>3. ASSUME NEW e \in Endpoints, Silent(e)' PROVE ExactAt(e)'
    <3>1. ASSUME NEW v \in Workers
          PROVE  /\ v \in Counting(e)' <=> v \in Counting(e)
                 /\ v \in WorkersAt("disable", e)' <=> v \in WorkersAt("disable", e)
      BY <1>t, <2>2 DEF Counting, WorkersAt, At, Types, WorkerTypes
    <3>2. QED
      BY <1>s, <2>1, <2>3, <3>1, SameExact
  <2>4. ASSUME NEW v \in Workers, pc'[v] \in {"success", "reset"} PROVE delivery'[v] \in accepted'
    BY <1>t, <1>f, <1>a, <2>2, <2>4 DEF Exact, Types, WorkerTypes
  <2>5. QED
    BY <2>3, <2>4 DEF Exact
<1>3. ASSUME NEW w \in Workers, Reject(w) \/ (Post(w) /\ ~UNCHANGED failures) PROVE Exact'
  <2>1. pc[w] = "post" /\ (\E reason : Fail(w, reason)) /\ UNCHANGED <<count, status, delivery>>
    BY <1>3 DEF Reject, Post, At
  <2>2. ASSUME NEW e \in Endpoints, Silent(e)' PROVE ExactAt(e)'
    BY <1>t, <1>s, <2>1, <2>2, FailExact
  <2>3. ASSUME NEW v \in Workers, pc'[v] \in {"success", "reset"} PROVE delivery'[v] \in accepted'
    BY <1>t, <1>f, <1>a, <2>1, <2>3 DEF Exact, Fail, Goto, Types, WorkerTypes
  <2>4. QED
    BY <2>2, <2>3 DEF Exact
<1>4. ASSUME NEW w \in Workers, CountFailure(w) \/ Disable(w) PROVE Exact'
  <2>1. ASSUME NEW e \in Endpoints, Silent(e)' PROVE ExactAt(e)'
    BY <1>t, <1>s, <1>4, <2>1, CountExact, DisableExact
  <2>2. PICK s \in {"disable", "done", "threw"} : pc' = [pc EXCEPT ![w] = s]
    BY <1>4 DEF CountFailure, Disable, Goto, AfterFailure
  <2>3. UNCHANGED delivery
    BY <1>4 DEF CountFailure, Disable
  <2>4. ASSUME NEW v \in Workers, pc'[v] \in {"success", "reset"} PROVE delivery'[v] \in accepted'
    BY <1>t, <1>f, <1>a, <2>2, <2>3, <2>4 DEF Exact, Types, WorkerTypes
  <2>5. QED
    BY <2>1, <2>4 DEF Exact
\* A success is that of an accepted delivery: its endpoint is not silent.
<1>5. ASSUME NEW w \in Workers, ResetFailureCount(w) PROVE Exact'
  <2>1. /\ pc[w] = "reset" /\ pc' = [pc EXCEPT ![w] = "done"]
        /\ count' = [count EXCEPT ![Target(delivery[w])] = 0]
        /\ UNCHANGED <<delivery, status, failures, accepted>>
    BY <1>5 DEF ResetFailureCount, At, Goto, history
  <2>2. ASSUME NEW e \in Endpoints, Silent(e)' PROVE ExactAt(e)'
    <3>1. delivery[w] \in accepted /\ e # Target(delivery[w])
      BY <1>f, <2>1, <2>2, <1>s DEF Exact, Silent
    <3>2. count'[e] = count[e]
      BY <1>t, <2>1, <3>1 DEF Types, RowTypes
    <3>3. ASSUME NEW v \in Workers
          PROVE  /\ v \in Counting(e)' <=> v \in Counting(e)
                 /\ v \in WorkersAt("disable", e)' <=> v \in WorkersAt("disable", e)
      BY <1>t, <2>1 DEF Counting, WorkersAt, At, Types, WorkerTypes
    <3>4. QED
      BY <1>s, <2>1, <2>2, <3>2, <3>3, SameExact
  <2>3. ASSUME NEW v \in Workers, pc'[v] \in {"success", "reset"} PROVE delivery'[v] \in accepted'
    BY <1>t, <1>f, <1>a, <2>1, <2>3 DEF Exact, Types, WorkerTypes
  <2>4. QED
    BY <2>2, <2>3 DEF Exact
<1>6. QED
  BY <1>f, <1>1, <1>2, <1>3, <1>4, <1>5
     DEF Next, WorkerStep, Trouble, DropBatch, InsertFails, PublishFails, SuccessThrows,
         FailureThrows, Stall, Patch

\* While an endpoint answers nothing with success, no two workers of any number lose
\* or repeat a failure in failureCount, and the endpoint is disabled exactly from the
\* limit on that handleFailure compares it with, whatever that limit is.
THEOREM FailuresCount == Spec => []FailuresAreCounted
<1>1. Init => ExactWithoutFaults
  <2> SUFFICES ASSUME Init PROVE Exact
    BY DEF ExactWithoutFaults
  <2>1. ASSUME NEW e \in Endpoints PROVE ExactAt(e)
    <3>1. Counting(e) = {} /\ WorkersAt("disable", e) = {}
      BY DEF Init, Counting, WorkersAt, At
    <3>2. count[e] = 0 /\ failures[e] = 0 /\ status[e] = "active"
      BY DEF Init
    <3>3. QED
      BY <3>1, <3>2, FS_EmptySet, WebhookAssumption DEF ExactAt
  <2>2. QED
    BY <2>1 DEF Init, Exact
<1>2. IInv /\ ExactWithoutFaults => FailuresAreCounted
  <2> SUFFICES ASSUME IInv, Exact, NEW e \in Endpoints, Silent(e)
               PROVE  /\ failures[e] =
                           count[e] + Cardinality(WorkersAt("row", e) \cup WorkersAt("count", e))
                      /\ WorkersAt("disable", e) = {} =>
                           (status[e] = "disabled" <=> count[e] >= Threshold)
    BY DEF FailuresAreCounted, Silent, ExactWithoutFaults
  <2>1. WorkersAt("row", e) \cup WorkersAt("count", e) = Counting(e)
    BY DEF WorkersAt, Counting, At
  <2>2. QED
    BY <2>1 DEF Exact, ExactAt
<1>3. QED
  BY <1>1, <1>2, StepExact, Inductive, PTL DEF Spec

=============================================================================
