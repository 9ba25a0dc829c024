------------------------------ MODULE Webhook ------------------------------
(***************************************************************************)
(* The webhook service: a polling loop that turns each event into one      *)
(* delivery per subscribed endpoint (index.ts, dispatcher.ts), and workers *)
(* that POST the deliveries (worker.ts).                                   *)
(*                                                                         *)
(* A delivery is retried by BullMQ, which counts attempts; beside it the   *)
(* worker keeps the delivery's row and the endpoint's failure count in     *)
(* database calls of their own, each of which may throw.  Every await is a *)
(* step here.                                                              *)
(*                                                                         *)
(* Left out: signatures, response texts, times, the columns that only      *)
(* record (attempts, status code, dates), and the deletion of an endpoint. *)
(* An event that Kafka repeats is another event: nothing compares ids.     *)
(***************************************************************************)
EXTENDS Naturals, FiniteSets

CONSTANTS
  Events,      \* messages of the topic events.webhook
  Endpoints,   \* webhook endpoints of the tenant
  Wants,       \* Wants[e]: the events that e's patterns match
  Unsafe,      \* endpoints whose URL isSafeWebhookUrl rejects
  Workers,     \* concurrent runs of processDelivery (concurrency: 10)
  NoOne,       \* no worker, event or delivery
  MaxTries,    \* attempts of a job, and maxRetries (5 in the code)
  Threshold,   \* failures that disable an endpoint (50 in worker.ts)
  MaxStalled,  \* times BullMQ gives a stalled job back (1 by default)
  MaxFaults    \* bound: injected faults and PATCH requests

\* A delivery is named by what it delivers, and where.
Deliveries == Events \X Endpoints
Target(d) == d[2]

ASSUME WebhookAssumption ==
  /\ Wants \in [Endpoints -> SUBSET Events]
  /\ Unsafe \subseteq Endpoints
  /\ NoOne \notin Workers \cup Events \cup Deliveries
  /\ MaxTries \in Nat \ {0}
  /\ Threshold \in Nat \ {0}
  /\ MaxStalled \in Nat
  /\ MaxFaults \in Nat

VARIABLES
  topic,     \* events not polled yet
  batch,     \* polled events whose dispatch has not begun
  event,     \* the event being dispatched
  targets,   \* endpoints it still has to be sent to
  created,   \* the delivery whose row was inserted last
  step,      \* where the polling loop is
  status,    \* webhook_endpoints.status
  count,     \* webhook_endpoints.failureCount
  row,       \* webhook_deliveries.status, "none" before the insert
  job,       \* BullMQ: the state of each delivery's job
  made,      \* BullMQ: attemptsMade
  stalls,    \* BullMQ: how often the job stalled
  lock,      \* BullMQ: the worker that holds the job
  pc,        \* where each worker is
  delivery,  \* the delivery it works on
  try,       \* the number of its attempt
  why,       \* what called handleFailure
  posts,     \* history: requests sent
  accepted,  \* history: deliveries that were answered with success
  rejected,  \* history: deliveries whose URL was rejected
  failures,  \* history: failed attempts of each endpoint
  faults     \* history: faults and PATCH requests

loopVars == <<topic, batch, event, targets, created, step>>
jobVars == <<job, made, stalls, lock>>
workerVars == <<pc, delivery, try, why>>
history == <<posts, accepted, rejected, failures>>
vars == <<loopVars, status, count, row, jobVars, workerVars, history, faults>>

Statuses == {"active", "paused", "disabled"}
RowStatuses == {"none", "pending", "retrying", "failed", "success"}
JobStates == {"none", "waiting", "active", "completed", "failed"}
LoopSteps == {"idle", "select", "fan", "add", "mark"}
WorkerSteps == {"idle", "post", "success", "reset",
                "row", "count", "disable", "done", "threw"}

\* handleFailure is called before the try block, in it, or in its catch.
Reasons == {"rejected", "http", "caught"}

Init ==
  /\ topic = Events
  /\ batch = {}
  /\ event = NoOne
  /\ targets = {}
  /\ created = NoOne
  /\ step = "idle"
  /\ status = [e \in Endpoints |-> "active"]
  /\ count = [e \in Endpoints |-> 0]
  /\ row = [d \in Deliveries |-> "none"]
  /\ job = [d \in Deliveries |-> "none"]
  /\ made = [d \in Deliveries |-> 0]
  /\ stalls = [d \in Deliveries |-> 0]
  /\ lock = [d \in Deliveries |-> NoOne]
  /\ pc = [w \in Workers |-> "idle"]
  /\ delivery = [w \in Workers |-> NoOne]
  /\ try = [w \in Workers |-> 1]
  /\ why = [w \in Workers |-> "caught"]
  /\ posts = [d \in Deliveries |-> 0]
  /\ accepted = {}
  /\ rejected = {}
  /\ failures = [e \in Endpoints |-> 0]
  /\ faults = 0

Fault == faults < MaxFaults /\ faults' = faults + 1

At(w, s) == pc[w] = s
Goto(w, s) == pc' = [pc EXCEPT ![w] = s]

\* The worker is done with its job.
Leave(w) ==
  /\ Goto(w, "idle")
  /\ delivery' = [delivery EXCEPT ![w] = NoOne]
  /\ try' = [try EXCEPT ![w] = 1]
  /\ why' = [why EXCEPT ![w] = "caught"]

-----------------------------------------------------------------------------
(* The polling loop: startEventConsumer and dispatchEvent.                 *)

Poll ==
  /\ step = "idle"
  /\ \E S \in SUBSET topic :
       /\ S # {}
       /\ topic' = topic \ S
       /\ batch' = S
  /\ step' = "select"
  /\ UNCHANGED <<event, targets, created, status, count, row, jobVars,
                 workerVars, history, faults>>

\* Only endpoints that are active now get a delivery.
SelectEndpoints ==
  /\ step = "select"
  /\ \E v \in batch :
       /\ batch' = batch \ {v}
       /\ event' = v
       /\ targets' = {e \in Endpoints :
                        status[e] = "active" /\ v \in Wants[e]}
  /\ step' = "fan"
  /\ UNCHANGED <<topic, created, status, count, row, jobVars, workerVars,
                 history, faults>>

Insert ==
  /\ step = "fan"
  /\ \E e \in targets :
       /\ targets' = targets \ {e}
       /\ created' = <<event, e>>
       /\ row' = [row EXCEPT ![<<event, e>>] = "pending"]
  /\ step' = "add"
  /\ UNCHANGED <<topic, batch, event, status, count, jobVars, workerVars,
                 history, faults>>

\* Mutant: the delivery is recorded and not published.
AddNothing ==
  /\ step = "add"
  /\ step' = "fan"
  /\ created' = NoOne
  /\ UNCHANGED <<topic, batch, event, targets, status, count, row,
                 jobVars, workerVars, history, faults>>

Add ==
  /\ step = "add"
  /\ job' = [job EXCEPT ![created] = "waiting"]
  /\ step' = "fan"
  /\ created' = NoOne
  /\ UNCHANGED <<topic, batch, event, targets, status, count, row,
                 made, stalls, lock, workerVars, history, faults>>

\* markDeliveryAsFailed, after a publication that threw.
MarkDeliveryAsFailed ==
  /\ step = "mark"
  /\ row' = [row EXCEPT ![created] = "failed"]
  /\ step' = "fan"
  /\ created' = NoOne
  /\ UNCHANGED <<topic, batch, event, targets, status, count, jobVars,
                 workerVars, history, faults>>

NextEvent ==
  /\ step = "fan"
  /\ targets = {}
  /\ event' = NoOne
  /\ step' = IF batch = {} THEN "idle" ELSE "select"
  /\ UNCHANGED <<topic, batch, targets, created, status, count, row, jobVars,
                 workerVars, history, faults>>

\* A query of dispatchEvent throws, or the process dies: the rest of the batch,
\* whose offsets are committed, is dropped.
DropBatch ==
  /\ Fault
  /\ step # "idle"
  /\ batch' = {} /\ event' = NoOne /\ targets' = {} /\ created' = NoOne
  /\ step' = "idle"
  /\ UNCHANGED <<topic, status, count, row, jobVars, workerVars, history>>

\* The insert of one delivery throws: the loop goes on with the next endpoint.
InsertFails ==
  /\ Fault
  /\ step = "fan"
  /\ \E e \in targets : targets' = targets \ {e}
  /\ UNCHANGED <<topic, batch, event, created, step, status, count, row,
                 jobVars, workerVars, history>>

\* queue.add throws, with or without its effect; or the update that records
\* this throws, which is only logged.
PublishFails ==
  /\ Fault
  /\ \/ /\ step = "add"
        /\ job' \in {job, [job EXCEPT ![created] = "waiting"]}
        /\ step' = "mark"
        /\ UNCHANGED created
     \/ /\ step = "mark"
        /\ step' = "fan"
        /\ created' = NoOne
        /\ UNCHANGED job
  /\ UNCHANGED <<topic, batch, event, targets, status, count, row, made, stalls,
                 lock, workerVars, history>>

-----------------------------------------------------------------------------
(* A worker: processDelivery, and handleFailure from "row" on.             *)

Take(w) ==
  /\ At(w, "idle")
  /\ \E d \in Deliveries :
       /\ job[d] = "waiting"
       /\ job' = [job EXCEPT ![d] = "active"]
       /\ lock' = [lock EXCEPT ![d] = w]
       /\ delivery' = [delivery EXCEPT ![w] = d]
       /\ try' = [try EXCEPT ![w] = made[d] + 1]
  /\ Goto(w, "post")
  /\ UNCHANGED <<loopVars, status, count, row, made, stalls, why, history,
                 faults>>

\* The attempt has failed: call handleFailure.
Fail(w, reason) ==
  /\ Goto(w, "row")
  /\ why' = [why EXCEPT ![w] = reason]
  /\ failures' = [failures EXCEPT ![Target(delivery[w])] = @ + 1]

\* The URL is rejected, as it is when its name does not resolve; or the endpoint
\* answers with success or an error status, or the request throws (no answer in
\* time, connection lost), whatever the endpoint made of it.
Reject(w) ==
  /\ At(w, "post")
  /\ IF Target(delivery[w]) \in Unsafe THEN UNCHANGED faults ELSE Fault
  /\ Fail(w, "rejected")
  /\ rejected' = rejected \cup {delivery[w]}
  /\ UNCHANGED <<loopVars, status, count, row, jobVars, delivery, try, posts,
                 accepted>>

Post(w) ==
  /\ At(w, "post")
  /\ Target(delivery[w]) \notin Unsafe
  /\ posts' = [posts EXCEPT ![delivery[w]] = @ + 1]
  /\ \/ /\ accepted' = accepted \cup {delivery[w]}
        /\ Goto(w, "success")
        /\ UNCHANGED <<why, failures>>
     \/ \E reason \in {"http", "caught"} : Fail(w, reason) /\ UNCHANGED accepted
  /\ UNCHANGED <<loopVars, status, count, row, jobVars, delivery, try, rejected,
                 faults>>

RecordSuccess(w) ==
  /\ At(w, "success")
  /\ row' = [row EXCEPT ![delivery[w]] = "success"]
  /\ Goto(w, "reset")
  /\ UNCHANGED <<loopVars, status, count, jobVars, delivery, try, why, history,
                 faults>>

\* Mutant: a success takes back one failure.
TakeOneBack(w) ==
  /\ At(w, "reset")
  /\ count' = [count EXCEPT ![Target(delivery[w])] = @ - 1]
  /\ Goto(w, "done")
  /\ UNCHANGED <<loopVars, status, row, jobVars, delivery, try, why, history,
                 faults>>

ResetFailureCount(w) ==
  /\ At(w, "reset")
  /\ count' = [count EXCEPT ![Target(delivery[w])] = 0]
  /\ Goto(w, "done")
  /\ UNCHANGED <<loopVars, status, row, jobVars, delivery, try, why, history,
                 faults>>

\* Either update throws: the catch block treats it as a failed delivery.
SuccessThrows(w) ==
  /\ Fault
  /\ pc[w] \in {"success", "reset"}
  /\ Fail(w, "caught")
  /\ UNCHANGED <<loopVars, status, count, row, jobVars, delivery, try, posts,
                 accepted, rejected>>

\* Mutant: the last attempt is not recognised.
IsLastTooLate(w) == try[w] > MaxTries

IsLastAttempt(w) == try[w] >= MaxTries

RecordFailure(w) ==
  /\ At(w, "row")
  /\ row' = [row EXCEPT ![delivery[w]] =
               IF IsLastAttempt(w) THEN "failed" ELSE "retrying"]
  /\ Goto(w, "count")
  /\ UNCHANGED <<loopVars, status, count, jobVars, delivery, try, why, history,
                 faults>>

\* After handleFailure a rejected job returns, the others throw.
AfterFailure(w) == IF why[w] = "rejected" THEN "done" ELSE "threw"

\* Mutants: one failure too few is enough; the count from before is compared.
TooManyEarly(e) == count[e] + 1 >= Threshold - 1
TooManyLate(e) == count[e] >= Threshold /\ status[e] # "disabled"

\* Read from the row that the increment returns.
TooMany(e) == count[e] + 1 >= Threshold /\ status[e] # "disabled"

CountFailure(w) ==
  LET e == Target(delivery[w]) IN
  /\ At(w, "count")
  /\ count' = [count EXCEPT ![e] = @ + 1]
  /\ Goto(w, IF TooMany(e) THEN "disable" ELSE AfterFailure(w))
  /\ UNCHANGED <<loopVars, status, row, jobVars, delivery, try, why, history,
                 faults>>

Disable(w) ==
  /\ At(w, "disable")
  /\ status' = [status EXCEPT ![Target(delivery[w])] = "disabled"]
  /\ Goto(w, AfterFailure(w))
  /\ UNCHANGED <<loopVars, count, row, jobVars, delivery, try, why, history,
                 faults>>

\* An update of handleFailure throws, without its effect: in the try block its
\* catch calls it again.
FailureThrows(w) ==
  /\ Fault
  /\ pc[w] \in {"row", "count", "disable"}
  /\ IF why[w] = "http"
     THEN Goto(w, "row") /\ why' = [why EXCEPT ![w] = "caught"]
     ELSE Goto(w, "threw") /\ UNCHANGED why
  /\ UNCHANGED <<loopVars, status, count, row, jobVars, delivery, try, history>>

\* Mutants: BullMQ is given one attempt more, or one less, than maxRetries says.
AttemptsOneMore(d) == IF made[d] + 1 > MaxTries THEN "failed" ELSE "waiting"
AttemptsOneLess(d) == IF made[d] + 2 >= MaxTries THEN "failed" ELSE "waiting"

\* A job is retried until its attempts are used up.
AfterThrow(d) == IF made[d] + 1 >= MaxTries THEN "failed" ELSE "waiting"

\* The job ends or is retried, unless the worker has lost its lock.
Finish(w) ==
  LET d == delivery[w] IN
  /\ pc[w] \in {"done", "threw"}
  /\ IF lock[d] = w
     THEN /\ job' = [job EXCEPT ![d] =
                       IF At(w, "done") THEN "completed" ELSE AfterThrow(d)]
          /\ made' = [made EXCEPT ![d] = @ + 1]
          /\ lock' = [lock EXCEPT ![d] = NoOne]
     ELSE UNCHANGED <<job, made, lock>>
  /\ Leave(w)
  /\ UNCHANGED <<loopVars, status, count, row, stalls, history, faults>>

\* BullMQ takes the job of a worker that has died or is too slow, which goes on.
Stall(w) ==
  LET d == delivery[w] IN
  /\ Fault
  /\ ~At(w, "idle") /\ lock[d] = w
  /\ lock' = [lock EXCEPT ![d] = NoOne]
  /\ stalls' = [stalls EXCEPT ![d] = @ + 1]
  /\ job' = [job EXCEPT ![d] =
               IF stalls[d] < MaxStalled THEN "waiting" ELSE "failed"]
  /\ Leave(w) \/ UNCHANGED workerVars
  /\ UNCHANGED <<loopVars, status, count, row, made, history>>

\* PATCH /webhooks/:id pauses or activates an endpoint, whatever its status; its
\* failure count stays.  (A user who disables it himself is left out.)
Patch(e) ==
  /\ Fault
  /\ \E s \in {"active", "paused"} \ {status[e]} :
       status' = [status EXCEPT ![e] = s]
  /\ UNCHANGED <<loopVars, count, row, jobVars, workerVars, history>>

-----------------------------------------------------------------------------
LoopStep ==
  Poll \/ SelectEndpoints \/ Insert \/ Add \/ MarkDeliveryAsFailed \/ NextEvent

WorkerStep(w) ==
  \/ Take(w) \/ Reject(w) \/ Post(w)
  \/ RecordSuccess(w) \/ ResetFailureCount(w)
  \/ RecordFailure(w) \/ CountFailure(w) \/ Disable(w)
  \/ Finish(w)

Trouble ==
  \/ DropBatch \/ InsertFails \/ PublishFails
  \/ \E w \in Workers : SuccessThrows(w) \/ FailureThrows(w) \/ Stall(w)

Next ==
  \/ LoopStep
  \/ \E w \in Workers : WorkerStep(w)
  \/ Trouble
  \/ \E e \in Endpoints : Patch(e)

Spec == Init /\ [][Next]_vars

\* The loop reschedules itself and workers keep taking jobs; nothing else has to
\* happen.
FairSpec ==
  /\ Spec
  /\ WF_vars(LoopStep)
  /\ \A w \in Workers : WF_vars(WorkerStep(w))

-----------------------------------------------------------------------------
TypeOK ==
  /\ topic \subseteq Events
  /\ batch \subseteq Events
  /\ event \in Events \cup {NoOne}
  /\ targets \subseteq Endpoints
  /\ created \in Deliveries \cup {NoOne}
  /\ step \in LoopSteps
  /\ status \in [Endpoints -> Statuses]
  /\ count \in [Endpoints -> Nat]
  /\ row \in [Deliveries -> RowStatuses]
  /\ job \in [Deliveries -> JobStates]
  /\ made \in [Deliveries -> Nat]
  /\ stalls \in [Deliveries -> Nat]
  /\ lock \in [Deliveries -> Workers \cup {NoOne}]
  /\ pc \in [Workers -> WorkerSteps]
  /\ delivery \in [Workers -> Deliveries \cup {NoOne}]
  /\ try \in [Workers -> Nat \ {0}]
  /\ why \in [Workers -> Reasons]
  /\ posts \in [Deliveries -> Nat]
  /\ accepted \subseteq Deliveries
  /\ rejected \subseteq Deliveries
  /\ failures \in [Endpoints -> Nat]
  /\ faults \in Nat

\* An endpoint gets a delivery at most as often as its job may be attempted, and
\* once more for every stall, whatever throws in between: a success that could
\* not be recorded is sent again, but counts as an attempt.
RepeatsAreBounded == \A d \in Deliveries : posts[d] <= MaxTries + stalls[d]

\* BullMQ's attempts and the schedule that handleFailure writes agree: without
\* faults a job that will run again has an open row, one that has used up its
\* attempts a failed row, one that returned a successful row.
RetriesAgree ==
  faults = 0 =>
    \A d \in Deliveries \ rejected :
      /\ job[d] = "waiting" => row[d] \in {"pending", "retrying"}
      /\ job[d] = "completed" => row[d] = "success"
      /\ job[d] = "failed" => row[d] = "failed"

\* An endpoint is disabled only after as many failed attempts as the threshold
\* says; each attempt counts once, or twice when a database call threw.
DisabledByFailures ==
  [][\A e \in Endpoints :
       status[e] # "disabled" /\ status'[e] = "disabled" =>
         failures[e] + faults >= Threshold]_vars

\* A queued delivery is accepted in the end, or all its attempts were sent, even
\* if a worker dies, loses its lock or meets a database error (unless its URL is
\* rejected, or BullMQ gives up on it after too many stalls).
AtLeastOnce ==
  \A d \in Deliveries :
    job[d] = "waiting" ~>
      \/ d \in accepted \/ posts[d] >= MaxTries
      \/ d \in rejected \/ stalls[d] > MaxStalled

\* Without faults the row of a delivery whose URL is not rejected tells its
\* outcome in the end.
DeliveriesSettle ==
  \A d \in Deliveries :
    row[d] = "pending" ~>
      row[d] \in {"success", "failed"} \/ d \in rejected \/ faults > 0

\* The workers at step s with a delivery to e.
WorkersAt(s, e) == {w \in Workers : At(w, s) /\ Target(delivery[w]) = e}

\* As long as no delivery to an endpoint is accepted, concurrent workers lose no
\* failure and count none twice, and the endpoint is disabled from the limit on with
\* which worker.ts compares the count, no sooner and no later, but for the worker
\* that is about to do it (unless a database call throws or a PATCH request
\* interferes).  The limit is the 50 of worker.ts; MAX_WEBHOOK_FAILURES in
\* packages/shared, 10 consecutive failures, is read nowhere.
FailuresAreCounted ==
  \A e \in Endpoints :
    faults = 0 /\ (\A d \in accepted : Target(d) # e) =>
      /\ failures[e] = count[e] + Cardinality(WorkersAt("row", e) \cup WorkersAt("count", e))
      /\ WorkersAt("disable", e) = {} => (status[e] = "disabled" <=> count[e] >= Threshold)

=============================================================================
