----------------------------- MODULE TaskGraph -----------------------------
(***************************************************************************)
(* The task graph executor of the orchestrator (task-graph.ts), driven by  *)
(* its Kafka polling loops (index.ts) and signal handlers (task-router.ts).*)
(*                                                                         *)
(* A graph lives under one Redis key and is updated by an optimistic       *)
(* transaction: UNWATCH, WATCH key, GET, compute, MULTI/SET/EXEC, retried  *)
(* while EXEC aborts.  Every await is a step here.  A handler is one       *)
(* polling loop; ConnOf says which Redis connection its commands go over,  *)
(* since all loops of one process share one connection (getRedis).         *)
(*                                                                         *)
(* Left out: task inputs, priorities and logging.  failedTasks is always   *)
(* empty in the code (no statement adds to it), so it is not a field here. *)
(***************************************************************************)
EXTENDS Naturals, FiniteSets

CONSTANTS
  Nodes,         \* task ids of every graph and batch
  InitialNodes,  \* the nodes of the graph submitted to executeGraph
  Batches,       \* node sets that later signals inject (pivotNodes)
  Deps,          \* dependsOn of each node
  Routable,      \* nodes whose type is a key of TASK_TO_AGENT_MAP
  Completers,    \* polling loops over the completed-task topic
  Injectors,     \* polling loops over the signal topic
  Conns,         \* Redis connections
  ConnOf,        \* the connection each loop uses
  Keys,          \* graph ids randomUUID can return
  NoKey,         \* a task message without a graphId
  MaxAttempts,   \* attempts of an optimistic transaction (5 in the code)
  MaxFaults      \* bound: injected faults in one behaviour

Handlers == Completers \cup Injectors

Roots(ns) == {n \in ns : Deps[n] = {}}

ASSUME NodesAssumption ==
  /\ IsFiniteSet(Nodes)
  /\ InitialNodes \subseteq Nodes
  /\ \A b \in Batches : b \subseteq Nodes /\ b \cap InitialNodes = {}
  /\ \A b, c \in Batches : b # c => b \cap c = {}

\* Pivot nodes are submitted with dependsOn: [] (task-router.ts 294-299).
ASSUME DepsAssumption ==
  /\ Deps \in [Nodes -> SUBSET Nodes]
  /\ \A n \in InitialNodes : Deps[n] \subseteq InitialNodes
  /\ \A b \in Batches : \A n \in b : Deps[n] = {}

\* executeGraph throws for a graph without a root, before it changes anything.
ASSUME RootAssumption == Roots(InitialNodes) # {} /\ {} \notin Batches

ASSUME LoopsAssumption ==
  /\ Completers \cap Injectors = {}
  /\ ConnOf \in [Handlers -> Conns]
  /\ NoKey \notin Keys
  /\ Keys # {}
  /\ MaxAttempts \in Nat \ {0}
  /\ MaxFaults \in Nat

-----------------------------------------------------------------------------
VARIABLES
  graphs,       \* Redis: the graph stored under each key
  present,      \* Redis: the keys that exist
  used,         \* graph ids handed out so far
  watched,      \* per connection: the keys under WATCH
  dirty,        \* per connection: a watched key was written
  row,          \* agent_tasks.status of each node, "none" before the insert
  jobs,         \* BullMQ: task ids that were added to a queue
  graphOf,      \* the graphId in the payload of each job
  finished,     \* tasks an agent has completed
  completions,  \* completed-task messages not yet handled
  todo,         \* batches whose signal has not arrived yet
  pc,           \* where each polling loop is
  key,          \* the graph it works on
  work,         \* the finished task of a completion, or a signal's nodes
  attempt,      \* attempts of its transaction that have aborted
  snap,         \* the graph it has read
  ready,        \* the nodes it still has to start
  last,         \* its completion finished the graph
  claims,       \* history: how often a node was picked for dispatch
  faults,       \* history: faults injected so far
  gaveUp        \* history: some transaction used up its attempts

vars == <<graphs, present, used, watched, dirty, row, jobs, graphOf, finished,
          completions, todo, pc, key, work, attempt, snap, ready, last,
          claims, faults, gaveUp>>

redisVars == <<graphs, present, used, watched, dirty>>
queueVars == <<row, jobs, graphOf, finished, completions>>
loopVars == <<pc, key, work, attempt, snap, ready, last>>

Graph == [nodes : SUBSET Nodes, completed : SUBSET Nodes,
          dispatched : SUBSET Nodes]

EmptyGraph == [nodes |-> {}, completed |-> {}, dispatched |-> {}]

Statuses == {"none", "queued", "pending", "completed", "failed"}

Steps == {"idle", "create", "unwatch", "watch", "get", "exec", "start", "tail"}

Messages == [task : Nodes, graphId : Keys \cup {NoKey}]

Conn(h) == ConnOf[h]

AnyKey == CHOOSE k \in Keys : TRUE

At(h, step) == pc[h] = step

\* The step a loop takes next, its local variables kept, ...
Goto(h, step) ==
  /\ pc' = [pc EXCEPT ![h] = step]
  /\ UNCHANGED <<key, work, attempt, snap, ready, last>>

\* ... or those of a new call.
Begin(h, step, k, w) ==
  /\ pc' = [pc EXCEPT ![h] = step]
  /\ key' = [key EXCEPT ![h] = k]
  /\ work' = [work EXCEPT ![h] = w]
  /\ attempt' = [attempt EXCEPT ![h] = 0]
  /\ snap' = [snap EXCEPT ![h] = EmptyGraph]
  /\ ready' = [ready EXCEPT ![h] = {}]
  /\ last' = [last EXCEPT ![h] = FALSE]

Return(h) == Begin(h, "idle", AnyKey, {})

-----------------------------------------------------------------------------
(* Pure updates of a graph: the bodies of the two transactions.            *)

\* Mutant: one completed dependency is enough.
ReadyAfterOne(g, ns) ==
  {n \in ns : /\ n \notin g.dispatched
              /\ Deps[n] = {} \/ Deps[n] \cap g.completed # {}}

\* Ready nodes among ns: not yet dispatched, every dependency completed.
ReadyAmong(g, ns) ==
  {n \in ns : n \notin g.dispatched /\ Deps[n] \subseteq g.completed}

\* A graph in which the nodes of w have completed, been added, been dispatched.
WithCompleted(g, w) == [nodes |-> g.nodes, completed |-> g.completed \cup w,
                        dispatched |-> g.dispatched]
WithNodes(g, w) == [nodes |-> g.nodes \cup w, completed |-> g.completed,
                    dispatched |-> g.dispatched]
WithDispatched(g, w) == [nodes |-> g.nodes, completed |-> g.completed,
                         dispatched |-> g.dispatched \cup w]

\* The graph a handler writes, before its ready nodes are marked dispatched.
Revised(h) ==
  IF h \in Completers THEN WithCompleted(snap[h], work[h])
                      ELSE WithNodes(snap[h], work[h])

\* Mutant: readiness is decided before the completion is recorded.
NewlyReadyBefore(h) ==
  ReadyAmong(snap[h], Revised(h).nodes \ Revised(h).completed)

\* markTaskCompleted scans the whole graph, injectNodes only the new nodes.
NewlyReady(h) ==
  IF h \in Completers
  THEN ReadyAmong(Revised(h), Revised(h).nodes \ Revised(h).completed)
  ELSE ReadyAmong(Revised(h), work[h])

\* Mutant: the ready nodes are not marked as dispatched.
CommittedUnmarked(h) == Revised(h)

Committed(h) == WithDispatched(Revised(h), NewlyReady(h))

\* isComplete compares array lengths, not contents.
IsComplete(g) == Cardinality(g.completed) = Cardinality(g.nodes)

-----------------------------------------------------------------------------
Init ==
  /\ graphs = [k \in Keys |-> EmptyGraph]
  /\ present = {}
  /\ used = {}
  /\ watched = [c \in Conns |-> {}]
  /\ dirty = [c \in Conns |-> FALSE]
  /\ row = [n \in Nodes |-> "none"]
  /\ jobs = {}
  /\ graphOf = [n \in Nodes |-> NoKey]
  /\ finished = {}
  /\ completions = {}
  /\ todo = Batches
  /\ pc = [h \in Handlers |-> "idle"]
  /\ key = [h \in Handlers |-> AnyKey]
  /\ work = [h \in Handlers |-> {}]
  /\ attempt = [h \in Handlers |-> 0]
  /\ snap = [h \in Handlers |-> EmptyGraph]
  /\ ready = [h \in Handlers |-> {}]
  /\ last = [h \in Handlers |-> FALSE]
  /\ claims = [n \in Nodes |-> 0]
  /\ faults = 0
  /\ gaveUp = FALSE

\* A write to key k aborts the transactions of the connections watching it.
Touch(k) == dirty' = [c \in Conns |-> dirty[c] \/ k \in watched[c]]

\* UNWATCH, and the implicit one of EXEC, clear the connection, whoever watched.
Unwatched(c) ==
  /\ watched' = [watched EXCEPT ![c] = {}]
  /\ dirty' = [dirty EXCEPT ![c] = FALSE]

-----------------------------------------------------------------------------
(* Signals: the first submits the graph, the others inject their batch.    *)

AnomalyDetected(h) ==
  /\ At(h, "idle")
  /\ used = {} /\ \A i \in Injectors : ~At(i, "create")
  /\ Begin(h, "create", AnyKey, InitialNodes)
  /\ UNCHANGED <<redisVars, queueVars, todo, claims, faults, gaveUp>>

AnomalyEscalated(h) ==
  /\ At(h, "idle")
  /\ \E b \in todo, k \in used :
       /\ todo' = todo \ {b}
       /\ Begin(h, "unwatch", k, b)
  /\ UNCHANGED <<redisVars, queueVars, claims, faults, gaveUp>>

\* executeGraph: SET a fresh key with the roots already marked dispatched.
ExecuteGraph(h) ==
  /\ At(h, "create")
  /\ \E k \in Keys \ used :
       LET roots == Roots(work[h]) IN
       /\ used' = used \cup {k}
       /\ present' = present \cup {k}
       /\ graphs' = [graphs EXCEPT ![k] = [nodes |-> work[h],
                                           completed |-> {},
                                           dispatched |-> roots]]
       /\ claims' = [n \in Nodes |-> claims[n] + IF n \in roots THEN 1 ELSE 0]
       /\ pc' = [pc EXCEPT ![h] = "start"]
       /\ key' = [key EXCEPT ![h] = k]
       /\ ready' = [ready EXCEPT ![h] = roots]
  /\ UNCHANGED <<watched, dirty, queueVars, todo, work, attempt, snap, last,
                 faults, gaveUp>>

-----------------------------------------------------------------------------
(* onTaskCompleted up to the transaction.  A message may be handled twice: *)
(* the producer retries a send whose acknowledgement was lost.             *)

ReceiveCompletion(h) ==
  /\ At(h, "idle")
  /\ \E m \in completions :
       /\ row' = [row EXCEPT ![m.task] = "completed"]
       /\ IF m.graphId = NoKey
          THEN Begin(h, "tail", AnyKey, {})
          ELSE Begin(h, "unwatch", m.graphId, {m.task})
       /\ \/ completions' = completions \ {m} /\ UNCHANGED faults
          \/ /\ faults < MaxFaults
             /\ faults' = faults + 1
             /\ UNCHANGED completions
  /\ UNCHANGED <<redisVars, jobs, graphOf, finished, todo, claims, gaveUp>>

-----------------------------------------------------------------------------
(* The optimistic transaction, shared by markTaskCompleted and injectNodes.*)

Unwatch(h) ==
  /\ At(h, "unwatch")
  /\ Unwatched(Conn(h))
  /\ Goto(h, "watch")
  /\ UNCHANGED <<graphs, present, used, queueVars, todo, claims, faults, gaveUp>>

\* Mutant: the key is read without watching it.
WatchNothing(h) ==
  /\ At(h, "watch")
  /\ Goto(h, "get")
  /\ UNCHANGED <<redisVars, queueVars, todo, claims, faults, gaveUp>>

Watch(h) ==
  /\ At(h, "watch")
  /\ watched' = [watched EXCEPT ![Conn(h)] = @ \cup {key[h]}]
  /\ Goto(h, "get")
  /\ UNCHANGED <<graphs, present, used, dirty, queueVars, todo, claims, faults,
                 gaveUp>>

Get(h) ==
  /\ At(h, "get")
  /\ key[h] \in present
  /\ pc' = [pc EXCEPT ![h] = "exec"]
  /\ snap' = [snap EXCEPT ![h] = graphs[key[h]]]
  /\ UNCHANGED <<redisVars, queueVars, todo, key, work, attempt, ready, last,
                 claims, faults, gaveUp>>

\* GET returns nothing: a completion is done with the graph, an injection
\* starts a new graph of its own nodes.
GetMissing(h) ==
  /\ At(h, "get")
  /\ key[h] \notin present
  /\ Unwatched(Conn(h))
  /\ Goto(h, IF h \in Completers THEN "tail" ELSE "create")
  /\ UNCHANGED <<graphs, present, used, queueVars, todo, claims, faults, gaveUp>>

\* EXEC runs: the connection's watches are dropped, then SET is applied.
Commit(h) ==
  /\ At(h, "exec")
  /\ ~dirty[Conn(h)]
  /\ graphs' = [graphs EXCEPT ![key[h]] = Committed(h)]
  /\ present' = present \cup {key[h]}
  /\ watched' = [watched EXCEPT ![Conn(h)] = {}]
  /\ dirty' = [c \in Conns |-> c # Conn(h) /\
                 (dirty[c] \/ key[h] \in watched[c])]
  /\ claims' = [n \in Nodes |->
                  claims[n] + IF n \in NewlyReady(h) THEN 1 ELSE 0]
  /\ pc' = [pc EXCEPT ![h] = "start"]
  /\ ready' = [ready EXCEPT ![h] = NewlyReady(h)]
  /\ last' = [last EXCEPT ![h] = IsComplete(Revised(h))]
  /\ UNCHANGED <<used, queueVars, todo, key, work, attempt, snap, faults,
                 gaveUp>>

\* Mutant: the last attempt retries once more.
RetryOnceMore(h) ==
  /\ At(h, "exec")
  /\ dirty[Conn(h)]
  /\ attempt[h] < MaxAttempts
  /\ Unwatched(Conn(h))
  /\ pc' = [pc EXCEPT ![h] = "unwatch"]
  /\ attempt' = [attempt EXCEPT ![h] = @ + 1]
  /\ snap' = [snap EXCEPT ![h] = EmptyGraph]
  /\ UNCHANGED <<graphs, present, used, queueVars, todo, key, work, ready, last,
                 claims, faults, gaveUp>>

\* EXEC aborts.  The UNWATCH of the finally block and the one that opens the
\* next attempt are one step (Unwatch); the wait between them is only time.
Retry(h) ==
  /\ At(h, "exec")
  /\ dirty[Conn(h)]
  /\ attempt[h] + 1 < MaxAttempts
  /\ Unwatched(Conn(h))
  /\ pc' = [pc EXCEPT ![h] = "unwatch"]
  /\ attempt' = [attempt EXCEPT ![h] = @ + 1]
  /\ snap' = [snap EXCEPT ![h] = EmptyGraph]
  /\ UNCHANGED <<graphs, present, used, queueVars, todo, key, work, ready, last,
                 claims, faults, gaveUp>>

\* "Failed to update task graph after multiple retries": the polling loop logs
\* the exception and drops the message.
GiveUp(h) ==
  /\ At(h, "exec")
  /\ dirty[Conn(h)]
  /\ attempt[h] + 1 = MaxAttempts
  /\ Unwatched(Conn(h))
  /\ Return(h)
  /\ gaveUp' = TRUE
  /\ UNCHANGED <<graphs, present, used, queueVars, todo, claims, faults>>

-----------------------------------------------------------------------------
(* Dispatch of the ready nodes, one insert and one publish at a time.      *)

\* BullMQ ignores an add whose jobId it already knows, so the payload of the
\* first add stays.
AddJobs(S, k) ==
  /\ jobs' = jobs \cup S
  /\ graphOf' = [n \in Nodes |-> IF n \in S \ jobs THEN k ELSE graphOf[n]]

\* Node n is done with, started or not.
Take(h, n) ==
  /\ ready' = [ready EXCEPT ![h] = @ \ {n}]
  /\ UNCHANGED <<pc, key, work, attempt, snap, last>>

\* No agent for the type: the loop continues, nothing is inserted or published.
SkipNode(h) ==
  /\ At(h, "start")
  /\ \E n \in ready[h] \ Routable : Take(h, n)
  /\ UNCHANGED <<redisVars, queueVars, todo, claims, faults, gaveUp>>

StartNode(h) ==
  /\ At(h, "start")
  /\ \E n \in ready[h] \cap Routable :
       /\ row' = [row EXCEPT ![n] = IF @ = "none" THEN "queued" ELSE @]
       /\ AddJobs({n}, key[h])
       /\ Take(h, n)
  /\ UNCHANGED <<redisVars, finished, completions, todo, claims, faults, gaveUp>>

\* publishAgentTask throws; after its 5 s timeout the add may still have
\* happened.
StartNodeFails(h) ==
  /\ At(h, "start")
  /\ faults < MaxFaults
  /\ faults' = faults + 1
  /\ \E n \in ready[h] \cap Routable :
       /\ row' = [row EXCEPT ![n] = "pending"]
       /\ \/ AddJobs({n}, key[h])
          \/ UNCHANGED <<jobs, graphOf>>
       /\ Take(h, n)
  /\ UNCHANGED <<redisVars, finished, completions, todo, claims, gaveUp>>

\* injectNodes and executeGraph return after the last ready node.
SignalDone(h) ==
  /\ h \in Injectors
  /\ At(h, "start")
  /\ ready[h] = {}
  /\ Return(h)
  /\ UNCHANGED <<redisVars, queueVars, todo, claims, faults, gaveUp>>

\* Mutant: the graph is deleted after every completion.
CleanUpAlways(h) ==
  /\ h \in Completers
  /\ At(h, "start")
  /\ ready[h] = {}
  /\ present' = present \ {key[h]}
  /\ graphs' = [graphs EXCEPT ![key[h]] = EmptyGraph]
  /\ Touch(key[h])
  /\ Goto(h, "tail")
  /\ UNCHANGED <<used, watched, queueVars, todo, claims, faults, gaveUp>>

\* Mutant: the DEL is missing.
CleanUpNever(h) ==
  /\ h \in Completers
  /\ At(h, "start")
  /\ ready[h] = {}
  /\ Goto(h, "tail")
  /\ UNCHANGED <<redisVars, queueVars, todo, claims, faults, gaveUp>>

\* onTaskCompleted after the last ready node: DEL when the graph was complete.
CleanUp(h) ==
  /\ h \in Completers
  /\ At(h, "start")
  /\ ready[h] = {}
  /\ IF last[h] /\ key[h] \in present
     THEN /\ present' = present \ {key[h]}
          /\ graphs' = [graphs EXCEPT ![key[h]] = EmptyGraph]
          /\ Touch(key[h])
     ELSE UNCHANGED <<present, graphs, dirty>>
  /\ Goto(h, "tail")
  /\ UNCHANGED <<used, watched, queueVars, todo, claims, faults, gaveUp>>

\* dispatchQueuedTasksForTenant: publish pending rows, as many as the tenant's
\* capacity allows, from the row alone, which carries no graphId.  A row whose
\* publish fails is marked failed.
DispatchPending(h) ==
  /\ At(h, "tail")
  /\ LET pending == {n \in Nodes : row[n] = "pending"} IN
     \E sent \in SUBSET pending, failed \in SUBSET pending :
       /\ sent \cap failed = {}
       /\ row' = [n \in Nodes |-> IF n \in sent THEN "queued"
                                  ELSE IF n \in failed THEN "failed"
                                  ELSE row[n]]
       /\ AddJobs(sent, NoKey)
       /\ IF failed = {} THEN UNCHANGED faults
          ELSE faults < MaxFaults /\ faults' = faults + 1
  /\ Return(h)
  /\ UNCHANGED <<redisVars, finished, completions, todo, claims, gaveUp>>

-----------------------------------------------------------------------------
(* The environment: agents, and what goes wrong.                           *)

\* An agent completes the job and reports it with the graphId of the payload,
\* the message type onTaskCompleted declares.
FinishNode(n) ==
  /\ n \in jobs \ finished
  /\ finished' = finished \cup {n}
  /\ completions' = completions \cup {[task |-> n, graphId |-> graphOf[n]]}
  /\ UNCHANGED <<redisVars, row, jobs, graphOf, todo, loopVars, claims, faults, gaveUp>>

Fault ==
  /\ faults < MaxFaults
  /\ faults' = faults + 1

\* A call of the handler throws (database, Redis) or the process restarts: the
\* message is gone, and a watch of this handler is dropped.
AbortHandler(h) ==
  /\ Fault
  /\ ~At(h, "idle")
  /\ IF pc[h] \in {"get", "exec"} THEN Unwatched(Conn(h))
     ELSE UNCHANGED <<watched, dirty>>
  /\ Return(h)
  /\ UNCHANGED <<graphs, present, used, queueVars, todo, claims, gaveUp>>

\* The 24 h time to live of the key runs out.
ExpireGraph(k) ==
  /\ Fault
  /\ k \in present
  /\ present' = present \ {k}
  /\ graphs' = [graphs EXCEPT ![k] = EmptyGraph]
  /\ Touch(k)
  /\ UNCHANGED <<used, watched, queueVars, todo, loopVars, claims, gaveUp>>

\* A message whose offset was committed is lost with the consumer's buffer.
LoseCompletion(m) ==
  /\ Fault
  /\ completions' = completions \ {m}
  /\ UNCHANGED <<redisVars, row, jobs, graphOf, finished, todo, loopVars, claims, gaveUp>>

-----------------------------------------------------------------------------
HandlerStep(h) ==
  \/ ExecuteGraph(h)
  \/ Unwatch(h) \/ Watch(h) \/ Get(h) \/ GetMissing(h)
  \/ Commit(h) \/ Retry(h) \/ GiveUp(h)
  \/ SkipNode(h) \/ StartNode(h)
  \/ SignalDone(h) \/ CleanUp(h) \/ DispatchPending(h)

Next ==
  \/ \E h \in Injectors : AnomalyDetected(h) \/ AnomalyEscalated(h)
  \/ \E h \in Completers : ReceiveCompletion(h)
  \/ \E h \in Handlers : HandlerStep(h) \/ StartNodeFails(h) \/ AbortHandler(h)
  \/ \E n \in Nodes : FinishNode(n)
  \/ \E k \in Keys : ExpireGraph(k)
  \/ \E m \in completions : LoseCompletion(m)

Spec == Init /\ [][Next]_vars

\* Polling loops keep running and agents finish the jobs they are given; no
\* signal has to arrive and no fault has to happen.
FairSpec ==
  /\ Spec
  /\ \A h \in Handlers : WF_vars(HandlerStep(h))
  /\ WF_vars(\E h \in Completers : ReceiveCompletion(h))
  /\ \A n \in Nodes : WF_vars(FinishNode(n))

-----------------------------------------------------------------------------
TypeOK ==
  /\ graphs \in [Keys -> Graph]
  /\ present \subseteq Keys
  /\ used \subseteq Keys
  /\ watched \in [Conns -> SUBSET Keys]
  /\ dirty \in [Conns -> BOOLEAN]
  /\ row \in [Nodes -> Statuses]
  /\ jobs \subseteq Nodes
  /\ graphOf \in [Nodes -> Keys \cup {NoKey}]
  /\ finished \subseteq Nodes
  /\ completions \subseteq Messages
  /\ todo \subseteq Batches
  /\ pc \in [Handlers -> Steps]
  /\ key \in [Handlers -> Keys]
  /\ work \in [Handlers -> SUBSET Nodes]
  /\ attempt \in [Handlers -> 0 .. MaxAttempts - 1]
  /\ snap \in [Handlers -> Graph]
  /\ ready \in [Handlers -> SUBSET Nodes]
  /\ last \in [Handlers -> BOOLEAN]
  /\ claims \in [Nodes -> Nat]
  /\ faults \in Nat
  /\ gaveUp \in BOOLEAN

\* A node is picked for dispatch by at most one transaction, however many
\* completions race for it and however often a message is delivered.
ClaimedOnce == \A n \in Nodes : claims[n] <= 1

\* The stored graph never strands a node: once its dependencies are recorded
\* as completed it is recorded as dispatched, even when two of them complete
\* at the same time in two processes.
NoStrandedNode ==
  \A k \in present : \A n \in graphs[k].nodes :
    Deps[n] \subseteq graphs[k].completed => n \in graphs[k].dispatched

\* No update of a stored graph discards another handler's update
\* ("Atomically appends nodes to the graph", task-graph.ts 269).
UpdatesAreKept ==
  [][\A k \in present \cap present' :
       /\ graphs[k].nodes \subseteq graphs'[k].nodes
       /\ graphs[k].completed \subseteq graphs'[k].completed
       /\ graphs[k].dispatched \subseteq graphs'[k].dispatched]_vars

\* Deleting a graph (not its expiry) never loses a node that was not dispatched,
\* although an injection may commit between the last completion and the DEL.
DeletedGraphIsDispatched ==
  [][\A k \in present \ present' :
       faults' = faults => graphs[k].nodes \subseteq graphs[k].dispatched]_vars

\* Every change of the job queue starts tasks whose dependencies finished: the
\* executor implements the abstract schedule.
Dag == INSTANCE DagSchedule WITH started <- jobs
DagRefinement == Dag!DagSpec

\* "Dependent tasks start when all their dependencies complete": without faults
\* and without exhausted transactions, a routable node whose dependencies have
\* finished is eventually finished too.
ReadyNodesFinish ==
  \A n \in InitialNodes \cap Routable :
    (used # {} /\ Deps[n] \subseteq finished)
      ~> (n \in finished \/ faults > 0 \/ gaveUp)

\* Every graph is removed from Redis in the end, by the completion that finishes
\* it, whatever is injected meanwhile (all types routable, no fault).
GraphsAreRemoved ==
  used # {} ~> (present = {} \/ faults > 0 \/ gaveUp)

-----------------------------------------------------------------------------
\* Whatever is about to start, or has started, has finished dependencies; this
\* needs no atomicity, because a stale snapshot only knows fewer completions.
DepsFinished(S) == \A n \in S : Deps[n] \subseteq finished

DependencyOrder ==
  /\ \A k \in Keys : graphs[k].completed \subseteq finished
  /\ \A m \in completions : m.task \in finished
  /\ \A h \in Handlers : /\ snap[h].completed \subseteq finished
                          /\ DepsFinished(ready[h])
  /\ \A h \in Completers : work[h] \subseteq finished
  /\ \A n \in Nodes : row[n] = "pending" => Deps[n] \subseteq finished
  /\ DepsFinished(jobs)
  /\ finished \subseteq jobs
=============================================================================
