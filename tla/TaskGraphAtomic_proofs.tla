----------------------- MODULE TaskGraphAtomic_proofs -----------------------
(***************************************************************************)
(* The only way TaskGraph claims a node twice, loses an update or deletes a*)
(* graph too early.  The polling loops of a process share one connection   *)
(* (getRedis, index.ts), and Redis keeps WATCH per connection: an UNWATCH  *)
(* or EXEC of one loop disarms the transaction of another.  The theorems   *)
(* below hold for every assignment of connections to loops, the shared one *)
(* of the code included, and for every behaviour in which that does not    *)
(* happen.  Spec has no fairness and every prefix of a behaviour can be    *)
(* repeated forever in its last state, so they also say that the properties*)
(* hold up to the first such step.                                         *)
(***************************************************************************)
EXTENDS TaskGraph_proofs, FiniteSetTheorems

\* No other loop of h's connection is between its WATCH and its EXEC.
Alone(h) ==
  \A i \in Handlers : i # h /\ ConnOf[i] = ConnOf[h] => pc[i] \notin {"get", "exec"}

\* h ends the watches of its connection.
EndsWatches(h) ==
  \/ Unwatch(h) \/ GetMissing(h) \/ Commit(h) \/ Retry(h) \/ GiveUp(h)
  \/ AbortHandler(h) /\ pc[h] \in {"get", "exec"}

\* No loop ends the watch of another.  A connection for every loop is enough
\* for it, and so is any schedule that keeps the transactions of one connection
\* apart.
NoForeignUnwatch == \A h \in Handlers : EndsWatches(h) => Alone(h)

WatchesRespected == [][NoForeignUnwatch]_vars

-----------------------------------------------------------------------------
(* The inductive invariant.                                                *)

InTransaction == {"unwatch", "watch", "get", "exec"}

\* Completers never create a graph and injectors never reach the tail.
LoopSteps ==
  /\ \A h \in Completers : pc[h] # "create"
  /\ \A h \in Injectors : pc[h] # "tail"

\* A transaction that will commit has read the graph it overwrites.
Guarded(h) ==
  /\ pc[h] \in {"get", "exec"} => key[h] \in watched[Conn(h)]
  /\ pc[h] = "exec" /\ ~dirty[Conn(h)] =>
       key[h] \in present /\ snap[h] = graphs[key[h]]

WatchSound == \A h \in Handlers : Guarded(h)

\* A signal handler with nodes that no graph holds yet.
Carries(h) == h \in Injectors /\ pc[h] \in InTransaction \cup {"create"}

Unsubmitted(n) ==
  \/ n \in InitialNodes /\ used = {}
  \/ \E b \in todo : n \in b
  \/ \E h \in Injectors : Carries(h) /\ n \in work[h]

UnsubmittedAreNew ==
  \A n \in Nodes : Unsubmitted(n) =>
    claims[n] = 0 /\ \A k \in present : n \notin graphs[k].nodes

\* The first signal carries the submitted graph, the others carry batches.
CarriersSound ==
  /\ \A h, i \in Injectors : Carries(h) /\ Carries(i) /\ h # i =>
       used # {} /\ work[h] \cap work[i] = {}
  /\ \A h \in Injectors : Carries(h) =>
       /\ used = {} => pc[h] = "create" /\ work[h] = InitialNodes
       /\ used # {} => /\ work[h] \cap InitialNodes = {}
                       /\ \A n \in work[h] : Deps[n] = {}
       /\ \A b \in todo : work[h] \cap b = {}

\* The stored graphs are disjoint, and what they do not record as dispatched
\* was not claimed.
GraphsDisjoint ==
  \A j, k \in present : j # k => graphs[j].nodes \cap graphs[k].nodes = {}

GraphsOrdered ==
  \A k \in present : /\ graphs[k].completed \subseteq graphs[k].dispatched
                      /\ graphs[k].dispatched \subseteq graphs[k].nodes

UndispatchedUnclaimed ==
  \A k \in present : \A n \in graphs[k].nodes :
    n \notin graphs[k].dispatched => claims[n] = 0

StoreSound == /\ GraphsDisjoint /\ GraphsOrdered /\ UndispatchedUnclaimed
              /\ ClaimedOnce /\ NoStrandedNode

\* A task carries the id of a graph that dispatched it.
TagsSound ==
  /\ \A n \in Nodes : graphOf[n] \in present =>
       n \in graphs[graphOf[n]].dispatched
  /\ \A m \in completions : m.graphId # NoKey => m.graphId = graphOf[m.task]
  /\ \A h \in Completers : pc[h] \in InTransaction =>
       \A n \in work[h] : graphOf[n] = key[h]
  /\ \A h \in Handlers : pc[h] = "start" /\ key[h] \in present =>
       ready[h] \subseteq graphs[key[h]].dispatched

\* No graph, tag, message or handler has a key that was not handed out.
KeysUsed ==
  /\ present \subseteq used
  /\ \A n \in Nodes : graphOf[n] \in used \cup {NoKey}
  /\ \A m \in completions : m.graphId \in used \cup {NoKey}
  /\ \A h \in Handlers : pc[h] \in InTransaction \cup {"start"} =>
       key[h] \in used

\* A graph about to be deleted has dispatched all its nodes.
DeletionSafe ==
  \A h \in Completers :
    pc[h] = "start" /\ last[h] /\ key[h] \in present =>
      graphs[key[h]].nodes \subseteq graphs[key[h]].dispatched

IInv == /\ LoopSteps /\ WatchSound /\ UnsubmittedAreNew /\ CarriersSound
        /\ StoreSound /\ TagsSound /\ KeysUsed /\ DeletionSafe

-----------------------------------------------------------------------------
(* What the steps have in common.                                          *)

\* Loop i goes on as it was, having started some of its nodes at most, ...
Stays(i) ==
  /\ pc'[i] = pc[i] /\ key'[i] = key[i] /\ work'[i] = work[i]
  /\ snap'[i] = snap[i] /\ ready'[i] \subseteq ready[i] /\ last'[i] = last[i]

\* ... or has nothing to do with a graph any more.
Leaves(i) == pc'[i] = "idle" \/ (pc'[i] = "tail" /\ i \in Completers)

\* No loop but h moves, and no other loop loses its watch.
OnlyMoves(h) == \A i \in Handlers : i # h => Stays(i)
OnlyUses(h) ==
  \A i \in Handlers : i # h /\ pc[i] \in {"get", "exec"} =>
    /\ watched[Conn(i)] \subseteq watched'[Conn(i)]
    /\ dirty[Conn(i)] => dirty'[Conn(i)]

\* Tags are only given to jobs that had none, and name a graph that dispatched
\* the job, if any.
TagsGiven ==
  \A n \in Nodes : graphOf'[n] # graphOf[n] =>
    /\ n \notin jobs
    /\ \/ graphOf'[n] = NoKey
       \/ /\ graphOf'[n] \in used
          /\ graphOf'[n] \in present => n \in graphs[graphOf'[n]].dispatched

\* A message repeats the tag of its job.
MessagesTrue ==
  \A m \in completions' :
    m \in completions \/ (m.task \in jobs /\ m.graphId = graphOf[m.task])

LEMMA BeginMoves ==
  ASSUME TypeOK, NEW h \in Handlers, NEW s, NEW k, NEW w, Begin(h, s, k, w)
  PROVE  /\ OnlyMoves(h)
         /\ pc'[h] = s /\ key'[h] = k /\ work'[h] = w
  BY DEF TypeOK, Begin, OnlyMoves, Stays

LEMMA GotoMoves ==
  ASSUME TypeOK, NEW h \in Handlers, NEW s, Goto(h, s)
  PROVE  /\ OnlyMoves(h) /\ pc'[h] = s
         /\ key'[h] = key[h] /\ work'[h] = work[h] /\ snap'[h] = snap[h]
  BY DEF TypeOK, Goto, OnlyMoves, Stays

LEMMA TakeMoves ==
  ASSUME TypeOK, NEW h \in Handlers, NEW n, Take(h, n)
  PROVE  \A i \in Handlers : Stays(i)
  BY DEF TypeOK, Take, Stays

LEMMA UnwatchedUses ==
  ASSUME TypeOK, NEW h \in Handlers, Alone(h), Unwatched(Conn(h))
  PROVE  OnlyUses(h)
  BY LoopsAssumption DEF TypeOK, Alone, Unwatched, OnlyUses, Conn

\* The other loops stay guarded, and h needs no guard.
LEMMA GuardsKept ==
  ASSUME WatchSound, NEW h \in Handlers, OnlyMoves(h), OnlyUses(h),
         UNCHANGED <<graphs, present>>, pc'[h] \notin {"get", "exec"}
  PROVE  WatchSound'
  BY DEF WatchSound, Guarded, OnlyMoves, Stays, OnlyUses, Conn

\* Steps that give no loop new work and the store no new graph.
LEMMA QuietStep ==
  ASSUME TypeOK, DependencyOrder, IInv, WatchSound',
         \A i \in Handlers : Stays(i) \/ Leaves(i),
         UNCHANGED <<used, claims, todo>>, present' \subseteq present,
         \A k \in present' : graphs'[k] = graphs[k],
         TagsGiven, MessagesTrue
  PROVE  IInv'
  <1>1. LoopSteps'
    BY LoopsAssumption DEF IInv, LoopSteps, Stays, Leaves, Handlers
  <1>3. \A i \in Injectors : (Carries(i))' =>
          Carries(i) /\ pc'[i] = pc[i] /\ work'[i] = work[i]
    BY LoopsAssumption DEF Stays, Leaves, Carries, InTransaction, Handlers
  <1>4. UnsubmittedAreNew'
    <2>1. ASSUME NEW n \in Nodes, (Unsubmitted(n))' PROVE Unsubmitted(n)
      BY <1>3, <2>1 DEF Unsubmitted
    <2>. QED
      BY <2>1 DEF IInv, UnsubmittedAreNew
  <1>5. CarriersSound'
    BY <1>3 DEF IInv, CarriersSound
  <1>6. StoreSound'
    BY DEF IInv, StoreSound, GraphsDisjoint, GraphsOrdered,
           UndispatchedUnclaimed, ClaimedOnce, NoStrandedNode
  <1>7. TagsSound'
    <2>1. \A n \in Nodes : graphOf'[n] \in present' =>
            n \in graphs'[graphOf'[n]].dispatched
      BY LoopsAssumption DEF IInv, TagsSound, TagsGiven, TypeOK
    <2>2. \A n \in jobs : graphOf'[n] = graphOf[n]
      BY DEF TagsGiven, TypeOK
    <2>3. \A m \in completions' : m.graphId # NoKey => m.graphId = graphOf'[m.task]
      <3>1. \A m \in completions : m.task \in jobs
        BY DEF DependencyOrder
      <3>. QED
        BY <2>2, <3>1 DEF IInv, TagsSound, MessagesTrue
    <2>4. \A i \in Completers : pc'[i] \in InTransaction =>
            \A n \in work'[i] : graphOf'[n] = key'[i]
      <3>1. \A i \in Completers : work[i] \subseteq jobs
        BY DEF DependencyOrder
      <3>. QED
        BY <2>2, <3>1 DEF IInv, TagsSound, Stays, Leaves, InTransaction, Handlers
    <2>5. \A i \in Handlers : pc'[i] = "start" /\ key'[i] \in present' =>
            ready'[i] \subseteq graphs'[key'[i]].dispatched
      BY DEF IInv, TagsSound, Stays, Leaves
    <2>. QED
      BY <2>1, <2>3, <2>4, <2>5 DEF TagsSound
  <1>8. KeysUsed'
    <2>1. \A n \in Nodes : graphOf'[n] \in used' \cup {NoKey}
      BY DEF IInv, KeysUsed, TagsGiven
    <2>2. \A m \in completions' : m.graphId \in used' \cup {NoKey}
      BY DEF IInv, KeysUsed, MessagesTrue, TypeOK
    <2>3. \A i \in Handlers : pc'[i] \in InTransaction \cup {"start"} =>
            key'[i] \in used'
      BY DEF IInv, KeysUsed, Stays, Leaves, InTransaction
    <2>. QED
      BY <2>1, <2>2, <2>3 DEF IInv, KeysUsed
  <1>9. DeletionSafe'
    BY DEF IInv, DeletionSafe, Stays, Leaves, Handlers
  <1>. QED
    BY <1>1, <1>4, <1>5, <1>6, <1>7, <1>8, <1>9 DEF IInv

-----------------------------------------------------------------------------
(* A loop inside its transaction, before it commits.                       *)

LEMMA AdvanceStep ==
  ASSUME TypeOK, IInv, NEW h \in Handlers, OnlyMoves(h), OnlyUses(h),
         UNCHANGED <<graphs, present, used, claims, todo, graphOf, completions>>,
         key'[h] = key[h], work'[h] = work[h], pc[h] \in InTransaction,
         \/ pc'[h] \in InTransaction
         \/ pc'[h] = "create" /\ h \in Injectors,
         (Guarded(h))'
  PROVE  IInv'
  <1>1. LoopSteps'
    BY LoopsAssumption DEF IInv, LoopSteps, OnlyMoves, Stays, InTransaction, Handlers
  <1>2. WatchSound'
    BY DEF IInv, WatchSound, Guarded, OnlyMoves, Stays, OnlyUses, Conn
  <1>3. \A i \in Injectors : /\ (Carries(i))' <=> Carries(i)
                             /\ work'[i] = work[i]
                             /\ i # h => pc'[i] = pc[i]
    BY DEF OnlyMoves, Stays, Carries, Handlers
  <1>4. UnsubmittedAreNew'
    <2>1. ASSUME NEW n \in Nodes, (Unsubmitted(n))' PROVE Unsubmitted(n)
      BY <1>3, <2>1 DEF Unsubmitted
    <2>. QED
      BY <2>1 DEF IInv, UnsubmittedAreNew
  <1>5. CarriersSound'
    <2>1. h \in Injectors => used # {}
      BY DEF IInv, CarriersSound, Carries, InTransaction
    <2>. QED
      BY <1>3, <2>1 DEF IInv, CarriersSound
  <1>6. StoreSound'
    BY DEF IInv, StoreSound, GraphsDisjoint, GraphsOrdered,
           UndispatchedUnclaimed, ClaimedOnce, NoStrandedNode
  <1>7. TagsSound'
    <2>1. \A i \in Completers : pc'[i] \in InTransaction =>
            \A n \in work'[i] : graphOf'[n] = key'[i]
      BY LoopsAssumption
      DEF IInv, TagsSound, OnlyMoves, Stays, InTransaction, Handlers
    <2>2. \A i \in Handlers : pc'[i] = "start" /\ key'[i] \in present' =>
            ready'[i] \subseteq graphs'[key'[i]].dispatched
      BY DEF IInv, TagsSound, OnlyMoves, Stays, InTransaction
    <2>. QED
      BY <2>1, <2>2 DEF IInv, TagsSound
  <1>8. KeysUsed'
    BY DEF IInv, KeysUsed, OnlyMoves, Stays
  <1>9. DeletionSafe'
    BY DEF IInv, DeletionSafe, OnlyMoves, Stays, InTransaction, Handlers
  <1>. QED
    BY <1>1, <1>2, <1>4, <1>5, <1>6, <1>7, <1>8, <1>9 DEF IInv

-----------------------------------------------------------------------------
(* A loop that takes up a signal or a completion.                          *)

LEMMA EnterStep ==
  ASSUME TypeOK, DependencyOrder, IInv, NEW h \in Handlers, OnlyMoves(h),
         UNCHANGED <<graphs, present, used, watched, dirty, claims, graphOf>>,
         completions' \subseteq completions, UnsubmittedAreNew', CarriersSound',
         \/ pc'[h] = "create" /\ h \in Injectors
         \/ /\ pc'[h] = "unwatch" /\ key'[h] \in used
            /\ h \in Completers => \A n \in work'[h] : graphOf[n] = key'[h]
  PROVE  IInv'
  <1>1. LoopSteps'
    BY LoopsAssumption DEF IInv, LoopSteps, OnlyMoves, Stays, Handlers
  <1>2. WatchSound'
    BY DEF IInv, WatchSound, Guarded, OnlyMoves, Stays
  <1>3. StoreSound'
    BY DEF IInv, StoreSound, GraphsDisjoint, GraphsOrdered,
           UndispatchedUnclaimed, ClaimedOnce, NoStrandedNode
  <1>4. TagsSound'
    <2>1. \A i \in Completers : pc'[i] \in InTransaction =>
            \A n \in work'[i] : graphOf'[n] = key'[i]
      BY LoopsAssumption
      DEF IInv, TagsSound, OnlyMoves, Stays, InTransaction, Handlers
    <2>2. \A i \in Handlers : pc'[i] = "start" /\ key'[i] \in present' =>
            ready'[i] \subseteq graphs'[key'[i]].dispatched
      BY DEF IInv, TagsSound, OnlyMoves, Stays
    <2>. QED
      BY <2>1, <2>2 DEF IInv, TagsSound
  <1>5. KeysUsed'
    BY DEF IInv, KeysUsed, OnlyMoves, Stays, InTransaction
  <1>6. DeletionSafe'
    BY DEF IInv, DeletionSafe, OnlyMoves, Stays, Handlers
  <1>. QED
    BY <1>1, <1>2, <1>3, <1>4, <1>5, <1>6 DEF IInv

\* With no graph yet and no loop creating one, no loop carries nodes.
LEMMA DetectedStep ==
  ASSUME TypeOK, DependencyOrder, IInv, NEW h \in Injectors, AnomalyDetected(h)
  PROVE  IInv'
  <1>. USE DEF redisVars, queueVars
  <1>1. /\ h \in Handlers /\ h \notin Completers
        /\ OnlyMoves(h) /\ pc'[h] = "create" /\ work'[h] = InitialNodes
    BY BeginMoves, LoopsAssumption DEF AnomalyDetected, Handlers
  <1>2. used = {} /\ \A i \in Injectors : ~Carries(i)
    BY DEF AnomalyDetected, IInv, CarriersSound, Carries, At
  <1>3. \A i \in Injectors : i # h => ~(Carries(i))'
    BY <1>1, <1>2 DEF OnlyMoves, Stays, Carries, Handlers
  <1>4. UNCHANGED <<used, todo, claims, present, graphs>>
    BY DEF AnomalyDetected
  <1>5. UnsubmittedAreNew'
    <2>1. ASSUME NEW n \in Nodes, (Unsubmitted(n))' PROVE Unsubmitted(n)
      BY <1>1, <1>2, <1>3, <1>4, <2>1 DEF Unsubmitted
    <2>. QED
      BY <1>4, <2>1 DEF IInv, UnsubmittedAreNew
  <1>6. CarriersSound'
    <2>1. \A b \in todo : InitialNodes \cap b = {}
      BY NodesAssumption DEF TypeOK
    <2>. QED
      BY <1>1, <1>2, <1>3, <1>4, <2>1 DEF CarriersSound
  <1>. QED
    BY <1>1, <1>5, <1>6, EnterStep DEF AnomalyDetected

LEMMA EscalatedStep ==
  ASSUME TypeOK, DependencyOrder, IInv, NEW h \in Injectors, AnomalyEscalated(h)
  PROVE  IInv'
  <1>. USE DEF redisVars, queueVars
  <1>1. PICK b \in todo, k \in used : /\ todo' = todo \ {b}
                                      /\ Begin(h, "unwatch", k, b)
    BY DEF AnomalyEscalated
  <1>2. /\ h \in Handlers /\ h \notin Completers
        /\ OnlyMoves(h) /\ pc'[h] = "unwatch" /\ key'[h] = k /\ work'[h] = b
    BY <1>1, BeginMoves, LoopsAssumption DEF Handlers
  <1>3. UNCHANGED <<used, claims, present, graphs>> /\ ~Carries(h)
    BY DEF AnomalyEscalated, At, Carries, InTransaction
  <1>4. \A i \in Injectors : i # h => /\ (Carries(i))' <=> Carries(i)
                                      /\ work'[i] = work[i]
    BY <1>2 DEF OnlyMoves, Stays, Carries, Handlers
  <1>5. UnsubmittedAreNew'
    <2>1. ASSUME NEW n \in Nodes, (Unsubmitted(n))' PROVE Unsubmitted(n)
      BY <1>1, <1>2, <1>3, <1>4, <2>1 DEF Unsubmitted
    <2>. QED
      BY <1>3, <2>1 DEF IInv, UnsubmittedAreNew
  <1>6. CarriersSound'
    <2>1. /\ b \cap InitialNodes = {} /\ \A n \in b : Deps[n] = {}
          /\ \A c \in todo' : b \cap c = {}
      BY <1>1, NodesAssumption, DepsAssumption DEF TypeOK
    <2>2. \A i \in Injectors : i # h /\ Carries(i) => work[i] \cap b = {}
      BY DEF IInv, CarriersSound
    <2>. QED
      BY <1>1, <1>2, <1>3, <1>4, <2>1, <2>2 DEF IInv, CarriersSound
  <1>. QED
    BY <1>2, <1>5, <1>6, EnterStep DEF AnomalyEscalated

LEMMA ReceiveStep ==
  ASSUME TypeOK, DependencyOrder, IInv, NEW h \in Completers, ReceiveCompletion(h)
  PROVE  IInv'
  <1>. USE DEF redisVars, queueVars
  <1>1. PICK m \in completions :
          IF m.graphId = NoKey
          THEN Begin(h, "tail", AnyKey, {})
          ELSE Begin(h, "unwatch", m.graphId, {m.task})
    BY DEF ReceiveCompletion
  <1>2. h \in Handlers /\ h \notin Injectors
    BY LoopsAssumption DEF Handlers
  <1>3. /\ UNCHANGED <<graphs, present, used, watched, dirty, claims, todo, graphOf>>
        /\ completions' \subseteq completions
    BY DEF ReceiveCompletion
  <1>4. CASE m.graphId = NoKey
    <2>1. Begin(h, "tail", AnyKey, {})
      BY <1>1, <1>4
    <2>2. OnlyMoves(h) /\ pc'[h] = "tail"
      BY <1>2, <2>1, BeginMoves
    <2>3. \A i \in Handlers : Stays(i) \/ Leaves(i)
      BY <2>2 DEF OnlyMoves, Leaves
    <2>4. WatchSound'
      BY <1>2, <1>3, <2>2, GuardsKept DEF IInv, OnlyUses
    <2>5. TagsGiven /\ MessagesTrue
      BY <1>3 DEF TagsGiven, MessagesTrue
    <2>. QED
      BY <1>3, <2>3, <2>4, <2>5, QuietStep
  <1>5. CASE m.graphId # NoKey
    <2>1. Begin(h, "unwatch", m.graphId, {m.task})
      BY <1>1, <1>5
    <2>2. /\ OnlyMoves(h) /\ pc'[h] = "unwatch"
          /\ key'[h] = m.graphId /\ work'[h] = {m.task}
      BY <1>2, <2>1, BeginMoves
    <2>3. m.graphId \in used /\ graphOf[m.task] = m.graphId
      BY <1>5 DEF IInv, KeysUsed, TagsSound
    <2>4. \A i \in Injectors : /\ (Carries(i))' <=> Carries(i)
                               /\ work'[i] = work[i] /\ pc'[i] = pc[i]
      BY <1>2, <2>2 DEF OnlyMoves, Stays, Carries, Handlers
    <2>5. UnsubmittedAreNew'
      <3>1. ASSUME NEW n \in Nodes, (Unsubmitted(n))' PROVE Unsubmitted(n)
        BY <1>3, <2>4, <3>1 DEF Unsubmitted
      <3>. QED
        BY <1>3, <3>1 DEF IInv, UnsubmittedAreNew
    <2>6. CarriersSound'
      BY <1>3, <2>4 DEF IInv, CarriersSound
    <2>. QED
      BY <1>2, <1>3, <2>2, <2>3, <2>5, <2>6, EnterStep
  <1>. QED
    BY <1>4, <1>5

-----------------------------------------------------------------------------
(* A new graph: its nodes are in no other graph and were never claimed.    *)

LEMMA ExecuteStep ==
  ASSUME TypeOK, DependencyOrder, IInv, NEW h \in Handlers, ExecuteGraph(h)
  PROVE  IInv'
  <1>. USE DEF redisVars, queueVars
  <1>. DEFINE roots == Roots(work[h])
  <1>1. PICK k \in Keys \ used :
          /\ used' = used \cup {k}
          /\ present' = present \cup {k}
          /\ graphs' = [graphs EXCEPT ![k] = [nodes |-> work[h],
                                              completed |-> {},
                                              dispatched |-> roots]]
          /\ claims' = [n \in Nodes |->
                          claims[n] + IF n \in roots THEN 1 ELSE 0]
          /\ pc' = [pc EXCEPT ![h] = "start"]
          /\ key' = [key EXCEPT ![h] = k]
          /\ ready' = [ready EXCEPT ![h] = roots]
    BY DEF ExecuteGraph
  <1>2. /\ pc[h] = "create" /\ h \in Injectors /\ h \notin Completers
        /\ Carries(h)
    BY LoopsAssumption DEF ExecuteGraph, At, IInv, LoopSteps, Handlers, Carries
  <1>3. /\ UNCHANGED <<watched, dirty, graphOf, completions, todo, work, snap, last>>
        /\ k \notin present /\ k \in Keys /\ k # NoKey
    BY <1>1, LoopsAssumption DEF ExecuteGraph, IInv, KeysUsed
  <1>4. /\ pc'[h] = "start" /\ key'[h] = k /\ ready'[h] = roots
        /\ OnlyMoves(h)
    BY <1>1, <1>3 DEF OnlyMoves, Stays, TypeOK
  <1>5. /\ graphs'[k].nodes = work[h] /\ graphs'[k].completed = {}
        /\ graphs'[k].dispatched = roots
        /\ \A j \in present : j # k /\ graphs'[j] = graphs[j]
    BY <1>1, <1>3 DEF TypeOK
  <1>6. /\ work[h] \subseteq Nodes
        /\ roots = {n \in work[h] : Deps[n] = {}}
    BY DEF TypeOK, Roots
  <1>7. \A n \in work[h] : /\ claims[n] = 0
                           /\ \A j \in present : n \notin graphs[j].nodes
    BY <1>2, <1>6 DEF IInv, UnsubmittedAreNew, Unsubmitted
  <1>. HIDE DEF roots
  <1>8. LoopSteps'
    BY <1>2, <1>4 DEF IInv, LoopSteps, OnlyMoves, Stays, Handlers
  <1>9. WatchSound'
    BY <1>1, <1>3, <1>4, <1>5 DEF IInv, WatchSound, Guarded, OnlyMoves, Stays, Conn
  <1>10. \A i \in Injectors :
           (Carries(i))' => i # h /\ Carries(i) /\ work'[i] = work[i] /\ pc'[i] = pc[i]
    BY <1>4 DEF OnlyMoves, Stays, Carries, InTransaction, Handlers
  <1>11. used' # {}
    BY <1>1
  <1>12. UnsubmittedAreNew'
    <2>1. ASSUME NEW n \in Nodes, (Unsubmitted(n))'
          PROVE  Unsubmitted(n) /\ n \notin work[h]
      <3>1. CASE \E b \in todo : n \in b
        BY <1>2, <3>1 DEF Unsubmitted, IInv, CarriersSound
      <3>2. CASE \E i \in Injectors : i # h /\ Carries(i) /\ n \in work[i]
        BY <1>2, <3>2 DEF Unsubmitted, IInv, CarriersSound
      <3>. QED
        BY <1>3, <1>10, <1>11, <2>1, <3>1, <3>2 DEF Unsubmitted
    <2>2. ASSUME NEW n \in Nodes, (Unsubmitted(n))'
          PROVE  claims'[n] = 0 /\ \A j \in present' : n \notin graphs'[j].nodes
      <3>1. claims[n] = 0 /\ n \notin work[h] /\ n \notin roots
        BY <1>6, <2>1, <2>2 DEF IInv, UnsubmittedAreNew
      <3>2. claims'[n] = 0
        BY <1>1, <3>1
      <3>. QED
        BY <1>1, <1>5, <2>1, <2>2, <3>1, <3>2 DEF IInv, UnsubmittedAreNew
    <2>. QED
      BY <2>2 DEF UnsubmittedAreNew
  <1>13. CarriersSound'
    <2>1. \A i \in Injectors : i # h /\ Carries(i) => used # {}
      BY <1>2 DEF IInv, CarriersSound
    <2>. QED
      BY <1>3, <1>10, <1>11, <2>1 DEF IInv, CarriersSound
  <1>14. GraphsDisjoint' /\ GraphsOrdered'
    <2>1. GraphsDisjoint'
      BY <1>1, <1>5, <1>7 DEF IInv, StoreSound, GraphsDisjoint
    <2>2. GraphsOrdered'
      BY <1>1, <1>5, <1>6 DEF IInv, StoreSound, GraphsOrdered
    <2>. QED
      BY <2>1, <2>2
  <1>15. UndispatchedUnclaimed'
    <2>1. \A n \in work[h] : n \notin roots => claims'[n] = 0
      BY <1>1, <1>6, <1>7
    <2>2. \A j \in present : \A n \in graphs[j].nodes :
            n \notin graphs[j].dispatched => claims'[n] = 0
      <3>1. \A j \in present : graphs[j].nodes \subseteq Nodes
        BY DEF TypeOK, Graph
      <3>2. \A j \in present : \A n \in graphs[j].nodes : n \notin roots
        BY <1>6, <1>7
      <3>. QED
        BY <1>1, <3>1, <3>2 DEF IInv, StoreSound, UndispatchedUnclaimed, TypeOK
    <2>. QED
      BY <1>1, <1>5, <2>1, <2>2 DEF UndispatchedUnclaimed
  <1>16. ClaimedOnce'
    BY <1>1, <1>6, <1>7 DEF IInv, StoreSound, ClaimedOnce, TypeOK
  <1>17. NoStrandedNode'
    BY <1>1, <1>5, <1>6 DEF IInv, StoreSound, NoStrandedNode
  <1>18. TagsSound'
    <2>1. \A n \in Nodes : graphOf[n] # k
      BY <1>1, <1>3 DEF IInv, KeysUsed
    <2>2. \A i \in Handlers : i # h /\ pc[i] = "start" => key[i] # k
      BY <1>1 DEF IInv, KeysUsed
    <2>3. \A n \in Nodes : graphOf'[n] \in present' =>
            n \in graphs'[graphOf'[n]].dispatched
      BY <1>1, <1>3, <1>5, <2>1 DEF IInv, TagsSound
    <2>4. \A i \in Completers : pc'[i] \in InTransaction =>
            \A n \in work'[i] : graphOf'[n] = key'[i]
      BY <1>2, <1>3, <1>4 DEF IInv, TagsSound, OnlyMoves, Stays, Handlers
    <2>5. \A i \in Handlers : pc'[i] = "start" /\ key'[i] \in present' =>
            ready'[i] \subseteq graphs'[key'[i]].dispatched
      BY <1>1, <1>4, <1>5, <2>2 DEF IInv, TagsSound, OnlyMoves, Stays
    <2>. QED
      BY <1>3, <2>3, <2>4, <2>5 DEF IInv, TagsSound
  <1>19. KeysUsed'
    BY <1>1, <1>3, <1>4 DEF IInv, KeysUsed, OnlyMoves, Stays
  <1>20. DeletionSafe'
    <2>1. \A i \in Completers : pc[i] = "start" => key[i] # k
      BY <1>1 DEF IInv, KeysUsed, Handlers
    <2>. QED
      BY <1>1, <1>2, <1>4, <1>5, <2>1
      DEF IInv, DeletionSafe, OnlyMoves, Stays, Handlers
  <1>. QED
    BY <1>8, <1>9, <1>12, <1>13, <1>14, <1>15, <1>16, <1>17, <1>18, <1>19, <1>20
    DEF IInv, StoreSound

-----------------------------------------------------------------------------
(* A committed transaction.                                                *)

\* The graph it writes, G, and the nodes it claims, NewlyReady(h), compared
\* with the stored graph.
LEMMA CommitFacts ==
  ASSUME TypeOK, IInv, NEW h \in Handlers, Commit(h)
  PROVE  LET g == graphs[key[h]]
             G == Committed(h)
         IN /\ key[h] \in present
            /\ G.nodes = IF h \in Completers THEN g.nodes ELSE g.nodes \cup work[h]
            /\ G.completed = IF h \in Completers THEN g.completed \cup work[h]
                                                 ELSE g.completed
            /\ G.dispatched = g.dispatched \cup NewlyReady(h)
            /\ G.completed \subseteq G.dispatched
            /\ G.dispatched \subseteq G.nodes
            /\ h \in Injectors => work[h] \subseteq G.dispatched
            /\ \A n \in G.nodes : Deps[n] \subseteq G.completed => n \in G.dispatched
            /\ \A n \in NewlyReady(h) : claims[n] = 0 /\ n \in Nodes
  <1>. DEFINE K == key[h]
              g == graphs[K]
              G == Committed(h)
              R == Revised(h)
              N == NewlyReady(h)
  <1>1. K \in present /\ snap[h] = g /\ g \in Graph /\ work[h] \subseteq Nodes
    BY DEF Commit, At, IInv, WatchSound, Guarded, TypeOK
  <1>2. /\ pc[h] = "exec"
        /\ h \in Completers <=> h \notin Injectors
        /\ h \in Injectors => Carries(h)
    BY LoopsAssumption DEF Commit, At, Handlers, Carries, InTransaction
  <1>3. /\ R.nodes = IF h \in Completers THEN g.nodes ELSE g.nodes \cup work[h]
        /\ R.completed = IF h \in Completers THEN g.completed \cup work[h]
                                             ELSE g.completed
        /\ R.dispatched = g.dispatched
    BY <1>1 DEF Revised, WithCompleted, WithNodes
  <1>4. /\ G.nodes = R.nodes /\ G.completed = R.completed
        /\ G.dispatched = g.dispatched \cup N
    BY <1>3 DEF Committed, WithDispatched
  <1>5. N = {n \in IF h \in Completers THEN R.nodes \ R.completed ELSE work[h] :
               n \notin g.dispatched /\ Deps[n] \subseteq R.completed}
    BY <1>3 DEF NewlyReady, ReadyAmong
  <1>6. /\ g.completed \subseteq g.dispatched /\ g.dispatched \subseteq g.nodes
        /\ \A n \in g.nodes : n \notin g.dispatched => claims[n] = 0
        /\ \A n \in g.nodes : Deps[n] \subseteq g.completed => n \in g.dispatched
        /\ g.nodes \subseteq Nodes
    BY <1>1 DEF IInv, StoreSound, GraphsOrdered, UndispatchedUnclaimed,
                NoStrandedNode, Graph
  <1>7. h \in Completers => work[h] \subseteq g.dispatched
    BY <1>1, <1>2 DEF IInv, TagsSound, InTransaction
  <1>8. h \in Injectors =>
          \A n \in work[h] : Deps[n] = {} /\ claims[n] = 0
    <2>1. used # {}
      BY <1>1 DEF IInv, KeysUsed
    <2>. QED
      BY <1>1, <1>2, <2>1
      DEF IInv, CarriersSound, UnsubmittedAreNew, Unsubmitted
  <1>. HIDE DEF K, g, G, R, N
  <1>9. CASE h \in Completers
    BY <1>1, <1>2, <1>3, <1>4, <1>5, <1>6, <1>7, <1>9 DEF K, g, G, N
  <1>10. CASE h \in Injectors
    BY <1>1, <1>2, <1>3, <1>4, <1>5, <1>6, <1>8, <1>10 DEF K, g, G, N
  <1>. QED
    BY <1>9, <1>10 DEF Handlers

\* Equal counts, as isComplete compares them, mean that all nodes completed,
\* because only nodes of the graph are recorded as completed.
LEMMA CompleteIsDispatched ==
  ASSUME TypeOK, IInv, NEW h \in Completers, Commit(h), IsComplete(Revised(h))
  PROVE  Committed(h).nodes \subseteq Committed(h).dispatched
  <1>1. h \in Handlers
    BY DEF Handlers
  <1>2. /\ Committed(h).nodes = Revised(h).nodes
        /\ Committed(h).completed = Revised(h).completed
    BY DEF Committed, WithDispatched
  <1>3. /\ Revised(h).completed \subseteq Revised(h).nodes
        /\ Committed(h).completed \subseteq Committed(h).dispatched
    BY <1>1, <1>2, CommitFacts
  <1>4. IsFiniteSet(Revised(h).nodes)
    <2>1. Revised(h).nodes \in SUBSET Nodes
      BY <1>1, CommitType DEF TypeOK, LoopTypeOK, Graph
    <2>. QED
      BY <2>1, NodesAssumption, FS_Subset
  <1>5. Revised(h).nodes = Revised(h).completed
    BY <1>3, <1>4, FS_Subset DEF IsComplete
  <1>. QED
    BY <1>2, <1>3, <1>5

LEMMA CommitStep ==
  ASSUME TypeOK, DependencyOrder, IInv, NEW h \in Handlers, Alone(h), Commit(h)
  PROVE  IInv'
  <1>. USE DEF redisVars, queueVars
  <1>. DEFINE K == key[h]
              g == graphs[K]
              G == Committed(h)
              N == NewlyReady(h)
  <1>1. /\ pc[h] = "exec" /\ K \in watched[Conn(h)]
        /\ h \in Injectors => Carries(h)
        /\ h \in Completers <=> h \notin Injectors
    BY LoopsAssumption
    DEF Commit, At, Handlers, Carries, InTransaction, IInv, WatchSound, Guarded
  <1>2. /\ K \in present
        /\ G.nodes = IF h \in Completers THEN g.nodes ELSE g.nodes \cup work[h]
        /\ G.dispatched = g.dispatched \cup N
        /\ G.completed \subseteq G.dispatched
        /\ G.dispatched \subseteq G.nodes
        /\ h \in Injectors => work[h] \subseteq G.dispatched
        /\ \A n \in G.nodes : Deps[n] \subseteq G.completed => n \in G.dispatched
        /\ \A n \in N : claims[n] = 0 /\ n \in Nodes
    BY CommitFacts
  <1>3. /\ UNCHANGED <<used, graphOf, completions, todo, key, work, snap>>
        /\ present' = present
        /\ claims' = [n \in Nodes |-> claims[n] + IF n \in N THEN 1 ELSE 0]
    BY <1>2 DEF Commit
  <1>4. graphs'[K] = G /\ \A j \in present : j # K => graphs'[j] = graphs[j]
    BY <1>2 DEF Commit, TypeOK
  <1>5. /\ pc'[h] = "start" /\ ready'[h] = N /\ OnlyMoves(h)
        /\ last'[h] = IsComplete(Revised(h))
    BY DEF Commit, OnlyMoves, Stays, TypeOK
  <1>6. \A i \in Handlers : i # h /\ pc[i] \in {"get", "exec"} =>
          /\ watched'[Conn(i)] = watched[Conn(i)]
          /\ ~dirty'[Conn(i)] => ~dirty[Conn(i)] /\ K \notin watched[Conn(i)]
    BY LoopsAssumption DEF Commit, Alone, Conn, TypeOK
  <1>. HIDE DEF K, g, G, N
  <1>7. LoopSteps'
    BY <1>5 DEF IInv, LoopSteps, OnlyMoves, Stays, Handlers
  <1>8. WatchSound'
    <2>1. (Guarded(h))'
      BY <1>5 DEF Guarded
    <2>2. ASSUME NEW i \in Handlers, i # h PROVE (Guarded(i))'
      <3>1. Guarded(i) /\ Stays(i)
        BY <1>5, <2>2 DEF IInv, WatchSound, OnlyMoves
      <3>. QED
        BY <1>3, <1>4, <1>6, <2>2, <3>1 DEF Guarded, Stays, Conn
    <2>. QED
      BY <2>1, <2>2 DEF WatchSound
  <1>9. /\ \A i \in Injectors : (Carries(i))' =>
             i # h /\ Carries(i) /\ work'[i] = work[i] /\ pc'[i] = pc[i]
        /\ used # {}
    BY <1>2, <1>5 DEF OnlyMoves, Stays, Carries, InTransaction, Handlers,
                      IInv, KeysUsed
  <1>10. UnsubmittedAreNew'
    <2>1. ASSUME NEW n \in Nodes, (Unsubmitted(n))'
          PROVE  Unsubmitted(n) /\ (h \in Injectors => n \notin work[h])
      <3>1. CASE \E b \in todo : n \in b
        BY <1>1, <3>1 DEF Unsubmitted, IInv, CarriersSound
      <3>2. CASE \E i \in Injectors : i # h /\ Carries(i) /\ n \in work[i]
        BY <1>1, <3>2 DEF Unsubmitted, IInv, CarriersSound
      <3>. QED
        BY <1>3, <1>9, <2>1, <3>1, <3>2 DEF Unsubmitted
    <2>2. ASSUME NEW n \in Nodes, (Unsubmitted(n))'
          PROVE  claims'[n] = 0 /\ \A j \in present' : n \notin graphs'[j].nodes
      <3>1. claims[n] = 0 /\ \A j \in present : n \notin graphs[j].nodes
        BY <2>1, <2>2 DEF IInv, UnsubmittedAreNew
      <3>2. n \notin G.nodes
        BY <1>1, <1>2, <2>1, <2>2, <3>1 DEF g
      <3>3. n \notin N
        BY <1>2, <3>2
      <3>. QED
        BY <1>3, <1>4, <3>1, <3>2, <3>3
    <2>. QED
      BY <2>2 DEF UnsubmittedAreNew
  <1>11. CarriersSound'
    BY <1>3, <1>9 DEF IInv, CarriersSound
  <1>12. \A j \in present : j # K => G.nodes \cap graphs[j].nodes = {}
    <2>1. \A j \in present : j # K => g.nodes \cap graphs[j].nodes = {}
      BY <1>2 DEF g, IInv, StoreSound, GraphsDisjoint
    <2>2. h \in Injectors => \A n \in work[h] : \A j \in present : n \notin graphs[j].nodes
      BY <1>1 DEF IInv, UnsubmittedAreNew, Unsubmitted, TypeOK
    <2>. QED
      BY <1>1, <1>2, <2>1, <2>2
  <1>13. GraphsDisjoint'
    BY <1>3, <1>4, <1>12 DEF IInv, StoreSound, GraphsDisjoint
  <1>14. GraphsOrdered'
    BY <1>2, <1>3, <1>4 DEF IInv, StoreSound, GraphsOrdered
  <1>15. UndispatchedUnclaimed'
    <2>1. ASSUME NEW n \in G.nodes, n \notin G.dispatched PROVE claims'[n] = 0
      <3>1. n \in g.nodes /\ n \notin g.dispatched /\ n \notin N /\ n \in Nodes
        BY <1>1, <1>2, <2>1 DEF g, TypeOK, Graph
      <3>2. claims[n] = 0
        BY <1>2, <3>1 DEF g, IInv, StoreSound, UndispatchedUnclaimed
      <3>. QED
        BY <1>3, <3>1, <3>2
    <2>2. ASSUME NEW j \in present, j # K, NEW n \in graphs[j].nodes,
                 n \notin graphs[j].dispatched
          PROVE  claims'[n] = 0
      <3>1. n \notin N /\ n \in Nodes
        BY <1>2, <1>12, <2>2 DEF TypeOK, Graph
      <3>2. claims[n] = 0
        BY <2>2 DEF IInv, StoreSound, UndispatchedUnclaimed
      <3>. QED
        BY <1>3, <3>1, <3>2
    <2>. QED
      BY <1>3, <1>4, <2>1, <2>2 DEF UndispatchedUnclaimed
  <1>16. ClaimedOnce'
    BY <1>2, <1>3 DEF IInv, StoreSound, ClaimedOnce, TypeOK
  <1>17. NoStrandedNode'
    BY <1>2, <1>3, <1>4 DEF IInv, StoreSound, NoStrandedNode
  <1>18. \A j \in present : graphs[j].dispatched \subseteq graphs'[j].dispatched
    BY <1>2, <1>4 DEF g
  <1>19. TagsSound'
    <2>1. \A n \in Nodes : graphOf'[n] \in present' =>
            n \in graphs'[graphOf'[n]].dispatched
      BY <1>3, <1>18 DEF IInv, TagsSound
    <2>2. \A i \in Completers : pc'[i] \in InTransaction =>
            \A n \in work'[i] : graphOf'[n] = key'[i]
      BY <1>3, <1>5 DEF IInv, TagsSound, OnlyMoves, Stays, InTransaction, Handlers
    <2>3. \A i \in Handlers : pc'[i] = "start" /\ key'[i] \in present' =>
            ready'[i] \subseteq graphs'[key'[i]].dispatched
      BY <1>2, <1>3, <1>4, <1>5, <1>18 DEF IInv, TagsSound, OnlyMoves, Stays, K
    <2>. QED
      BY <1>3, <2>1, <2>2, <2>3 DEF IInv, TagsSound
  <1>20. KeysUsed'
    BY <1>1, <1>3, <1>5 DEF IInv, KeysUsed, OnlyMoves, Stays, InTransaction
  <1>21. DeletionSafe'
    <2>1. h \in Completers /\ last'[h] => G.nodes \subseteq G.dispatched
      BY <1>5, CompleteIsDispatched DEF G
    <2>2. g.nodes \subseteq g.dispatched => G.nodes \subseteq G.dispatched
      BY <1>1, <1>2
    <2>3. ASSUME NEW i \in Completers, pc'[i] = "start", last'[i],
                 key'[i] \in present'
          PROVE  graphs'[key'[i]].nodes \subseteq graphs'[key'[i]].dispatched
      <3>1. CASE i = h
        BY <1>3, <1>4, <2>1, <2>3, <3>1 DEF K
      <3>2. CASE i # h
        <4>1. graphs[key[i]].nodes \subseteq graphs[key[i]].dispatched
          BY <1>3, <1>5, <2>3, <3>2
          DEF IInv, DeletionSafe, OnlyMoves, Stays, Handlers
        <4>. QED
          BY <1>3, <1>4, <2>2, <2>3, <4>1 DEF g
      <3>. QED
        BY <3>1, <3>2
    <2>. QED
      BY <2>3 DEF DeletionSafe
  <1>. QED
    BY <1>7, <1>8, <1>10, <1>11, <1>13, <1>14, <1>15, <1>16, <1>17, <1>19,
       <1>20, <1>21 DEF IInv, StoreSound

-----------------------------------------------------------------------------
(* A removed graph, and the other steps.                                   *)

\* The transactions that have read the graph will abort.
LEMMA RemovalGuards ==
  ASSUME TypeOK, WatchSound, NEW k \in Keys, present' = present \ {k},
         graphs' = [graphs EXCEPT ![k] = EmptyGraph], Touch(k),
         watched' = watched, \A i \in Handlers : Stays(i) \/ Leaves(i)
  PROVE  WatchSound'
  <1>1. \A c \in Conns : ~dirty'[c] => ~dirty[c] /\ k \notin watched[c]
    BY DEF Touch
  <1>2. \A j \in Keys : j # k => graphs'[j] = graphs[j]
    BY DEF TypeOK
  <1>3. ASSUME NEW i \in Handlers PROVE (Guarded(i))'
    <2>1. CASE Leaves(i)
      BY <2>1 DEF Leaves, Guarded
    <2>2. CASE Stays(i)
      <3>1. Guarded(i) /\ Conn(i) \in Conns /\ key[i] \in Keys
        BY LoopsAssumption DEF WatchSound, Conn, TypeOK
      <3>. QED
        BY <1>1, <1>2, <2>2, <3>1 DEF Stays, Guarded, Conn
    <2>. QED
      BY <1>3, <2>1, <2>2
  <1>. QED
    BY <1>3 DEF WatchSound

\* A call that returns, or goes to the tail, touching no graph.
LEMMA ReturnStep ==
  ASSUME TypeOK, DependencyOrder, IInv, NEW h \in Handlers, OnlyMoves(h),
         OnlyUses(h), Leaves(h), TagsGiven, MessagesTrue,
         UNCHANGED <<graphs, present, used, claims, todo>>
  PROVE  IInv'
  <1>1. WatchSound'
    <2>1. pc'[h] \notin {"get", "exec"}
      BY DEF Leaves
    <2>. QED
      BY <2>1, GuardsKept DEF IInv
  <1>2. \A i \in Handlers : Stays(i) \/ Leaves(i)
    BY DEF OnlyMoves
  <1>. QED
    BY <1>1, <1>2, QuietStep

\* A node that is started, or not, leaves its handler where it is.
LEMMA StartStep ==
  ASSUME TypeOK, DependencyOrder, IInv, NEW h \in Handlers, At(h, "start"),
         NEW n \in ready[h], Take(h, n), completions' = completions,
         AddJobs({n}, key[h]) \/ UNCHANGED <<jobs, graphOf>>,
         UNCHANGED <<redisVars, todo, claims>>
  PROVE  IInv'
  <1>1. \A i \in Handlers : Stays(i)
    BY TakeMoves
  <1>2. WatchSound'
    BY <1>1 DEF IInv, WatchSound, Guarded, Stays, Conn, redisVars
  <1>3. TagsGiven
    <2>1. \A m \in Nodes : graphOf'[m] # graphOf[m] =>
            m = n /\ m \notin jobs /\ graphOf'[m] = key[h]
      BY DEF AddJobs, TypeOK
    <2>2. key[h] \in used /\ (key[h] \in present => n \in graphs[key[h]].dispatched)
      BY DEF At, IInv, KeysUsed, TagsSound
    <2>. QED
      BY <2>1, <2>2 DEF TagsGiven
  <1>4. MessagesTrue
    BY DEF MessagesTrue
  <1>. QED
    BY <1>1, <1>2, <1>3, <1>4, QuietStep DEF redisVars

LEMMA AtomicInit == Init => IInv
  <1>. SUFFICES ASSUME Init PROVE IInv
    OBVIOUS
  <1>1. \A h \in Handlers : pc[h] = "idle"
    BY DEF Init
  <1>2. LoopSteps /\ WatchSound /\ CarriersSound /\ DeletionSafe
    BY <1>1 DEF LoopSteps, WatchSound, Guarded, CarriersSound, Carries,
                InTransaction, DeletionSafe, Handlers
  <1>3. StoreSound /\ UnsubmittedAreNew
    BY DEF Init, StoreSound, GraphsDisjoint, GraphsOrdered, ClaimedOnce,
           UndispatchedUnclaimed, NoStrandedNode, UnsubmittedAreNew
  <1>4. TagsSound /\ KeysUsed
    BY <1>1 DEF Init, TagsSound, KeysUsed, InTransaction, Handlers
  <1>. QED
    BY <1>2, <1>3, <1>4 DEF IInv

LEMMA AtomicStep ==
  ASSUME TypeOK, DependencyOrder, IInv, [Next]_vars, [NoForeignUnwatch]_vars
  PROVE  IInv'
  <1>. USE DEF redisVars, queueVars
  <1>22. CASE UNCHANGED vars
    <2>1. \A i \in Handlers : Stays(i)
      BY <1>22 DEF vars, Stays
    <2>2. WatchSound'
      BY <1>22 DEF vars, IInv, WatchSound, Guarded, Conn
    <2>3. TagsGiven /\ MessagesTrue
      BY <1>22 DEF vars, TagsGiven, MessagesTrue
    <2>. QED
      BY <1>22, <2>1, <2>2, <2>3, QuietStep DEF vars
  <1>. SUFFICES ASSUME NoForeignUnwatch PROVE IInv'
    BY <1>22
  <1>a. ASSUME graphOf' = graphOf, completions' \subseteq completions
        PROVE  TagsGiven /\ MessagesTrue
    BY <1>a DEF TagsGiven, MessagesTrue
  <1>b. ASSUME NEW h \in Handlers, watched' = watched, dirty' = dirty
        PROVE  OnlyUses(h)
    BY <1>b DEF OnlyUses
  <1>1. ASSUME NEW h \in Injectors, AnomalyDetected(h) PROVE IInv'
    BY <1>1, DetectedStep
  <1>2. ASSUME NEW h \in Injectors, AnomalyEscalated(h) PROVE IInv'
    BY <1>2, EscalatedStep
  <1>3. ASSUME NEW h \in Completers, ReceiveCompletion(h) PROVE IInv'
    BY <1>3, ReceiveStep
  <1>4. ASSUME NEW h \in Handlers, ExecuteGraph(h) PROVE IInv'
    BY <1>4, ExecuteStep
  <1>5. ASSUME NEW h \in Handlers, Unwatch(h) PROVE IInv'
    <2>1. OnlyUses(h) /\ OnlyMoves(h) /\ pc[h] = "unwatch" /\ pc'[h] = "watch"
          /\ key'[h] = key[h] /\ work'[h] = work[h]
      BY <1>5, UnwatchedUses, GotoMoves DEF Unwatch, At, NoForeignUnwatch, EndsWatches
    <2>2. (Guarded(h))'
      BY <2>1 DEF Guarded
    <2>. QED
      BY <1>5, <2>1, <2>2, AdvanceStep DEF Unwatch, InTransaction
  <1>6. ASSUME NEW h \in Handlers, Watch(h) PROVE IInv'
    <2>1. OnlyMoves(h) /\ pc[h] = "watch" /\ pc'[h] = "get"
          /\ key'[h] = key[h] /\ work'[h] = work[h]
      BY <1>6, GotoMoves DEF Watch, At
    <2>2. OnlyUses(h)
      BY <1>6, LoopsAssumption DEF Watch, OnlyUses, Conn, TypeOK
    <2>3. (Guarded(h))'
      BY <1>6, <2>1, LoopsAssumption DEF Watch, Guarded, Conn, TypeOK
    <2>. QED
      BY <1>6, <2>1, <2>2, <2>3, AdvanceStep DEF Watch, InTransaction
  <1>7. ASSUME NEW h \in Handlers, Get(h) PROVE IInv'
    <2>1. OnlyMoves(h) /\ OnlyUses(h) /\ pc[h] = "get" /\ pc'[h] = "exec"
          /\ key'[h] = key[h] /\ work'[h] = work[h] /\ snap'[h] = graphs[key[h]]
      BY <1>7 DEF Get, At, OnlyMoves, OnlyUses, Stays, TypeOK
    <2>2. (Guarded(h))'
      BY <1>7, <2>1 DEF Get, IInv, WatchSound, Guarded, Conn
    <2>. QED
      BY <1>7, <2>1, <2>2, AdvanceStep DEF Get, InTransaction
  <1>8. ASSUME NEW h \in Handlers, GetMissing(h) PROVE IInv'
    <2>. DEFINE next == IF h \in Completers THEN "tail" ELSE "create"
    <2>1. OnlyUses(h) /\ OnlyMoves(h) /\ pc[h] = "get" /\ pc'[h] = next
          /\ key'[h] = key[h] /\ work'[h] = work[h]
      BY <1>8, UnwatchedUses, GotoMoves
      DEF GetMissing, At, NoForeignUnwatch, EndsWatches
    <2>2. CASE h \in Completers
      <3>1. Leaves(h)
        BY <2>1, <2>2 DEF Leaves
      <3>. QED
        BY <1>8, <1>a, <2>1, <3>1, ReturnStep DEF GetMissing
    <2>3. CASE h \notin Completers
      <3>1. h \in Injectors /\ pc'[h] = "create" /\ (Guarded(h))'
        BY <2>1, <2>3 DEF Handlers, Guarded
      <3>. QED
        BY <1>8, <2>1, <3>1, AdvanceStep DEF GetMissing, InTransaction
    <2>. QED
      BY <2>2, <2>3
  <1>9. ASSUME NEW h \in Handlers, Commit(h) PROVE IInv'
    BY <1>9, CommitStep DEF NoForeignUnwatch, EndsWatches
  <1>10. ASSUME NEW h \in Handlers, Retry(h) PROVE IInv'
    <2>1. OnlyUses(h) /\ OnlyMoves(h) /\ pc[h] = "exec" /\ pc'[h] = "unwatch"
          /\ key'[h] = key[h] /\ work'[h] = work[h]
      BY <1>10, UnwatchedUses
      DEF Retry, At, OnlyMoves, Stays, TypeOK, NoForeignUnwatch, EndsWatches
    <2>2. (Guarded(h))'
      BY <2>1 DEF Guarded
    <2>. QED
      BY <1>10, <2>1, <2>2, AdvanceStep DEF Retry, InTransaction
  <1>11. ASSUME NEW h \in Handlers, GiveUp(h) PROVE IInv'
    <2>1. OnlyUses(h) /\ OnlyMoves(h) /\ Leaves(h)
      BY <1>11, UnwatchedUses, BeginMoves
      DEF GiveUp, Return, Leaves, NoForeignUnwatch, EndsWatches
    <2>. QED
      BY <1>11, <1>a, <2>1, ReturnStep DEF GiveUp
  <1>12. ASSUME NEW h \in Handlers, SkipNode(h) PROVE IInv'
    BY <1>12, StartStep DEF SkipNode
  <1>13. ASSUME NEW h \in Handlers, StartNode(h) PROVE IInv'
    BY <1>13, StartStep DEF StartNode
  <1>14. ASSUME NEW h \in Handlers, StartNodeFails(h) PROVE IInv'
    BY <1>14, StartStep DEF StartNodeFails
  <1>15. ASSUME NEW h \in Handlers, SignalDone(h) PROVE IInv'
    <2>1. OnlyUses(h) /\ OnlyMoves(h) /\ Leaves(h)
      BY <1>15, <1>b, BeginMoves DEF SignalDone, Return, Leaves
    <2>. QED
      BY <1>15, <1>a, <2>1, ReturnStep DEF SignalDone
  <1>16. ASSUME NEW h \in Handlers, CleanUp(h) PROVE IInv'
    <2>1. OnlyMoves(h) /\ Leaves(h) /\ h \in Completers
          /\ \A i \in Handlers : Stays(i) \/ Leaves(i)
      BY <1>16, GotoMoves DEF CleanUp, Leaves, OnlyMoves
    <2>2. TagsGiven /\ MessagesTrue
      BY <1>16, <1>a DEF CleanUp
    <2>3. CASE last[h] /\ key[h] \in present
      <3>1. WatchSound'
        BY <1>16, <2>1, <2>3, RemovalGuards DEF CleanUp, IInv, TypeOK
      <3>2. present' \subseteq present /\ \A j \in present' : graphs'[j] = graphs[j]
        BY <1>16, <2>3 DEF CleanUp, TypeOK
      <3>. QED
        BY <1>16, <2>1, <2>2, <3>1, <3>2, QuietStep DEF CleanUp
    <2>4. CASE ~(last[h] /\ key[h] \in present)
      <3>1. UNCHANGED <<graphs, present, dirty, watched, used, claims, todo>>
        BY <1>16, <2>4 DEF CleanUp
      <3>. QED
        BY <1>b, <2>1, <2>2, <3>1, ReturnStep
    <2>. QED
      BY <2>3, <2>4
  <1>17. ASSUME NEW h \in Handlers, DispatchPending(h) PROVE IInv'
    <2>1. OnlyUses(h) /\ OnlyMoves(h) /\ Leaves(h)
      BY <1>17, <1>b, BeginMoves DEF DispatchPending, Return, Leaves
    <2>2. TagsGiven
      BY <1>17 DEF DispatchPending, AddJobs, TagsGiven
    <2>3. MessagesTrue
      BY <1>17 DEF DispatchPending, MessagesTrue
    <2>. QED
      BY <1>17, <2>1, <2>2, <2>3, ReturnStep DEF DispatchPending
  <1>18. ASSUME NEW h \in Handlers, AbortHandler(h) PROVE IInv'
    <2>1. OnlyMoves(h) /\ Leaves(h)
      BY <1>18, BeginMoves DEF AbortHandler, Return, Leaves
    <2>2. OnlyUses(h)
      BY <1>18, <1>b, UnwatchedUses DEF AbortHandler, NoForeignUnwatch, EndsWatches
    <2>. QED
      BY <1>18, <1>a, <2>1, <2>2, ReturnStep DEF AbortHandler
  <1>c. ASSUME UNCHANGED loopVars, UNCHANGED <<redisVars, todo, claims>>,
               TagsGiven, MessagesTrue
        PROVE  IInv'
    <2>1. \A i \in Handlers : Stays(i)
      BY <1>c DEF loopVars, Stays
    <2>2. WatchSound'
      BY <1>c DEF loopVars, IInv, WatchSound, Guarded, Conn
    <2>. QED
      BY <1>c, <2>1, <2>2, QuietStep
  <1>19. ASSUME NEW n \in Nodes, FinishNode(n) PROVE IInv'
    <2>1. TagsGiven /\ MessagesTrue
      BY <1>19 DEF FinishNode, TagsGiven, MessagesTrue
    <2>. QED
      BY <1>19, <1>c, <2>1 DEF FinishNode
  <1>20. ASSUME NEW k \in Keys, ExpireGraph(k) PROVE IInv'
    <2>1. \A i \in Handlers : Stays(i)
      BY <1>20 DEF ExpireGraph, loopVars, Stays
    <2>2. WatchSound'
      BY <1>20, <2>1, RemovalGuards DEF ExpireGraph, IInv
    <2>3. present' \subseteq present /\ \A j \in present' : graphs'[j] = graphs[j]
      BY <1>20 DEF ExpireGraph, TypeOK
    <2>. QED
      BY <1>20, <1>a, <2>1, <2>2, <2>3, QuietStep DEF ExpireGraph
  <1>21. ASSUME NEW m \in completions, LoseCompletion(m) PROVE IInv'
    BY <1>21, <1>a, <1>c DEF LoseCompletion
  <1>. QED
    BY <1>1, <1>2, <1>3, <1>4, <1>5, <1>6, <1>7, <1>8, <1>9, <1>10, <1>11,
       <1>12, <1>13, <1>14, <1>15, <1>16, <1>17, <1>18, <1>19, <1>20, <1>21,
       <1>22 DEF Next, HandlerStep, Handlers

-----------------------------------------------------------------------------
(* The theorems.                                                           *)

LEMMA AtomicInvariant ==
    Spec /\ WatchesRespected => [](TypeOK /\ DependencyOrder /\ IInv)
  <1>1. Init => TypeOK /\ DependencyOrder /\ IInv
    BY TypeInit, OrderInit, AtomicInit
  <1>2. TypeOK /\ DependencyOrder /\ IInv /\ [Next]_vars /\ [NoForeignUnwatch]_vars
          => (TypeOK /\ DependencyOrder /\ IInv)'
    BY TypeStep, OrderStep, AtomicStep
  <1>. QED
    BY <1>1, <1>2, PTL DEF Spec, WatchesRespected

\* A node is picked for dispatch by at most one transaction, whatever completions
\* race, repeat, get lost or abort, unless a loop ends the watch of another one
\* that shares its connection.
THEOREM ClaimedAtMostOnce ==
    Spec /\ WatchesRespected => []ClaimedOnce
  <1>1. IInv => ClaimedOnce
    BY DEF IInv, StoreSound
  <1>. QED
    BY <1>1, AtomicInvariant, PTL

\* A stored graph never holds a node whose dependencies are recorded as completed
\* and which is not marked dispatched, unless a loop ends the watch of another one
\* that shares its connection.  (Without that exception: ReadyNodesAreTaken.)
THEOREM NoNodeStranded ==
    Spec /\ WatchesRespected => []NoStrandedNode
  <1>1. IInv => NoStrandedNode
    BY DEF IInv, StoreSound
  <1>. QED
    BY <1>1, AtomicInvariant, PTL

LEMMA UpdatesStep ==
  ASSUME TypeOK, IInv, [Next]_vars, NEW k \in present, k \in present'
  PROVE  /\ graphs[k].nodes \subseteq graphs'[k].nodes
         /\ graphs[k].completed \subseteq graphs'[k].completed
         /\ graphs[k].dispatched \subseteq graphs'[k].dispatched
  <1>. USE DEF redisVars
  <1>1. CASE graphs'[k] = graphs[k]
    BY <1>1
  <1>2. ASSUME NEW h \in Handlers, Commit(h), key[h] = k
        PROVE  /\ graphs[k].nodes \subseteq graphs'[k].nodes
               /\ graphs[k].completed \subseteq graphs'[k].completed
               /\ graphs[k].dispatched \subseteq graphs'[k].dispatched
    <2>1. graphs'[k] = Committed(h)
      BY <1>2 DEF Commit, TypeOK
    <2>. QED
      BY <1>2, <2>1, CommitFacts
  <1>3. ASSUME NEW h \in Handlers, Commit(h), key[h] # k
        PROVE  graphs'[k] = graphs[k]
    BY <1>3 DEF Commit, TypeOK
  <1>4. ASSUME NEW h \in Handlers, ExecuteGraph(h) PROVE graphs'[k] = graphs[k]
    BY <1>4 DEF ExecuteGraph, TypeOK, IInv, KeysUsed
  <1>5. ASSUME NEW h \in Handlers, CleanUp(h) PROVE graphs'[k] = graphs[k]
    BY <1>5 DEF CleanUp, TypeOK
  <1>6. ASSUME NEW j \in Keys, ExpireGraph(j) PROVE graphs'[k] = graphs[k]
    BY <1>6 DEF ExpireGraph, TypeOK
  <1>7. ASSUME NEW h \in Handlers,
               \/ AnomalyDetected(h) \/ AnomalyEscalated(h) \/ ReceiveCompletion(h)
               \/ Unwatch(h) \/ Watch(h) \/ Get(h) \/ GetMissing(h)
        PROVE  graphs' = graphs
    BY <1>7 DEF AnomalyDetected, AnomalyEscalated, ReceiveCompletion, Unwatch,
                Watch, Get, GetMissing
  <1>8. ASSUME NEW h \in Handlers,
               \/ Retry(h) \/ GiveUp(h) \/ SkipNode(h) \/ StartNode(h)
               \/ StartNodeFails(h) \/ SignalDone(h) \/ DispatchPending(h)
               \/ AbortHandler(h)
        PROVE  graphs' = graphs
    BY <1>8 DEF Retry, GiveUp, SkipNode, StartNode, StartNodeFails, SignalDone,
                DispatchPending, AbortHandler
  <1>9. ASSUME NEW n, FinishNode(n) \/ LoseCompletion(n) PROVE graphs' = graphs
    BY <1>9 DEF FinishNode, LoseCompletion
  <1>10. CASE UNCHANGED vars
    BY <1>10 DEF vars
  <1>. QED
    BY <1>1, <1>2, <1>3, <1>4, <1>5, <1>6, <1>7, <1>8, <1>9, <1>10
    DEF Next, HandlerStep, Handlers

\* An update of a stored graph keeps what the other handlers recorded in it, as
\* injectNodes promises ("Atomically"), unless a loop ends the watch of another
\* one that shares its connection: every lost update is due to that.
THEOREM NoLostUpdate ==
    Spec /\ WatchesRespected => UpdatesAreKept
  <1>1. TypeOK /\ IInv /\ [Next]_vars =>
          [\A k \in present \cap present' :
             /\ graphs[k].nodes \subseteq graphs'[k].nodes
             /\ graphs[k].completed \subseteq graphs'[k].completed
             /\ graphs[k].dispatched \subseteq graphs'[k].dispatched]_vars
    BY UpdatesStep
  <1>. QED
    BY <1>1, AtomicInvariant, PTL DEF Spec, UpdatesAreKept

LEMMA DeletionStep ==
  ASSUME TypeOK, IInv, [Next]_vars, NEW k \in present, k \notin present',
         faults' = faults
  PROVE  graphs[k].nodes \subseteq graphs[k].dispatched
  <1>. USE DEF redisVars
  <1>1. ASSUME NEW h \in Handlers, CleanUp(h)
        PROVE  graphs[k].nodes \subseteq graphs[k].dispatched
    <2>1. h \in Completers /\ pc[h] = "start" /\ last[h] /\ key[h] = k
      BY <1>1 DEF CleanUp, At
    <2>. QED
      BY <2>1 DEF IInv, DeletionSafe
  <1>2. ASSUME NEW j \in Keys, ExpireGraph(j) PROVE FALSE
    BY <1>2 DEF ExpireGraph, Fault, TypeOK
  <1>3. ASSUME NEW h \in Handlers,
               \/ AnomalyDetected(h) \/ AnomalyEscalated(h) \/ ReceiveCompletion(h)
               \/ Unwatch(h) \/ Watch(h) \/ Get(h) \/ GetMissing(h)
        PROVE  FALSE
    BY <1>3 DEF AnomalyDetected, AnomalyEscalated, ReceiveCompletion, Unwatch,
                Watch, Get, GetMissing
  <1>4. ASSUME NEW h \in Handlers,
               \/ Retry(h) \/ GiveUp(h) \/ SkipNode(h) \/ StartNode(h)
               \/ StartNodeFails(h) \/ SignalDone(h) \/ DispatchPending(h)
               \/ AbortHandler(h)
        PROVE  FALSE
    BY <1>4 DEF Retry, GiveUp, SkipNode, StartNode, StartNodeFails, SignalDone,
                DispatchPending, AbortHandler
  <1>5. ASSUME NEW h \in Handlers, ExecuteGraph(h) \/ Commit(h) PROVE FALSE
    BY <1>5 DEF ExecuteGraph, Commit
  <1>6. ASSUME NEW n, FinishNode(n) \/ LoseCompletion(n) PROVE FALSE
    BY <1>6 DEF FinishNode, LoseCompletion
  <1>7. CASE UNCHANGED vars
    BY <1>7 DEF vars
  <1>. QED
    BY <1>1, <1>2, <1>3, <1>4, <1>5, <1>6, <1>7 DEF Next, HandlerStep, Handlers

\* Deleting a finished graph loses no node, although an injection may commit
\* between the last completion and the DEL, unless a loop ends the watch of
\* another one that shares its connection.
THEOREM DeletionIsSafe ==
    Spec /\ WatchesRespected => DeletedGraphIsDispatched
  <1>1. TypeOK /\ IInv /\ [Next]_vars =>
          [\A k \in present \ present' :
             faults' = faults => graphs[k].nodes \subseteq graphs[k].dispatched]_vars
    BY DeletionStep
  <1>. QED
    BY <1>1, AtomicInvariant, PTL DEF Spec, DeletedGraphIsDispatched
=============================================================================
