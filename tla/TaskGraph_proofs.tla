-------------------------- MODULE TaskGraph_proofs --------------------------
(***************************************************************************)
(* Theorems about TaskGraph, for every value of its constants that         *)
(* satisfies the assumptions declared there.                               *)
(***************************************************************************)
EXTENDS TaskGraph, TLAPS

-----------------------------------------------------------------------------
(* Values built by the actions have their types.                           *)

LEMMA StartTypes == AnyKey \in Keys /\ EmptyGraph \in Graph
  BY LoopsAssumption DEF AnyKey, EmptyGraph, Graph

\* The local state of a loop, and what keeps its type.
LoopTypeOK ==
  /\ pc \in [Handlers -> Steps]
  /\ key \in [Handlers -> Keys]
  /\ work \in [Handlers -> SUBSET Nodes]
  /\ attempt \in [Handlers -> 0 .. MaxAttempts - 1]
  /\ snap \in [Handlers -> Graph]
  /\ ready \in [Handlers -> SUBSET Nodes]
  /\ last \in [Handlers -> BOOLEAN]

LEMMA BeginType ==
  ASSUME LoopTypeOK, NEW h \in Handlers, NEW s \in Steps, NEW k \in Keys,
         NEW w \in SUBSET Nodes, Begin(h, s, k, w)
  PROVE  LoopTypeOK'
  <1>1. 0 \in 0 .. MaxAttempts - 1
    BY LoopsAssumption
  <1>. QED
    BY <1>1, StartTypes DEF LoopTypeOK, Begin

LEMMA ReturnType ==
  ASSUME LoopTypeOK, NEW h \in Handlers, Return(h)
  PROVE  LoopTypeOK'
  BY BeginType, StartTypes DEF Return, Steps

LEMMA GotoType ==
  ASSUME LoopTypeOK, NEW h \in Handlers, NEW s \in Steps, Goto(h, s)
  PROVE  LoopTypeOK'
  BY DEF LoopTypeOK, Goto

LEMMA TakeType ==
  ASSUME LoopTypeOK, NEW h \in Handlers, NEW n, Take(h, n)
  PROVE  LoopTypeOK'
  BY DEF LoopTypeOK, Take

LEMMA CommitType ==
  ASSUME LoopTypeOK, NEW h \in Handlers
  PROVE  /\ Revised(h) \in Graph
         /\ Committed(h) \in Graph
         /\ NewlyReady(h) \subseteq Nodes
  <1>1. snap[h] \in Graph /\ work[h] \subseteq Nodes
    BY DEF LoopTypeOK
  <1>2. Revised(h) \in Graph
    BY <1>1 DEF Revised, WithCompleted, WithNodes, Graph
  <1>3. NewlyReady(h) \subseteq Nodes
    BY <1>1, <1>2 DEF NewlyReady, ReadyAmong, Graph
  <1>4. Committed(h) \in Graph
    BY <1>2, <1>3 DEF Committed, WithDispatched, Graph
  <1>. QED
    BY <1>2, <1>3, <1>4

LEMMA JobsType ==
  ASSUME jobs \subseteq Nodes, graphOf \in [Nodes -> Keys \cup {NoKey}],
         NEW S \in SUBSET Nodes, NEW k \in Keys \cup {NoKey}, AddJobs(S, k)
  PROVE  jobs' \subseteq Nodes /\ graphOf' \in [Nodes -> Keys \cup {NoKey}]
  BY DEF AddJobs

-----------------------------------------------------------------------------
(* Type correctness.                                                       *)

LEMMA TypeInit == Init => TypeOK
  <1>. SUFFICES ASSUME Init PROVE TypeOK
    OBVIOUS
  <1>1. graphs \in [Keys -> Graph] /\ LoopTypeOK
    BY StartTypes, LoopsAssumption DEF Init, LoopTypeOK, Steps
  <1>2. row \in [Nodes -> Statuses]
    BY DEF Init, Statuses
  <1>. QED
    BY <1>1, <1>2 DEF Init, TypeOK, LoopTypeOK

LEMMA TypeStep == TypeOK /\ [Next]_vars => TypeOK'
  <1>. SUFFICES ASSUME TypeOK, [Next]_vars PROVE TypeOK'
    OBVIOUS
  <1>. USE DEF TypeOK, redisVars, queueVars
  <1>a. LoopTypeOK
    BY DEF LoopTypeOK
  <1>b. LoopTypeOK' <=> /\ pc' \in [Handlers -> Steps]
                        /\ key' \in [Handlers -> Keys]
                        /\ work' \in [Handlers -> SUBSET Nodes]
                        /\ attempt' \in [Handlers -> 0 .. MaxAttempts - 1]
                        /\ snap' \in [Handlers -> Graph]
                        /\ ready' \in [Handlers -> SUBSET Nodes]
                        /\ last' \in [Handlers -> BOOLEAN]
    BY DEF LoopTypeOK
  <1>c. ASSUME UNCHANGED loopVars PROVE LoopTypeOK'
    BY <1>a, <1>c DEF LoopTypeOK, loopVars
  <1>d. ASSUME NEW h \in Handlers, Unwatched(Conn(h))
        PROVE  watched' \in [Conns -> SUBSET Keys] /\ dirty' \in [Conns -> BOOLEAN]
    BY <1>d DEF Unwatched
  <1>1. ASSUME NEW h \in Injectors, AnomalyDetected(h) PROVE TypeOK'
    <2>1. LoopTypeOK'
      BY <1>a, <1>1, BeginType, StartTypes, NodesAssumption
      DEF AnomalyDetected, Steps, Handlers
    <2>. QED
      BY <1>b, <1>1, <2>1 DEF AnomalyDetected
  <1>2. ASSUME NEW h \in Injectors, AnomalyEscalated(h) PROVE TypeOK'
    <2>1. PICK b \in todo, k \in used : /\ todo' = todo \ {b}
                                        /\ Begin(h, "unwatch", k, b)
      BY <1>2 DEF AnomalyEscalated
    <2>2. b \in SUBSET Nodes /\ k \in Keys
      BY NodesAssumption
    <2>3. LoopTypeOK' /\ todo' \subseteq Batches
      BY <1>a, <2>1, <2>2, BeginType DEF Steps, Handlers
    <2>. QED
      BY <1>b, <1>2, <2>3 DEF AnomalyEscalated
  <1>3. ASSUME NEW h \in Completers, ReceiveCompletion(h) PROVE TypeOK'
    <2>1. PICK m \in completions :
            /\ row' = [row EXCEPT ![m.task] = "completed"]
            /\ IF m.graphId = NoKey
               THEN Begin(h, "tail", AnyKey, {})
               ELSE Begin(h, "unwatch", m.graphId, {m.task})
      BY <1>3 DEF ReceiveCompletion
    <2>2. {m.task} \in SUBSET Nodes /\ m.graphId \in Keys \cup {NoKey}
      BY DEF Messages
    <2>3. LoopTypeOK'
      <3>1. CASE m.graphId = NoKey
        <4>1. Begin(h, "tail", AnyKey, {})
          BY <2>1, <3>1
        <4>. QED
          BY <1>a, <4>1, BeginType, StartTypes DEF Steps, Handlers
      <3>2. CASE m.graphId # NoKey
        <4>1. m.graphId \in Keys /\ Begin(h, "unwatch", m.graphId, {m.task})
          BY <2>1, <2>2, <3>2
        <4>. QED
          BY <1>a, <2>2, <4>1, BeginType DEF Steps, Handlers
      <3>. QED
        BY <3>1, <3>2
    <2>4. row' \in [Nodes -> Statuses]
      BY <2>1 DEF Statuses
    <2>5. faults' \in Nat /\ completions' \subseteq Messages
      BY <1>3 DEF ReceiveCompletion
    <2>. QED
      BY <1>b, <1>3, <2>3, <2>4, <2>5 DEF ReceiveCompletion
  <1>4. ASSUME NEW h \in Handlers, ExecuteGraph(h) PROVE TypeOK'
    <2>. DEFINE roots == Roots(work[h])
    <2>1. PICK k \in Keys \ used :
            /\ used' = used \cup {k}
            /\ present' = present \cup {k}
            /\ graphs' = [graphs EXCEPT ![k] = [nodes |-> work[h],
                                                completed |-> {},
                                                dispatched |-> roots]]
            /\ claims' = [n \in Nodes |->
                            claims[n] + IF n \in roots THEN 1 ELSE 0]
            /\ pc' = [pc EXCEPT ![h] = "start"]
            /\ key' = [key EXCEPT ![h] = k]
            /\ ready' = [ready EXCEPT ![h] = roots]
      BY <1>4 DEF ExecuteGraph
    <2>2. work[h] \subseteq Nodes /\ roots \subseteq Nodes
      BY DEF Roots
    <2>3. graphs' \in [Keys -> Graph]
      BY <2>1, <2>2 DEF Graph
    <2>4. claims' \in [Nodes -> Nat] /\ present' \subseteq Keys
      BY <2>1
    <2>. HIDE DEF roots
    <2>. QED
      BY <1>4, <2>1, <2>2, <2>3, <2>4 DEF ExecuteGraph, Steps
  <1>5. ASSUME NEW h \in Handlers, Unwatch(h) PROVE TypeOK'
    BY <1>a, <1>b, <1>d, <1>5, GotoType DEF Unwatch, Steps
  <1>6. ASSUME NEW h \in Handlers, Watch(h) PROVE TypeOK'
    BY <1>a, <1>b, <1>6, GotoType DEF Watch, Steps
  <1>7. ASSUME NEW h \in Handlers, Get(h) PROVE TypeOK'
    BY <1>7 DEF Get, Steps
  <1>8. ASSUME NEW h \in Handlers, GetMissing(h) PROVE TypeOK'
    BY <1>a, <1>b, <1>d, <1>8, GotoType DEF GetMissing, Steps
  <1>9. ASSUME NEW h \in Handlers, Commit(h) PROVE TypeOK'
    <2>1. graphs' \in [Keys -> Graph] /\ ready' \in [Handlers -> SUBSET Nodes]
      BY <1>a, <1>9, CommitType DEF Commit
    <2>2. dirty' \in [Conns -> BOOLEAN] /\ watched' \in [Conns -> SUBSET Keys]
      BY <1>9 DEF Commit
    <2>3. claims' \in [Nodes -> Nat] /\ present' \subseteq Keys
      BY <1>9 DEF Commit
    <2>4. pc' \in [Handlers -> Steps] /\ last' \in [Handlers -> BOOLEAN]
      <3>1. IsComplete(Revised(h)) \in BOOLEAN
        BY DEF IsComplete
      <3>. QED
        BY <1>9, <3>1 DEF Commit, Steps
    <2>. QED
      BY <1>9, <2>1, <2>2, <2>3, <2>4 DEF Commit
  <1>10. ASSUME NEW h \in Handlers, Retry(h) PROVE TypeOK'
    BY <1>d, <1>10, StartTypes, LoopsAssumption DEF Retry, Steps
  <1>11. ASSUME NEW h \in Handlers, GiveUp(h) PROVE TypeOK'
    BY <1>a, <1>b, <1>d, <1>11, ReturnType DEF GiveUp
  <1>12. ASSUME NEW h \in Handlers, SkipNode(h) PROVE TypeOK'
    BY <1>a, <1>b, <1>12, TakeType DEF SkipNode
  <1>13. ASSUME NEW h \in Handlers, StartNode(h) PROVE TypeOK'
    <2>1. PICK n \in ready[h] :
            /\ row' = [row EXCEPT ![n] = IF @ = "none" THEN "queued" ELSE @]
            /\ AddJobs({n}, key[h])
            /\ Take(h, n)
      BY <1>13 DEF StartNode
    <2>2. LoopTypeOK' /\ row' \in [Nodes -> Statuses]
      BY <1>a, <2>1, TakeType DEF Statuses
    <2>3. jobs' \subseteq Nodes /\ graphOf' \in [Nodes -> Keys \cup {NoKey}]
      BY <2>1, JobsType
    <2>. QED
      BY <1>b, <1>13, <2>2, <2>3 DEF StartNode
  <1>14. ASSUME NEW h \in Handlers, StartNodeFails(h) PROVE TypeOK'
    <2>1. PICK n \in ready[h] :
            /\ row' = [row EXCEPT ![n] = "pending"]
            /\ AddJobs({n}, key[h]) \/ UNCHANGED <<jobs, graphOf>>
            /\ Take(h, n)
      BY <1>14 DEF StartNodeFails
    <2>2. LoopTypeOK' /\ row' \in [Nodes -> Statuses]
      BY <1>a, <2>1, TakeType DEF Statuses
    <2>3. jobs' \subseteq Nodes /\ graphOf' \in [Nodes -> Keys \cup {NoKey}]
      BY <2>1, JobsType
    <2>. QED
      BY <1>b, <1>14, <2>2, <2>3 DEF StartNodeFails
  <1>15. ASSUME NEW h \in Handlers, SignalDone(h) PROVE TypeOK'
    BY <1>a, <1>b, <1>15, ReturnType DEF SignalDone
  <1>16. ASSUME NEW h \in Handlers, CleanUp(h) PROVE TypeOK'
    <2>1. LoopTypeOK'
      BY <1>a, <1>16, GotoType DEF CleanUp, Steps
    <2>2. /\ graphs' \in [Keys -> Graph]
          /\ dirty' \in [Conns -> BOOLEAN]
          /\ present' \subseteq Keys
      BY <1>16, StartTypes DEF CleanUp, Touch
    <2>. QED
      BY <1>b, <1>16, <2>1, <2>2 DEF CleanUp
  <1>17. ASSUME NEW h \in Handlers, DispatchPending(h) PROVE TypeOK'
    <2>1. LoopTypeOK'
      BY <1>a, <1>17, ReturnType DEF DispatchPending
    <2>2. row' \in [Nodes -> Statuses] /\ faults' \in Nat
      BY <1>17 DEF DispatchPending, Statuses
    <2>3. jobs' \subseteq Nodes /\ graphOf' \in [Nodes -> Keys \cup {NoKey}]
      BY <1>17, JobsType DEF DispatchPending
    <2>. QED
      BY <1>b, <1>17, <2>1, <2>2, <2>3 DEF DispatchPending
  <1>18. ASSUME NEW h \in Handlers, AbortHandler(h) PROVE TypeOK'
    <2>1. LoopTypeOK' /\ faults' \in Nat
      BY <1>a, <1>18, ReturnType DEF AbortHandler, Fault
    <2>2. watched' \in [Conns -> SUBSET Keys] /\ dirty' \in [Conns -> BOOLEAN]
      BY <1>d, <1>18 DEF AbortHandler
    <2>. QED
      BY <1>b, <1>18, <2>1, <2>2 DEF AbortHandler
  <1>19. ASSUME NEW n \in Nodes, FinishNode(n) PROVE TypeOK'
    BY <1>a, <1>b, <1>c, <1>19 DEF FinishNode, Messages
  <1>20. ASSUME NEW k \in Keys, ExpireGraph(k) PROVE TypeOK'
    BY <1>a, <1>b, <1>c, <1>20, StartTypes DEF ExpireGraph, Fault, Touch
  <1>21. ASSUME NEW m \in completions, LoseCompletion(m) PROVE TypeOK'
    BY <1>a, <1>b, <1>c, <1>21 DEF LoseCompletion, Fault
  <1>22. CASE UNCHANGED vars
    BY <1>22 DEF vars
  <1>. HIDE DEF TypeOK
  <1>. QED
    BY <1>1, <1>2, <1>3, <1>4, <1>5, <1>6, <1>7, <1>8, <1>9, <1>10, <1>11,
       <1>12, <1>13, <1>14, <1>15, <1>16, <1>17, <1>18, <1>19, <1>20, <1>21,
       <1>22 DEF Next, HandlerStep

\* The executor's state always has its type; in particular no handler ever
\* counts more than MaxAttempts attempts of its transaction.
THEOREM TypeCorrect == Spec => []TypeOK
  BY TypeInit, TypeStep, PTL DEF Spec

-----------------------------------------------------------------------------
(* Dependencies come first.  Nothing here needs the transactions to be     *)
(* atomic: a stale snapshot only knows fewer completions, so the order     *)
(* holds whatever ConnOf is, the shared connection included.               *)

LEMMA OrderInit == Init => DependencyOrder
  BY DEF Init, DependencyOrder, DepsFinished, EmptyGraph, Handlers

\* A new call reads nothing before its transaction and has no ready node.
LEMMA BeginOrder ==
  ASSUME TypeOK, DependencyOrder, NEW h \in Handlers, NEW s, NEW k,
         NEW w, Begin(h, s, k, w), h \in Completers => w \subseteq finished
  PROVE  /\ \A i \in Handlers : /\ snap'[i].completed \subseteq finished
                                /\ \A n \in ready'[i] : Deps[n] \subseteq finished
         /\ \A i \in Completers : work'[i] \subseteq finished
  BY DEF TypeOK, DependencyOrder, DepsFinished, Begin, EmptyGraph, Handlers

\* What a transaction marks as dispatched has its dependencies finished.
LEMMA CommitOrder ==
  ASSUME TypeOK, DependencyOrder, NEW h \in Handlers
  PROVE  /\ Committed(h).completed \subseteq finished
         /\ \A n \in NewlyReady(h) : Deps[n] \subseteq finished
  <1>1. Revised(h).completed \subseteq finished
    BY DEF DependencyOrder, Revised, WithCompleted, WithNodes, Handlers
  <1>2. Committed(h).completed = Revised(h).completed
    BY DEF Committed, WithDispatched
  <1>3. \A n \in NewlyReady(h) : Deps[n] \subseteq Revised(h).completed
    BY DEF NewlyReady, ReadyAmong
  <1>. QED
    BY <1>1, <1>2, <1>3

LEMMA OrderStep == TypeOK /\ DependencyOrder /\ [Next]_vars => DependencyOrder'
  <1>. SUFFICES ASSUME TypeOK, DependencyOrder, [Next]_vars
                PROVE  DependencyOrder'
    OBVIOUS
  <1>. USE DEF redisVars, queueVars, loopVars
  <1>a. ASSUME NEW h \in Handlers, NEW s, NEW k, NEW w, Begin(h, s, k, w),
               h \in Completers => w \subseteq finished,
               graphs' = graphs, UNCHANGED <<finished, jobs>>,
               completions' \subseteq completions,
               \A n \in Nodes : row'[n] = "pending" => row[n] = "pending"
        PROVE  DependencyOrder'
    <2>1. /\ \A i \in Handlers : /\ snap'[i].completed \subseteq finished'
                                 /\ \A n \in ready'[i] : Deps[n] \subseteq finished'
          /\ \A i \in Completers : work'[i] \subseteq finished'
      BY <1>a, BeginOrder
    <2>. QED
      BY <1>a, <2>1 DEF DependencyOrder, DepsFinished
  <1>b. ASSUME NEW h \in Handlers, Return(h),
               graphs' = graphs, UNCHANGED <<finished, jobs, completions, row>>
        PROVE  DependencyOrder'
    BY <1>a, <1>b DEF Return
  <1>c. ASSUME UNCHANGED <<graphs, row, jobs, finished, completions, work,
                           snap, ready>>
        PROVE  DependencyOrder'
    BY <1>c DEF DependencyOrder, DepsFinished
  <1>1. ASSUME NEW h \in Injectors, AnomalyDetected(h) PROVE DependencyOrder'
    <2>1. h \in Handlers /\ h \notin Completers
      BY LoopsAssumption DEF Handlers
    <2>. QED
      BY <1>a, <1>1, <2>1 DEF AnomalyDetected
  <1>2. ASSUME NEW h \in Injectors, AnomalyEscalated(h) PROVE DependencyOrder'
    <2>1. h \in Handlers /\ h \notin Completers
      BY LoopsAssumption DEF Handlers
    <2>. QED
      BY <1>a, <1>2, <2>1 DEF AnomalyEscalated
  <1>3. ASSUME NEW h \in Completers, ReceiveCompletion(h)
        PROVE  DependencyOrder'
    <2>1. PICK m \in completions :
            /\ row' = [row EXCEPT ![m.task] = "completed"]
            /\ IF m.graphId = NoKey
               THEN Begin(h, "tail", AnyKey, {})
               ELSE Begin(h, "unwatch", m.graphId, {m.task})
      BY <1>3 DEF ReceiveCompletion
    <2>2. m.task \in finished
      BY DEF DependencyOrder
    <2>3. /\ completions' \subseteq completions
          /\ \A n \in Nodes : row'[n] = "pending" => row[n] = "pending"
      BY <1>3, <2>1 DEF ReceiveCompletion, TypeOK
    <2>4. UNCHANGED <<graphs, finished, jobs>> /\ h \in Handlers
      BY <1>3 DEF ReceiveCompletion, Handlers
    <2>. QED
      BY <1>a, <2>1, <2>2, <2>3, <2>4
  <1>4. ASSUME NEW h \in Handlers, ExecuteGraph(h) PROVE DependencyOrder'
    <2>1. PICK k \in Keys :
            /\ graphs' = [graphs EXCEPT ![k] = [nodes |-> work[h],
                                                completed |-> {},
                                                dispatched |-> Roots(work[h])]]
            /\ ready' = [ready EXCEPT ![h] = Roots(work[h])]
      BY <1>4 DEF ExecuteGraph
    <2>2. \A j \in Keys : graphs'[j].completed \subseteq finished
      BY <2>1 DEF DependencyOrder, TypeOK
    <2>3. \A i \in Handlers : \A n \in ready'[i] : Deps[n] \subseteq finished
      BY <2>1 DEF DependencyOrder, DepsFinished, Roots, TypeOK
    <2>4. UNCHANGED <<row, jobs, finished, completions, work, snap>>
      BY <1>4 DEF ExecuteGraph
    <2>. QED
      BY <2>2, <2>3, <2>4 DEF DependencyOrder, DepsFinished
  <1>5. ASSUME NEW h \in Handlers, Unwatch(h) PROVE DependencyOrder'
    BY <1>c, <1>5 DEF Unwatch, Goto
  <1>6. ASSUME NEW h \in Handlers, Watch(h) PROVE DependencyOrder'
    BY <1>c, <1>6 DEF Watch, Goto
  <1>7. ASSUME NEW h \in Handlers, Get(h) PROVE DependencyOrder'
    <2>1. snap' = [snap EXCEPT ![h] = graphs[key[h]]] /\ key[h] \in Keys
      BY <1>7 DEF Get, TypeOK
    <2>2. \A i \in Handlers : snap'[i].completed \subseteq finished
      BY <2>1 DEF DependencyOrder, TypeOK
    <2>3. UNCHANGED <<graphs, row, jobs, finished, completions, work, ready>>
      BY <1>7 DEF Get
    <2>. QED
      BY <2>2, <2>3 DEF DependencyOrder, DepsFinished
  <1>8. ASSUME NEW h \in Handlers, GetMissing(h) PROVE DependencyOrder'
    BY <1>c, <1>8 DEF GetMissing, Goto
  <1>9. ASSUME NEW h \in Handlers, Commit(h) PROVE DependencyOrder'
    <2>1. /\ graphs' = [graphs EXCEPT ![key[h]] = Committed(h)]
          /\ ready' = [ready EXCEPT ![h] = NewlyReady(h)]
      BY <1>9 DEF Commit
    <2>2. \A j \in Keys : graphs'[j].completed \subseteq finished
      BY <2>1, CommitOrder DEF DependencyOrder, TypeOK
    <2>3. \A i \in Handlers : \A n \in ready'[i] : Deps[n] \subseteq finished
      BY <2>1, CommitOrder DEF DependencyOrder, DepsFinished, TypeOK
    <2>4. UNCHANGED <<row, jobs, finished, completions, work, snap>>
      BY <1>9 DEF Commit
    <2>. QED
      BY <2>2, <2>3, <2>4 DEF DependencyOrder, DepsFinished
  <1>10. ASSUME NEW h \in Handlers, Retry(h) PROVE DependencyOrder'
    <2>1. snap' = [snap EXCEPT ![h] = EmptyGraph]
      BY <1>10 DEF Retry
    <2>2. \A i \in Handlers : snap'[i].completed \subseteq finished
      BY <2>1 DEF DependencyOrder, TypeOK, EmptyGraph
    <2>3. UNCHANGED <<graphs, row, jobs, finished, completions, work, ready>>
      BY <1>10 DEF Retry
    <2>. QED
      BY <2>2, <2>3 DEF DependencyOrder, DepsFinished
  <1>11. ASSUME NEW h \in Handlers, GiveUp(h) PROVE DependencyOrder'
    BY <1>b, <1>11 DEF GiveUp
  <1>12. ASSUME NEW h \in Handlers, SkipNode(h) PROVE DependencyOrder'
    BY <1>12 DEF SkipNode, Take, DependencyOrder, DepsFinished, TypeOK
  <1>13. ASSUME NEW h \in Handlers, StartNode(h) PROVE DependencyOrder'
    <2>1. PICK n \in ready[h] :
            /\ row' = [row EXCEPT ![n] = IF @ = "none" THEN "queued" ELSE @]
            /\ AddJobs({n}, key[h])
            /\ Take(h, n)
      BY <1>13 DEF StartNode
    <2>2. Deps[n] \subseteq finished /\ n \in Nodes
      BY DEF DependencyOrder, DepsFinished, TypeOK
    <2>3. jobs' = jobs \cup {n} /\ ready' = [ready EXCEPT ![h] = @ \ {n}]
      BY <2>1 DEF AddJobs, Take
    <2>4. \A i \in Nodes : row'[i] = "pending" => row[i] = "pending"
      BY <2>1, <2>2 DEF TypeOK
    <2>5. UNCHANGED <<graphs, finished, completions, work, snap>>
      BY <1>13, <2>1 DEF StartNode, Take
    <2>. QED
      BY <2>2, <2>3, <2>4, <2>5 DEF DependencyOrder, DepsFinished, TypeOK
  <1>14. ASSUME NEW h \in Handlers, StartNodeFails(h) PROVE DependencyOrder'
    <2>1. PICK n \in ready[h] :
            /\ row' = [row EXCEPT ![n] = "pending"]
            /\ AddJobs({n}, key[h]) \/ UNCHANGED <<jobs, graphOf>>
            /\ Take(h, n)
      BY <1>14 DEF StartNodeFails
    <2>2. Deps[n] \subseteq finished /\ n \in Nodes
      BY DEF DependencyOrder, DepsFinished, TypeOK
    <2>3. /\ jobs \subseteq jobs' /\ jobs' \subseteq jobs \cup {n}
          /\ ready' = [ready EXCEPT ![h] = @ \ {n}]
      BY <2>1 DEF AddJobs, Take
    <2>4. \A i \in Nodes : row'[i] = "pending" => row[i] = "pending" \/ i = n
      BY <2>1, <2>2 DEF TypeOK
    <2>5. UNCHANGED <<graphs, finished, completions, work, snap>>
      BY <1>14, <2>1 DEF StartNodeFails, Take
    <2>. QED
      BY <2>2, <2>3, <2>4, <2>5 DEF DependencyOrder, DepsFinished, TypeOK
  <1>15. ASSUME NEW h \in Handlers, SignalDone(h) PROVE DependencyOrder'
    BY <1>b, <1>15 DEF SignalDone
  <1>16. ASSUME NEW h \in Handlers, CleanUp(h) PROVE DependencyOrder'
    <2>1. \A j \in Keys : graphs'[j].completed \subseteq finished
      BY <1>16 DEF CleanUp, DependencyOrder, TypeOK, EmptyGraph
    <2>2. UNCHANGED <<row, jobs, finished, completions, work, snap, ready>>
      BY <1>16 DEF CleanUp, Goto
    <2>. QED
      BY <2>1, <2>2 DEF DependencyOrder, DepsFinished
  <1>17. ASSUME NEW h \in Handlers, DispatchPending(h) PROVE DependencyOrder'
    <2>1. PICK sent \in SUBSET {n \in Nodes : row[n] = "pending"} :
            AddJobs(sent, NoKey)
      BY <1>17 DEF DispatchPending
    <2>2. \A n \in Nodes : row'[n] = "pending" => row[n] = "pending"
      BY <1>17 DEF DispatchPending
    <2>3. jobs' = jobs \cup sent
      BY <2>1 DEF AddJobs
    <2>4. /\ \A i \in Handlers : /\ snap'[i].completed \subseteq finished
                                 /\ \A n \in ready'[i] : Deps[n] \subseteq finished
          /\ \A i \in Completers : work'[i] \subseteq finished
      BY <1>17, BeginOrder DEF DispatchPending, Return
    <2>5. UNCHANGED <<graphs, finished, completions>>
      BY <1>17 DEF DispatchPending
    <2>. QED
      BY <2>2, <2>3, <2>4, <2>5 DEF DependencyOrder, DepsFinished
  <1>18. ASSUME NEW h \in Handlers, AbortHandler(h) PROVE DependencyOrder'
    BY <1>b, <1>18 DEF AbortHandler
  <1>19. ASSUME NEW n \in Nodes, FinishNode(n) PROVE DependencyOrder'
    BY <1>19 DEF FinishNode, DependencyOrder, DepsFinished
  <1>20. ASSUME NEW k \in Keys, ExpireGraph(k) PROVE DependencyOrder'
    <2>1. \A j \in Keys : graphs'[j].completed \subseteq finished
      BY <1>20 DEF ExpireGraph, DependencyOrder, TypeOK, EmptyGraph
    <2>2. UNCHANGED <<row, jobs, finished, completions, work, snap, ready>>
      BY <1>20 DEF ExpireGraph
    <2>. QED
      BY <2>1, <2>2 DEF DependencyOrder, DepsFinished
  <1>21. ASSUME NEW m \in completions, LoseCompletion(m) PROVE DependencyOrder'
    BY <1>21 DEF LoseCompletion, DependencyOrder, DepsFinished
  <1>22. CASE UNCHANGED vars
    BY <1>c, <1>22 DEF vars
  <1>. QED
    BY <1>1, <1>2, <1>3, <1>4, <1>5, <1>6, <1>7, <1>8, <1>9, <1>10, <1>11,
       <1>12, <1>13, <1>14, <1>15, <1>16, <1>17, <1>18, <1>19, <1>20, <1>21,
       <1>22 DEF Next, HandlerStep, Handlers

\* Whatever has been published, or is about to be, has finished dependencies.
THEOREM DependenciesFirst == Spec => []DependencyOrder
  BY TypeInit, TypeStep, OrderInit, OrderStep, PTL DEF Spec

-----------------------------------------------------------------------------
(* No node is stranded.  This needs no atomicity either: a transaction     *)
(* that overwrites another one's update still writes a graph that it has   *)
(* computed, as a whole, from one that was stored.                         *)

\* Whatever g's completions make ready is recorded as dispatched or completed.
Saturated(g) ==
  \A n \in g.nodes :
    Deps[n] \subseteq g.completed => n \in g.dispatched \cup g.completed

AllSaturated ==
  /\ \A k \in Keys : Saturated(graphs[k])
  /\ \A h \in Handlers : Saturated(snap[h])

LEMMA EmptyIsSaturated == Saturated(EmptyGraph)
  BY DEF Saturated, EmptyGraph

\* markTaskCompleted looks at all nodes, injectNodes at those it adds.
LEMMA CommitsSaturated ==
  ASSUME TypeOK, AllSaturated, NEW h \in Handlers
  PROVE  Saturated(Committed(h))
  <1>1. Saturated(snap[h])
    BY DEF AllSaturated
  <1>2. Revised(h).dispatched = snap[h].dispatched
    BY DEF Revised, WithCompleted, WithNodes
  <1>3. /\ Committed(h).nodes = Revised(h).nodes
        /\ Committed(h).completed = Revised(h).completed
        /\ Committed(h).dispatched = Revised(h).dispatched \cup NewlyReady(h)
    BY DEF Committed, WithDispatched
  <1>4. CASE h \in Completers
    <2>1. snap[h].completed \subseteq Revised(h).completed
          /\ Revised(h).nodes = snap[h].nodes
      BY <1>4 DEF Revised, WithCompleted
    <2>2. \A n \in Revised(h).nodes \ Revised(h).completed :
            Deps[n] \subseteq Revised(h).completed =>
              n \in NewlyReady(h) \cup Revised(h).dispatched
      BY <1>4 DEF NewlyReady, ReadyAmong
    <2>. QED
      BY <1>1, <1>2, <1>3, <2>1, <2>2 DEF Saturated
  <1>5. CASE h \notin Completers
    <2>1. /\ Revised(h).nodes = snap[h].nodes \cup work[h]
          /\ Revised(h).completed = snap[h].completed
      BY <1>5 DEF Revised, WithNodes
    <2>2. \A n \in work[h] : Deps[n] \subseteq Revised(h).completed =>
                               n \in Revised(h).dispatched \cup NewlyReady(h)
      BY <1>5 DEF NewlyReady, ReadyAmong
    <2>. QED
      BY <1>1, <1>2, <1>3, <2>1, <2>2 DEF Saturated
  <1>. QED
    BY <1>4, <1>5

\* What a step may do to the graphs and to what the loops have read.
LEMMA SaturatedKept ==
  ASSUME TypeOK, AllSaturated,
         \/ graphs' = graphs
         \/ \E k, g : graphs' = [graphs EXCEPT ![k] = g] /\ Saturated(g),
         \/ snap' = snap
         \/ \E h, g : snap' = [snap EXCEPT ![h] = g] /\ Saturated(g)
  PROVE  AllSaturated'
  BY DEF TypeOK, AllSaturated, Saturated

LEMMA SaturatedStep == TypeOK /\ AllSaturated /\ [Next]_vars => AllSaturated'
  <1>. SUFFICES ASSUME TypeOK, AllSaturated, [Next]_vars PROVE AllSaturated'
    OBVIOUS
  <1>. USE DEF redisVars
  <1>1. ASSUME NEW h, NEW s, NEW k, NEW w, Begin(h, s, k, w), graphs' = graphs
        PROVE  AllSaturated'
    BY <1>1, EmptyIsSaturated, SaturatedKept DEF Begin
  <1>2. ASSUME NEW h, NEW n, Goto(h, n) \/ Take(h, n), graphs' = graphs
        PROVE  AllSaturated'
    BY <1>2, SaturatedKept DEF Goto, Take
  <1>3. ASSUME NEW h \in Handlers,
               \/ AnomalyDetected(h) \/ AnomalyEscalated(h) \/ ReceiveCompletion(h)
               \/ GiveUp(h) \/ SignalDone(h) \/ DispatchPending(h) \/ AbortHandler(h)
        PROVE  AllSaturated'
    BY <1>1, <1>3 DEF AnomalyDetected, AnomalyEscalated, ReceiveCompletion, GiveUp,
       SignalDone, DispatchPending, AbortHandler, Return
  <1>4. ASSUME NEW h \in Handlers,
               \/ Unwatch(h) \/ Watch(h) \/ GetMissing(h)
               \/ SkipNode(h) \/ StartNode(h) \/ StartNodeFails(h)
        PROVE  AllSaturated'
    BY <1>2, <1>4
    DEF Unwatch, Watch, GetMissing, SkipNode, StartNode, StartNodeFails
  <1>5. ASSUME NEW h \in Handlers, ExecuteGraph(h) PROVE AllSaturated'
    <2>1. PICK k \in Keys :
            graphs' = [graphs EXCEPT ![k] = [nodes |-> work[h], completed |-> {},
                                             dispatched |-> Roots(work[h])]]
      BY <1>5 DEF ExecuteGraph
    <2>2. Saturated([nodes |-> work[h], completed |-> {},
                     dispatched |-> Roots(work[h])])
      BY DEF Saturated, Roots
    <2>. QED
      BY <1>5, <2>1, <2>2, SaturatedKept DEF ExecuteGraph
  <1>6. ASSUME NEW h \in Handlers, Get(h) PROVE AllSaturated'
    <2>1. Saturated(graphs[key[h]])
      BY DEF TypeOK, AllSaturated
    <2>. QED
      BY <1>6, <2>1, SaturatedKept DEF Get
  <1>7. ASSUME NEW h \in Handlers, Commit(h) PROVE AllSaturated'
    <2>1. Saturated(Committed(h))
      BY CommitsSaturated
    <2>. QED
      BY <1>7, <2>1, SaturatedKept DEF Commit
  <1>8. ASSUME NEW h \in Handlers, Retry(h) PROVE AllSaturated'
    BY <1>8, EmptyIsSaturated, SaturatedKept DEF Retry
  <1>9. ASSUME NEW h \in Handlers, CleanUp(h) PROVE AllSaturated'
    <2>1. snap' = snap
      BY <1>9 DEF CleanUp, Goto
    <2>. QED
      BY <1>9, <2>1, EmptyIsSaturated, SaturatedKept DEF CleanUp
  <1>10. ASSUME NEW k \in Keys, ExpireGraph(k) PROVE AllSaturated'
    BY <1>10, EmptyIsSaturated, SaturatedKept DEF ExpireGraph, loopVars
  <1>11. ASSUME NEW n, FinishNode(n) \/ LoseCompletion(n) PROVE AllSaturated'
    BY <1>11, SaturatedKept DEF FinishNode, LoseCompletion, loopVars
  <1>12. CASE UNCHANGED vars
    BY <1>12, SaturatedKept DEF vars
  <1>. QED
    BY <1>3, <1>4, <1>5, <1>6, <1>7, <1>8, <1>9, <1>10, <1>11, <1>12
    DEF Next, HandlerStep, Handlers

\* Whoever finds a stored graph finds no node that its recorded completions make
\* ready and that nobody has dispatched: whatever connections the loops share,
\* and whatever updates are lost.
ReadyTaken ==
  \A k \in present : \A n \in graphs[k].nodes :
    Deps[n] \subseteq graphs[k].completed =>
      n \in graphs[k].dispatched \cup graphs[k].completed

THEOREM ReadyNodesAreTaken == Spec => []ReadyTaken
  <1>1. Init => AllSaturated
    BY EmptyIsSaturated DEF Init, AllSaturated
  <1>2. TypeOK /\ AllSaturated => ReadyTaken
    BY DEF TypeOK, AllSaturated, Saturated, ReadyTaken
  <1>. QED
    BY <1>1, <1>2, TypeInit, TypeStep, SaturatedStep, PTL DEF Spec

-----------------------------------------------------------------------------
\* Every step of the executor is a step of the abstract schedule, or changes
\* neither the started nor the finished tasks.
LEMMA DagStep == TypeOK /\ DependencyOrder /\ [Next]_vars => [Dag!DagNext]_(Dag!dagVars)
  <1>. SUFFICES ASSUME TypeOK, DependencyOrder, [Next]_vars
                PROVE  [Dag!DagNext]_(Dag!dagVars)
    OBVIOUS
  <1>. USE DEF redisVars, queueVars
  <1>a. ASSUME NEW S \in SUBSET Nodes, \A n \in S : Deps[n] \subseteq finished,
               jobs' = jobs \cup S, finished' = finished
        PROVE  [Dag!DagNext]_(Dag!dagVars)
    <2>1. Dag!StartTasks(S \ jobs)
      BY <1>a DEF Dag!StartTasks
    <2>2. S \ jobs \in SUBSET Nodes
      OBVIOUS
    <2>. QED
      BY <2>1, <2>2 DEF Dag!DagNext
  <1>b. ASSUME UNCHANGED <<jobs, finished>>
        PROVE  [Dag!DagNext]_(Dag!dagVars)
    BY <1>b DEF Dag!dagVars
  <1>1. ASSUME NEW h \in Handlers, StartNode(h)
        PROVE  [Dag!DagNext]_(Dag!dagVars)
    <2>1. PICK n \in ready[h] : AddJobs({n}, key[h])
      BY <1>1 DEF StartNode
    <2>2. {n} \in SUBSET Nodes /\ Deps[n] \subseteq finished
      BY DEF DependencyOrder, DepsFinished, TypeOK
    <2>. QED
      BY <1>a, <1>1, <2>1, <2>2 DEF StartNode, AddJobs
  <1>2. ASSUME NEW h \in Handlers, StartNodeFails(h)
        PROVE  [Dag!DagNext]_(Dag!dagVars)
    <2>1. PICK n \in ready[h] :
            AddJobs({n}, key[h]) \/ UNCHANGED <<jobs, graphOf>>
      BY <1>2 DEF StartNodeFails
    <2>2. {n} \in SUBSET Nodes /\ Deps[n] \subseteq finished
      BY DEF DependencyOrder, DepsFinished, TypeOK
    <2>3. finished' = finished
      BY <1>2 DEF StartNodeFails
    <2>. QED
      BY <1>a, <1>b, <2>1, <2>2, <2>3 DEF AddJobs
  <1>3. ASSUME NEW h \in Handlers, DispatchPending(h)
        PROVE  [Dag!DagNext]_(Dag!dagVars)
    <2>1. PICK sent \in SUBSET {n \in Nodes : row[n] = "pending"} :
            AddJobs(sent, NoKey)
      BY <1>3 DEF DispatchPending
    <2>2. sent \in SUBSET Nodes /\ \A n \in sent : Deps[n] \subseteq finished
      BY DEF DependencyOrder
    <2>3. jobs' = jobs \cup sent /\ finished' = finished
      BY <1>3, <2>1 DEF DispatchPending, AddJobs
    <2>. QED
      BY <1>a, <2>2, <2>3
  <1>4. ASSUME NEW n \in Nodes, FinishNode(n)
        PROVE  [Dag!DagNext]_(Dag!dagVars)
    <2>1. Dag!FinishTask(n)
      BY <1>4 DEF FinishNode, Dag!FinishTask
    <2>. QED
      BY <2>1 DEF Dag!DagNext
  <1>5. ASSUME NEW h \in Handlers,
               \/ AnomalyDetected(h) \/ AnomalyEscalated(h)
               \/ ReceiveCompletion(h) \/ ExecuteGraph(h)
        PROVE  UNCHANGED <<jobs, finished>>
    BY <1>5 DEF AnomalyDetected, AnomalyEscalated, ReceiveCompletion,
                ExecuteGraph
  <1>6. ASSUME NEW h \in Handlers,
               Unwatch(h) \/ Watch(h) \/ Get(h) \/ GetMissing(h)
        PROVE  UNCHANGED <<jobs, finished>>
    BY <1>6 DEF Unwatch, Watch, Get, GetMissing
  <1>7. ASSUME NEW h \in Handlers, Commit(h) \/ Retry(h) \/ GiveUp(h)
        PROVE  UNCHANGED <<jobs, finished>>
    BY <1>7 DEF Commit, Retry, GiveUp
  <1>8. ASSUME NEW h \in Handlers,
               SkipNode(h) \/ SignalDone(h) \/ CleanUp(h) \/ AbortHandler(h)
        PROVE  UNCHANGED <<jobs, finished>>
    BY <1>8 DEF SkipNode, SignalDone, CleanUp, AbortHandler
  <1>9. ASSUME NEW k \in Keys, ExpireGraph(k) PROVE UNCHANGED <<jobs, finished>>
    BY <1>9 DEF ExpireGraph
  <1>10. ASSUME NEW m \in completions, LoseCompletion(m)
         PROVE  UNCHANGED <<jobs, finished>>
    BY <1>10 DEF LoseCompletion
  <1>11. CASE UNCHANGED vars
    BY <1>b, <1>11 DEF vars
  <1>. QED
    BY <1>b, <1>1, <1>2, <1>3, <1>4, <1>5, <1>6, <1>7, <1>8, <1>9, <1>10, <1>11
    DEF Next, HandlerStep, Handlers

\* The executor implements the abstract schedule, with any number of processes
\* and loops, lost, repeated and late messages, expiring graphs, shared
\* connections: a task is published only after its dependencies have finished.
THEOREM ImplementsDag == Spec => DagRefinement
  <1>1. Init => Dag!DagInit
    BY DEF Init, Dag!DagInit
  <1>. QED
    BY <1>1, DagStep, TypeInit, TypeStep, OrderInit, OrderStep, PTL
    DEF Spec, DagRefinement, Dag!DagSpec
=============================================================================
