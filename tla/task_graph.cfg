SPECIFICATION Spec
CONSTANTS
  r1 = r1
  r2 = r2
  join = join
  leaf = leaf
  pivot = pivot
  c1 = c1
  c2 = c2
  s1 = s1
  Nodes <- GenericNodes
  InitialNodes <- GenericInitial
  Batches <- GenericBatches
  Deps <- GenericDeps
  Routable <- GenericRoutable
  Completers <- TwoCompleters
  Injectors <- OneInjector
  Conns <- AllConns
  ConnOf <- SeparateConns
  Keys = {"g1", "g2"}
  NoKey = NoKey
  MaxAttempts = 2
  MaxFaults = 1
INVARIANTS
  TypeOK
  ClaimedOnce
  NoStrandedNode
PROPERTIES
  UpdatesAreKept
  DeletedGraphIsDispatched
  DagRefinement
CHECK_DEADLOCK FALSE
