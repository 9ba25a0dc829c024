SPECIFICATION FairSpec
CONSTANTS
  r1 = r1
  r2 = r2
  join = join
  leaf = leaf
  pivot = pivot
  c1 = c1
  c2 = c2
  s1 = s1
  Nodes <- ProgressNodes
  InitialNodes <- ProgressInitial
  Batches <- GenericBatches
  Deps <- ProgressDeps
  Routable <- ProgressNodes
  Completers <- TwoCompleters
  Injectors <- OneInjector
  Conns <- AllConns
  ConnOf <- SeparateConns
  Keys = {"g1", "g2"}
  NoKey = NoKey
  MaxAttempts = 2
  MaxFaults = 0
PROPERTIES
  ReadyNodesFinish
  GraphsAreRemoved
CHECK_DEADLOCK FALSE
