SPECIFICATION Spec
CONSTANTS
  r1 = r1
  r2 = r2
  join = join
  leaf = leaf
  pivot = pivot
  c1 = c1
  c2 = c2
  s1 = s1
  Nodes <- GenericNodes
  InitialNodes <- GenericInitial
  Batches <- GenericBatches
  Deps <- GenericDeps
  Routable <- GenericRoutable
  Completers <- OneCompleter
  Injectors <- OneInjector
  Conns <- AllConns
  ConnOf <- SharedConn
  Keys = {"g1", "g2"}
  NoKey = NoKey
  MaxAttempts = 2
  MaxFaults = 0
PROPERTY UpdatesAreKept
CHECK_DEADLOCK FALSE
