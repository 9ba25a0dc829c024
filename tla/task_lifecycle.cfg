SPECIFICATION FairSpec
CONSTANTS
  t1 = t1
  g1 = g1
  router = router
  completer = completer
  failer = failer
  Tasks <- AllTasks
  GraphTasks <- Graph
  CanFail <- AllTasks
  Routers <- OneRouter
  Completers <- OneCompleter
  Failers <- OneFailer
  Limit = 1
  MaxAttempts = 2
  MaxTries = 2
  MaxFaults = 1
INVARIANTS
  TypeOK
  RunsOnce
  CompletedHasRun
  CountsRealFailures
PROPERTIES
  PendingIsDrained
CHECK_DEADLOCK FALSE
