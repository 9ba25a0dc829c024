SPECIFICATION Spec
CONSTANTS
  t1 = t1
  g1 = g1
  router = router
  completer = completer
  failer = failer
  Tasks <- AllTasks
  GraphTasks <- Graph
  CanFail <- AllTasks
  Routers <- OneRouter
  Completers <- OneCompleter
  Failers <- OneFailer
  Limit = 1
  MaxAttempts = 2
  MaxTries = 2
  MaxFaults = 0
INVARIANT RetryHasJob
CHECK_DEADLOCK FALSE
