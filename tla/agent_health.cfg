SPECIFICATION Spec
CONSTANTS
  Workers = {w1, w2}
  Jobs = {j1, j2}
  Monitors = {m1}
  Schedulers = {s1}
  MaxFaults = 1
  MaxClicks = 1
  NoJob = NoJob
  NoWorker = NoWorker
INVARIANTS TypeOK CountsItsJobs
PROPERTIES RowSettles
CHECK_DEADLOCK FALSE
