SPECIFICATION Spec
CONSTANTS
  Workers = {w1}
  Jobs = {j1, j2}
  Monitors = {m1}
  Schedulers = {s1}
  MaxFaults = 0
  MaxClicks = 1
  NoJob = NoJob
  NoWorker = NoWorker
PROPERTIES PausedStartsNothing
CHECK_DEADLOCK FALSE
