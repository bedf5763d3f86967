CONSTANTS
  t1 = t1  t2 = t2  s1 = s1  s2 = s2  c1 = c1  c2 = c2  c3 = c3  p1 = p1  p2 = p2
  Tasks = {t1}
  Processes = {p1, p2}
  NoWorker = NoWorker
  MaxRetries = 1
  Submitters = {s1}
  Batch <- BatchOne
  Unwaited = {s1}
  Cancellable = {}
  Consumers = {c1, c2}
  Host <- HostTwo
  Restart <- NoRestart
  MaxActive = 1
  MaxRequeues = 1
  Faults = {"late", "exit"}
SPECIFICATION Spec
INVARIANTS  ExecutionsPaidFor RetryBound
CHECK_DEADLOCK FALSE
