CONSTANTS
  t1 = t1  t2 = t2  s1 = s1  s2 = s2  c1 = c1  c2 = c2  c3 = c3  p1 = p1  p2 = p2
  Tasks = {t1, t2}
  Processes = {p1}
  NoWorker = NoWorker
  MaxRetries = 1
  Submitters = {s1, s2}
  Batch <- BatchEach
  Unwaited = {}
  Cancellable = {}
  Consumers = {c1}
  Host <- HostOne1
  Restart <- NoRestart
  MaxActive = 1
  MaxRequeues = 1
  Faults = {"redis", "parent"}
SPECIFICATION Spec
INVARIANTS CapacityRespected
CHECK_DEADLOCK FALSE
