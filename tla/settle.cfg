CONSTANTS
  t1 = t1  t2 = t2  s1 = s1  s2 = s2  c1 = c1  c2 = c2  c3 = c3  p1 = p1  p2 = p2
  Tasks = {t1}
  Processes = {p1, p2}
  NoWorker = NoWorker
  MaxRetries = 1
  Submitters = {s1}
  Batch <- BatchOne
  Unwaited = {}
  Cancellable = {}
  Consumers = {c1, c2}
  Host <- HostRestarted
  Restart <- RestartOnce
  MaxActive = 1
  MaxRequeues = 2
  Faults = {"exit", "crash"}
SPECIFICATION FairSpec
PROPERTIES EveryTaskSettles WaitersReturn
CHECK_DEADLOCK FALSE
