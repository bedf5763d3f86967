SPECIFICATION FairSpec
CONSTANTS
  Files = {1, 2, 3}
  QuietWindow = 1
  MaxWait = 2
  MaxFiles = 2
  LockTtl = 3
  BatchTtl = 6
  LastArrival = 2
  MaxTime = 8
  MaxFaults = 1
  Faults <- AnyFault
INVARIANTS Kept SubmittedOnce
PROPERTY FilesGo
CHECK_DEADLOCK FALSE
