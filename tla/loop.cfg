SPECIFICATION FairSpec
CONSTANTS
  r = r
  w = w
  v = v
  read = read
  write = write
  MaxRuns = 2
  MaxSteers = 2
  Calls = {r, w, v}
  Tool <- Tools
  ReadOnly = {r}
  Approvable = {w, v}
  Forbidden = {}
  MaxCalls = 2
  MaxSigned = 2
  MaxIterations = 2
  Threshold = 1
  Context = 4
  Keep = 2
  Budget = 3
  Faults = {"llm", "checkpoint", "cancel", "abort", "tool"}
INVARIANTS  Paired SteersInOrder
PROPERTIES RunsEnd
CHECK_DEADLOCK FALSE
