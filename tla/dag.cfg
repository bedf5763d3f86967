SPECIFICATION FairSpec
CONSTANTS
  a = a
  b = b
  c = c
  Tasks = {a, b, c}
  Review = review
  Graphs <- AllGraphs
  Kind <- Same
  NoCache = {c}
  MaxActive = 3
  MaxCalls = 2
INVARIANTS BlockedNeverRuns  ReuseSound 
PROPERTY CallEnds
CHECK_DEADLOCK FALSE
