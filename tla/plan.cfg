SPECIFICATION FairSpec
CONSTANTS
  Plans <- Shapes
  MaxUpdates = 1
  Anchors = {0, 9}
  Remote = {"approve", "reject", "pause", "resume", "stop"}
  Budget = 6
INVARIANTS OnlyApproved 
PROPERTIES ProgressKept CancelStands PlanEnds
CHECK_DEADLOCK FALSE
