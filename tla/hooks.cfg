SPECIFICATION FairSpec
CONSTANTS
    h1 = h1
    h2 = h2
    m1 = m1
    Hooks = {h1}
    Entries = {1, 2}
    Manual = {m1}
    Loop = Loop
    NoAgent = NoAgent
    MaxTimeline = 1
    Faults = {"fail", "push", "timeout", "crash"}
INVARIANTS NoDoublePush AlertKept 
PROPERTIES TimelineKept PendingGoesOut
CHECK_DEADLOCK FALSE
