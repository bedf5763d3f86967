SPECIFICATION Spec
CONSTANTS
    p1 = p1
    p2 = p2
    t1 = t1
    NoTask = NoTask
    Schedulers = {p1, p2}
    Tasks = {t1}
    Horizon = 3
    Due <- DueTwice
    TriggerTtl = 2
    LockTtl = 2
    MaxRun = 1
    MaxLag = 1
    MaxBoots = 1
    Faults = {{}, {"crash", "stop", "redis", "db"}}
PROPERTIES SkippedOnlyIfRunning RecoversOnlyMissed 
SYMMETRY Symmetry
CHECK_DEADLOCK FALSE
