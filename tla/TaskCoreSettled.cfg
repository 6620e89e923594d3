\* Three workers, so that a caller scans past a picked one.
SPECIFICATION Spec
CONSTANTS
    NThreads = 3
    Committers = {c1, c2}
    QueueTasks = {q1, q2}
    OnceTasks = {o1, o2}
    NoTask = NoTask
    Free = Free
    Settled = TRUE
INVARIANTS TaskHasOnePlace NoLostWakeup StopIsClean NeverCrashes
PROPERTIES PickIsExclusive KeepsPromise
