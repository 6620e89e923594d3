\* The caller commits as soon as start_task_core returns.
SPECIFICATION Spec
CONSTANTS
    NThreads = 2
    Committers = {c1, c2}
    QueueTasks = {q1}
    OnceTasks = {o1, o2}
    NoTask = NoTask
    Free = Free
    Settled = FALSE
PROPERTY PickIsExclusive
CHECK_DEADLOCK FALSE
