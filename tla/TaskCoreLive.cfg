\* Two workers and three tasks: small enough for the liveness checks.
SPECIFICATION FairSpec
CONSTANTS
    NThreads = 2
    Committers = {c1, c2}
    QueueTasks = {q1, q2}
    OnceTasks = {o1}
    NoTask = NoTask
    Free = Free
    Settled = TRUE
PROPERTIES AcceptedTaskRuns WorkersComeBack
