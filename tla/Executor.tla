------------------------------- MODULE Executor -------------------------------
(***************************************************************************)
(* What the thread pool of task_core promises its callers, without its     *)
(* threads, locks and semaphores.  A task is submitted once.  It is either *)
(* accepted or dropped; an accepted task is started at most once and then  *)
(* finishes; tasks of the queue are started one at a time, in the order of *)
(* their acceptance.  Once the pool shuts down a task that has not         *)
(* finished may be abandoned, and none is accepted any more.               *)
(***************************************************************************)
EXTENDS Sequences

CONSTANTS QueueTasks,  \* tasks submitted for the queue
          OnceTasks    \* tasks submitted to a thread of their own

Tasks == QueueTasks \cup OnceTasks
States == {"new", "held", "running", "finished", "dropped", "abandoned"}

VARIABLES state,  \* what has become of each task
          line,   \* accepted tasks of the queue, in the order of acceptance
          open    \* the pool has not been shut down
vars == <<state, line, open>>

Init ==
    /\ state = [t \in Tasks |-> "new"]
    /\ line = <<>>
    /\ open = TRUE

Move(t, from, to) ==
    /\ state[t] = from
    /\ state' = [state EXCEPT ![t] = to]

Accept(t) ==
    /\ open
    /\ Move(t, "new", "held")
    /\ line' = IF t \in QueueTasks THEN Append(line, t) ELSE line
    /\ UNCHANGED open

Drop(t) == Move(t, "new", "dropped") /\ UNCHANGED <<line, open>>

StartQueued ==
    /\ line # <<>>
    /\ \A u \in QueueTasks : state[u] # "running"
    /\ Move(Head(line), "held", "running")
    /\ line' = Tail(line)
    /\ UNCHANGED open

StartOnce(t) ==
    /\ t \in OnceTasks
    /\ Move(t, "held", "running")
    /\ UNCHANGED <<line, open>>

Finish(t) == Move(t, "running", "finished") /\ UNCHANGED <<line, open>>

Close == open /\ open' = FALSE /\ UNCHANGED <<state, line>>

\* A thread is cancelled with its task in hand.
Abandon(t) ==
    /\ ~open
    /\ t \notin {line[i] : i \in DOMAIN line}
    /\ Move(t, "held", "abandoned") \/ Move(t, "running", "abandoned")
    /\ UNCHANGED <<line, open>>

\* What is left of the queue is thrown away.
Discard ==
    /\ ~open
    /\ state' = [t \in Tasks |-> IF t \in {line[i] : i \in DOMAIN line}
                                 THEN "dropped" ELSE state[t]]
    /\ line' = <<>>
    /\ UNCHANGED open

Next ==
    \/ \E t \in Tasks : Accept(t) \/ Drop(t) \/ StartOnce(t) \/ Finish(t) \/ Abandon(t)
    \/ StartQueued
    \/ Close
    \/ Discard

Spec == Init /\ [][Next]_vars
===============================================================================
