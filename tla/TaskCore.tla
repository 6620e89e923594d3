------------------------------- MODULE TaskCore -------------------------------
(***************************************************************************)
(* The thread pool of src/task_core/core/task_core.c: the thread that      *)
(* starts and stops the pool, its worker threads, and the threads that     *)
(* call commit_task.                                                       *)
(*                                                                         *)
(* Worker 0 drains the queue, every other worker runs the one task bound   *)
(* to it.  lock_threads (tlock) guards the choice of a worker; the lock of *)
(* the linked list (qlock) guards the queue.  The status word of a worker  *)
(* is written under lock_threads by a caller (PICK), under it by the       *)
(* worker (PICK) and without it by the worker (RUN, BUSY), so every "|="   *)
(* and "&=" is a read and a write with other steps between them.           *)
(*                                                                         *)
(* Between two accesses to shared state a thread's local steps are merged  *)
(* into the access before them.  "trylock, usleep, lock" is a wait for the *)
(* lock; "trylock, usleep, trylock, give up" is two attempts.              *)
(***************************************************************************)
EXTENDS Naturals, Sequences, FiniteSets

CONSTANTS NThreads,    \* number of workers: threadn, at most MAX_THREAD_COUNT
          Committers,  \* threads that call commit_task
          QueueTasks,  \* tasks committed with TASK_TYPE_QUEUE
          OnceTasks,   \* tasks committed with one of the other types
          NoTask, Free,
          Settled      \* TRUE: callers commit only after every worker has
                       \* reached its first sem_wait

Workers == 0 .. NThreads - 1
Tasks == QueueTasks \cup OnceTasks

ASSUME TaskCoreAssumption ==
    /\ NThreads \in Nat \ {0}
    /\ QueueTasks \cap OnceTasks = {}
    /\ NoTask \notin Tasks
    /\ Committers \cap Workers = {}
    /\ Free \notin Workers \cup Committers
    /\ Settled \in BOOLEAN

VARIABLES
    mpc,      \* where the starting and stopping thread is
    made,     \* workers created (its loop index)
    count,    \* thread_count
    tlock,    \* holder of lock_threads
    qlock,    \* holder of task_queue->lock_linked
    queue,    \* task_queue
    wpc,      \* where each worker is
    status,   \* the bits set in each worker's status
    seen,     \* the status word a thread has read and is about to write back
    body,     \* the task bound to each worker
    sem,      \* each worker's wait_task
    cur,      \* the task whose callback a worker is in (a local)
    cpc,      \* where each caller is in commit_task
    task,     \* the body each caller has allocated
    idx,      \* a caller's loop index in find_thread_do
    runs,     \* history: calls of each task's callback
    frees,    \* history: times each task's body was freed
    lost      \* history: bodies nothing points to any more, not freed

mainVars == <<mpc, made, count>>
workerVars == <<wpc, sem, cur>>
callerVars == <<cpc, task, idx>>
vars == <<mpc, made, count, tlock, qlock, queue, wpc, status, seen, body, sem, cur,
          cpc, task, idx, runs, frees, lost>>

Init ==
    /\ mpc = "create" /\ made = 0 /\ count = 0
    /\ tlock = Free /\ qlock = Free /\ queue = <<>>
    /\ wpc = [w \in Workers |-> "none"]
    /\ status = [w \in Workers |-> {}]
    /\ seen = [p \in Workers \cup Committers |-> {}]
    /\ body = [w \in Workers |-> NoTask]
    /\ sem = [w \in Workers |-> 0]
    /\ cur = [w \in Workers |-> NoTask]
    /\ cpc = [c \in Committers |-> "idle"]
    /\ task = [c \in Committers |-> NoTask]
    /\ idx = [c \in Committers |-> 0]
    /\ runs = [t \in Tasks |-> 0]
    /\ frees = [t \in Tasks |-> 0]
    /\ lost = {}

-------------------------------------------------------------------------------
(* start_task_core and stop_task_core *)

\* pthread_create of the next worker.
CreateThread ==
    /\ mpc = "create"
    /\ made < NThreads
    /\ wpc' = [wpc EXCEPT ![made] = "start"]
    /\ made' = made + 1
    /\ mpc' = "waitrun"
    /\ UNCHANGED <<count, tlock, qlock, queue, status, seen, body, sem, cur,
                   callerVars, runs, frees, lost>>

\* pthread_create fails: clear_pthreads looks at thread_count workers, which
\* is still 0, and the entry is freed.
CreateFails ==
    /\ mpc = "create"
    /\ made < NThreads
    /\ mpc' = "failed"
    /\ UNCHANGED <<made, count, tlock, qlock, queue, status, seen, body, workerVars,
                   callerVars, runs, frees, lost>>

\* The busy wait for the new worker's RUN bit ends.
SeeRunning ==
    /\ mpc = "waitrun"
    /\ "RUN" \in status[made - 1]
    /\ mpc' = IF made = NThreads THEN "init" ELSE "create"
    /\ UNCHANGED <<made, count, tlock, qlock, queue, status, seen, body, workerVars,
                   callerVars, runs, frees, lost>>

\* thread_count, and lock_threads initialised although workers already use it.
InitMutex ==
    /\ mpc = "init"
    /\ count' = NThreads
    /\ tlock' = Free
    /\ mpc' = "settle"
    /\ UNCHANGED <<made, qlock, queue, status, seen, body, workerVars, callerVars,
                   runs, frees, lost>>

\* pthread_mutex_init fails: clear_pthreads, now over all workers.
InitMutexFails ==
    /\ mpc = "init"
    /\ count' = NThreads
    /\ mpc' = "join"
    /\ made' = 0
    /\ UNCHANGED <<tlock, qlock, queue, status, seen, body, workerVars, callerVars,
                   runs, frees, lost>>

\* The entry is returned; the caller may let the workers settle first.
Publish ==
    /\ mpc = "settle"
    /\ Settled => \A w \in Workers : wpc[w] = "wait"
    /\ mpc' = "up"
    /\ UNCHANGED <<made, count, tlock, qlock, queue, status, seen, body, workerVars,
                   callerVars, runs, frees, lost>>

\* stop_task_core, called when no thread is inside commit_task (the entry is
\* about to be freed).  lock_threads is destroyed before the workers stop.
Stop ==
    /\ mpc = "up"
    /\ \A c \in Committers : cpc[c] = "idle"
    /\ mpc' = "join"
    /\ made' = 0
    /\ UNCHANGED <<count, tlock, qlock, queue, status, seen, body, workerVars,
                   callerVars, runs, frees, lost>>

\* Where a worker can act on pthread_cancel: sem_wait, a usleep, the callback.
CancelPoints == {"wait", "lock", "try2", "cbk"}

\* clear_pthreads: cancel and join one worker (made is the loop index here),
\* then clear its THREAD_ENTRY.
Join ==
    /\ mpc = "join"
    /\ made < count
    /\ wpc[made] \in CancelPoints
    /\ wpc' = [wpc EXCEPT ![made] = "dead"]
    /\ status' = [status EXCEPT ![made] = {}]
    /\ sem' = [sem EXCEPT ![made] = 0]
    /\ lost' = lost \cup ({body[made], cur[made]} \ {NoTask})
    /\ body' = [body EXCEPT ![made] = NoTask]
    /\ cur' = [cur EXCEPT ![made] = NoTask]
    /\ made' = made + 1
    /\ UNCHANGED <<mpc, count, tlock, qlock, queue, seen, callerVars, runs, frees>>

\* CLEAR_LKLIST frees the bodies still queued, then the lists and the entry.
ClearAfter(joined) ==
    /\ mpc = "join"
    /\ made = joined
    /\ LET left == {queue[i] : i \in DOMAIN queue}
       IN frees' = [t \in Tasks |-> IF t \in left THEN frees[t] + 1 ELSE frees[t]]
    /\ queue' = <<>>
    /\ mpc' = "down"
    /\ UNCHANGED <<made, count, tlock, qlock, status, seen, body, workerVars, callerVars,
                   runs, lost>>

ClearEarly == ClearAfter(count - 1)   \* mutant
Clear == ClearAfter(count)

-------------------------------------------------------------------------------
(* do_thread, hand_queue_task and hand_other_task: worker w *)

Goto(w, from, to) ==
    /\ wpc[w] = from
    /\ wpc' = [wpc EXCEPT ![w] = to]

\* status |= RUN, and the read of "status &= ~BUSY".
Run(w) ==
    /\ Goto(w, "start", "unbusy")
    /\ status' = [status EXCEPT ![w] = @ \cup {"RUN"}]
    /\ seen' = [seen EXCEPT ![w] = status[w] \cup {"RUN"}]
    /\ UNCHANGED <<mainVars, tlock, qlock, queue, body, sem, cur, callerVars,
                   runs, frees, lost>>

\* The write of "status &= ~BUSY".
Unbusy(w) ==
    /\ Goto(w, "unbusy", "lock")
    /\ status' = [status EXCEPT ![w] = seen[w] \ {"BUSY"}]
    /\ UNCHANGED <<mainVars, tlock, qlock, queue, seen, body, sem, cur, callerVars,
                   runs, frees, lost>>

\* lock_threads, and the read of "status &= ~PICK".  Once the mutex is
\* destroyed every call on it returns at once.
LockThreads(w) ==
    /\ Goto(w, "lock", "unpick")
    /\ tlock = Free \/ mpc = "join"
    /\ tlock' = w
    /\ seen' = [seen EXCEPT ![w] = status[w]]
    /\ UNCHANGED <<mainVars, qlock, queue, status, body, sem, cur, callerVars,
                   runs, frees, lost>>

\* The write of "status &= ~PICK" and the unlock.
Unpick(w) ==
    /\ Goto(w, "unpick", "wait")
    /\ status' = [status EXCEPT ![w] = seen[w] \ {"PICK"}]
    /\ tlock' = Free
    /\ UNCHANGED <<mainVars, qlock, queue, seen, body, sem, cur, callerVars,
                   runs, frees, lost>>

\* sem_wait returns; the read of "status |= BUSY".
WakeAt(w, least) ==
    /\ Goto(w, "wait", "busy")
    /\ sem[w] >= least
    /\ sem' = [sem EXCEPT ![w] = @ - 1]
    /\ seen' = [seen EXCEPT ![w] = status[w]]
    /\ UNCHANGED <<mainVars, tlock, qlock, queue, status, body, cur, callerVars,
                   runs, frees, lost>>

WakeAnyway(w) == WakeAt(w, 0)   \* mutant
Wake(w) == WakeAt(w, 1)

\* The write of "status |= BUSY"; dofunc is called.
Busy(w) ==
    /\ Goto(w, "busy", IF w = 0 THEN "try1" ELSE "hand")
    /\ status' = [status EXCEPT ![w] = seen[w] \cup {"BUSY"}]
    /\ UNCHANGED <<mainVars, tlock, qlock, queue, seen, body, sem, cur, callerVars,
                   runs, frees, lost>>

\* hand_other_task calls the callback of the bound task.
CallOther(w) ==
    /\ Goto(w, "hand", "cbk")
    /\ body[w] # NoTask
    /\ cur' = [cur EXCEPT ![w] = body[w]]
    /\ runs' = [runs EXCEPT ![body[w]] = @ + 1]
    /\ UNCHANGED <<mainVars, tlock, qlock, queue, status, seen, body, sem, callerVars,
                   frees, lost>>

\* It frees the body it finds bound when the callback has returned.
FinishOtherAs(w, newBody) ==
    /\ w # 0
    /\ Goto(w, "cbk", "unbusy")
    /\ frees' = [t \in Tasks |-> IF t = body[w] THEN frees[t] + 1 ELSE frees[t]]
    /\ body' = [body EXCEPT ![w] = newBody]
    /\ cur' = [cur EXCEPT ![w] = NoTask]
    /\ seen' = [seen EXCEPT ![w] = status[w]]
    /\ UNCHANGED <<mainVars, tlock, qlock, queue, status, sem, callerVars, runs, lost>>

FinishOtherBound(w) == FinishOtherAs(w, body[w])   \* mutant
FinishOther(w) == FinishOtherAs(w, NoTask)

\* remove_lknode takes the lock of the queue at its first or second attempt.
LockQueue(w) ==
    /\ wpc[w] \in {"try1", "try2"}
    /\ qlock = Free
    /\ qlock' = w
    /\ wpc' = [wpc EXCEPT ![w] = "take"]
    /\ UNCHANGED <<mainVars, tlock, queue, status, seen, body, sem, cur, callerVars,
                   runs, frees, lost>>

\* The first attempt fails: usleep.
MissQueue(w) ==
    /\ Goto(w, "try1", "try2")
    /\ qlock # Free
    /\ UNCHANGED <<mainVars, tlock, qlock, queue, status, seen, body, sem, cur,
                   callerVars, runs, frees, lost>>

\* The second fails too: -LKLIST_ERR_LOCK ends hand_queue_task.
LeaveQueue(w) ==
    /\ Goto(w, "try2", "unbusy")
    /\ qlock # Free
    /\ seen' = [seen EXCEPT ![w] = status[w]]
    /\ UNCHANGED <<mainVars, tlock, qlock, queue, status, body, sem, cur, callerVars,
                   runs, frees, lost>>

\* remove_lknode(queue, 1, &node) succeeds and the callback is called.
CallQueued(w) ==
    /\ Goto(w, "take", "cbk")
    /\ queue # <<>>
    /\ cur' = [cur EXCEPT ![w] = Head(queue)]
    /\ runs' = [runs EXCEPT ![Head(queue)] = @ + 1]
    /\ queue' = Tail(queue)
    /\ qlock' = Free
    /\ UNCHANGED <<mainVars, tlock, status, seen, body, sem, callerVars, frees, lost>>

\* The queue is empty: hand_queue_task returns.
EmptyQueue(w) ==
    /\ Goto(w, "take", "unbusy")
    /\ queue = <<>>
    /\ qlock' = Free
    /\ seen' = [seen EXCEPT ![w] = status[w]]
    /\ UNCHANGED <<mainVars, tlock, queue, status, body, sem, cur, callerVars,
                   runs, frees, lost>>

\* The callback has returned: the body is freed, the loop goes on.
FinishQueued(w) ==
    /\ w = 0
    /\ Goto(w, "cbk", "try1")
    /\ frees' = [frees EXCEPT ![cur[w]] = @ + 1]
    /\ cur' = [cur EXCEPT ![w] = NoTask]
    /\ UNCHANGED <<mainVars, tlock, qlock, queue, status, seen, body, sem, callerVars,
                   runs, lost>>

-------------------------------------------------------------------------------
(* commit_task, insert_tail and find_thread_do: caller c *)

\* Tasks whose commit_task has been called.
Committed == {t \in Tasks : \/ runs[t] + frees[t] > 0
                            \/ t \in lost \cup {queue[i] : i \in DOMAIN queue}
                            \/ \E w \in Workers : t \in {body[w], cur[w]}
                            \/ \E c \in Committers : task[c] = t}

CGoto(c, from, to) ==
    /\ cpc[c] = from
    /\ cpc' = [cpc EXCEPT ![c] = to]

\* The body is allocated; its type selects the queue or a thread.
Commit(c, t) ==
    /\ mpc = "up"
    /\ t \notin Committed
    /\ CGoto(c, "idle", IF t \in QueueTasks THEN "ins1" ELSE "find1")
    /\ task' = [task EXCEPT ![c] = t]
    /\ UNCHANGED <<mainVars, tlock, qlock, queue, status, seen, body, workerVars, idx,
                   runs, frees, lost>>

\* insert_tail takes the lock at its first or second attempt ...
LockInsert(c) ==
    /\ cpc[c] \in {"ins1", "ins2"}
    /\ qlock = Free
    /\ qlock' = c
    /\ cpc' = [cpc EXCEPT ![c] = "link"]
    /\ UNCHANGED <<mainVars, tlock, queue, status, seen, body, workerVars, task, idx,
                   runs, frees, lost>>

MissInsert(c) ==
    /\ CGoto(c, "ins1", "ins2")
    /\ qlock # Free
    /\ UNCHANGED <<mainVars, tlock, qlock, queue, status, seen, body, workerVars, task,
                   idx, runs, frees, lost>>

\* ... links the node and unlocks.
LinkAs(c, newQueue, next) ==
    /\ CGoto(c, "link", next)
    /\ queue' = newQueue
    /\ qlock' = Free
    /\ task' = [task EXCEPT ![c] = NoTask]
    /\ UNCHANGED <<mainVars, tlock, status, seen, body, workerVars, idx,
                   runs, frees, lost>>

LinkAtHead(c) == LinkAs(c, <<task[c]>> \o queue, "post")   \* mutant
LinkUnposted(c) == LinkAs(c, Append(queue, task[c]), "idle")   \* mutant
Link(c) == LinkAs(c, Append(queue, task[c]), "post")

\* sem_post of the queue worker.
PostQueue(c) ==
    /\ CGoto(c, "post", "idle")
    /\ sem' = [sem EXCEPT ![0] = @ + 1]
    /\ UNCHANGED <<mainVars, tlock, qlock, queue, status, seen, body, wpc, cur, task,
                   idx, runs, frees, lost>>

\* find_thread_do takes lock_threads at its first or second attempt.
LockFind(c) ==
    /\ cpc[c] \in {"find1", "find2"}
    /\ tlock = Free
    /\ tlock' = c
    /\ idx' = [idx EXCEPT ![c] = 1]
    /\ cpc' = [cpc EXCEPT ![c] = "scan"]
    /\ UNCHANGED <<mainVars, qlock, queue, status, seen, body, workerVars, task,
                   runs, frees, lost>>

MissFind(c) ==
    /\ CGoto(c, "find1", "find2")
    /\ tlock # Free
    /\ UNCHANGED <<mainVars, tlock, qlock, queue, status, seen, body, workerVars, task,
                   idx, runs, frees, lost>>

EligiblePicked(bits) == "RUN" \in bits /\ "BUSY" \notin bits   \* mutant
Eligible(bits) == "RUN" \in bits /\ "PICK" \notin bits /\ "BUSY" \notin bits

ScanPast(c) ==
    /\ cpc[c] = "scan"
    /\ idx[c] < count
    /\ ~Eligible(status[idx[c]])
    /\ idx' = [idx EXCEPT ![c] = @ + 1]
    /\ UNCHANGED <<mainVars, tlock, qlock, queue, status, seen, body, workerVars, cpc,
                   task, runs, frees, lost>>

ScanHit(c) ==
    /\ CGoto(c, "scan", "pick")
    /\ idx[c] < count
    /\ Eligible(status[idx[c]])
    /\ seen' = [seen EXCEPT ![c] = status[idx[c]]]
    /\ UNCHANGED <<mainVars, tlock, qlock, queue, status, body, workerVars, task, idx,
                   runs, frees, lost>>

\* The worker is marked, given the task, and the lock released.  The status
\* written back is the one the scan read or one read again.
PickAs(c, newLock) ==
    /\ CGoto(c, "pick", "wake")
    /\ \E bits \in {seen[c], status[idx[c]]} :
           status' = [status EXCEPT ![idx[c]] = bits \cup {"PICK"}]
    /\ lost' = lost \cup ({body[idx[c]]} \ {NoTask})
    /\ body' = [body EXCEPT ![idx[c]] = task[c]]
    /\ task' = [task EXCEPT ![c] = NoTask]
    /\ tlock' = newLock
    /\ UNCHANGED <<mainVars, qlock, queue, seen, workerVars, idx, runs, frees>>

PickLocked(c) == PickAs(c, tlock)   \* mutant
Pick(c) == PickAs(c, Free)

\* sem_post of the picked worker.
PostTo(c, w) ==
    /\ CGoto(c, "wake", "idle")
    /\ sem' = [sem EXCEPT ![w] = @ + 1]
    /\ UNCHANGED <<mainVars, tlock, qlock, queue, status, seen, body, wpc, cur, task,
                   idx, runs, frees, lost>>

PostFirst(c) == PostTo(c, 0)   \* mutant
PostThread(c) == PostTo(c, idx[c])

\* The task is dropped: its body is freed and commit_task returns 0 all the
\* same.  The second attempt at a lock failed, or no worker is idle.
GiveUp(c) ==
    /\ \/ cpc[c] = "ins2" /\ qlock # Free /\ UNCHANGED tlock
       \/ cpc[c] = "find2" /\ tlock # Free /\ UNCHANGED tlock
       \/ cpc[c] = "scan" /\ idx[c] >= count /\ tlock' = Free
    /\ cpc' = [cpc EXCEPT ![c] = "idle"]
    /\ frees' = [frees EXCEPT ![task[c]] = @ + 1]
    /\ task' = [task EXCEPT ![c] = NoTask]
    /\ UNCHANGED <<mainVars, qlock, queue, status, seen, body, workerVars, idx,
                   runs, lost>>

-------------------------------------------------------------------------------
\* hand_other_task dereferences a NULL body: the process is gone.
Crashed == \E w \in Workers : wpc[w] = "hand" /\ body[w] = NoTask

StartStep == CreateThread \/ SeeRunning \/ InitMutex \/ Publish \/ Join \/ Clear

WorkerStep(w) ==
    \/ Run(w) \/ Unbusy(w) \/ LockThreads(w) \/ Unpick(w) \/ Wake(w) \/ Busy(w)
    \/ CallOther(w) \/ FinishOther(w)
    \/ LockQueue(w) \/ MissQueue(w) \/ LeaveQueue(w)
    \/ CallQueued(w) \/ EmptyQueue(w) \/ FinishQueued(w)

CallerStep(c) ==
    \/ LockInsert(c) \/ MissInsert(c) \/ Link(c) \/ PostQueue(c)
    \/ LockFind(c) \/ MissFind(c) \/ ScanPast(c) \/ ScanHit(c) \/ Pick(c)
    \/ PostThread(c) \/ GiveUp(c)

\* Nothing is left to do: the pool is down or was never started, or all
\* tasks are committed and every thread waits.
Quiet ==
    /\ \/ mpc \in {"down", "failed"}
       \/ mpc = "up" /\ Tasks \subseteq Committed
    /\ \A c \in Committers : cpc[c] = "idle"
    /\ \A w \in Workers : \/ wpc[w] \in {"none", "dead"}
                          \/ wpc[w] = "wait" /\ sem[w] = 0
    /\ UNCHANGED vars

Next ==
    /\ ~Crashed
    /\ \/ StartStep \/ CreateFails \/ InitMutexFails \/ Stop
       \/ \E w \in Workers : WorkerStep(w)
       \/ \E c \in Committers : CallerStep(c)
       \/ \E c \in Committers, t \in Tasks : Commit(c, t)
       \/ Quiet

\* Every thread keeps running, and callbacks return.  Nobody has to commit
\* a task or to stop the pool.
Fairness ==
    /\ WF_vars(StartStep)
    /\ \A w \in Workers : WF_vars(WorkerStep(w))
    /\ \A c \in Committers : WF_vars(CallerStep(c))

Spec == Init /\ [][Next]_vars
FairSpec == Spec /\ Fairness

-------------------------------------------------------------------------------
(* Properties *)

Bits == SUBSET {"RUN", "BUSY", "PICK"}
MainPlaces == {"create", "waitrun", "init", "settle", "up", "join", "down", "failed"}
WorkerPlaces == {"none", "start", "unbusy", "lock", "unpick", "wait", "busy",
                 "hand", "cbk", "try1", "try2", "take", "dead"}
CallerPlaces == {"idle", "ins1", "ins2", "link", "post",
                 "find1", "find2", "scan", "pick", "wake"}

TypeOK ==
    /\ mpc \in MainPlaces
    /\ made \in 0 .. NThreads /\ count \in {0, NThreads}
    /\ tlock \in {Free} \cup Workers \cup Committers
    /\ qlock \in {Free} \cup Workers \cup Committers
    /\ queue \in Seq(Tasks)
    /\ wpc \in [Workers -> WorkerPlaces]
    /\ status \in [Workers -> Bits]
    /\ seen \in [Workers \cup Committers -> Bits]
    /\ body \in [Workers -> Tasks \cup {NoTask}]
    /\ sem \in [Workers -> Nat]
    /\ cur \in [Workers -> Tasks \cup {NoTask}]
    /\ cpc \in [Committers -> CallerPlaces]
    /\ task \in [Committers -> Tasks \cup {NoTask}]
    /\ idx \in [Committers -> 0 .. NThreads]
    /\ runs \in [Tasks -> Nat]
    /\ frees \in [Tasks -> Nat]
    /\ lost \subseteq Tasks

\* PTHREAD_STA_PICK: a worker that was picked is not picked again before it
\* has freed its task, so no bound task is ever overwritten.
PickIsExclusive ==
    [][\A w \in Workers : body[w] # NoTask => body'[w] \in {body[w], NoTask}]_vars

\* hand_other_task always finds a task bound to its worker.
NeverCrashes == ~Crashed

\* Every body that was allocated is in exactly one place: in the hands of
\* its caller, in the queue, with one worker, freed once, or abandoned.
TaskHasOnePlace ==
    \A t \in Tasks :
        Cardinality({c \in Committers : task[c] = t})
        + Cardinality({i \in DOMAIN queue : queue[i] = t})
        + Cardinality({w \in Workers : t \in {body[w], cur[w]}})
        + frees[t] + (IF t \in lost THEN 1 ELSE 0) <= 1

\* The queue worker never sleeps on a non-empty queue unless a caller is
\* still to post it.
NoLostWakeup ==
    queue # <<>> /\ wpc[0] = "wait" /\ sem[0] = 0
        => \E c \in Committers : cpc[c] \in {"link", "post"}

\* Bodies are abandoned only by stop_task_core, and after it no worker runs.
StopIsClean ==
    /\ lost # {} => mpc \in {"join", "down"}
    /\ mpc = "down" => /\ \A w \in Workers : wpc[w] = "dead"
                       /\ \A t \in Committed : frees[t] = 1 \/ t \in lost

Held(t) == t \in {queue[i] : i \in DOMAIN queue} \cup {body[w] : w \in Workers}

\* A task that was queued or bound to a worker is eventually run, unless the
\* pool is stopped.
AcceptedTaskRuns ==
    \A t \in Tasks : Held(t) ~> (runs[t] > 0 \/ mpc # "up")

\* A worker that runs a callback can eventually be picked again.
WorkersComeBack ==
    \A w \in Workers : wpc[w] = "cbk" ~> (Eligible(status[w]) \/ mpc # "up")

\* The promise of the pool, task by task.
StateOf(t) ==
    CASE frees[t] > 0 -> IF runs[t] > 0 THEN "finished" ELSE "dropped"
      [] frees[t] = 0 /\ t \in lost -> "abandoned"
      [] frees[t] = 0 /\ t \notin lost /\ runs[t] > 0 -> "running"
      [] OTHER -> IF Held(t) THEN "held" ELSE "new"

Promise == INSTANCE Executor
    WITH state <- [t \in Tasks |-> StateOf(t)],
         line <- queue,
         open <- mpc \notin {"join", "down", "failed"}
KeepsPromise == Promise!Spec
===============================================================================
