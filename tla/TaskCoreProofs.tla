---------------------------- MODULE TaskCoreProofs ----------------------------
(***************************************************************************)
(* Theorems about TaskCore, for every number of workers, set of callers    *)
(* and set of tasks.  Those that need Settled, callers that let the pool   *)
(* come to rest before they commit, say so.                                *)
(***************************************************************************)
EXTENDS TaskCore, SequenceTheorems, FiniteSetTheorems, TLAPS

USE DEF mainVars, workerVars, callerVars, Workers, Tasks

\* A caller has its body in hand until it links, binds or frees it.
InHand == {"ins1", "ins2", "link", "find1", "find2", "scan", "pick"}
HandInv == \A c \in Committers : cpc[c] \in InHand => task[c] \in Tasks

\* A caller scans from worker 1 on, and chooses a worker that exists.
PickInv == \A c \in Committers :
               /\ cpc[c] = "scan" => idx[c] \in 1 .. NThreads
               /\ cpc[c] \in {"pick", "wake"} => idx[c] \in 1 .. NThreads - 1

TypeInv == TypeOK /\ HandInv /\ PickInv

\* Changing one entry of a function to a value of its range keeps its type,
\* and so does counting one up.
LEMMA Update ==
    ASSUME NEW S, NEW T, NEW f \in [S -> T], NEW x, NEW y \in T
    PROVE  [f EXCEPT ![x] = y] \in [S -> T]
  BY Zenon

LEMMA Bump ==
    ASSUME NEW S, NEW f \in [S -> Nat], NEW x
    PROVE  [f EXCEPT ![x] = @ + 1] \in [S -> Nat]
<1>1. CASE x \in S
  <2>1. f[x] + 1 \in Nat  BY <1>1
  <2> QED  BY Zenon, <2>1, Update
<1>2. CASE x \notin S
  <2>1. [f EXCEPT ![x] = @ + 1] = f  BY Zenon, <1>2
  <2> QED  BY Zenon, <2>1
<1> QED  BY <1>1, <1>2

LEMMA InitTypeInv == Init => TypeInv
  BY TaskCoreAssumption DEF Init, TypeInv, TypeOK, HandInv, InHand, PickInv, MainPlaces,
     WorkerPlaces, CallerPlaces, Bits

LEMMA NextTypeOK == TypeInv /\ [Next]_vars => TypeOK'
<1> SUFFICES ASSUME TypeOK, HandInv, PickInv, [Next]_vars PROVE TypeOK'
  BY DEF TypeInv
<1>n. NThreads \in Nat \ {0}  BY TaskCoreAssumption
<1>h. HandInv  OBVIOUS
<1>p. PickInv  OBVIOUS
<1>made. made \in 0 .. NThreads /\ count \in {0, NThreads}  BY DEF TypeOK
<1>queue. queue \in Seq(Tasks)  BY DEF TypeOK
<1>tlock. tlock \in {Free} \cup Workers \cup Committers  BY DEF TypeOK
<1>wpc. wpc \in [Workers -> WorkerPlaces]  BY DEF TypeOK
<1>status. status \in [Workers -> Bits]  BY DEF TypeOK
<1>seen. seen \in [Workers \cup Committers -> Bits]  BY DEF TypeOK
<1>body. body \in [Workers -> Tasks \cup {NoTask}]  BY DEF TypeOK
<1>sem. sem \in [Workers -> Nat]  BY DEF TypeOK
<1>cur. cur \in [Workers -> Tasks \cup {NoTask}]  BY DEF TypeOK
<1>cpc. cpc \in [Committers -> CallerPlaces]  BY DEF TypeOK
<1>task. task \in [Committers -> Tasks \cup {NoTask}]  BY DEF TypeOK
<1>idx. idx \in [Committers -> 0 .. NThreads]  BY DEF TypeOK
<1>runs. runs \in [Tasks -> Nat]  BY DEF TypeOK
<1>frees. frees \in [Tasks -> Nat]  BY DEF TypeOK
<1>lost. lost \in SUBSET Tasks  BY DEF TypeOK
<1>1. CASE CreateThread
  <2>0. made \in Workers /\ made + 1 \in 0 .. NThreads
    BY <1>1, <1>made, <1>n DEF CreateThread, Workers
  <2>1. wpc' \in [Workers -> WorkerPlaces]  BY <1>1, <2>0, <1>wpc DEF CreateThread, WorkerPlaces
  <2>2. mpc' \in MainPlaces  BY <1>1, <2>0 DEF CreateThread, MainPlaces
  <2>3. made' \in 0 .. NThreads  BY <1>1, <2>0, <1>made, <1>n DEF CreateThread
  <2> QED  BY Zenon, <1>1, <2>0, <2>1, <2>2, <2>3 DEF CreateThread, TypeOK, mainVars, workerVars,
        callerVars
<1>2. CASE CreateFails
  <2>1. mpc' \in MainPlaces  BY <1>2 DEF CreateFails, MainPlaces
  <2> QED  BY Zenon, <1>2, <2>1 DEF CreateFails, TypeOK, mainVars, workerVars, callerVars
<1>3. CASE SeeRunning
  <2>1. mpc' \in MainPlaces  BY <1>3 DEF SeeRunning, MainPlaces
  <2> QED  BY Zenon, <1>3, <2>1 DEF SeeRunning, TypeOK, mainVars, workerVars, callerVars
<1>4. CASE InitMutex
  <2>1. mpc' \in MainPlaces  BY <1>4 DEF InitMutex, MainPlaces
  <2> QED  BY Zenon, <1>4, <2>1 DEF InitMutex, TypeOK, mainVars, workerVars, callerVars
<1>5. CASE InitMutexFails
  <2>1. mpc' \in MainPlaces  BY <1>5 DEF InitMutexFails, MainPlaces
  <2>2. made' \in 0 .. NThreads  BY <1>5, <1>made, <1>n DEF InitMutexFails
  <2> QED  BY Zenon, <1>5, <2>1, <2>2 DEF InitMutexFails, TypeOK, mainVars, workerVars, callerVars
<1>6. CASE Publish
  <2>1. mpc' \in MainPlaces  BY <1>6 DEF Publish, MainPlaces
  <2> QED  BY Zenon, <1>6, <2>1 DEF Publish, TypeOK, mainVars, workerVars, callerVars
<1>7. CASE Stop
  <2>1. mpc' \in MainPlaces  BY <1>7 DEF Stop, MainPlaces
  <2>2. made' \in 0 .. NThreads  BY <1>7, <1>made, <1>n DEF Stop
  <2> QED  BY Zenon, <1>7, <2>1, <2>2 DEF Stop, TypeOK, mainVars, workerVars, callerVars
<1>8. CASE Join
  <2>0. made \in Workers /\ made + 1 \in 0 .. NThreads
    BY <1>8, <1>made, <1>n DEF Join, Workers
  <2>1. wpc' \in [Workers -> WorkerPlaces]  BY <1>8, <2>0, <1>wpc DEF Join, WorkerPlaces
  <2>2. status' \in [Workers -> Bits]  BY <1>8, <2>0, <1>status, <1>seen DEF Join, Bits
  <2>3. sem' \in [Workers -> Nat]  BY <1>8, <2>0, <1>sem DEF Join
  <2>4. lost' \in SUBSET Tasks  BY <1>8, <2>0, <1>lost, <1>body, <1>cur DEF Join
  <2>5. body' \in [Workers -> Tasks \cup {NoTask}]  BY <1>8, <2>0, <1>body, <1>task DEF Join
  <2>6. cur' \in [Workers -> Tasks \cup {NoTask}]  BY <1>8, <2>0, <1>cur, <1>body DEF Join
  <2>7. made' \in 0 .. NThreads  BY <1>8, <2>0, <1>made, <1>n DEF Join
  <2> QED  BY Zenon, <1>8, <2>0, <2>1, <2>2, <2>3, <2>4, <2>5, <2>6, <2>7 DEF Join, TypeOK,
        mainVars, workerVars, callerVars
<1>9. CASE Clear
  <2>1. frees' \in [Tasks -> Nat]  BY <1>9, <1>frees DEF Clear, ClearAfter
  <2>2. queue' \in Seq(Tasks)  BY <1>9, <1>queue DEF Clear, ClearAfter
  <2>3. mpc' \in MainPlaces  BY <1>9 DEF Clear, ClearAfter, MainPlaces
  <2> QED  BY Zenon, <1>9, <2>1, <2>2, <2>3 DEF Clear, ClearAfter, TypeOK, mainVars, workerVars,
        callerVars
<1>10. ASSUME NEW w \in Workers, Run(w) PROVE TypeOK'
  <2>1. wpc' \in [Workers -> WorkerPlaces]  BY <1>10, <1>wpc DEF Run, Goto, WorkerPlaces
  <2>2. status' \in [Workers -> Bits]  BY <1>10, <1>status, <1>seen DEF Run, Bits
  <2>3. seen' \in [Workers \cup Committers -> Bits]  BY <1>10, <1>seen, <1>status DEF Run, Bits
  <2> QED  BY Zenon, <1>10, <2>1, <2>2, <2>3 DEF Run, TypeOK, mainVars, workerVars, callerVars
<1>11. ASSUME NEW w \in Workers, Unbusy(w) PROVE TypeOK'
  <2>1. wpc' \in [Workers -> WorkerPlaces]  BY <1>11, <1>wpc DEF Unbusy, Goto, WorkerPlaces
  <2>2. status' \in [Workers -> Bits]  BY <1>11, <1>status, <1>seen DEF Unbusy, Bits
  <2> QED  BY Zenon, <1>11, <2>1, <2>2 DEF Unbusy, TypeOK, mainVars, workerVars, callerVars
<1>12. ASSUME NEW w \in Workers, LockThreads(w) PROVE TypeOK'
  <2>1. wpc' \in [Workers -> WorkerPlaces]  BY <1>12, <1>wpc DEF LockThreads, Goto, WorkerPlaces
  <2>2. tlock' \in {Free} \cup Workers \cup Committers  BY <1>12 DEF LockThreads
  <2>3. seen' \in [Workers \cup Committers -> Bits]
    BY <1>12, <1>seen, <1>status DEF LockThreads, Bits
  <2> QED  BY Zenon, <1>12, <2>1, <2>2, <2>3 DEF LockThreads, TypeOK, mainVars, workerVars,
        callerVars
<1>13. ASSUME NEW w \in Workers, Unpick(w) PROVE TypeOK'
  <2>1. wpc' \in [Workers -> WorkerPlaces]  BY <1>13, <1>wpc DEF Unpick, Goto, WorkerPlaces
  <2>2. status' \in [Workers -> Bits]  BY <1>13, <1>status, <1>seen DEF Unpick, Bits
  <2>3. tlock' \in {Free} \cup Workers \cup Committers  BY <1>13 DEF Unpick
  <2> QED  BY Zenon, <1>13, <2>1, <2>2, <2>3 DEF Unpick, TypeOK, mainVars, workerVars, callerVars
<1>14. ASSUME NEW w \in Workers, Wake(w) PROVE TypeOK'
  <2>1. wpc' \in [Workers -> WorkerPlaces]  BY <1>14, <1>wpc DEF Wake, WakeAt, Goto, WorkerPlaces
  <2>2. sem' \in [Workers -> Nat]  BY <1>14, <1>sem DEF Wake, WakeAt
  <2>3. seen' \in [Workers \cup Committers -> Bits]
    BY <1>14, <1>seen, <1>status DEF Wake, WakeAt, Bits
  <2> QED  BY Zenon, <1>14, <2>1, <2>2, <2>3 DEF Wake, WakeAt, TypeOK, mainVars, workerVars,
        callerVars
<1>15. ASSUME NEW w \in Workers, Busy(w) PROVE TypeOK'
  <2>1. wpc' \in [Workers -> WorkerPlaces]  BY <1>15, <1>wpc DEF Busy, Goto, WorkerPlaces
  <2>2. status' \in [Workers -> Bits]  BY <1>15, <1>status, <1>seen DEF Busy, Bits
  <2> QED  BY Zenon, <1>15, <2>1, <2>2 DEF Busy, TypeOK, mainVars, workerVars, callerVars
<1>16. ASSUME NEW w \in Workers, CallOther(w) PROVE TypeOK'
  <2>1. wpc' \in [Workers -> WorkerPlaces]  BY <1>16, <1>wpc DEF CallOther, Goto, WorkerPlaces
  <2>2. cur' \in [Workers -> Tasks \cup {NoTask}]  BY <1>16, <1>cur, <1>body DEF CallOther
  <2>3. runs' \in [Tasks -> Nat]  BY <1>16, <1>runs, Bump DEF CallOther
  <2> QED  BY Zenon, <1>16, <2>1, <2>2, <2>3 DEF CallOther, TypeOK, mainVars, workerVars,
        callerVars
<1>17. ASSUME NEW w \in Workers, FinishOther(w) PROVE TypeOK'
  <2>1. wpc' \in [Workers -> WorkerPlaces]
    BY <1>17, <1>wpc DEF FinishOther, FinishOtherAs, Goto, WorkerPlaces
  <2>2. frees' \in [Tasks -> Nat]  BY <1>17, <1>frees DEF FinishOther, FinishOtherAs
  <2>3. body' \in [Workers -> Tasks \cup {NoTask}]
    BY <1>17, <1>body, <1>task DEF FinishOther, FinishOtherAs
  <2>4. cur' \in [Workers -> Tasks \cup {NoTask}]
    BY <1>17, <1>cur, <1>body DEF FinishOther, FinishOtherAs
  <2>5. seen' \in [Workers \cup Committers -> Bits]
    BY <1>17, <1>seen, <1>status DEF FinishOther, FinishOtherAs, Bits
  <2> QED  BY Zenon, <1>17, <2>1, <2>2, <2>3, <2>4, <2>5 DEF FinishOther, FinishOtherAs, TypeOK,
        mainVars, workerVars, callerVars
<1>18. ASSUME NEW w \in Workers, LockQueue(w) PROVE TypeOK'
  <2>1. wpc' \in [Workers -> WorkerPlaces]  BY <1>18, <1>wpc DEF LockQueue, Goto, WorkerPlaces
  <2>2. qlock' \in {Free} \cup Workers \cup Committers  BY <1>18 DEF LockQueue
  <2> QED  BY Zenon, <1>18, <2>1, <2>2 DEF LockQueue, TypeOK, mainVars, workerVars, callerVars
<1>19. ASSUME NEW w \in Workers, MissQueue(w) PROVE TypeOK'
  <2>1. wpc' \in [Workers -> WorkerPlaces]  BY <1>19, <1>wpc DEF MissQueue, Goto, WorkerPlaces
  <2> QED  BY Zenon, <1>19, <2>1 DEF MissQueue, TypeOK, mainVars, workerVars, callerVars
<1>20. ASSUME NEW w \in Workers, LeaveQueue(w) PROVE TypeOK'
  <2>1. wpc' \in [Workers -> WorkerPlaces]  BY <1>20, <1>wpc DEF LeaveQueue, Goto, WorkerPlaces
  <2>2. seen' \in [Workers \cup Committers -> Bits]
    BY <1>20, <1>seen, <1>status DEF LeaveQueue, Bits
  <2> QED  BY Zenon, <1>20, <2>1, <2>2 DEF LeaveQueue, TypeOK, mainVars, workerVars, callerVars
<1>21. ASSUME NEW w \in Workers, CallQueued(w) PROVE TypeOK'
  <2>0. queue \in Seq(Tasks) /\ queue # <<>>
    BY <1>21, <1>queue DEF CallQueued
  <2>1. wpc' \in [Workers -> WorkerPlaces]
    BY <1>21, <2>0, <1>wpc DEF CallQueued, Goto, WorkerPlaces
  <2>2. cur' \in [Workers -> Tasks \cup {NoTask}]  BY <1>21, <2>0, <1>cur, <1>body DEF CallQueued
  <2>3. runs' \in [Tasks -> Nat]  BY <1>21, <2>0, <1>runs, Bump DEF CallQueued
  <2>4. queue' \in Seq(Tasks)  BY <1>21, <2>0, <1>queue DEF CallQueued
  <2>5. qlock' \in {Free} \cup Workers \cup Committers  BY <1>21, <2>0 DEF CallQueued
  <2> QED  BY Zenon, <1>21, <2>0, <2>1, <2>2, <2>3, <2>4, <2>5 DEF CallQueued, TypeOK, mainVars,
        workerVars, callerVars
<1>22. ASSUME NEW w \in Workers, EmptyQueue(w) PROVE TypeOK'
  <2>1. wpc' \in [Workers -> WorkerPlaces]  BY <1>22, <1>wpc DEF EmptyQueue, Goto, WorkerPlaces
  <2>2. seen' \in [Workers \cup Committers -> Bits]
    BY <1>22, <1>seen, <1>status DEF EmptyQueue, Bits
  <2>3. qlock' \in {Free} \cup Workers \cup Committers  BY <1>22 DEF EmptyQueue
  <2> QED  BY Zenon, <1>22, <2>1, <2>2, <2>3 DEF EmptyQueue, TypeOK, mainVars, workerVars,
        callerVars
<1>23. ASSUME NEW w \in Workers, FinishQueued(w) PROVE TypeOK'
  <2>1. wpc' \in [Workers -> WorkerPlaces]  BY <1>23, <1>wpc DEF FinishQueued, Goto, WorkerPlaces
  <2>2. frees' \in [Tasks -> Nat]  BY <1>23, <1>frees, Bump DEF FinishQueued
  <2>3. cur' \in [Workers -> Tasks \cup {NoTask}]  BY <1>23, <1>cur, <1>body DEF FinishQueued
  <2> QED  BY Zenon, <1>23, <2>1, <2>2, <2>3 DEF FinishQueued, TypeOK, mainVars, workerVars,
        callerVars
<1>24. ASSUME NEW c \in Committers, NEW t \in Tasks, Commit(c, t) PROVE TypeOK'
  <2>1. cpc' \in [Committers -> CallerPlaces]  BY <1>24, <1>cpc DEF Commit, CGoto, CallerPlaces
  <2>2. task' \in [Committers -> Tasks \cup {NoTask}]  BY <1>24, <1>task DEF Commit
  <2> QED  BY Zenon, <1>24, <2>1, <2>2 DEF Commit, TypeOK, mainVars, workerVars, callerVars
<1>25. ASSUME NEW c \in Committers, LockInsert(c) PROVE TypeOK'
  <2>1. cpc' \in [Committers -> CallerPlaces]
    BY <1>25, <1>cpc DEF LockInsert, CGoto, CallerPlaces
  <2>2. qlock' \in {Free} \cup Workers \cup Committers  BY <1>25 DEF LockInsert
  <2> QED  BY Zenon, <1>25, <2>1, <2>2 DEF LockInsert, TypeOK, mainVars, workerVars, callerVars
<1>26. ASSUME NEW c \in Committers, MissInsert(c) PROVE TypeOK'
  <2>1. cpc' \in [Committers -> CallerPlaces]
    BY <1>26, <1>cpc DEF MissInsert, CGoto, CallerPlaces
  <2> QED  BY Zenon, <1>26, <2>1 DEF MissInsert, TypeOK, mainVars, workerVars, callerVars
<1>27. ASSUME NEW c \in Committers, Link(c) PROVE TypeOK'
  <2>0. task[c] \in Tasks
    BY <1>27, <1>h DEF Link, LinkAs, CGoto, HandInv, InHand
  <2>1. cpc' \in [Committers -> CallerPlaces]
    BY <1>27, <2>0, <1>cpc DEF Link, LinkAs, CGoto, CallerPlaces
  <2>2. queue' \in Seq(Tasks)  BY <1>27, <2>0, <1>queue DEF Link, LinkAs
  <2>3. qlock' \in {Free} \cup Workers \cup Committers  BY <1>27, <2>0 DEF Link, LinkAs
  <2>4. task' \in [Committers -> Tasks \cup {NoTask}]  BY <1>27, <2>0, <1>task DEF Link, LinkAs
  <2> QED  BY Zenon, <1>27, <2>0, <2>1, <2>2, <2>3, <2>4 DEF Link, LinkAs, TypeOK, mainVars,
        workerVars, callerVars
<1>28. ASSUME NEW c \in Committers, PostQueue(c) PROVE TypeOK'
  <2>1. cpc' \in [Committers -> CallerPlaces]  BY <1>28, <1>cpc DEF PostQueue, CGoto, CallerPlaces
  <2>2. sem' \in [Workers -> Nat]  BY Zenon, <1>28, <1>sem, Bump DEF PostQueue
  <2> QED  BY Zenon, <1>28, <2>1, <2>2 DEF PostQueue, TypeOK, mainVars, workerVars, callerVars
<1>29. ASSUME NEW c \in Committers, LockFind(c) PROVE TypeOK'
  <2>1. cpc' \in [Committers -> CallerPlaces]  BY <1>29, <1>cpc DEF LockFind, CGoto, CallerPlaces
  <2>2. tlock' \in {Free} \cup Workers \cup Committers  BY <1>29 DEF LockFind
  <2>3. idx' \in [Committers -> 0 .. NThreads]  BY <1>29, <1>idx, <1>n DEF LockFind
  <2> QED  BY Zenon, <1>29, <2>1, <2>2, <2>3 DEF LockFind, TypeOK, mainVars, workerVars,
        callerVars
<1>30. ASSUME NEW c \in Committers, MissFind(c) PROVE TypeOK'
  <2>1. cpc' \in [Committers -> CallerPlaces]  BY <1>30, <1>cpc DEF MissFind, CGoto, CallerPlaces
  <2> QED  BY Zenon, <1>30, <2>1 DEF MissFind, TypeOK, mainVars, workerVars, callerVars
<1>31. ASSUME NEW c \in Committers, ScanPast(c) PROVE TypeOK'
  <2>0. idx[c] + 1 \in 0 .. NThreads
    BY <1>31, <1>idx, <1>made, <1>n DEF ScanPast
  <2>1. idx' \in [Committers -> 0 .. NThreads]  BY <1>31, <2>0, <1>idx, <1>n DEF ScanPast
  <2> QED  BY Zenon, <1>31, <2>0, <2>1 DEF ScanPast, TypeOK, mainVars, workerVars, callerVars
<1>32. ASSUME NEW c \in Committers, ScanHit(c) PROVE TypeOK'
  <2>0. idx[c] \in Workers
    BY <1>32, <1>idx, <1>cpc, <1>p, <1>n, <1>made DEF ScanHit, CGoto, PickInv, Workers
  <2>1. cpc' \in [Committers -> CallerPlaces]
    BY <1>32, <2>0, <1>cpc DEF ScanHit, CGoto, CallerPlaces
  <2>2. seen' \in [Workers \cup Committers -> Bits]
    BY <1>32, <2>0, <1>seen, <1>status DEF ScanHit, Bits
  <2> QED  BY Zenon, <1>32, <2>0, <2>1, <2>2 DEF ScanHit, TypeOK, mainVars, workerVars, callerVars
<1>33. ASSUME NEW c \in Committers, Pick(c) PROVE TypeOK'
  <2>0. idx[c] \in Workers /\ task[c] \in Tasks
    BY <1>33, <1>cpc, <1>idx, <1>task, <1>p, <1>h
    DEF Pick, PickAs, CGoto, PickInv, HandInv, InHand, Workers
  <2>1. cpc' \in [Committers -> CallerPlaces]
    BY <1>33, <2>0, <1>cpc DEF Pick, PickAs, CGoto, CallerPlaces
  <2>2. status' \in [Workers -> Bits]  BY <1>33, <2>0, <1>status, <1>seen DEF Pick, PickAs, Bits
  <2>3. lost' \in SUBSET Tasks  BY <1>33, <2>0, <1>lost, <1>body, <1>cur DEF Pick, PickAs
  <2>4. body' \in [Workers -> Tasks \cup {NoTask}]
    BY <1>33, <2>0, <1>body, <1>task DEF Pick, PickAs
  <2>5. task' \in [Committers -> Tasks \cup {NoTask}]  BY <1>33, <2>0, <1>task DEF Pick, PickAs
  <2>6. tlock' \in {Free} \cup Workers \cup Committers  BY <1>33, <2>0 DEF Pick, PickAs
  <2> QED  BY Zenon, <1>33, <2>0, <2>1, <2>2, <2>3, <2>4, <2>5, <2>6 DEF Pick, PickAs, TypeOK,
        mainVars, workerVars, callerVars
<1>34. ASSUME NEW c \in Committers, PostThread(c) PROVE TypeOK'
  <2>1. cpc' \in [Committers -> CallerPlaces]
    BY <1>34, <1>cpc DEF PostThread, PostTo, CGoto, CallerPlaces
  <2>2. sem' \in [Workers -> Nat]  BY Zenon, <1>34, <1>sem, Bump DEF PostThread, PostTo
  <2> QED  BY Zenon, <1>34, <2>1, <2>2 DEF PostThread, PostTo, TypeOK, mainVars, workerVars,
        callerVars
<1>35. ASSUME NEW c \in Committers, GiveUp(c) PROVE TypeOK'
  <2>1. cpc' \in [Committers -> CallerPlaces]  BY <1>35, <1>cpc DEF GiveUp, CGoto, CallerPlaces
  <2>2. tlock' \in {Free} \cup Workers \cup Committers  BY <1>35, <1>tlock DEF GiveUp
  <2>3. frees' \in [Tasks -> Nat]  BY <1>35, <1>frees, Bump DEF GiveUp
  <2>4. task' \in [Committers -> Tasks \cup {NoTask}]  BY <1>35, <1>task DEF GiveUp
  <2> QED  BY Zenon, <1>35, <2>1, <2>2, <2>3, <2>4 DEF GiveUp, TypeOK, mainVars, workerVars,
        callerVars
<1>36. CASE UNCHANGED vars  BY Zenon, <1>36 DEF vars, TypeOK
<1> QED
  BY Zenon, <1>1, <1>2, <1>3, <1>4, <1>5, <1>6, <1>7, <1>8, <1>9, <1>10, <1>11, <1>12, <1>13,
     <1>14, <1>15, <1>16, <1>17, <1>18, <1>19, <1>20, <1>21, <1>22, <1>23, <1>24, <1>25,
     <1>26, <1>27, <1>28, <1>29, <1>30, <1>31, <1>32, <1>33, <1>34, <1>35, <1>36
     DEF Next, StartStep, WorkerStep, CallerStep, Quiet

\* Only callers touch what HandInv and PickInv speak of.
LEMMA NextHandPick == TypeInv /\ [Next]_vars => HandInv' /\ PickInv'
<1> SUFFICES ASSUME TypeOK, HandInv, PickInv, [Next]_vars PROVE HandInv' /\ PickInv'
  BY DEF TypeInv
<1>a. /\ cpc \in [Committers -> CallerPlaces]
      /\ task \in [Committers -> Tasks \cup {NoTask}]
      /\ idx \in [Committers -> 0 .. NThreads]
      /\ count \in {0, NThreads} /\ NThreads \in Nat \ {0}
  BY TaskCoreAssumption DEF TypeOK
<1>1. CASE UNCHANGED callerVars  BY <1>1 DEF callerVars, HandInv, PickInv
<1>2. CASE StartStep \/ CreateFails \/ InitMutexFails \/ Stop \/ Quiet
  <2>1. UNCHANGED callerVars
    BY <1>2 DEF StartStep, CreateThread, CreateFails, SeeRunning, InitMutex, InitMutexFails,
                Publish, Stop, Join, Clear, ClearAfter, Quiet, vars, callerVars
  <2> QED  BY <1>1, <2>1
<1>3. ASSUME NEW w \in Workers, WorkerStep(w) PROVE HandInv' /\ PickInv'
  <2>1. UNCHANGED callerVars
    BY <1>3 DEF WorkerStep, Run, Unbusy, LockThreads, Unpick, Wake, WakeAt, Busy, CallOther,
                FinishOther, FinishOtherAs, LockQueue, MissQueue, LeaveQueue, CallQueued,
                EmptyQueue, FinishQueued, callerVars
  <2> QED  BY <1>1, <2>1
<1>4. ASSUME NEW c \in Committers, CallerStep(c) \/ \E t \in Tasks : Commit(c, t)
      PROVE HandInv' /\ PickInv'
  <2> USE <1>a DEF CGoto
  <2>1. HandInv'
    BY <1>4 DEF CallerStep, Commit, LockInsert, MissInsert, Link, LinkAs, PostQueue, LockFind,
                MissFind, ScanPast, ScanHit, Pick, PickAs, PostThread, PostTo, GiveUp,
                HandInv, InHand
  <2>2. PickInv'
    BY <1>4 DEF CallerStep, Commit, LockInsert, MissInsert, Link, LinkAs, PostQueue, LockFind,
                MissFind, ScanPast, ScanHit, Pick, PickAs, PostThread, PostTo, GiveUp, PickInv
  <2> QED  BY <2>1, <2>2
<1>5. CASE UNCHANGED vars  BY <1>1, <1>5 DEF vars, callerVars
<1> QED  BY <1>2, <1>3, <1>4, <1>5 DEF Next

LEMMA NextTypeInv == TypeInv /\ [Next]_vars => TypeInv'
  BY NextTypeOK, NextHandPick DEF TypeInv

\* Every variable keeps its type, the bodies in the callers' hands included.
THEOREM TypeCorrect == Spec => []TypeOK
<1>1. Spec => []TypeInv  BY InitTypeInv, NextTypeInv, PTL DEF Spec
<1>2. TypeInv => TypeOK  BY DEF TypeInv
<1> QED  BY <1>1, <1>2, PTL

-------------------------------------------------------------------------------
(***************************************************************************)
(* No lost wakeup.  The queue worker goes to sleep after it found the      *)
(* queue empty, or after it failed twice to lock it.  In the second case a *)
(* caller held the lock, and that caller posts the worker after it has     *)
(* unlocked.  QLockInv says who can hold the lock; WakeInv is the          *)
(* strengthening of NoLostWakeup that every step preserves.                *)
(***************************************************************************)
QueueStates == {"try1", "try2", "take"}

\* Workers not yet created have not started; only worker 0 is in the queue
\* code; the lock is held exactly by the thread that is in its critical section.
QLockInv ==
    /\ mpc \in {"create", "waitrun"} => \A w \in Workers : w >= made => wpc[w] = "none"
    /\ \A w \in Workers : wpc[w] \in QueueStates => w = 0
    /\ \A w \in Workers : wpc[w] = "take" => qlock = w
    /\ \A c \in Committers : cpc[c] = "link" => qlock = c
    /\ qlock # Free => \/ qlock = 0 /\ wpc[0] = "take"
                       \/ qlock \in Committers /\ cpc[qlock] = "link"

\* Whenever tasks are queued, a wakeup is pending, the queue worker is at
\* work, or a caller has yet to post it.
WakeInv ==
    queue # <<>> =>
        \/ sem[0] > 0
        \/ wpc[0] \in QueueStates \cup {"busy", "cbk", "dead"}
        \/ \E c \in Committers : cpc[c] \in {"link", "post"}

IInv == TypeInv /\ QLockInv /\ WakeInv

LEMMA InitIInv == Init => IInv
  BY InitTypeInv, TaskCoreAssumption DEF Init, IInv, QLockInv, WakeInv, QueueStates

LEMMA NextQLockInv == IInv /\ [Next]_vars => QLockInv'
<1> SUFFICES ASSUME IInv, [Next]_vars PROVE QLockInv'
  OBVIOUS
<1>0. /\ QLockInv /\ made \in Nat
      /\ wpc \in [Workers -> WorkerPlaces] /\ cpc \in [Committers -> CallerPlaces]
  BY TaskCoreAssumption DEF IInv, TypeInv, TypeOK
<1> USE TaskCoreAssumption, <1>0 DEF QLockInv, QueueStates, Goto, CGoto
<1>1. CASE CreateThread  BY <1>1 DEF CreateThread
<1>2. CASE CreateFails  BY <1>2 DEF CreateFails
<1>3. CASE SeeRunning  BY <1>3 DEF SeeRunning
<1>4. CASE InitMutex  BY <1>4 DEF InitMutex
<1>5. CASE InitMutexFails  BY <1>5 DEF InitMutexFails
<1>6. CASE Publish  BY <1>6 DEF Publish
<1>7. CASE Stop  BY <1>7 DEF Stop
<1>8. CASE Join  BY <1>8 DEF Join, CancelPoints
<1>9. CASE Clear  BY <1>9 DEF Clear, ClearAfter
<1>10. ASSUME NEW w \in Workers, Run(w) PROVE QLockInv'  BY <1>10 DEF Run
<1>11. ASSUME NEW w \in Workers, Unbusy(w) PROVE QLockInv'  BY <1>11 DEF Unbusy
<1>12. ASSUME NEW w \in Workers, LockThreads(w) PROVE QLockInv'  BY <1>12 DEF LockThreads
<1>13. ASSUME NEW w \in Workers, Unpick(w) PROVE QLockInv'  BY <1>13 DEF Unpick
<1>14. ASSUME NEW w \in Workers, Wake(w) PROVE QLockInv'  BY <1>14 DEF Wake, WakeAt
<1>15. ASSUME NEW w \in Workers, Busy(w) PROVE QLockInv'  BY <1>15 DEF Busy
<1>16. ASSUME NEW w \in Workers, CallOther(w) PROVE QLockInv'  BY <1>16 DEF CallOther
<1>17. ASSUME NEW w \in Workers, FinishOther(w) PROVE QLockInv'  BY <1>17 DEF FinishOther,
     FinishOtherAs
<1>18. ASSUME NEW w \in Workers, LockQueue(w) PROVE QLockInv'  BY <1>18 DEF LockQueue
<1>19. ASSUME NEW w \in Workers, MissQueue(w) PROVE QLockInv'  BY <1>19 DEF MissQueue
<1>20. ASSUME NEW w \in Workers, LeaveQueue(w) PROVE QLockInv'  BY <1>20 DEF LeaveQueue
<1>21. ASSUME NEW w \in Workers, CallQueued(w) PROVE QLockInv'
  <2>1. /\ wpc[w] = "take" /\ wpc' = [wpc EXCEPT ![w] = "cbk"] /\ qlock' = Free
        /\ UNCHANGED <<mainVars, callerVars>>
    BY <1>21 DEF CallQueued
  <2> QED  BY <2>1 DEF mainVars, callerVars
<1>22. ASSUME NEW w \in Workers, EmptyQueue(w) PROVE QLockInv'  BY <1>22 DEF EmptyQueue
<1>23. ASSUME NEW w \in Workers, FinishQueued(w) PROVE QLockInv'  BY <1>23 DEF FinishQueued
<1>24. ASSUME NEW c \in Committers, NEW t \in Tasks, Commit(c, t) PROVE QLockInv'
  BY <1>24 DEF Commit
<1>25. ASSUME NEW c \in Committers, LockInsert(c) PROVE QLockInv'  BY <1>25 DEF LockInsert
<1>26. ASSUME NEW c \in Committers, MissInsert(c) PROVE QLockInv'  BY <1>26 DEF MissInsert
<1>27. ASSUME NEW c \in Committers, Link(c) PROVE QLockInv'  BY <1>27 DEF Link, LinkAs
<1>28. ASSUME NEW c \in Committers, PostQueue(c) PROVE QLockInv'  BY <1>28 DEF PostQueue
<1>29. ASSUME NEW c \in Committers, LockFind(c) PROVE QLockInv'  BY <1>29 DEF LockFind
<1>30. ASSUME NEW c \in Committers, MissFind(c) PROVE QLockInv'  BY <1>30 DEF MissFind
<1>31. ASSUME NEW c \in Committers, ScanPast(c) PROVE QLockInv'  BY <1>31 DEF ScanPast
<1>32. ASSUME NEW c \in Committers, ScanHit(c) PROVE QLockInv'  BY <1>32 DEF ScanHit
<1>33. ASSUME NEW c \in Committers, Pick(c) PROVE QLockInv'  BY <1>33 DEF Pick, PickAs
<1>34. ASSUME NEW c \in Committers, PostThread(c) PROVE QLockInv'  BY <1>34 DEF PostThread,
     PostTo
<1>35. ASSUME NEW c \in Committers, GiveUp(c) PROVE QLockInv'  BY <1>35 DEF GiveUp
<1>36. CASE UNCHANGED vars  BY <1>36 DEF vars
<1> QED
    BY Zenon, <1>1, <1>2, <1>3, <1>4, <1>5, <1>6, <1>7, <1>8, <1>9, <1>10, <1>11, <1>12,
     <1>13, <1>14, <1>15, <1>16, <1>17, <1>18, <1>19, <1>20, <1>21, <1>22, <1>23, <1>24, <1>25,
     <1>26, <1>27, <1>28, <1>29, <1>30, <1>31, <1>32, <1>33, <1>34, <1>35, <1>36
     DEF Next, StartStep, WorkerStep, CallerStep, Quiet

LEMMA NextWakeInv == IInv /\ [Next]_vars => WakeInv'
<1> SUFFICES ASSUME IInv, [Next]_vars PROVE WakeInv'
  OBVIOUS
<1>0. 0 \in Workers  BY TaskCoreAssumption
<1> USE <1>0, TaskCoreAssumption
        DEF IInv, TypeInv, TypeOK, QLockInv, WakeInv, QueueStates, Goto, CGoto
<1>1. CASE CreateThread  BY <1>1 DEF CreateThread
<1>2. CASE CreateFails  BY <1>2 DEF CreateFails
<1>3. CASE SeeRunning  BY <1>3 DEF SeeRunning
<1>4. CASE InitMutex  BY <1>4 DEF InitMutex
<1>5. CASE InitMutexFails  BY <1>5 DEF InitMutexFails
<1>6. CASE Publish  BY <1>6 DEF Publish
<1>7. CASE Stop  BY <1>7 DEF Stop
<1>8. CASE Join  BY <1>8 DEF Join
<1>9. CASE Clear  BY <1>9 DEF Clear, ClearAfter
<1>10. ASSUME NEW w \in Workers, Run(w) PROVE WakeInv'  BY <1>10 DEF Run
<1>11. ASSUME NEW w \in Workers, Unbusy(w) PROVE WakeInv'  BY <1>11 DEF Unbusy
<1>12. ASSUME NEW w \in Workers, LockThreads(w) PROVE WakeInv'  BY <1>12 DEF LockThreads
<1>13. ASSUME NEW w \in Workers, Unpick(w) PROVE WakeInv'  BY <1>13 DEF Unpick
<1>14. ASSUME NEW w \in Workers, Wake(w) PROVE WakeInv'  BY <1>14 DEF Wake, WakeAt
<1>15. ASSUME NEW w \in Workers, Busy(w) PROVE WakeInv'  BY <1>15 DEF Busy
<1>16. ASSUME NEW w \in Workers, CallOther(w) PROVE WakeInv'  BY <1>16 DEF CallOther
<1>17. ASSUME NEW w \in Workers, FinishOther(w) PROVE WakeInv'  BY <1>17 DEF FinishOther,
     FinishOtherAs
<1>18. ASSUME NEW w \in Workers, LockQueue(w) PROVE WakeInv'  BY <1>18 DEF LockQueue
<1>19. ASSUME NEW w \in Workers, MissQueue(w) PROVE WakeInv'  BY <1>19 DEF MissQueue
<1>20. ASSUME NEW w \in Workers, LeaveQueue(w) PROVE WakeInv'  BY <1>20 DEF LeaveQueue
<1>21. ASSUME NEW w \in Workers, CallQueued(w) PROVE WakeInv'  BY <1>21 DEF CallQueued
<1>22. ASSUME NEW w \in Workers, EmptyQueue(w) PROVE WakeInv'  BY <1>22 DEF EmptyQueue
<1>23. ASSUME NEW w \in Workers, FinishQueued(w) PROVE WakeInv'  BY <1>23 DEF FinishQueued
<1>24. ASSUME NEW c \in Committers, NEW t \in Tasks, Commit(c, t) PROVE WakeInv'
  BY <1>24 DEF Commit
<1>25. ASSUME NEW c \in Committers, LockInsert(c) PROVE WakeInv'  BY <1>25 DEF LockInsert
<1>26. ASSUME NEW c \in Committers, MissInsert(c) PROVE WakeInv'  BY <1>26 DEF MissInsert
<1>27. ASSUME NEW c \in Committers, Link(c) PROVE WakeInv'  BY <1>27 DEF Link, LinkAs
<1>28. ASSUME NEW c \in Committers, PostQueue(c) PROVE WakeInv'  BY <1>28 DEF PostQueue
<1>29. ASSUME NEW c \in Committers, LockFind(c) PROVE WakeInv'  BY <1>29 DEF LockFind
<1>30. ASSUME NEW c \in Committers, MissFind(c) PROVE WakeInv'  BY <1>30 DEF MissFind
<1>31. ASSUME NEW c \in Committers, ScanPast(c) PROVE WakeInv'  BY <1>31 DEF ScanPast
<1>32. ASSUME NEW c \in Committers, ScanHit(c) PROVE WakeInv'  BY <1>32 DEF ScanHit
<1>33. ASSUME NEW c \in Committers, Pick(c) PROVE WakeInv'  BY <1>33 DEF Pick, PickAs
<1>34. ASSUME NEW c \in Committers, PostThread(c) PROVE WakeInv'  BY <1>34 DEF PostThread,
     PostTo
<1>35. ASSUME NEW c \in Committers, GiveUp(c) PROVE WakeInv'  BY <1>35 DEF GiveUp
<1>36. CASE UNCHANGED vars  BY <1>36 DEF vars
<1> QED
    BY Zenon, <1>1, <1>2, <1>3, <1>4, <1>5, <1>6, <1>7, <1>8, <1>9, <1>10, <1>11, <1>12,
     <1>13, <1>14, <1>15, <1>16, <1>17, <1>18, <1>19, <1>20, <1>21, <1>22, <1>23, <1>24, <1>25,
     <1>26, <1>27, <1>28, <1>29, <1>30, <1>31, <1>32, <1>33, <1>34, <1>35, <1>36
     DEF Next, StartStep, WorkerStep, CallerStep, Quiet

\* A worker of the queue that goes to sleep with tasks queued has not been
\* forgotten: its wakeup is pending or a caller still owes it one.
THEOREM NoLostWakeupAlways == Spec => []NoLostWakeup
<1>1. IInv /\ [Next]_vars => IInv'
  BY NextTypeInv, NextQLockInv, NextWakeInv DEF IInv
<1>2. IInv => NoLostWakeup
  BY TaskCoreAssumption DEF IInv, TypeInv, TypeOK, WakeInv, NoLostWakeup, QueueStates
<1> QED  BY InitIInv, <1>1, <1>2, PTL DEF Spec

-------------------------------------------------------------------------------
(***************************************************************************)
(* A picked worker is not picked again, provided the callers let the pool  *)
(* settle.  While the pool starts nothing is bound, posted or marked       *)
(* (StartInv).  Once it is up lock_threads excludes (TLockInv), and every  *)
(* worker but the first goes round: idle, bound by a caller that then      *)
(* posts it, busy with the task, and back to idle, with PICK set all the   *)
(* way from bound to back (RoundInv).                                      *)
(***************************************************************************)
Starting == mpc \in {"create", "waitrun", "init", "settle"}

StartInv == Starting =>
    /\ \A c \in Committers : cpc[c] = "idle"
    /\ \A w \in Workers : /\ body[w] = NoTask /\ sem[w] = 0
                          /\ "PICK" \notin status[w] /\ "PICK" \notin seen[w]
                          /\ wpc[w] \notin {"busy", "hand", "cbk"} \cup QueueStates

StopInv == mpc \in {"join", "down", "failed"} => \A c \in Committers : cpc[c] = "idle"

TLockInv == mpc = "up" =>
    /\ \A c \in Committers : cpc[c] \in {"scan", "pick"} => tlock = c
    /\ \A w \in Workers : wpc[w] = "unpick" => tlock = w

Posting(c, w) == cpc[c] = "wake" /\ idx[c] = w

Idle(w) == /\ wpc[w] = "wait" /\ body[w] = NoTask /\ sem[w] = 0
           /\ "PICK" \notin status[w]
           /\ \A c \in Committers : ~Posting(c, w)

Bound(w) == /\ wpc[w] = "wait" /\ body[w] # NoTask /\ "PICK" \in status[w]
            /\ \/ sem[w] = 1 /\ \A c \in Committers : ~Posting(c, w)
               \/ /\ sem[w] = 0
                  /\ \E c \in Committers : /\ Posting(c, w)
                                           /\ \A d \in Committers : Posting(d, w) => d = c

AtWork(w) == /\ wpc[w] \in {"busy", "hand", "cbk"} /\ body[w] # NoTask /\ sem[w] = 0
             /\ "PICK" \in status[w]
             /\ wpc[w] = "busy" => "PICK" \in seen[w]
             /\ \A c \in Committers : ~Posting(c, w)

Back(w) == /\ wpc[w] \in {"unbusy", "lock", "unpick"} /\ body[w] = NoTask /\ sem[w] = 0
           /\ "PICK" \in status[w]
           /\ wpc[w] = "unbusy" => "PICK" \in seen[w]
           /\ \A c \in Committers : ~Posting(c, w)

RoundInv == mpc = "up" =>
    /\ \A w \in Workers \ {0} : Idle(w) \/ Bound(w) \/ AtWork(w) \/ Back(w)
    /\ \A c \in Committers : cpc[c] = "pick" => Idle(idx[c])

SettledInv == StartInv /\ StopInv /\ TLockInv /\ RoundInv

LEMMA InitSettledInv == Init => SettledInv
  BY TaskCoreAssumption DEF Init, SettledInv, StartInv, StopInv, TLockInv, RoundInv, Starting,
     QueueStates

LEMMA NextStartStopInv == TypeInv /\ SettledInv /\ [Next]_vars => StartInv' /\ StopInv'
<1> SUFFICES ASSUME TypeInv, SettledInv, [Next]_vars PROVE StartInv' /\ StopInv'
  OBVIOUS
<1> USE TaskCoreAssumption DEF TypeInv, TypeOK, SettledInv, StartInv, StopInv, Starting, QueueStates, Goto, CGoto
<1>1. CASE CreateThread  BY <1>1 DEF CreateThread
<1>2. CASE CreateFails  BY <1>2 DEF CreateFails
<1>3. CASE SeeRunning  BY <1>3 DEF SeeRunning
<1>4. CASE InitMutex  BY <1>4 DEF InitMutex
<1>5. CASE InitMutexFails  BY <1>5 DEF InitMutexFails
<1>6. CASE Publish  BY <1>6 DEF Publish
<1>7. CASE Stop  BY <1>7 DEF Stop
<1>8. CASE Join  BY <1>8 DEF Join
<1>9. CASE Clear  BY <1>9 DEF Clear, ClearAfter
<1>10. ASSUME NEW w \in Workers, Run(w) PROVE StartInv' /\ StopInv'  BY <1>10 DEF Run
<1>11. ASSUME NEW w \in Workers, Unbusy(w) PROVE StartInv' /\ StopInv'  BY <1>11 DEF Unbusy
<1>12. ASSUME NEW w \in Workers, LockThreads(w) PROVE StartInv' /\ StopInv'  BY <1>12 DEF
     LockThreads
<1>13. ASSUME NEW w \in Workers, Unpick(w) PROVE StartInv' /\ StopInv'  BY <1>13 DEF Unpick
<1>14. ASSUME NEW w \in Workers, Wake(w) PROVE StartInv' /\ StopInv'  BY <1>14 DEF Wake, WakeAt
<1>15. ASSUME NEW w \in Workers, Busy(w) PROVE StartInv' /\ StopInv'  BY <1>15 DEF Busy
<1>16. ASSUME NEW w \in Workers, CallOther(w) PROVE StartInv' /\ StopInv'  BY <1>16 DEF
     CallOther
<1>17. ASSUME NEW w \in Workers, FinishOther(w) PROVE StartInv' /\ StopInv'  BY <1>17 DEF
     FinishOther, FinishOtherAs
<1>18. ASSUME NEW w \in Workers, LockQueue(w) PROVE StartInv' /\ StopInv'  BY <1>18 DEF
     LockQueue
<1>19. ASSUME NEW w \in Workers, MissQueue(w) PROVE StartInv' /\ StopInv'  BY <1>19 DEF
     MissQueue
<1>20. ASSUME NEW w \in Workers, LeaveQueue(w) PROVE StartInv' /\ StopInv'  BY <1>20 DEF
     LeaveQueue
<1>21. ASSUME NEW w \in Workers, CallQueued(w) PROVE StartInv' /\ StopInv'
  BY <1>21 DEF CallQueued, QueueStates
<1>22. ASSUME NEW w \in Workers, EmptyQueue(w) PROVE StartInv' /\ StopInv'  BY <1>22 DEF
     EmptyQueue
<1>23. ASSUME NEW w \in Workers, FinishQueued(w) PROVE StartInv' /\ StopInv'  BY <1>23 DEF
     FinishQueued
<1>24. ASSUME NEW c \in Committers, NEW t \in Tasks, Commit(c, t) PROVE StartInv' /\ StopInv'
  BY <1>24 DEF Commit
<1>25. ASSUME NEW c \in Committers, LockInsert(c) PROVE StartInv' /\ StopInv'  BY <1>25 DEF
     LockInsert
<1>26. ASSUME NEW c \in Committers, MissInsert(c) PROVE StartInv' /\ StopInv'  BY <1>26 DEF
     MissInsert
<1>27. ASSUME NEW c \in Committers, Link(c) PROVE StartInv' /\ StopInv'  BY <1>27 DEF Link,
     LinkAs
<1>28. ASSUME NEW c \in Committers, PostQueue(c) PROVE StartInv' /\ StopInv'  BY <1>28 DEF
     PostQueue
<1>29. ASSUME NEW c \in Committers, LockFind(c) PROVE StartInv' /\ StopInv'  BY <1>29 DEF
     LockFind
<1>30. ASSUME NEW c \in Committers, MissFind(c) PROVE StartInv' /\ StopInv'  BY <1>30 DEF
     MissFind
<1>31. ASSUME NEW c \in Committers, ScanPast(c) PROVE StartInv' /\ StopInv'  BY <1>31 DEF
     ScanPast
<1>32. ASSUME NEW c \in Committers, ScanHit(c) PROVE StartInv' /\ StopInv'  BY <1>32 DEF ScanHit
<1>33. ASSUME NEW c \in Committers, Pick(c) PROVE StartInv' /\ StopInv'  BY <1>33 DEF Pick,
     PickAs
<1>34. ASSUME NEW c \in Committers, PostThread(c) PROVE StartInv' /\ StopInv'  BY <1>34 DEF
     PostThread, PostTo
<1>35. ASSUME NEW c \in Committers, GiveUp(c) PROVE StartInv' /\ StopInv'  BY <1>35 DEF GiveUp
<1>36. CASE UNCHANGED vars  BY <1>36 DEF vars
<1> QED
    BY Zenon, <1>1, <1>2, <1>3, <1>4, <1>5, <1>6, <1>7, <1>8, <1>9, <1>10, <1>11, <1>12,
     <1>13, <1>14, <1>15, <1>16, <1>17, <1>18, <1>19, <1>20, <1>21, <1>22, <1>23, <1>24, <1>25,
     <1>26, <1>27, <1>28, <1>29, <1>30, <1>31, <1>32, <1>33, <1>34, <1>35, <1>36
     DEF Next, StartStep, WorkerStep, CallerStep, Quiet

LEMMA NextTLockInv ==
    Settled /\ TypeInv /\ SettledInv /\ [Next]_vars => TLockInv'
<1> SUFFICES ASSUME Settled, TypeInv, SettledInv, [Next]_vars PROVE TLockInv'
  OBVIOUS
<1>0. /\ TLockInv /\ StartInv /\ Settled /\ tlock \in {Free} \cup Workers \cup Committers
      /\ wpc \in [Workers -> WorkerPlaces] /\ cpc \in [Committers -> CallerPlaces]
  BY DEF TypeInv, TypeOK, SettledInv
<1> USE TaskCoreAssumption, <1>0 DEF TLockInv, StartInv, Starting, Goto, CGoto
<1>1. CASE CreateThread  BY <1>1 DEF CreateThread
<1>2. CASE CreateFails  BY <1>2 DEF CreateFails
<1>3. CASE SeeRunning  BY <1>3 DEF SeeRunning
<1>4. CASE InitMutex  BY <1>4 DEF InitMutex
<1>5. CASE InitMutexFails  BY <1>5 DEF InitMutexFails
<1>6. CASE Publish  BY <1>6 DEF Publish
<1>7. CASE Stop  BY <1>7 DEF Stop
<1>8. CASE Join  BY <1>8 DEF Join
<1>9. CASE Clear  BY <1>9 DEF Clear, ClearAfter
<1>10. ASSUME NEW w \in Workers, Run(w) PROVE TLockInv'  BY <1>10 DEF Run
<1>11. ASSUME NEW w \in Workers, Unbusy(w) PROVE TLockInv'  BY <1>11 DEF Unbusy
<1>12. ASSUME NEW w \in Workers, LockThreads(w) PROVE TLockInv'  BY <1>12 DEF LockThreads
<1>13. ASSUME NEW w \in Workers, Unpick(w) PROVE TLockInv'
  <2>1. wpc[w] = "unpick" /\ wpc' = [wpc EXCEPT ![w] = "wait"] /\ mpc' = mpc /\ cpc' = cpc
    BY <1>13 DEF Unpick
  <2>2. mpc = "up" => tlock = w  BY <2>1
  <2>3. mpc = "up" => \A c \in Committers : cpc[c] \notin {"scan", "pick"}
    BY Zenon, <2>2, TaskCoreAssumption DEF TLockInv
  <2>4. mpc = "up" => \A v \in Workers : wpc[v] = "unpick" => v = w
    BY Zenon, <2>2 DEF TLockInv
  <2> QED  BY <2>1, <2>3, <2>4
<1>14. ASSUME NEW w \in Workers, Wake(w) PROVE TLockInv'  BY <1>14 DEF Wake, WakeAt
<1>15. ASSUME NEW w \in Workers, Busy(w) PROVE TLockInv'  BY <1>15 DEF Busy
<1>16. ASSUME NEW w \in Workers, CallOther(w) PROVE TLockInv'  BY <1>16 DEF CallOther
<1>17. ASSUME NEW w \in Workers, FinishOther(w) PROVE TLockInv'  BY <1>17 DEF FinishOther,
     FinishOtherAs
<1>18. ASSUME NEW w \in Workers, LockQueue(w) PROVE TLockInv'  BY <1>18 DEF LockQueue
<1>19. ASSUME NEW w \in Workers, MissQueue(w) PROVE TLockInv'  BY <1>19 DEF MissQueue
<1>20. ASSUME NEW w \in Workers, LeaveQueue(w) PROVE TLockInv'  BY <1>20 DEF LeaveQueue
<1>21. ASSUME NEW w \in Workers, CallQueued(w) PROVE TLockInv'  BY <1>21 DEF CallQueued
<1>22. ASSUME NEW w \in Workers, EmptyQueue(w) PROVE TLockInv'  BY <1>22 DEF EmptyQueue
<1>23. ASSUME NEW w \in Workers, FinishQueued(w) PROVE TLockInv'  BY <1>23 DEF FinishQueued
<1>24. ASSUME NEW c \in Committers, NEW t \in Tasks, Commit(c, t) PROVE TLockInv'
  BY <1>24 DEF Commit
<1>25. ASSUME NEW c \in Committers, LockInsert(c) PROVE TLockInv'  BY <1>25 DEF LockInsert
<1>26. ASSUME NEW c \in Committers, MissInsert(c) PROVE TLockInv'  BY <1>26 DEF MissInsert
<1>27. ASSUME NEW c \in Committers, Link(c) PROVE TLockInv'  BY <1>27 DEF Link, LinkAs
<1>28. ASSUME NEW c \in Committers, PostQueue(c) PROVE TLockInv'  BY <1>28 DEF PostQueue
<1>29. ASSUME NEW c \in Committers, LockFind(c) PROVE TLockInv'  BY <1>29 DEF LockFind
<1>30. ASSUME NEW c \in Committers, MissFind(c) PROVE TLockInv'  BY <1>30 DEF MissFind
<1>31. ASSUME NEW c \in Committers, ScanPast(c) PROVE TLockInv'  BY <1>31 DEF ScanPast
<1>32. ASSUME NEW c \in Committers, ScanHit(c) PROVE TLockInv'  BY <1>32 DEF ScanHit
<1>33. ASSUME NEW c \in Committers, Pick(c) PROVE TLockInv'
  <2>1. /\ cpc[c] = "pick" /\ cpc' = [cpc EXCEPT ![c] = "wake"] /\ tlock' = Free
        /\ UNCHANGED <<mpc, wpc>>
    BY <1>33 DEF Pick, PickAs
  <2>2. mpc = "up" => tlock = c  BY <2>1
  <2>3. mpc = "up" => \A w \in Workers : wpc[w] # "unpick"
    BY Zenon, <2>2, TaskCoreAssumption DEF TLockInv
  <2>4. mpc = "up" => \A d \in Committers : cpc[d] \in {"scan", "pick"} => d = c
    BY Zenon, <2>2 DEF TLockInv
  <2> QED  BY <2>1, <2>3, <2>4
<1>34. ASSUME NEW c \in Committers, PostThread(c) PROVE TLockInv'  BY <1>34 DEF PostThread,
     PostTo
<1>35. ASSUME NEW c \in Committers, GiveUp(c) PROVE TLockInv'
  <2>1. /\ mpc' = mpc /\ wpc' = wpc /\ cpc' = [cpc EXCEPT ![c] = "idle"]
        /\ tlock' = tlock \/ cpc[c] = "scan"
    BY <1>35 DEF GiveUp
  <2>2. CASE tlock' = tlock  BY <2>1, <2>2
  <2>3. CASE cpc[c] = "scan"
    <3>1. mpc = "up" => tlock = c  BY <2>3
    <3>2. mpc = "up" => \A w \in Workers : wpc[w] # "unpick"
      BY Zenon, <3>1, TaskCoreAssumption DEF TLockInv
    <3>3. mpc = "up" => \A d \in Committers : cpc[d] \in {"scan", "pick"} => d = c
      BY Zenon, <3>1 DEF TLockInv
    <3> QED  BY <2>1, <3>2, <3>3
  <2> QED  BY <2>1, <2>2, <2>3
<1>36. CASE UNCHANGED vars  BY <1>36 DEF vars
<1> QED
    BY Zenon, <1>1, <1>2, <1>3, <1>4, <1>5, <1>6, <1>7, <1>8, <1>9, <1>10, <1>11, <1>12,
     <1>13, <1>14, <1>15, <1>16, <1>17, <1>18, <1>19, <1>20, <1>21, <1>22, <1>23, <1>24, <1>25,
     <1>26, <1>27, <1>28, <1>29, <1>30, <1>31, <1>32, <1>33, <1>34, <1>35, <1>36
     DEF Next, StartStep, WorkerStep, CallerStep, Quiet

\* What the round of worker w depends on stays as it is.
Kept(w) ==
    /\ wpc'[w] = wpc[w] /\ body'[w] = body[w] /\ sem'[w] = sem[w]
    /\ status'[w] = status[w] /\ seen'[w] = seen[w]
    /\ \A c \in Committers : Posting(c, w)' <=> Posting(c, w)

LEMMA WorkerFrame ==
    ASSUME NEW w, Kept(w)
    PROVE  /\ Idle(w)' <=> Idle(w)
           /\ Bound(w)' <=> Bound(w)
           /\ AtWork(w)' <=> AtWork(w)
           /\ Back(w)' <=> Back(w)
<1>1. Idle(w)' <=> Idle(w)  BY DEF Kept, Idle
<1>2. Bound(w)' <=> Bound(w)  BY DEF Kept, Bound
<1>3. AtWork(w)' <=> AtWork(w)  BY DEF Kept, AtWork
<1>4. Back(w)' <=> Back(w)  BY DEF Kept, Back
<1> QED  BY <1>1, <1>2, <1>3, <1>4

\* A step that changes no worker but the first keeps RoundInv, if a caller
\* that has chosen a worker chose it before or chooses an idle one.
LEMMA RoundFrame ==
    ASSUME PickInv, RoundInv, mpc' = mpc,
           \A w \in Workers \ {0} : Kept(w),
           \A c \in Committers : cpc'[c] = "pick" =>
               \/ cpc[c] = "pick" /\ idx'[c] = idx[c]
               \/ idx'[c] \in Workers \ {0} /\ Idle(idx'[c])
    PROVE  RoundInv'
<1> SUFFICES ASSUME mpc = "up" PROVE RoundInv'
  BY DEF RoundInv
<1>1. ASSUME NEW c \in Committers, cpc'[c] = "pick" PROVE Idle(idx[c])'
  <2>1. idx'[c] \in Workers \ {0} /\ Idle(idx'[c])
    BY <1>1, TaskCoreAssumption DEF PickInv, RoundInv
  <2>2. PICK w \in Workers \ {0} : w = idx'[c]  BY <2>1
  <2>3. Idle(w)'  BY <2>1, <2>2, WorkerFrame
  <2> QED  BY <2>2, <2>3 DEF Idle, Posting
<1>2. ASSUME NEW w \in Workers \ {0}
      PROVE  Idle(w)' \/ Bound(w)' \/ AtWork(w)' \/ Back(w)'
  BY WorkerFrame DEF RoundInv
<1> QED  BY <1>1, <1>2 DEF RoundInv

\* A step that changes one worker keeps RoundInv, if that worker goes on
\* along its round and no caller has chosen it.
LEMMA RoundStep ==
    ASSUME PickInv, RoundInv, UNCHANGED <<mpc, cpc, idx>>,
           NEW w \in Workers,
           \A v \in Workers \ {0, w} : Kept(v),
           mpc = "up" /\ w # 0 => wpc[w] # "wait" \/ Bound(w),
           mpc = "up" /\ w # 0 => Bound(w)' \/ AtWork(w)' \/ Back(w)'
    PROVE  RoundInv'
<1> SUFFICES ASSUME mpc = "up" PROVE RoundInv'
  BY DEF RoundInv
<1>1. ASSUME NEW v \in Workers \ {0}
      PROVE  Idle(v)' \/ Bound(v)' \/ AtWork(v)' \/ Back(v)'
  BY WorkerFrame DEF RoundInv
<1>2. ASSUME NEW c \in Committers, cpc[c] = "pick" PROVE Idle(idx[c])'
  <2>1. Idle(idx[c]) /\ idx[c] \in Workers \ {0}
    BY <1>2, TaskCoreAssumption DEF PickInv, RoundInv
  <2>2. idx[c] # w  BY <2>1 DEF Idle, Bound
  <2>3. PICK v \in Workers \ {0, w} : v = idx[c]  BY <2>1, <2>2
  <2>4. Idle(v)'  BY <2>1, <2>3, WorkerFrame
  <2> QED  BY <2>3, <2>4 DEF Idle, Posting
<1> QED  BY <1>1, <1>2 DEF RoundInv

LEMMA NextRoundInv ==
    Settled /\ IInv /\ SettledInv /\ [Next]_vars => RoundInv'
<1> SUFFICES ASSUME Settled, IInv, SettledInv, [Next]_vars PROVE RoundInv'
  OBVIOUS
<1>0. PickInv /\ RoundInv  BY DEF IInv, TypeInv, SettledInv
<1>q. \A w \in Workers : wpc[w] \in QueueStates => w = 0  BY DEF IInv, QLockInv
<1>c. \A c \in Committers : cpc[c] # "idle" => mpc = "up"
  BY DEF IInv, TypeInv, TypeOK, MainPlaces, SettledInv, StartInv, StopInv, Starting
<1>t. /\ wpc \in [Workers -> WorkerPlaces] /\ cpc \in [Committers -> CallerPlaces]
      /\ body \in [Workers -> Tasks \cup {NoTask}] /\ sem \in [Workers -> Nat]
      /\ status \in [Workers -> Bits] /\ seen \in [Workers \cup Committers -> Bits]
      /\ idx \in [Committers -> 0 .. NThreads] /\ count \in {0, NThreads}
  BY DEF IInv, TypeInv, TypeOK
<1> USE TaskCoreAssumption, <1>t DEF Goto, CGoto
<1>1. CASE CreateThread  BY <1>1
      DEF CreateThread, SettledInv, RoundInv, PickInv, Idle, Bound, AtWork, Back, Posting
<1>2. CASE CreateFails  BY <1>2
      DEF CreateFails, SettledInv, RoundInv, PickInv, Idle, Bound, AtWork, Back, Posting
<1>3. CASE SeeRunning  BY <1>3
      DEF SeeRunning, SettledInv, RoundInv, PickInv, Idle, Bound, AtWork, Back, Posting
<1>4. CASE InitMutex  BY <1>4
      DEF InitMutex, SettledInv, RoundInv, PickInv, Idle, Bound, AtWork, Back, Posting
<1>5. CASE InitMutexFails  BY <1>5
      DEF InitMutexFails, SettledInv, RoundInv, PickInv, Idle, Bound, AtWork, Back, Posting
<1>6. CASE Publish  BY <1>6
      DEF Publish, SettledInv, StartInv, Starting, RoundInv, PickInv, Idle, Bound, AtWork, Back,
          Posting
<1>7. CASE Stop  BY <1>7
      DEF Stop, SettledInv, RoundInv, PickInv, Idle, Bound, AtWork, Back, Posting
<1>8. CASE Join  BY <1>8
      DEF Join, SettledInv, RoundInv, PickInv, Idle, Bound, AtWork, Back, Posting
<1>9. CASE Clear  BY <1>9
      DEF Clear, ClearAfter, SettledInv, RoundInv, PickInv, Idle, Bound, AtWork, Back, Posting
<1>10. ASSUME NEW w \in Workers, Run(w) PROVE RoundInv'
  <2>1. wpc[w] = "start" /\ UNCHANGED <<mpc, cpc, idx>>
    BY <1>10 DEF Run
  <2>2. \A v \in Workers \ {0, w} : Kept(v)  BY <1>10 DEF Run, Kept, Posting
  <2>3. wpc[w] # "wait"  BY <2>1
  <2>4. ~Idle(w) /\ ~Bound(w) /\ ~AtWork(w) /\ ~Back(w)
    BY <2>1 DEF Idle, Bound, AtWork, Back
  <2>5. mpc = "up" /\ w # 0 => FALSE  BY Zenon, <1>0, <2>4 DEF RoundInv
  <2> QED  BY <1>0, <2>1, <2>2, <2>3, <2>5, RoundStep
<1>11. ASSUME NEW w \in Workers, Unbusy(w) PROVE RoundInv'
  <2>1. /\ wpc[w] = "unbusy" /\ wpc'[w] = "lock" /\ status'[w] = seen[w] \ {"BUSY"}
        /\ UNCHANGED <<mpc, cpc, idx, body, sem>>
    BY <1>11 DEF Unbusy
  <2>2. \A v \in Workers \ {0, w} : Kept(v)  BY <1>11 DEF Unbusy, Kept, Posting
  <2>3. wpc[w] # "wait"  BY <2>1
  <2>4. ~Idle(w) /\ ~Bound(w) /\ ~AtWork(w)  BY <2>1 DEF Idle, Bound, AtWork
  <2>5. mpc = "up" /\ w # 0 => Back(w)  BY Zenon, <1>0, <2>4 DEF RoundInv
  <2>6. Back(w) => Back(w)'  BY <2>1 DEF Back, Posting
  <2> QED  BY <1>0, <2>1, <2>2, <2>3, <2>5, <2>6, RoundStep
<1>12. ASSUME NEW w \in Workers, LockThreads(w) PROVE RoundInv'
  <2>1. /\ wpc[w] = "lock" /\ wpc'[w] = "unpick"
        /\ UNCHANGED <<mpc, cpc, idx, body, sem, status>>
    BY <1>12 DEF LockThreads
  <2>2. \A v \in Workers \ {0, w} : Kept(v)  BY <1>12 DEF LockThreads, Kept, Posting
  <2>3. wpc[w] # "wait"  BY <2>1
  <2>4. ~Idle(w) /\ ~Bound(w) /\ ~AtWork(w)  BY <2>1 DEF Idle, Bound, AtWork
  <2>5. mpc = "up" /\ w # 0 => Back(w)  BY Zenon, <1>0, <2>4 DEF RoundInv
  <2>6. Back(w) => Back(w)'  BY <2>1 DEF Back, Posting
  <2> QED  BY <1>0, <2>1, <2>2, <2>3, <2>5, <2>6, RoundStep
<1>13. ASSUME NEW w \in Workers, Unpick(w) PROVE RoundInv'
  BY <1>13 DEF Unpick, SettledInv, RoundInv, PickInv, Idle, Bound, AtWork, Back, Posting
<1>14. ASSUME NEW w \in Workers, Wake(w) PROVE RoundInv'
  <2>1. /\ wpc[w] = "wait" /\ wpc'[w] = "busy" /\ sem[w] \in Nat /\ sem[w] >= 1 
        /\ sem'[w] = sem[w] - 1 /\ seen'[w] = status[w]
        /\ UNCHANGED <<mpc, cpc, idx, body, status>>
    BY <1>14 DEF Wake, WakeAt
  <2>2. \A v \in Workers \ {0, w} : Kept(v)  BY <1>14 DEF Wake, WakeAt, Kept, Posting
  <2>3. mpc = "up" /\ w # 0 => Bound(w)
    <3>1. sem[w] # 0  BY <2>1
    <3>2. ~Idle(w) /\ ~AtWork(w) /\ ~Back(w)  BY <2>1, <3>1 DEF Idle, AtWork, Back
    <3> QED  BY <1>0, <3>2 DEF RoundInv
  <2>4. mpc = "up" /\ w # 0 => AtWork(w)'
    BY <2>1, <2>3 DEF Bound, AtWork, Posting
  <2> QED  BY <1>0, <2>1, <2>2, <2>3, <2>4, RoundStep
<1>15. ASSUME NEW w \in Workers, Busy(w) PROVE RoundInv'
  <2>1. /\ wpc[w] = "busy" /\ wpc'[w] \in {"try1", "hand"} /\ (w # 0 => wpc'[w] = "hand")
        /\ status'[w] = seen[w] \cup {"BUSY"} /\ UNCHANGED <<mpc, cpc, idx, body, sem>>
    BY <1>15 DEF Busy
  <2>2. \A v \in Workers \ {0, w} : Kept(v)  BY <1>15 DEF Busy, Kept, Posting
  <2>3. wpc[w] # "wait"  BY <2>1
  <2>4. ~Idle(w) /\ ~Bound(w) /\ ~Back(w)  BY <2>1 DEF Idle, Bound, Back
  <2>5. mpc = "up" /\ w # 0 => AtWork(w)  BY Zenon, <1>0, <2>4 DEF RoundInv
  <2>6. AtWork(w) /\ w # 0 => AtWork(w)'  BY <2>1 DEF AtWork, Posting
  <2> QED  BY <1>0, <2>1, <2>2, <2>3, <2>5, <2>6, RoundStep
<1>16. ASSUME NEW w \in Workers, CallOther(w) PROVE RoundInv'
  <2>1. /\ wpc[w] = "hand" /\ wpc'[w] = "cbk"
        /\ UNCHANGED <<mpc, cpc, idx, body, sem, status, seen>>
    BY <1>16 DEF CallOther
  <2>2. \A v \in Workers \ {0, w} : Kept(v)  BY <1>16 DEF CallOther, Kept, Posting
  <2>3. wpc[w] # "wait"  BY <2>1
  <2>4. ~Idle(w) /\ ~Bound(w) /\ ~Back(w)  BY <2>1 DEF Idle, Bound, Back
  <2>5. mpc = "up" /\ w # 0 => AtWork(w)  BY Zenon, <1>0, <2>4 DEF RoundInv
  <2>6. AtWork(w) => AtWork(w)'  BY <2>1 DEF AtWork, Posting
  <2> QED  BY <1>0, <2>1, <2>2, <2>3, <2>5, <2>6, RoundStep
<1>17. ASSUME NEW w \in Workers, FinishOther(w) PROVE RoundInv'
  BY <1>17
      DEF FinishOther, FinishOtherAs, SettledInv, RoundInv, PickInv, Idle, Bound, AtWork, Back,
          Posting
<1>18. ASSUME NEW w \in Workers, LockQueue(w) PROVE RoundInv'
  <2>1. \A v \in Workers \ {0} : Kept(v)
    BY <1>18, <1>q DEF LockQueue, QueueStates, Kept, Posting, mainVars, callerVars
  <2>2. mpc' = mpc /\ UNCHANGED <<cpc, idx>>  BY <1>18 DEF LockQueue
  <2> QED  BY <1>0, <2>1, <2>2, RoundFrame
<1>19. ASSUME NEW w \in Workers, MissQueue(w) PROVE RoundInv'
  <2>1. \A v \in Workers \ {0} : Kept(v)
    BY <1>19, <1>q DEF MissQueue, QueueStates, Kept, Posting, mainVars, callerVars
  <2>2. mpc' = mpc /\ UNCHANGED <<cpc, idx>>  BY <1>19 DEF MissQueue
  <2> QED  BY <1>0, <2>1, <2>2, RoundFrame
<1>20. ASSUME NEW w \in Workers, LeaveQueue(w) PROVE RoundInv'
  <2>1. \A v \in Workers \ {0} : Kept(v)
    BY <1>20, <1>q DEF LeaveQueue, QueueStates, Kept, Posting, mainVars, callerVars
  <2>2. mpc' = mpc /\ UNCHANGED <<cpc, idx>>  BY <1>20 DEF LeaveQueue
  <2> QED  BY <1>0, <2>1, <2>2, RoundFrame
<1>21. ASSUME NEW w \in Workers, CallQueued(w) PROVE RoundInv'
  <2>1. \A v \in Workers \ {0} : Kept(v)
    BY <1>21, <1>q DEF CallQueued, QueueStates, Kept, Posting, mainVars, callerVars
  <2>2. mpc' = mpc /\ UNCHANGED <<cpc, idx>>  BY <1>21 DEF CallQueued
  <2> QED  BY <1>0, <2>1, <2>2, RoundFrame
<1>22. ASSUME NEW w \in Workers, EmptyQueue(w) PROVE RoundInv'
  <2>1. \A v \in Workers \ {0} : Kept(v)
    BY <1>22, <1>q DEF EmptyQueue, QueueStates, Kept, Posting, mainVars, callerVars
  <2>2. mpc' = mpc /\ UNCHANGED <<cpc, idx>>  BY <1>22 DEF EmptyQueue
  <2> QED  BY <1>0, <2>1, <2>2, RoundFrame
<1>23. ASSUME NEW w \in Workers, FinishQueued(w) PROVE RoundInv'
  <2>1. \A v \in Workers \ {0} : Kept(v)
    BY <1>23, <1>q DEF FinishQueued, QueueStates, Kept, Posting, mainVars, callerVars
  <2>2. mpc' = mpc /\ UNCHANGED <<cpc, idx>>  BY <1>23 DEF FinishQueued
  <2> QED  BY <1>0, <2>1, <2>2, RoundFrame
<1>24. ASSUME NEW c \in Committers, NEW t \in Tasks, Commit(c, t) PROVE RoundInv'
  <2>1. \A w \in Workers \ {0} : Kept(w)  BY <1>24 DEF Commit, Kept, Posting
  <2>2. mpc' = mpc /\ \A d \in Committers : cpc'[d] = "pick" => cpc[d] = "pick" /\ idx'[d] = idx[d]
    BY <1>24 DEF Commit
  <2> QED  BY <1>0, <2>1, <2>2, RoundFrame
<1>25. ASSUME NEW c \in Committers, LockInsert(c) PROVE RoundInv'
  <2>1. \A w \in Workers \ {0} : Kept(w)  BY <1>25 DEF LockInsert, Kept, Posting
  <2>2. mpc' = mpc /\ \A d \in Committers : cpc'[d] = "pick" => cpc[d] = "pick" /\ idx'[d] = idx[d]
    BY <1>25 DEF LockInsert
  <2> QED  BY <1>0, <2>1, <2>2, RoundFrame
<1>26. ASSUME NEW c \in Committers, MissInsert(c) PROVE RoundInv'
  <2>1. \A w \in Workers \ {0} : Kept(w)  BY <1>26 DEF MissInsert, Kept, Posting
  <2>2. mpc' = mpc /\ \A d \in Committers : cpc'[d] = "pick" => cpc[d] = "pick" /\ idx'[d] = idx[d]
    BY <1>26 DEF MissInsert
  <2> QED  BY <1>0, <2>1, <2>2, RoundFrame
<1>27. ASSUME NEW c \in Committers, Link(c) PROVE RoundInv'
  <2>1. \A w \in Workers \ {0} : Kept(w)  BY <1>27 DEF Link, LinkAs, Kept, Posting
  <2>2. mpc' = mpc /\ \A d \in Committers : cpc'[d] = "pick" => cpc[d] = "pick" /\ idx'[d] = idx[d]
    BY <1>27 DEF Link, LinkAs
  <2> QED  BY <1>0, <2>1, <2>2, RoundFrame
<1>28. ASSUME NEW c \in Committers, PostQueue(c) PROVE RoundInv'
  <2>1. \A w \in Workers \ {0} : Kept(w)  BY <1>28 DEF PostQueue, Kept, Posting
  <2>2. mpc' = mpc /\ \A d \in Committers : cpc'[d] = "pick" => cpc[d] = "pick" /\ idx'[d] = idx[d]
    BY <1>28 DEF PostQueue
  <2> QED  BY <1>0, <2>1, <2>2, RoundFrame
<1>29. ASSUME NEW c \in Committers, LockFind(c) PROVE RoundInv'
  <2>1. \A w \in Workers \ {0} : Kept(w)  BY <1>29 DEF LockFind, Kept, Posting
  <2>2. mpc' = mpc /\ \A d \in Committers : cpc'[d] = "pick" => cpc[d] = "pick" /\ idx'[d] = idx[d]
    BY <1>29 DEF LockFind
  <2> QED  BY <1>0, <2>1, <2>2, RoundFrame
<1>30. ASSUME NEW c \in Committers, MissFind(c) PROVE RoundInv'
  <2>1. \A w \in Workers \ {0} : Kept(w)  BY <1>30 DEF MissFind, Kept, Posting
  <2>2. mpc' = mpc /\ \A d \in Committers : cpc'[d] = "pick" => cpc[d] = "pick" /\ idx'[d] = idx[d]
    BY <1>30 DEF MissFind
  <2> QED  BY <1>0, <2>1, <2>2, RoundFrame
<1>31. ASSUME NEW c \in Committers, ScanPast(c) PROVE RoundInv'
  <2>1. \A w \in Workers \ {0} : Kept(w)  BY <1>31 DEF ScanPast, Kept, Posting
  <2>2. mpc' = mpc /\ \A d \in Committers : cpc'[d] = "pick" => cpc[d] = "pick" /\ idx'[d] = idx[d]
    BY <1>31 DEF ScanPast
  <2> QED  BY <1>0, <2>1, <2>2, RoundFrame
<1>32. ASSUME NEW c \in Committers, ScanHit(c) PROVE RoundInv'
  <2>1. \A w \in Workers \ {0} : Kept(w)  BY Zenon, <1>32 DEF ScanHit, Kept, Posting
  <2>2. idx[c] \in Workers \ {0} /\ "PICK" \notin status[idx[c]] /\ mpc = "up"
    BY <1>0, <1>c, <1>32 DEF ScanHit, Eligible, PickInv
  <2>3. ~Bound(idx[c]) /\ ~AtWork(idx[c]) /\ ~Back(idx[c])  BY <2>2 DEF Bound, AtWork, Back
  <2>5. Idle(idx[c])  BY Zenon, <1>0, <2>2, <2>3 DEF RoundInv
  <2>4. mpc' = mpc /\ idx' = idx /\ cpc' = [cpc EXCEPT ![c] = "pick"]  BY <1>32 DEF ScanHit
  <2> QED  BY <1>0, <2>1, <2>2, <2>5, <2>4, RoundFrame
<1>33. ASSUME NEW c \in Committers, Pick(c) PROVE RoundInv'
  <2>1. /\ cpc[c] = "pick" /\ cpc' = [cpc EXCEPT ![c] = "wake"]
        /\ body' = [body EXCEPT ![idx[c]] = task[c]]
        /\ UNCHANGED <<mpc, wpc, sem, seen, idx>>
    BY <1>33 DEF Pick, PickAs
  <2>2. /\ "PICK" \in status'[idx[c]] /\ \A w \in Workers : w # idx[c] => status'[w] = status[w]
        /\ idx[c] \in Workers \ {0} /\ task[c] \in Tasks /\ mpc = "up"
    BY <1>0, <1>c, <1>33 DEF Pick, PickAs, PickInv, IInv, TypeInv, HandInv, InHand
  <2>3. Idle(idx[c])  BY <1>0, <2>1, <2>2 DEF RoundInv
  <2>4. Bound(idx[c])'  BY <2>1, <2>2, <2>3 DEF Idle, Bound, Posting
  <2>5. \A w \in Workers \ {0, idx[c]} : Kept(w)
    BY <2>1, <2>2 DEF Kept, Posting
  <2>6. \A w \in Workers \ {0, idx[c]} : Idle(w)' \/ Bound(w)' \/ AtWork(w)' \/ Back(w)'
    BY <1>0, <2>2, <2>5, WorkerFrame DEF RoundInv
  <2>7. \A d \in Committers : cpc'[d] # "pick"
    BY <2>1, <2>2 DEF SettledInv, TLockInv
  <2>8. \A w \in Workers \ {0} : w = idx'[c] => Bound(w)'  BY <2>1, <2>4 DEF Bound, Posting
  <2> QED  BY <2>1, <2>6, <2>7, <2>8 DEF RoundInv
<1>34. ASSUME NEW c \in Committers, PostThread(c) PROVE RoundInv'
  <2>1. /\ cpc[c] = "wake" /\ cpc' = [cpc EXCEPT ![c] = "idle"]
        /\ sem' = [sem EXCEPT ![idx[c]] = @ + 1]
        /\ UNCHANGED <<mpc, wpc, body, status, seen, idx>>
    BY <1>34 DEF PostThread, PostTo
  <2>2. idx[c] \in Workers \ {0} /\ mpc = "up" /\ Posting(c, idx[c])
    BY <1>0, <1>c, <2>1 DEF PickInv, Posting
  <2>3. Bound(idx[c]) /\ sem[idx[c]] = 0 /\ \A d \in Committers : Posting(d, idx[c]) => d = c
    <3>1. ~Idle(idx[c]) /\ ~AtWork(idx[c]) /\ ~Back(idx[c])
      BY <2>2 DEF Idle, AtWork, Back
    <3>2. Bound(idx[c])  BY Zenon, <1>0, <2>2, <3>1 DEF RoundInv
    <3>3. sem[idx[c]] = 0  BY <2>2, <3>2 DEF Bound
    <3> QED  BY <2>2, <3>2, <3>3 DEF Bound
  <2>4. \A w \in Workers \ {0} : w = idx[c] => Bound(w)'
    BY <2>1, <2>2, <2>3 DEF Bound, Posting
  <2>5. \A w \in Workers \ {0, idx[c]} : Kept(w)
    BY <2>1, <2>2 DEF Kept, Posting
  <2>6. \A w \in Workers \ {0, idx[c]} : Idle(w)' \/ Bound(w)' \/ AtWork(w)' \/ Back(w)'
    BY <1>0, <2>2, <2>5, WorkerFrame DEF RoundInv
  <2>7. ASSUME NEW d \in Committers, cpc'[d] = "pick" PROVE Idle(idx[d])'
    <3>1. cpc[d] = "pick" /\ Idle(idx[d])  BY <1>0, <2>1, <2>2, <2>7 DEF RoundInv
    <3>2. idx[d] \in Workers \ {0, idx[c]}
      BY <1>0, <2>2, <3>1 DEF PickInv, Idle
    <3> QED  BY <2>1, <3>1, <3>2 DEF Idle, Posting
  <2> QED  BY <2>1, <2>4, <2>6, <2>7 DEF RoundInv
<1>35. ASSUME NEW c \in Committers, GiveUp(c) PROVE RoundInv'
  <2>1. \A w \in Workers \ {0} : Kept(w)  BY <1>35 DEF GiveUp, Kept, Posting
  <2>2. mpc' = mpc /\ \A d \in Committers : cpc'[d] = "pick" => cpc[d] = "pick" /\ idx'[d] = idx[d]
    BY <1>35 DEF GiveUp
  <2> QED  BY <1>0, <2>1, <2>2, RoundFrame
<1>36. CASE UNCHANGED vars  BY <1>36
      DEF vars, SettledInv, RoundInv, PickInv, Idle, Bound, AtWork, Back, Posting
<1> QED
    BY Zenon, <1>1, <1>2, <1>3, <1>4, <1>5, <1>6, <1>7, <1>8, <1>9, <1>10, <1>11, <1>12,
     <1>13, <1>14, <1>15, <1>16, <1>17, <1>18, <1>19, <1>20, <1>21, <1>22, <1>23, <1>24, <1>25,
     <1>26, <1>27, <1>28, <1>29, <1>30, <1>31, <1>32, <1>33, <1>34, <1>35, <1>36
     DEF Next, StartStep, WorkerStep, CallerStep, Quiet

LEMMA NextSettledInv == Settled /\ IInv /\ SettledInv /\ [Next]_vars => SettledInv'
  BY NextStartStopInv, NextTLockInv, NextRoundInv DEF IInv, SettledInv

\* A worker that was picked is not picked again before it has freed its task,
\* whatever the callers and the workers do, if nobody commits before every
\* worker has reached its first sem_wait.
THEOREM PickIsExclusiveAlways == Settled => (Spec => PickIsExclusive)
<1> SUFFICES ASSUME Settled PROVE Spec => PickIsExclusive
  OBVIOUS
<1> DEFINE Kind == \A w \in Workers : body[w] # NoTask => body'[w] \in {body[w], NoTask}
<1>1. IInv /\ [Next]_vars => IInv'
  BY NextTypeInv, NextQLockInv, NextWakeInv DEF IInv
<1>2. IInv /\ SettledInv /\ [Next]_vars => [Kind]_vars
  <2> SUFFICES ASSUME IInv, SettledInv, Next PROVE Kind
    BY DEF vars
  <2>1. CASE \E c \in Committers : Pick(c)
    <3>1. PICK c \in Committers : Pick(c)  BY <2>1
    <3>2. idx[c] \in Workers /\ cpc[c] = "pick" /\ body' = [body EXCEPT ![idx[c]] = task[c]]
      BY <3>1, TaskCoreAssumption DEF Pick, PickAs, CGoto, IInv, TypeInv, PickInv
    <3>3. mpc = "up"
      BY <3>2 DEF SettledInv, StartInv, StopInv, Starting, IInv, TypeInv, TypeOK, MainPlaces
    <3>4. body[idx[c]] = NoTask  BY <3>2, <3>3 DEF SettledInv, RoundInv, Idle
    <3>5. body \in [Workers -> Tasks \cup {NoTask}]  BY DEF IInv, TypeInv, TypeOK
    <3> QED  BY <3>2, <3>4, <3>5
  <2>2. CASE \A c \in Committers : ~Pick(c)
    <3>1. CASE Join
      BY <3>1 DEF Join, IInv, TypeInv, TypeOK
    <3>2. ASSUME NEW w \in Workers, FinishOther(w) PROVE Kind
      BY <3>2 DEF FinishOther, FinishOtherAs, IInv, TypeInv, TypeOK
    <3>3. CASE body' = body
      BY <3>3
    <3> QED
      BY <2>2, <3>1, <3>2, <3>3
         DEF Next, StartStep, WorkerStep, CallerStep, Quiet, vars, CreateThread, CreateFails,
             SeeRunning, InitMutex, InitMutexFails, Publish, Stop, Clear, ClearAfter, Run,
             Unbusy, LockThreads, Unpick, Wake, WakeAt, Busy, CallOther, LockQueue, MissQueue,
             LeaveQueue, CallQueued, EmptyQueue, FinishQueued, Commit, LockInsert, MissInsert,
             Link, LinkAs, PostQueue, LockFind, MissFind, ScanPast, ScanHit, PostThread,
             PostTo, GiveUp
  <2> QED  BY <2>1, <2>2
<1>3. Spec => [][Kind]_vars
  BY InitIInv, InitSettledInv, <1>1, <1>2, NextSettledInv, PTL DEF Spec
<1> QED  BY <1>3 DEF PickIsExclusive

\* While the pool stops, or after a failed start, a worker is only woken with
\* a task bound to it, and worker 0 is never in hand_other_task.
Serving == {"busy", "hand", "cbk"}

ServeInv ==
    /\ \A w \in Workers : wpc[w] = "hand" => w # 0
    /\ mpc \in {"join", "down", "failed"} => \A w \in Workers \ {0} :
           /\ sem[w] > 0 => sem[w] = 1 /\ body[w] # NoTask /\ wpc[w] \notin Serving
           /\ wpc[w] \in Serving => body[w] # NoTask /\ sem[w] = 0

LEMMA NextServeInv == IInv /\ SettledInv /\ ServeInv /\ [Next]_vars => ServeInv'
<1> SUFFICES ASSUME IInv, SettledInv, ServeInv, [Next]_vars PROVE ServeInv'
  OBVIOUS
<1> USE TaskCoreAssumption
    DEF IInv, TypeInv, TypeOK, SettledInv, StartInv, StopInv, Starting, ServeInv, Serving,
        QueueStates, Goto, CGoto
<1>1. CASE CreateThread  BY <1>1 DEF CreateThread
<1>2. CASE CreateFails  BY <1>2 DEF CreateFails
<1>3. CASE SeeRunning  BY <1>3 DEF SeeRunning
<1>4. CASE InitMutex  BY <1>4 DEF InitMutex
<1>5. CASE InitMutexFails  BY <1>5 DEF InitMutexFails
<1>6. CASE Publish  BY <1>6 DEF Publish
<1>7. CASE Stop
  <2>1. ASSUME NEW w \in Workers \ {0}
        PROVE  /\ sem[w] > 0 => sem[w] = 1 /\ body[w] # NoTask /\ wpc[w] \notin Serving
               /\ wpc[w] \in Serving => body[w] # NoTask /\ sem[w] = 0
    <3>1. Idle(w) \/ Bound(w) \/ AtWork(w) \/ Back(w)  BY <1>7 DEF Stop, RoundInv
    <3>2. CASE Idle(w)  BY <3>2 DEF Idle
    <3>3. CASE Bound(w)  BY <3>3 DEF Bound
    <3>4. CASE AtWork(w)  BY <3>4 DEF AtWork
    <3>5. CASE Back(w)  BY <3>5 DEF Back
    <3> QED  BY <3>1, <3>2, <3>3, <3>4, <3>5
  <2> QED  BY <1>7, <2>1 DEF Stop
<1>8. CASE Join  BY <1>8 DEF Join
<1>9. CASE Clear  BY <1>9 DEF Clear, ClearAfter
<1>10. ASSUME NEW w \in Workers, Run(w) PROVE ServeInv'  BY <1>10 DEF Run
<1>11. ASSUME NEW w \in Workers, Unbusy(w) PROVE ServeInv'  BY <1>11 DEF Unbusy
<1>12. ASSUME NEW w \in Workers, LockThreads(w) PROVE ServeInv'  BY <1>12 DEF LockThreads
<1>13. ASSUME NEW w \in Workers, Unpick(w) PROVE ServeInv'  BY <1>13 DEF Unpick
<1>14. ASSUME NEW w \in Workers, Wake(w) PROVE ServeInv'  BY <1>14 DEF Wake, WakeAt
<1>15. ASSUME NEW w \in Workers, Busy(w) PROVE ServeInv'  BY <1>15 DEF Busy
<1>16. ASSUME NEW w \in Workers, CallOther(w) PROVE ServeInv'  BY <1>16 DEF CallOther
<1>17. ASSUME NEW w \in Workers, FinishOther(w) PROVE ServeInv'  BY <1>17 DEF FinishOther,
     FinishOtherAs
<1>18. ASSUME NEW w \in Workers, LockQueue(w) PROVE ServeInv'  BY <1>18 DEF LockQueue
<1>19. ASSUME NEW w \in Workers, MissQueue(w) PROVE ServeInv'  BY <1>19 DEF MissQueue
<1>20. ASSUME NEW w \in Workers, LeaveQueue(w) PROVE ServeInv'  BY <1>20 DEF LeaveQueue
<1>21. ASSUME NEW w \in Workers, CallQueued(w) PROVE ServeInv'
  BY <1>21 DEF CallQueued, QLockInv, QueueStates
<1>22. ASSUME NEW w \in Workers, EmptyQueue(w) PROVE ServeInv'  BY <1>22 DEF EmptyQueue
<1>23. ASSUME NEW w \in Workers, FinishQueued(w) PROVE ServeInv'  BY <1>23 DEF FinishQueued
<1>24. ASSUME NEW c \in Committers, NEW t \in Tasks, Commit(c, t) PROVE ServeInv'
  BY <1>24 DEF Commit
<1>25. ASSUME NEW c \in Committers, LockInsert(c) PROVE ServeInv'  BY <1>25 DEF LockInsert
<1>26. ASSUME NEW c \in Committers, MissInsert(c) PROVE ServeInv'  BY <1>26 DEF MissInsert
<1>27. ASSUME NEW c \in Committers, Link(c) PROVE ServeInv'  BY <1>27 DEF Link, LinkAs
<1>28. ASSUME NEW c \in Committers, PostQueue(c) PROVE ServeInv'  BY <1>28 DEF PostQueue
<1>29. ASSUME NEW c \in Committers, LockFind(c) PROVE ServeInv'  BY <1>29 DEF LockFind
<1>30. ASSUME NEW c \in Committers, MissFind(c) PROVE ServeInv'  BY <1>30 DEF MissFind
<1>31. ASSUME NEW c \in Committers, ScanPast(c) PROVE ServeInv'  BY <1>31 DEF ScanPast
<1>32. ASSUME NEW c \in Committers, ScanHit(c) PROVE ServeInv'  BY <1>32 DEF ScanHit
<1>33. ASSUME NEW c \in Committers, Pick(c) PROVE ServeInv'  BY <1>33 DEF Pick, PickAs
<1>34. ASSUME NEW c \in Committers, PostThread(c) PROVE ServeInv'  BY <1>34 DEF PostThread,
     PostTo
<1>35. ASSUME NEW c \in Committers, GiveUp(c) PROVE ServeInv'  BY <1>35 DEF GiveUp
<1>36. CASE UNCHANGED vars  BY <1>36 DEF vars
<1> QED
    BY Zenon, <1>1, <1>2, <1>3, <1>4, <1>5, <1>6, <1>7, <1>8, <1>9, <1>10, <1>11, <1>12,
     <1>13, <1>14, <1>15, <1>16, <1>17, <1>18, <1>19, <1>20, <1>21, <1>22, <1>23, <1>24, <1>25,
     <1>26, <1>27, <1>28, <1>29, <1>30, <1>31, <1>32, <1>33, <1>34, <1>35, <1>36
     DEF Next, StartStep, WorkerStep, CallerStep, Quiet

\* Under the same condition hand_other_task never finds a NULL body.
THEOREM NeverCrashesAlways == Settled => (Spec => []NeverCrashes)
<1> SUFFICES ASSUME Settled PROVE Spec => []NeverCrashes
  OBVIOUS
<1>1. IInv /\ [Next]_vars => IInv'
  BY NextTypeInv, NextQLockInv, NextWakeInv DEF IInv
<1>2. Init => ServeInv  BY DEF Init, ServeInv, Serving
<1>3. IInv /\ SettledInv /\ ServeInv => NeverCrashes
  <2> SUFFICES ASSUME IInv, SettledInv, ServeInv, NEW w \in Workers, wpc[w] = "hand"
               PROVE  body[w] # NoTask
    BY DEF NeverCrashes, Crashed
  <2>1. CASE Starting  BY <2>1 DEF SettledInv, StartInv
  <2>2. CASE mpc = "up"
    BY <2>2 DEF SettledInv, RoundInv, ServeInv, Idle, Bound, AtWork, Back
  <2>3. CASE mpc \in {"join", "down", "failed"}  BY <2>3 DEF ServeInv, Serving
  <2> QED  BY <2>1, <2>2, <2>3 DEF Starting, IInv, TypeInv, TypeOK, MainPlaces
<1> QED
  BY InitIInv, InitSettledInv, <1>1, <1>2, <1>3, NextSettledInv, NextServeInv, PTL DEF Spec

-------------------------------------------------------------------------------
(***************************************************************************)
(* Where every body is.  A caller carries the body it has allocated until  *)
(* it queues it, binds it to a worker or frees it; HomeInv says that a     *)
(* body has one such place, and RunInv that its callback has been called   *)
(* only if it has come further than that.                                  *)
(***************************************************************************)
QueueCalls == {"ins1", "ins2", "link"}
OnceCalls == {"find1", "find2", "scan", "pick"}

\* Tasks of either type go their own way: through the queue to worker 0, or to
\* a worker of their own, which calls the task that is bound to it.
CallerInv == \A c \in Committers :
    /\ cpc[c] \in QueueCalls => task[c] \in QueueTasks
    /\ cpc[c] \in OnceCalls => task[c] \in OnceTasks
    /\ cpc[c] \notin QueueCalls \cup OnceCalls => task[c] = NoTask

LineInv == \A i \in DOMAIN queue : queue[i] \in QueueTasks

WorkInv ==
    /\ body[0] = NoTask /\ cur[0] \in QueueTasks \cup {NoTask}
    /\ \A w \in Workers :
           /\ body[w] \in OnceTasks \cup {NoTask}
           /\ cur[w] # NoTask <=> wpc[w] = "cbk"
           /\ w # 0 => cur[w] \in {NoTask, body[w]}

KindInv == CallerInv /\ LineInv /\ WorkInv

\* All that is known of the workers and their locks.
RoundsInv == IInv /\ SettledInv /\ ServeInv

LEMMA InitKindInv == Init => KindInv
  BY TaskCoreAssumption DEF Init, KindInv, CallerInv, LineInv, WorkInv, QueueCalls, OnceCalls

LEMMA NextCallerInv ==
    ASSUME TypeInv, CallerInv, [Next]_vars
    PROVE  CallerInv'
<1>a. /\ cpc \in [Committers -> CallerPlaces]
      /\ task \in [Committers -> Tasks \cup {NoTask}]
  BY DEF TypeInv, TypeOK
<1>1. CASE UNCHANGED <<cpc, task>>  BY <1>1 DEF CallerInv
<1>2. CASE StartStep \/ CreateFails \/ InitMutexFails \/ Stop \/ Quiet
  <2>1. UNCHANGED callerVars
    BY <1>2 DEF StartStep, CreateThread, CreateFails, SeeRunning, InitMutex, InitMutexFails,
                Publish, Stop, Join, Clear, ClearAfter, Quiet, vars, callerVars
  <2> QED  BY <1>1, <2>1 DEF callerVars
<1>3. ASSUME NEW w \in Workers, WorkerStep(w) PROVE CallerInv'
  <2>1. UNCHANGED callerVars
    BY <1>3 DEF WorkerStep, Run, Unbusy, LockThreads, Unpick, Wake, WakeAt, Busy, CallOther,
                FinishOther, FinishOtherAs, LockQueue, MissQueue, LeaveQueue, CallQueued,
                EmptyQueue, FinishQueued, callerVars
  <2> QED  BY <1>1, <2>1 DEF callerVars
<1>4. ASSUME NEW c \in Committers, CallerStep(c) \/ \E t \in Tasks : Commit(c, t)
      PROVE  CallerInv'
  BY <1>4, <1>a, TaskCoreAssumption
     DEF CGoto, CallerStep, Commit, LockInsert, MissInsert, Link, LinkAs, PostQueue, LockFind,
         MissFind, ScanPast, ScanHit, Pick, PickAs, PostThread, PostTo, GiveUp, CallerInv,
         QueueCalls, OnceCalls
<1>5. CASE UNCHANGED vars  BY <1>1, <1>5 DEF vars
<1> QED  BY <1>2, <1>3, <1>4, <1>5 DEF Next

\* A task is in the hands of a caller, in the queue, or with a worker.
Carried(t) == \E c \in Committers : task[c] = t
Queued(t) == \E i \in DOMAIN queue : queue[i] = t
With(t, w) == t \in {body[w], cur[w]}
Served(t) == \E w \in Workers : With(t, w)

OnceQueued(t) == \A i, j \in DOMAIN queue : queue[i] = t /\ queue[j] = t => i = j

\* What linking a task and taking the first one do to the queue.
LEMMA AppendQueues ==
    ASSUME queue \in Seq(Tasks), NEW t \in Tasks, queue' = Append(queue, t)
    PROVE  /\ queue' \in Seq(Tasks)
           /\ \A u : Queued(u)' <=> Queued(u) \/ u = t
           /\ \A u : OnceQueued(u) /\ (u = t => ~Queued(u)) => OnceQueued(u)'
<1> DEFINE k == Len(queue)
           q == queue'
<1>1. k \in Nat /\ DOMAIN queue = 1 .. k  BY LenProperties
<1>2. /\ q \in Seq(Tasks) /\ Len(q) = k + 1 /\ q[k + 1] = t
      /\ \A i \in 1 .. k : q[i] = queue[i]
  BY AppendProperties
<1>3. DOMAIN q = 1 .. k + 1  BY <1>2, LenProperties
<1>4. ASSUME NEW i \in DOMAIN q PROVE i = k + 1 \/ i \in DOMAIN queue
  BY <1>1, <1>3, SMT
<1>5. DOMAIN queue \subseteq DOMAIN q /\ k + 1 \in DOMAIN q  BY <1>1, <1>3, SMT
<1>6. ASSUME NEW u PROVE Queued(u)' <=> Queued(u) \/ u = t
  <2>1. Queued(u)' <=> \E i \in DOMAIN q : q[i] = u  BY DEF Queued
  <2> HIDE DEF q
  <2> QED  BY <1>1, <1>2, <1>4, <1>5, <2>1 DEF Queued
<1>7. ASSUME NEW u, OnceQueued(u), u = t => ~Queued(u) PROVE OnceQueued(u)'
  <2>1. OnceQueued(u)' <=> \A i, j \in DOMAIN q : q[i] = u /\ q[j] = u => i = j
    BY DEF OnceQueued
  <2> HIDE DEF q
  <2>2. ASSUME NEW i \in DOMAIN q, NEW j \in DOMAIN q, q[i] = u, q[j] = u PROVE i = j
    <3>1. CASE u = t
      <4>1. ASSUME NEW l \in DOMAIN q, q[l] = u PROVE l = k + 1
        BY <1>1, <1>2, <1>4, <1>7, <3>1, <4>1 DEF Queued
      <4> QED  BY <2>2, <4>1
    <3>2. CASE u # t
      <4>1. i \in DOMAIN queue /\ j \in DOMAIN queue  BY <1>2, <1>4, <2>2, <3>2
      <4> QED  BY <1>1, <1>2, <1>7, <2>2, <4>1 DEF OnceQueued
    <3> QED  BY <3>1, <3>2
  <2> QED  BY <2>1, <2>2
<1> QED  BY <1>2, <1>6, <1>7

LEMMA TailQueues ==
    ASSUME queue \in Seq(Tasks), queue # <<>>, queue' = Tail(queue)
    PROVE  /\ queue' \in Seq(Tasks) /\ Head(queue) \in Tasks /\ Queued(Head(queue))
           /\ \A u : Queued(u)' => Queued(u)
           /\ \A u : u # Head(queue) /\ Queued(u) => Queued(u)'
           /\ OnceQueued(Head(queue)) => \A u : u = Head(queue) => ~Queued(u)'
           /\ \A u : OnceQueued(u) => OnceQueued(u)'
<1> DEFINE k == Len(queue)
           q == queue'
<1>1. k \in Nat /\ DOMAIN queue = 1 .. k /\ k # 0
  BY LenProperties, EmptySeq
<1>2. /\ q \in Seq(Tasks) /\ Len(q) = k - 1 /\ Head(queue) \in Tasks
      /\ \A i \in 1 .. k - 1 : q[i] = queue[i + 1]
  BY HeadTailProperties
<1>3. DOMAIN q = 1 .. k - 1  BY <1>2, LenProperties
<1>4. Head(queue) = queue[1] /\ 1 \in DOMAIN queue  BY <1>1, SMT
<1>5. ASSUME NEW i \in DOMAIN q
      PROVE  i + 1 \in DOMAIN queue /\ i + 1 # 1 /\ q[i] = queue[i + 1] /\ i \in Nat
  BY <1>1, <1>2, <1>3, SMT
<1>6. ASSUME NEW i \in DOMAIN queue, i # 1
      PROVE  i - 1 \in DOMAIN q /\ q[i - 1] = queue[i]
  <2>1. i - 1 \in 1 .. k - 1 /\ i - 1 + 1 = i  BY <1>1, <1>6, SMT
  <2> QED  BY <1>2, <1>3, <2>1
<1>7. /\ \A u : Queued(u)' <=> \E i \in DOMAIN q : q[i] = u
      /\ \A u : OnceQueued(u)' <=> \A i, j \in DOMAIN q : q[i] = u /\ q[j] = u => i = j
  BY DEF Queued, OnceQueued
<1> HIDE DEF q
<1>8. \A u : Queued(u)' => Queued(u)  BY <1>5, <1>7 DEF Queued
<1>9. \A u : u # Head(queue) /\ Queued(u) => Queued(u)'  BY <1>4, <1>6, <1>7 DEF Queued
<1>10. ASSUME OnceQueued(Head(queue)), NEW u, u = Head(queue), Queued(u)' PROVE FALSE
  <2>1. PICK i \in DOMAIN q : q[i] = Head(queue)  BY <1>7, <1>10
  <2> QED  BY <1>4, <1>5, <1>10, <2>1 DEF OnceQueued
<1>11. ASSUME NEW u, OnceQueued(u) PROVE OnceQueued(u)'
  <2>1. ASSUME NEW i \in DOMAIN q, NEW j \in DOMAIN q, q[i] = u, q[j] = u PROVE i = j
    <3>1. i + 1 = j + 1  BY <1>5, <1>11, <2>1 DEF OnceQueued
    <3> QED  BY <1>5, <3>1, SMT
  <2> QED  BY <1>7, <2>1
<1> QED  BY <1>2, <1>4, <1>8, <1>9, <1>10, <1>11 DEF q, Queued

LEMMA NextLineInv ==
    ASSUME TypeInv, CallerInv, LineInv, [Next]_vars
    PROVE  LineInv'
<1>a. queue \in Seq(Tasks)  BY DEF TypeInv, TypeOK
<1>1. CASE queue' = queue  BY <1>1 DEF LineInv
<1>2. CASE queue' = <<>>
  <2>1. DOMAIN queue' = {}  BY <1>2
  <2> QED  BY <2>1 DEF LineInv
<1>3. ASSUME NEW c \in Committers, Link(c) PROVE LineInv'
  <2>1. task[c] \in QueueTasks /\ queue' = Append(queue, task[c])
    BY <1>3 DEF Link, LinkAs, CGoto, CallerInv, QueueCalls
  <2>2. \A u : Queued(u)' => Queued(u) \/ u = task[c]  BY <1>a, <2>1, AppendQueues
  <2> QED  BY <2>1, <2>2 DEF LineInv, Queued
<1>4. ASSUME NEW w \in Workers, CallQueued(w) PROVE LineInv'
  <2>1. queue # <<>> /\ queue' = Tail(queue)  BY <1>4 DEF CallQueued
  <2>2. \A u : Queued(u)' => Queued(u)  BY <1>a, <2>1, TailQueues
  <2> QED  BY <2>2 DEF LineInv, Queued
<1>5. CASE StartStep \/ CreateFails \/ InitMutexFails \/ Stop \/ Quiet
  <2>1. queue' = queue \/ queue' = <<>>
    BY <1>5 DEF StartStep, CreateThread, CreateFails, SeeRunning, InitMutex, InitMutexFails,
                Publish, Stop, Join, Clear, ClearAfter, Quiet, vars
  <2> QED  BY <1>1, <1>2, <2>1
<1>6. ASSUME NEW w \in Workers, WorkerStep(w), ~CallQueued(w) PROVE LineInv'
  <2>1. queue' = queue
    BY <1>6 DEF WorkerStep, Run, Unbusy, LockThreads, Unpick, Wake, WakeAt, Busy, CallOther,
                FinishOther, FinishOtherAs, LockQueue, MissQueue, LeaveQueue, EmptyQueue,
                FinishQueued
  <2> QED  BY <1>1, <2>1
<1>7. ASSUME NEW c \in Committers, CallerStep(c) \/ \E t \in Tasks : Commit(c, t), ~Link(c)
      PROVE  LineInv'
  <2>1. queue' = queue
    BY <1>7 DEF CallerStep, Commit, LockInsert, MissInsert, PostQueue, LockFind, MissFind,
                ScanPast, ScanHit, Pick, PickAs, PostThread, PostTo, GiveUp
  <2> QED  BY <1>1, <2>1
<1>8. CASE UNCHANGED vars  BY <1>1, <1>8 DEF vars
<1> QED  BY <1>3, <1>4, <1>5, <1>6, <1>7, <1>8 DEF Next

\* A caller binds its task to an idle worker.
LEMMA PickIdle ==
    ASSUME RoundsInv, CallerInv, NEW c \in Committers, Pick(c)
    PROVE  /\ idx[c] \in Workers \ {0} /\ Idle(idx[c]) /\ mpc = "up"
           /\ task[c] \in OnceTasks /\ task[c] \in Tasks
           /\ body' = [body EXCEPT ![idx[c]] = task[c]]
           /\ task' = [task EXCEPT ![c] = NoTask]
           /\ lost' = lost
           /\ UNCHANGED <<mpc, wpc, queue, cur, runs, frees>>
<1>1. cpc[c] = "pick"  BY DEF Pick, PickAs, CGoto
<1>2. idx[c] \in Workers \ {0}
  BY <1>1, TaskCoreAssumption DEF RoundsInv, IInv, TypeInv, PickInv
<1>3. mpc = "up"
  BY <1>1 DEF RoundsInv, SettledInv, StartInv, StopInv, Starting, IInv, TypeInv, TypeOK,
              MainPlaces
<1>4. Idle(idx[c])  BY <1>1, <1>3 DEF RoundsInv, SettledInv, RoundInv
<1>5. task[c] \in OnceTasks  BY <1>1 DEF CallerInv, OnceCalls
<1>6. lost' = lost
  <2>1. body[idx[c]] = NoTask  BY <1>4 DEF Idle
  <2> QED  BY <2>1 DEF Pick, PickAs
<1> QED  BY <1>2, <1>3, <1>4, <1>5, <1>6 DEF Pick, PickAs

LEMMA NextWorkInv ==
    ASSUME RoundsInv, KindInv, [Next]_vars
    PROVE  WorkInv'
<1>a. /\ wpc \in [Workers -> WorkerPlaces]
      /\ body \in [Workers -> Tasks \cup {NoTask}]
      /\ cur \in [Workers -> Tasks \cup {NoTask}]
      /\ queue \in Seq(Tasks)
  BY DEF RoundsInv, IInv, TypeInv, TypeOK
<1>b. 0 \in Workers /\ NoTask \notin Tasks  BY TaskCoreAssumption
<1>c. WorkInv  BY DEF KindInv
<1> USE <1>a, <1>b DEF Goto
<1>1. CASE CreateThread
  <2>1. made \in Workers /\ wpc[made] = "none"
    BY <1>1, TaskCoreAssumption DEF CreateThread, RoundsInv, IInv, TypeInv, TypeOK, QLockInv
  <2>2. wpc' = [wpc EXCEPT ![made] = "start"] /\ UNCHANGED <<body, cur>>
    BY <1>1 DEF CreateThread
  <2> QED  BY <1>c, <2>1, <2>2 DEF WorkInv
<1>2. CASE Join
  <2>1. /\ wpc' = [wpc EXCEPT ![made] = "dead"]
        /\ body' = [body EXCEPT ![made] = NoTask] /\ cur' = [cur EXCEPT ![made] = NoTask]
    BY <1>2 DEF Join
  <2> QED  BY <1>c, <2>1 DEF WorkInv
<1>3. CASE UNCHANGED <<wpc, body, cur>>  BY <1>c, <1>3 DEF WorkInv
<1>4. ASSUME NEW w \in Workers, NEW to \in WorkerPlaces \ {"cbk"}, wpc[w] # "cbk",
             wpc' = [wpc EXCEPT ![w] = to], UNCHANGED <<body, cur>>
      PROVE  WorkInv'
  BY <1>c, <1>4 DEF WorkInv
<1>5. ASSUME NEW w \in Workers, CallOther(w) PROVE WorkInv'
  <2>1. w # 0  BY <1>5 DEF CallOther, RoundsInv, ServeInv
  <2>2. /\ wpc' = [wpc EXCEPT ![w] = "cbk"] /\ cur' = [cur EXCEPT ![w] = body[w]]
        /\ body' = body /\ body[w] # NoTask
    BY <1>5 DEF CallOther
  <2> QED  BY <1>c, <2>1, <2>2 DEF WorkInv
<1>6. ASSUME NEW w \in Workers, FinishOther(w) PROVE WorkInv'
  <2>1. /\ w # 0 /\ wpc' = [wpc EXCEPT ![w] = "unbusy"]
        /\ body' = [body EXCEPT ![w] = NoTask] /\ cur' = [cur EXCEPT ![w] = NoTask]
    BY <1>6 DEF FinishOther, FinishOtherAs
  <2> QED  BY <1>c, <2>1 DEF WorkInv
<1>7. ASSUME NEW w \in Workers, CallQueued(w) PROVE WorkInv'
  <2>1. w = 0  BY <1>7 DEF CallQueued, RoundsInv, IInv, QLockInv, QueueStates
  <2>2. /\ wpc' = [wpc EXCEPT ![0] = "cbk"] /\ cur' = [cur EXCEPT ![0] = Head(queue)]
        /\ body' = body /\ queue # <<>> /\ queue' = Tail(queue)
    BY <1>7, <2>1 DEF CallQueued
  <2>3. Queued(Head(queue)) /\ Head(queue) \in Tasks  BY <2>2, TailQueues
  <2>4. Head(queue) \in QueueTasks  BY <2>3 DEF KindInv, LineInv, Queued
  <2> HIDE DEF Tasks
  <2> QED  BY <1>c, <2>2, <2>3, <2>4 DEF WorkInv
<1>8. ASSUME NEW w \in Workers, FinishQueued(w) PROVE WorkInv'
  <2>1. /\ wpc' = [wpc EXCEPT ![w] = "try1"] /\ cur' = [cur EXCEPT ![w] = NoTask]
        /\ body' = body
    BY <1>8 DEF FinishQueued
  <2> QED  BY <1>c, <2>1 DEF WorkInv
<1>9. ASSUME NEW c \in Committers, Pick(c) PROVE WorkInv'
  <2>1. /\ idx[c] \in Workers \ {0} /\ Idle(idx[c]) /\ task[c] \in OnceTasks
        /\ body' = [body EXCEPT ![idx[c]] = task[c]] /\ UNCHANGED <<wpc, cur>>
    BY <1>9, PickIdle DEF KindInv
  <2>2. cur[idx[c]] = NoTask  BY <1>c, <2>1 DEF Idle, WorkInv
  <2> QED  BY <1>c, <2>1, <2>2 DEF WorkInv
<1>10. CASE (StartStep /\ ~CreateThread /\ ~Join) \/ CreateFails \/ InitMutexFails \/ Stop
            \/ Quiet
  <2>1. UNCHANGED <<wpc, body, cur>>
    BY <1>10 DEF StartStep, CreateFails, SeeRunning, InitMutex, InitMutexFails,
                 Publish, Stop, Clear, ClearAfter, Quiet, vars
  <2> QED  BY <1>3, <2>1
<1>11. ASSUME NEW w \in Workers,
              \/ Run(w) \/ Unbusy(w) \/ LockThreads(w) \/ Unpick(w) \/ Wake(w) \/ Busy(w)
              \/ LockQueue(w) \/ MissQueue(w) \/ LeaveQueue(w) \/ EmptyQueue(w)
       PROVE  WorkInv'
  <2>1. /\ \E to \in WorkerPlaces \ {"cbk"} : wpc' = [wpc EXCEPT ![w] = to]
        /\ wpc[w] # "cbk" /\ UNCHANGED <<body, cur>>
    BY <1>11 DEF Run, Unbusy, LockThreads, Unpick, Wake, WakeAt, Busy, LockQueue, MissQueue,
                 LeaveQueue, EmptyQueue, WorkerPlaces
  <2> QED  BY <1>4, <2>1
<1>12. ASSUME NEW c \in Committers, CallerStep(c) \/ \E t \in Tasks : Commit(c, t), ~Pick(c)
       PROVE  WorkInv'
  <2>1. UNCHANGED <<wpc, body, cur>>
    BY <1>12 DEF CallerStep, Commit, LockInsert, MissInsert, Link, LinkAs, PostQueue, LockFind,
                 MissFind, ScanPast, ScanHit, PostThread, PostTo, GiveUp
  <2> QED  BY <1>3, <2>1
<1>13. CASE UNCHANGED vars  BY <1>3, <1>13 DEF vars
<1> QED
  BY Zenon, <1>1, <1>2, <1>5, <1>6, <1>7, <1>8, <1>9, <1>10, <1>11, <1>12, <1>13
     DEF Next, StartStep, WorkerStep

LEMMA NextKindInv ==
    ASSUME RoundsInv, KindInv, [Next]_vars
    PROVE  KindInv'
BY NextCallerInv, NextLineInv, NextWorkInv DEF KindInv, RoundsInv, IInv

\* A body is in one place at most, and is freed once.
OneHome(t) ==
    /\ \A c, d \in Committers : task[c] = t /\ task[d] = t => c = d
    /\ OnceQueued(t)
    /\ \A v, w \in Workers : With(t, v) /\ With(t, w) => v = w
    /\ frees[t] \in {0, 1}
    /\ Carried(t) => ~Queued(t) /\ ~Served(t) /\ frees[t] = 0 /\ t \notin lost
    /\ Queued(t) => ~Served(t) /\ frees[t] = 0 /\ t \notin lost
    /\ Served(t) => frees[t] = 0 /\ t \notin lost
    /\ frees[t] = 1 => t \notin lost

HomeInv == \A t \in Tasks : OneHome(t)

\* A callback has been called when its task is in a worker's hands or behind it.
RunInv ==
    /\ \A t \in Tasks : runs[t] > 0 =>
           frees[t] = 1 \/ t \in lost \/ \E w \in Workers : cur[w] = t
    /\ \A w \in Workers : cur[w] # NoTask => runs[cur[w]] > 0

\* A step that a task has no part in.
LEMMA HomeFrame ==
    ASSUME NEW t \in Tasks, OneHome(t),
           \A c \in Committers : task'[c] = t <=> task[c] = t,
           OnceQueued(t)', Queued(t)' <=> Queued(t),
           \A w \in Workers : With(t, w)' <=> With(t, w),
           frees'[t] = frees[t], t \in lost' <=> t \in lost
    PROVE  OneHome(t)'
<1>1. (Carried(t)' <=> Carried(t)) /\ (Served(t)' <=> Served(t))  BY DEF Carried, Served
<1> QED  BY Zenon, <1>1 DEF OneHome

LEMMA RunFrame ==
    ASSUME RunInv, UNCHANGED <<runs, frees, cur>>, lost \subseteq lost'
    PROVE  RunInv'
BY DEF RunInv

LEMMA CommitKeepsHome ==
    ASSUME RoundsInv, KindInv, HomeInv, RunInv, NEW c \in Committers, NEW t \in Tasks,
           Commit(c, t)
    PROVE  HomeInv' /\ RunInv'
<1>1. /\ task \in [Committers -> Tasks \cup {NoTask}]
      /\ runs \in [Tasks -> Nat] /\ frees \in [Tasks -> Nat] /\ NoTask \notin Tasks
  BY TaskCoreAssumption DEF RoundsInv, IInv, TypeInv, TypeOK
<1>2. /\ cpc[c] = "idle" /\ task' = [task EXCEPT ![c] = t] /\ t \notin Committed
      /\ UNCHANGED <<queue, body, cur, runs, frees, lost>>
  BY DEF Commit, CGoto
<1>3. task[c] = NoTask  BY <1>2 DEF KindInv, CallerInv, QueueCalls, OnceCalls
<1>4. /\ ~(runs[t] + frees[t] > 0) /\ t \notin lost /\ ~Queued(t)
      /\ \A d \in Committers : task[d] # t
      /\ \A w \in Workers : ~With(t, w)
  BY <1>2 DEF Committed, Queued, With
<1>5. frees[t] = 0  BY <1>1, <1>4, SMT
<1>6. ASSUME NEW u \in Tasks, u # t PROVE OneHome(u)'
  <2>1. \A d \in Committers : task'[d] = u <=> task[d] = u  BY <1>1, <1>2, <1>3, <1>6
  <2>2. OnceQueued(u)' /\ (Queued(u)' <=> Queued(u))
    BY <1>2 DEF HomeInv, OneHome, OnceQueued, Queued
  <2>3. \A w \in Workers : With(u, w)' <=> With(u, w)  BY <1>2 DEF With
  <2> QED  BY <1>2, <2>1, <2>2, <2>3, HomeFrame DEF HomeInv
<1>7. OneHome(t)'
  <2>1. \A d \in Committers : task'[d] = t => d = c  BY <1>1, <1>2, <1>4
  <2>2. /\ ~Queued(t)' /\ OnceQueued(t)' /\ \A w \in Workers : ~With(t, w)'
        /\ frees'[t] = 0 /\ t \notin lost'
    BY <1>2, <1>4, <1>5 DEF Queued, OnceQueued, With
  <2> QED  BY <2>1, <2>2 DEF OneHome, Served
<1>8. RunInv'  BY <1>2, RunFrame
<1> QED  BY <1>6, <1>7, <1>8 DEF HomeInv

LEMMA LinkKeepsHome ==
    ASSUME RoundsInv, KindInv, HomeInv, RunInv, NEW c \in Committers, Link(c)
    PROVE  HomeInv' /\ RunInv'
<1> DEFINE t == task[c]
<1>1. /\ task \in [Committers -> Tasks \cup {NoTask}] /\ queue \in Seq(Tasks)
      /\ NoTask \notin Tasks
  BY TaskCoreAssumption DEF RoundsInv, IInv, TypeInv, TypeOK
<1>2. /\ cpc[c] = "link" /\ task' = [task EXCEPT ![c] = NoTask]
      /\ queue' = Append(queue, task[c])
      /\ UNCHANGED <<body, cur, runs, frees, lost>>
  BY DEF Link, LinkAs, CGoto
<1>3. PICK b \in Tasks : b = task[c]
  BY <1>2 DEF KindInv, CallerInv, QueueCalls
<1>4. /\ OneHome(b) /\ Carried(b) /\ ~Queued(b) /\ ~Served(b) /\ frees[b] = 0 /\ b \notin lost
      /\ \A d \in Committers : task[d] = b => d = c
  BY <1>3 DEF HomeInv, OneHome, Carried
<1>5. /\ \A u : Queued(u)' <=> Queued(u) \/ u = b
      /\ \A u : OnceQueued(u) /\ (u = b => ~Queued(u)) => OnceQueued(u)'
  BY <1>1, <1>2, <1>3, AppendQueues
<1>6. ASSUME NEW u \in Tasks, u # b PROVE OneHome(u)'
  <2>1. \A d \in Committers : task'[d] = u <=> task[d] = u
    BY <1>1, <1>2, <1>3, <1>6
  <2>2. OnceQueued(u)' /\ (Queued(u)' <=> Queued(u))
    BY <1>5, <1>6 DEF HomeInv, OneHome
  <2>3. \A w \in Workers : With(u, w)' <=> With(u, w)  BY <1>2 DEF With
  <2> QED  BY <1>2, <2>1, <2>2, <2>3, HomeFrame DEF HomeInv
<1>7. OneHome(b)'
  <2>1. \A d \in Committers : task'[d] # b  BY <1>1, <1>2, <1>3, <1>4
  <2>2. ~Carried(b)'  BY <2>1 DEF Carried
  <2>3. OnceQueued(b)'  BY <1>4, <1>5 DEF OneHome
  <2>4. /\ \A w \in Workers : ~With(b, w)'
        /\ frees'[b] = 0 /\ b \notin lost'
    BY <1>2, <1>4 DEF With, Served
  <2> QED  BY <2>1, <2>2, <2>3, <2>4 DEF OneHome, Served
<1>8. RunInv'  BY <1>2, RunFrame
<1> QED  BY <1>6, <1>7, <1>8 DEF HomeInv

LEMMA PickKeepsHome ==
    ASSUME RoundsInv, KindInv, HomeInv, RunInv, NEW c \in Committers, Pick(c)
    PROVE  HomeInv' /\ RunInv'
<1>1. /\ task \in [Committers -> Tasks \cup {NoTask}]
      /\ body \in [Workers -> Tasks \cup {NoTask}]
      /\ NoTask \notin Tasks
  BY TaskCoreAssumption DEF RoundsInv, IInv, TypeInv, TypeOK
<1>2. /\ idx[c] \in Workers \ {0} /\ body[idx[c]] = NoTask
      /\ body' = [body EXCEPT ![idx[c]] = task[c]]
      /\ task' = [task EXCEPT ![c] = NoTask]
      /\ UNCHANGED <<queue, cur, runs, frees, lost>>
  BY PickIdle DEF KindInv, Idle
<1>3. PICK b \in Tasks : b = task[c]  BY PickIdle DEF KindInv
<1>4. /\ OneHome(b) /\ Carried(b) /\ ~Queued(b) /\ ~Served(b) /\ frees[b] = 0 /\ b \notin lost
      /\ \A d \in Committers : task[d] = b => d = c
  BY <1>3 DEF HomeInv, OneHome, Carried
<1>5. \A u : (Queued(u)' <=> Queued(u)) /\ (OnceQueued(u)' <=> OnceQueued(u))
  BY <1>2 DEF Queued, OnceQueued
<1>6. ASSUME NEW u \in Tasks, u # b PROVE OneHome(u)'
  <2>1. \A d \in Committers : task'[d] = u <=> task[d] = u
    BY <1>1, <1>2, <1>3, <1>6
  <2>2. OnceQueued(u)' /\ (Queued(u)' <=> Queued(u))
    BY <1>5 DEF HomeInv, OneHome
  <2>3. \A w \in Workers : With(u, w)' <=> With(u, w)  BY <1>1, <1>2, <1>3, <1>6 DEF With
  <2> QED  BY <1>2, <2>1, <2>2, <2>3, HomeFrame DEF HomeInv
<1>7. OneHome(b)'
  <2>1. \A d \in Committers : task'[d] # b  BY <1>1, <1>2, <1>3, <1>4
  <2>2. ~Carried(b)'  BY <2>1 DEF Carried
  <2>3. OnceQueued(b)' /\ ~Queued(b)'  BY <1>4, <1>5 DEF OneHome
  <2>4. \A w \in Workers : With(b, w)' => w = idx[c]
    BY <1>1, <1>2, <1>4 DEF With, Served
  <2>5. frees'[b] = 0 /\ b \notin lost'  BY <1>2, <1>4
  <2> QED  BY <2>1, <2>2, <2>3, <2>4, <2>5 DEF OneHome
<1>8. RunInv'  BY <1>2, RunFrame
<1> QED  BY <1>6, <1>7, <1>8 DEF HomeInv

\* What is given up is freed.
LEMMA GiveUpDoes ==
    ASSUME RoundsInv, KindInv, NEW c \in Committers, GiveUp(c)
    PROVE  /\ task[c] \in Tasks
           /\ task' = [task EXCEPT ![c] = NoTask]
           /\ frees' = [frees EXCEPT ![task[c]] = @ + 1]
           /\ UNCHANGED <<mpc, wpc, queue, body, cur, runs, lost>>
<1>1. cpc[c] \in QueueCalls \cup OnceCalls  BY DEF GiveUp, QueueCalls, OnceCalls
<1>2. task[c] \in Tasks  BY <1>1 DEF KindInv, CallerInv
<1> QED  BY <1>2 DEF GiveUp

LEMMA GiveUpKeepsHome ==
    ASSUME RoundsInv, KindInv, HomeInv, RunInv, NEW c \in Committers, GiveUp(c)
    PROVE  HomeInv' /\ RunInv'
<1>1. /\ task \in [Committers -> Tasks \cup {NoTask}] /\ frees \in [Tasks -> Nat]
      /\ NoTask \notin Tasks
  BY TaskCoreAssumption DEF RoundsInv, IInv, TypeInv, TypeOK
<1>2. /\ task' = [task EXCEPT ![c] = NoTask]
      /\ frees' = [frees EXCEPT ![task[c]] = @ + 1]
      /\ UNCHANGED <<queue, body, cur, runs, lost>>
  BY GiveUpDoes
<1>3. PICK b \in Tasks : b = task[c]  BY GiveUpDoes
<1>4. /\ OneHome(b) /\ Carried(b) /\ ~Queued(b) /\ ~Served(b) /\ frees[b] = 0 /\ b \notin lost
      /\ \A d \in Committers : task[d] = b => d = c
  BY <1>3 DEF HomeInv, OneHome, Carried
<1>5. \A u : /\ Queued(u)' <=> Queued(u)
             /\ OnceQueued(u)' <=> OnceQueued(u)
             /\ \A w \in Workers : With(u, w)' <=> With(u, w)
  BY <1>2 DEF Queued, OnceQueued, With
<1>f. frees'[b] = 1 /\ \A u \in Tasks : u # b => frees'[u] = frees[u]
  <2>1. frees[b] + 1 = 1  BY <1>4
  <2>2. frees' = [frees EXCEPT ![b] = 1]  BY <1>2, <1>3, <2>1
  <2> HIDE DEF Tasks
  <2> QED  BY <1>1, <2>2
<1>6. ASSUME NEW u \in Tasks, u # b PROVE OneHome(u)'
  <2>1. \A d \in Committers : task'[d] = u <=> task[d] = u
    BY <1>1, <1>2, <1>3, <1>6
  <2>2. OnceQueued(u)'  BY <1>5 DEF HomeInv, OneHome
  <2> QED  BY <1>2, <1>5, <1>6, <1>f, <2>1, <2>2, HomeFrame DEF HomeInv
<1>7. OneHome(b)'
  <2>1. \A d \in Committers : task'[d] # b  BY <1>1, <1>2, <1>3, <1>4
  <2>2. ~Carried(b)'  BY <2>1 DEF Carried
  <2>3. OnceQueued(b)' /\ ~Queued(b)'  BY <1>4, <1>5 DEF OneHome
  <2>4. \A w \in Workers : ~With(b, w)'  BY <1>4, <1>5 DEF Served
  <2>5. b \notin lost'  BY <1>2, <1>4
  <2> QED  BY <1>f, <2>1, <2>2, <2>3, <2>4, <2>5 DEF OneHome, Served
<1>8. RunInv'
  <2>1. \A u \in Tasks : frees[u] = 1 => frees'[u] = 1  BY <1>f
  <2> QED  BY <1>2, <2>1 DEF RunInv
<1> QED  BY <1>6, <1>7, <1>8 DEF HomeInv

\* A callback starts in a worker that was in none.
LEMMA CallKeepsRun ==
    ASSUME RunInv, runs \in [Tasks -> Nat], cur \in [Workers -> Tasks \cup {NoTask}],
           NEW w \in Workers, NEW b \in Tasks, cur[w] = NoTask,
           cur' = [cur EXCEPT ![w] = b], runs' = [runs EXCEPT ![b] = @ + 1],
           UNCHANGED <<frees, lost>>
    PROVE  RunInv'
<1> NoTask \notin Tasks  BY TaskCoreAssumption
<1> HIDE DEF Tasks
<1>1. runs'[b] = runs[b] + 1 /\ \A u \in Tasks : u # b => runs'[u] = runs[u]  OBVIOUS
<1>2. runs[b] + 1 > 0  BY SMT
<1>3. ASSUME NEW u \in Tasks, runs'[u] > 0
      PROVE  frees'[u] = 1 \/ u \in lost' \/ \E v \in Workers : cur'[v] = u
  <2>1. CASE u = b  BY <2>1
  <2>2. CASE u # b
    <3>1. frees[u] = 1 \/ u \in lost \/ \E v \in Workers : cur[v] = u
      BY <1>1, <1>3, <2>2 DEF RunInv
    <3>2. ASSUME NEW v \in Workers, cur[v] = u PROVE cur'[v] = u  BY <3>2
    <3> QED  BY <3>1, <3>2
  <2> QED  BY <2>1, <2>2
<1>4. ASSUME NEW v \in Workers, cur'[v] # NoTask PROVE runs'[cur'[v]] > 0
  <2>1. CASE v = w
    <3>1. cur'[v] = b  BY <2>1
    <3> QED  BY <1>1, <1>2, <3>1
  <2>2. CASE v # w
    <3>1. PICK u \in Tasks : u = cur[v]  BY <1>4, <2>2
    <3>2. cur'[v] = u /\ runs[u] > 0  BY <1>4, <2>2, <3>1 DEF RunInv
    <3> QED
      <4>1. CASE u = b  BY <1>1, <1>2, <3>2, <4>1
      <4>2. CASE u # b  BY <1>1, <3>2, <4>2
      <4> QED  BY <4>1, <4>2
  <2> QED  BY <2>1, <2>2
<1> QED  BY <1>3, <1>4 DEF RunInv

LEMMA CallOtherKeepsHome ==
    ASSUME RoundsInv, KindInv, HomeInv, RunInv, NEW w \in Workers, CallOther(w)
    PROVE  HomeInv' /\ RunInv'
<1>1. /\ body \in [Workers -> Tasks \cup {NoTask}] /\ cur \in [Workers -> Tasks \cup {NoTask}]
      /\ runs \in [Tasks -> Nat] /\ NoTask \notin Tasks
  BY TaskCoreAssumption DEF RoundsInv, IInv, TypeInv, TypeOK
<1>2. /\ wpc[w] = "hand" /\ body[w] # NoTask
      /\ cur' = [cur EXCEPT ![w] = body[w]]
      /\ runs' = [runs EXCEPT ![body[w]] = @ + 1]
      /\ UNCHANGED <<queue, body, task, frees, lost>>
  BY DEF CallOther, Goto
<1>3. cur[w] = NoTask  BY <1>2 DEF KindInv, WorkInv
<1>4. PICK b \in Tasks : b = body[w]  BY <1>1, <1>2
<1>5. RunInv'  BY <1>1, <1>2, <1>3, <1>4, CallKeepsRun
<1>6. ASSUME NEW u \in Tasks PROVE OneHome(u)'
  <2>1. OnceQueued(u)' /\ (Queued(u)' <=> Queued(u))
    BY <1>2 DEF HomeInv, OneHome, OnceQueued, Queued
  <2>2. \A v \in Workers : With(u, v)' <=> With(u, v)
    BY <1>1, <1>2, <1>3, <1>4 DEF With
  <2> QED  BY <1>2, <2>1, <2>2, HomeFrame DEF HomeInv
<1> QED  BY <1>5, <1>6 DEF HomeInv

LEMMA CallQueuedDoes ==
    ASSUME RoundsInv, KindInv, NEW w \in Workers, CallQueued(w)
    PROVE  /\ w = 0 /\ cur[0] = NoTask /\ body[0] = NoTask
           /\ queue # <<>> /\ queue' = Tail(queue)
           /\ Head(queue) \in Tasks /\ Head(queue) \in QueueTasks /\ Queued(Head(queue))
           /\ cur' = [cur EXCEPT ![0] = Head(queue)]
           /\ runs' = [runs EXCEPT ![Head(queue)] = @ + 1]
           /\ UNCHANGED <<mpc, body, task, frees, lost>>
<1>1. w = 0 /\ wpc[0] = "take"
  BY DEF CallQueued, Goto, RoundsInv, IInv, QLockInv, QueueStates
<1>2. /\ queue # <<>> /\ queue' = Tail(queue) /\ cur' = [cur EXCEPT ![0] = Head(queue)]
      /\ runs' = [runs EXCEPT ![Head(queue)] = @ + 1]
      /\ UNCHANGED <<mpc, body, task, frees, lost>>
  BY <1>1 DEF CallQueued
<1>3. cur[0] = NoTask /\ body[0] = NoTask  BY <1>1, TaskCoreAssumption DEF KindInv, WorkInv
<1>4. queue \in Seq(Tasks)  BY DEF RoundsInv, IInv, TypeInv, TypeOK
<1>5. Queued(Head(queue)) /\ Head(queue) \in Tasks  BY <1>2, <1>4, TailQueues
<1>6. Head(queue) \in QueueTasks  BY <1>5 DEF KindInv, LineInv, Queued
<1> QED  BY <1>1, <1>2, <1>3, <1>5, <1>6

LEMMA CallQueuedKeepsHome ==
    ASSUME RoundsInv, KindInv, HomeInv, RunInv, NEW w \in Workers, CallQueued(w)
    PROVE  HomeInv' /\ RunInv'
<1>1. /\ cur \in [Workers -> Tasks \cup {NoTask}] /\ queue \in Seq(Tasks)
      /\ runs \in [Tasks -> Nat] /\ NoTask \notin Tasks /\ 0 \in Workers
  BY TaskCoreAssumption DEF RoundsInv, IInv, TypeInv, TypeOK
<1>2. PICK b \in Tasks : b = Head(queue)  BY CallQueuedDoes
<1>3. /\ cur[0] = NoTask /\ body[0] = NoTask /\ queue # <<>> /\ queue' = Tail(queue)
      /\ Queued(b) /\ cur' = [cur EXCEPT ![0] = b] /\ runs' = [runs EXCEPT ![b] = @ + 1]
      /\ UNCHANGED <<body, task, frees, lost>>
  BY <1>2, CallQueuedDoes
<1>4. RunInv'  BY <1>1, <1>3, CallKeepsRun
<1>5. /\ \A u : u # b => (Queued(u)' <=> Queued(u))
      /\ \A u : OnceQueued(u) => OnceQueued(u)'
  BY <1>1, <1>2, <1>3, TailQueues
<1>6. OneHome(b) /\ ~Carried(b) /\ ~Served(b) /\ frees[b] = 0 /\ b \notin lost
  BY <1>3 DEF HomeInv, OneHome
<1>7. ~Queued(b)'  BY <1>1, <1>2, <1>3, <1>6, TailQueues DEF OneHome
<1>8. ASSUME NEW u \in Tasks, u # b PROVE OneHome(u)'
  <2>1. OnceQueued(u)' /\ (Queued(u)' <=> Queued(u))
    BY <1>5, <1>8 DEF HomeInv, OneHome
  <2>2. \A v \in Workers : With(u, v)' <=> With(u, v)  BY <1>1, <1>3, <1>8 DEF With
  <2> QED  BY <1>3, <2>1, <2>2, HomeFrame DEF HomeInv
<1>9. OneHome(b)'
  <2>1. \A v \in Workers : With(b, v)' => v = 0  BY <1>1, <1>3, <1>6 DEF With, Served
  <2>2. ~Carried(b)' /\ frees'[b] = 0 /\ b \notin lost' /\ OnceQueued(b)'
        /\ \A c, d \in Committers : task'[c] = b /\ task'[d] = b => c = d
    BY <1>3, <1>5, <1>6 DEF Carried, OneHome
  <2> QED  BY <1>7, <2>1, <2>2 DEF OneHome
<1> QED  BY <1>4, <1>8, <1>9 DEF HomeInv

\* A worker frees the task whose callback has returned.
Frees(w, b) ==
    /\ cur[w] = b /\ body[w] \in {b, NoTask}
    /\ cur' = [cur EXCEPT ![w] = NoTask] /\ body' = [body EXCEPT ![w] = NoTask]
    /\ frees'[b] = frees[b] + 1
    /\ \A u \in Tasks : u # b => frees'[u] = frees[u]
    /\ UNCHANGED <<mpc, queue, task, runs, lost>>

LEMMA FinishFrees ==
    ASSUME RoundsInv, KindInv, NEW w \in Workers, FinishOther(w) \/ FinishQueued(w)
    PROVE  \E b \in Tasks : Frees(w, b)
<1>1. /\ cur \in [Workers -> Tasks \cup {NoTask}] /\ body \in [Workers -> Tasks \cup {NoTask}]
      /\ frees \in [Tasks -> Nat]
  BY DEF RoundsInv, IInv, TypeInv, TypeOK
<1>2. wpc[w] = "cbk"  BY DEF FinishOther, FinishOtherAs, FinishQueued, Goto
<1>3. PICK b \in Tasks : b = cur[w]  BY <1>1, <1>2 DEF KindInv, WorkInv
<1>4. CASE FinishOther(w)
  <2>1. body[w] = b  BY <1>2, <1>3, <1>4 DEF FinishOther, FinishOtherAs, KindInv, WorkInv
  <2>2. /\ frees' = [t \in Tasks |-> IF t = b THEN frees[t] + 1 ELSE frees[t]]
        /\ body' = [body EXCEPT ![w] = NoTask] /\ cur' = [cur EXCEPT ![w] = NoTask]
        /\ UNCHANGED <<mpc, queue, task, runs, lost>>
    BY <1>4, <2>1 DEF FinishOther, FinishOtherAs
  <2> HIDE DEF Tasks
  <2> QED  BY <1>3, <2>1, <2>2 DEF Frees
<1>5. CASE FinishQueued(w)
  <2>1. body[w] = NoTask  BY <1>5 DEF FinishQueued, KindInv, WorkInv
  <2>2. /\ frees' = [frees EXCEPT ![b] = @ + 1]
        /\ body' = body /\ cur' = [cur EXCEPT ![w] = NoTask]
        /\ UNCHANGED <<mpc, queue, task, runs, lost>>
    BY <1>3, <1>5 DEF FinishQueued
  <2>3. body' = [body EXCEPT ![w] = NoTask]  BY <1>1, <2>1, <2>2
  <2> HIDE DEF Tasks
  <2> QED  BY <1>1, <1>3, <2>1, <2>2, <2>3 DEF Frees
<1> QED  BY <1>4, <1>5

LEMMA FreesKeepsHome ==
    ASSUME RoundsInv, HomeInv, RunInv, NEW w \in Workers, NEW b \in Tasks, Frees(w, b)
    PROVE  HomeInv' /\ RunInv'
<1>1. /\ cur \in [Workers -> Tasks \cup {NoTask}] /\ body \in [Workers -> Tasks \cup {NoTask}]
      /\ NoTask \notin Tasks
  BY TaskCoreAssumption DEF RoundsInv, IInv, TypeInv, TypeOK
<1>2. /\ cur[w] = b /\ body[w] \in {b, NoTask}
      /\ cur' = [cur EXCEPT ![w] = NoTask] /\ body' = [body EXCEPT ![w] = NoTask]
      /\ UNCHANGED <<queue, task, runs, lost>>
  BY DEF Frees
<1>3. OneHome(b) /\ With(b, w) /\ ~Carried(b) /\ ~Queued(b) /\ frees[b] = 0 /\ b \notin lost
  BY <1>2 DEF With, Served, HomeInv, OneHome
<1>4. frees'[b] = 1 /\ \A u \in Tasks : u # b => frees'[u] = frees[u]
  BY <1>3 DEF Frees
<1>5. \A u : (Queued(u)' <=> Queued(u)) /\ (OnceQueued(u)' <=> OnceQueued(u))
  BY <1>2 DEF Queued, OnceQueued
<1>6. ASSUME NEW u \in Tasks, u # b PROVE OneHome(u)'
  <2>1. \A v \in Workers : With(u, v)' <=> With(u, v)  BY <1>1, <1>2, <1>6 DEF With
  <2>2. OnceQueued(u)' /\ (Queued(u)' <=> Queued(u))  BY <1>5 DEF HomeInv, OneHome
  <2> QED  BY <1>2, <1>4, <1>6, <2>1, <2>2, HomeFrame DEF HomeInv
<1>7. OneHome(b)'
  <2>1. \A v \in Workers : ~With(b, v)'  BY <1>1, <1>2, <1>3 DEF With, OneHome
  <2>2. ~Carried(b)'  BY <1>2, <1>3 DEF Carried
  <2>3. ~Queued(b)' /\ OnceQueued(b)'  BY <1>3, <1>5 DEF OneHome
  <2> QED  BY <1>2, <1>3, <1>4, <2>1, <2>2, <2>3 DEF OneHome, Served
<1>8. RunInv'
  <2>1. ASSUME NEW u \in Tasks, runs'[u] > 0
        PROVE  frees'[u] = 1 \/ u \in lost' \/ \E v \in Workers : cur'[v] = u
    <3>1. CASE u = b  BY <1>4, <3>1
    <3>2. CASE u # b
      <4>1. frees[u] = 1 \/ u \in lost \/ \E v \in Workers : cur[v] = u
        BY <1>2, <2>1 DEF RunInv
      <4>2. ASSUME NEW v \in Workers, cur[v] = u PROVE cur'[v] = u
        BY <1>2, <3>2, <4>2
      <4> QED  BY <1>2, <1>4, <3>2, <4>1, <4>2
    <3> QED  BY <3>1, <3>2
  <2>2. ASSUME NEW v \in Workers, cur'[v] # NoTask PROVE runs'[cur'[v]] > 0
    <3>1. v # w  BY <1>1, <1>2, <2>2
    <3>2. cur'[v] = cur[v]  BY <1>2, <3>1
    <3> QED  BY <1>2, <2>2, <3>2 DEF RunInv
  <2> QED  BY <2>1, <2>2 DEF RunInv
<1> QED  BY <1>6, <1>7, <1>8 DEF HomeInv

\* Stopping a worker abandons what it has in hand.
LEMMA JoinKeepsHome ==
    ASSUME RoundsInv, HomeInv, RunInv, Join
    PROVE  HomeInv' /\ RunInv'
<1>1. /\ cur \in [Workers -> Tasks \cup {NoTask}] /\ body \in [Workers -> Tasks \cup {NoTask}]
      /\ NoTask \notin Tasks /\ made \in 0 .. NThreads /\ count \in {0, NThreads}
      /\ NThreads \in Nat
  BY TaskCoreAssumption DEF RoundsInv, IInv, TypeInv, TypeOK
<1>2. /\ lost' = lost \cup ({body[made], cur[made]} \ {NoTask})
      /\ cur' = [cur EXCEPT ![made] = NoTask] /\ body' = [body EXCEPT ![made] = NoTask]
      /\ made < count
      /\ UNCHANGED <<queue, task, runs, frees>>
  BY DEF Join
<1>3. PICK m \in Workers : m = made  BY <1>1, <1>2
<1>4. \A u : (Queued(u)' <=> Queued(u)) /\ (OnceQueued(u)' <=> OnceQueued(u))
  BY <1>2 DEF Queued, OnceQueued
<1>5. \A u \in Tasks : u \in lost' <=> u \in lost \/ With(u, m)
  BY <1>1, <1>2, <1>3 DEF With
<1>6. ASSUME NEW u \in Tasks, ~With(u, m) PROVE OneHome(u)'
  <2>1. \A v \in Workers : With(u, v)' <=> With(u, v)
    BY <1>1, <1>2, <1>3, <1>6 DEF With
  <2>2. OnceQueued(u)' /\ (Queued(u)' <=> Queued(u))  BY <1>4 DEF HomeInv, OneHome
  <2> QED  BY <1>2, <1>5, <1>6, <2>1, <2>2, HomeFrame DEF HomeInv
<1>7. ASSUME NEW u \in Tasks, With(u, m) PROVE OneHome(u)'
  <2>1. OneHome(u) /\ ~Carried(u) /\ ~Queued(u) /\ frees[u] = 0
    BY <1>7 DEF Served, HomeInv, OneHome
  <2>2. \A v \in Workers : ~With(u, v)'
    BY <1>1, <1>2, <1>3, <1>7, <2>1 DEF With, OneHome
  <2>3. ~Carried(u)'  BY <1>2, <2>1 DEF Carried
  <2>4. ~Queued(u)' /\ OnceQueued(u)'  BY <1>4, <2>1 DEF OneHome
  <2> QED  BY <1>2, <2>1, <2>2, <2>3, <2>4 DEF OneHome, Served
<1>8. RunInv'
  <2>1. ASSUME NEW u \in Tasks, runs'[u] > 0
        PROVE  frees'[u] = 1 \/ u \in lost' \/ \E v \in Workers : cur'[v] = u
    <3>1. frees[u] = 1 \/ u \in lost \/ \E v \in Workers : cur[v] = u
      BY <1>2, <2>1 DEF RunInv
    <3>2. ASSUME NEW v \in Workers, cur[v] = u PROVE u \in lost' \/ cur'[v] = u
      BY <1>2, <1>3, <1>5, <3>2 DEF With
    <3> QED  BY <1>2, <3>1, <3>2
  <2>2. ASSUME NEW v \in Workers, cur'[v] # NoTask PROVE runs'[cur'[v]] > 0
    <3>1. v # m  BY <1>1, <1>2, <1>3, <2>2
    <3>2. cur'[v] = cur[v]  BY <1>2, <1>3, <3>1
    <3> QED  BY <1>2, <2>2, <3>2 DEF RunInv
  <2> QED  BY <2>1, <2>2 DEF RunInv
<1> QED  BY <1>6, <1>7, <1>8 DEF HomeInv

\* At the end what is left of the queue is freed.
LEMMA ClearFrees ==
    ASSUME TypeOK, Clear
    PROVE  /\ queue' = <<>>
           /\ \A u \in Tasks : /\ Queued(u) => frees'[u] = frees[u] + 1
                               /\ ~Queued(u) => frees'[u] = frees[u]
           /\ UNCHANGED <<body, cur, task, runs, lost>>
<1> DEFINE left == {queue[i] : i \in DOMAIN queue}
<1>1. frees' = [t \in Tasks |-> IF t \in left THEN frees[t] + 1 ELSE frees[t]]
  BY DEF Clear, ClearAfter
<1>2. \A u : u \in left <=> Queued(u)  BY DEF Queued
<1>3. queue' = <<>> /\ UNCHANGED <<body, cur, task, runs, lost>>
  BY DEF Clear, ClearAfter
<1> HIDE DEF left, Tasks
<1>4. \A u \in Tasks : /\ Queued(u) => frees'[u] = frees[u] + 1
                       /\ ~Queued(u) => frees'[u] = frees[u]
  BY <1>1, <1>2
<1> QED  BY <1>3, <1>4

LEMMA ClearKeepsHome ==
    ASSUME RoundsInv, HomeInv, RunInv, Clear
    PROVE  HomeInv' /\ RunInv'
<1>1. /\ queue' = <<>>
      /\ \A u \in Tasks : /\ Queued(u) => frees'[u] = frees[u] + 1
                          /\ ~Queued(u) => frees'[u] = frees[u]
      /\ UNCHANGED <<body, cur, task, runs, lost>>
  BY ClearFrees DEF RoundsInv, IInv, TypeInv
<1>2. \A u : ~Queued(u)' /\ OnceQueued(u)'
  <2>1. DOMAIN queue' = {}  BY <1>1
  <2> QED  BY <2>1 DEF Queued, OnceQueued
<1>3. \A u : /\ \A v \in Workers : With(u, v)' <=> With(u, v)
             /\ Carried(u)' <=> Carried(u)
             /\ Served(u)' <=> Served(u)
  BY <1>1 DEF With, Carried, Served
<1>4. ASSUME NEW u \in Tasks PROVE OneHome(u)'
  <2>1. CASE Queued(u)
    <3>1. OneHome(u) /\ ~Carried(u) /\ ~Served(u) /\ u \notin lost /\ frees[u] = 0
      BY <2>1 DEF HomeInv, OneHome
    <3>2. frees'[u] = 1  BY <1>1, <2>1, <3>1
    <3> QED  BY <1>1, <1>2, <1>3, <3>1, <3>2 DEF OneHome
  <2>2. CASE ~Queued(u)
    <3>1. OneHome(u) /\ frees'[u] = frees[u]  BY <1>1, <2>2 DEF HomeInv
    <3> QED  BY <1>1, <1>2, <1>3, <3>1 DEF OneHome
  <2> QED  BY <2>1, <2>2
<1>5. \A u \in Tasks : frees[u] = 1 => frees'[u] = 1
  BY <1>1 DEF HomeInv, OneHome
<1>6. RunInv'  BY <1>1, <1>5 DEF RunInv
<1> QED  BY <1>4, <1>6 DEF HomeInv

LEMMA NextHomeInv ==
    ASSUME RoundsInv, KindInv, HomeInv, RunInv, [Next]_vars
    PROVE  HomeInv' /\ RunInv'
<1>1. CASE UNCHANGED <<queue, body, cur, task, runs, frees, lost>>
  BY <1>1 DEF HomeInv, RunInv, OneHome, OnceQueued, Queued, Carried, Served, With
<1>2. CASE Join  BY <1>2, JoinKeepsHome
<1>3. CASE Clear  BY <1>3, ClearKeepsHome
<1>4. ASSUME NEW w \in Workers, CallOther(w) PROVE HomeInv' /\ RunInv'
  BY <1>4, CallOtherKeepsHome
<1>5. ASSUME NEW w \in Workers, CallQueued(w) PROVE HomeInv' /\ RunInv'
  BY <1>5, CallQueuedKeepsHome
<1>6. ASSUME NEW w \in Workers, FinishOther(w) \/ FinishQueued(w) PROVE HomeInv' /\ RunInv'
  BY <1>6, FinishFrees, FreesKeepsHome
<1>7. ASSUME NEW c \in Committers, NEW t \in Tasks, Commit(c, t) PROVE HomeInv' /\ RunInv'
  BY <1>7, CommitKeepsHome
<1>8. ASSUME NEW c \in Committers, Link(c) PROVE HomeInv' /\ RunInv'
  BY <1>8, LinkKeepsHome
<1>9. ASSUME NEW c \in Committers, Pick(c) PROVE HomeInv' /\ RunInv'
  BY <1>9, PickKeepsHome
<1>10. ASSUME NEW c \in Committers, GiveUp(c) PROVE HomeInv' /\ RunInv'
  BY <1>10, GiveUpKeepsHome
<1>11. CASE (StartStep /\ ~Join /\ ~Clear) \/ CreateFails \/ InitMutexFails \/ Stop \/ Quiet
  <2>1. UNCHANGED <<queue, body, cur, task, runs, frees, lost>>
    BY <1>11 DEF StartStep, CreateThread, CreateFails, SeeRunning, InitMutex, InitMutexFails,
                 Publish, Stop, Quiet, vars
  <2> QED  BY <1>1, <2>1
<1>12. ASSUME NEW w \in Workers,
              \/ Run(w) \/ Unbusy(w) \/ LockThreads(w) \/ Unpick(w) \/ Wake(w) \/ Busy(w)
              \/ LockQueue(w) \/ MissQueue(w) \/ LeaveQueue(w) \/ EmptyQueue(w)
       PROVE  HomeInv' /\ RunInv'
  <2>1. UNCHANGED <<queue, body, cur, task, runs, frees, lost>>
    BY <1>12 DEF Run, Unbusy, LockThreads, Unpick, Wake, WakeAt, Busy, LockQueue, MissQueue,
                 LeaveQueue, EmptyQueue
  <2> QED  BY <1>1, <2>1
<1>13. ASSUME NEW c \in Committers, CallerStep(c), ~Link(c), ~Pick(c), ~GiveUp(c)
       PROVE  HomeInv' /\ RunInv'
  <2>1. UNCHANGED <<queue, body, cur, task, runs, frees, lost>>
    BY <1>13 DEF CallerStep, LockInsert, MissInsert, PostQueue, LockFind, MissFind, ScanPast,
                 ScanHit, PostThread, PostTo
  <2> QED  BY <1>1, <2>1
<1>14. CASE UNCHANGED vars  BY <1>1, <1>14 DEF vars
<1> QED
  BY Zenon, <1>2, <1>3, <1>4, <1>5, <1>6, <1>7, <1>8, <1>9, <1>10, <1>11, <1>12, <1>13, <1>14
     DEF Next, StartStep, WorkerStep

LEMMA InitHomeInv == Init => HomeInv /\ RunInv
  BY TaskCoreAssumption
     DEF Init, HomeInv, RunInv, OneHome, OnceQueued, Queued, Carried, Served, With

LEMMA PlacesAlways == Settled => (Spec => [](RoundsInv /\ KindInv /\ HomeInv /\ RunInv))
<1> SUFFICES ASSUME Settled PROVE Spec => [](RoundsInv /\ KindInv /\ HomeInv /\ RunInv)
  OBVIOUS
<1> DEFINE Places == RoundsInv /\ KindInv /\ HomeInv /\ RunInv
<1>1. Init => Places
  BY InitIInv, InitSettledInv, InitKindInv, InitHomeInv DEF Init, RoundsInv, ServeInv, Serving
<1>2. Places /\ [Next]_vars => Places'
  <2>1. RoundsInv /\ [Next]_vars => RoundsInv'
    BY NextTypeInv, NextQLockInv, NextWakeInv, NextSettledInv, NextServeInv DEF RoundsInv, IInv
  <2> QED  BY <2>1, NextKindInv, NextHomeInv
<1> QED  BY <1>1, <1>2, PTL DEF Spec

LEMMA AtMostOne ==
    ASSUME NEW S, \A x, y \in S : x = y
    PROVE  /\ S = {} => Cardinality(S) = 0
           /\ S # {} => Cardinality(S) = 1
<1>1. S = {} => Cardinality(S) = 0  BY FS_EmptySet
<1>2. ASSUME S # {} PROVE Cardinality(S) = 1
  <2>1. PICK x \in S : TRUE  BY <1>2
  <2>2. S = {x}  BY <2>1
  <2> QED  BY <2>2, FS_Singleton
<1> QED  BY <1>1, <1>2

\* Every body that was allocated is in one place at most: with its caller, in
\* the queue, with one worker, freed once, or abandoned by stop_task_core.
THEOREM OnePlaceAlways == Settled => (Spec => []TaskHasOnePlace)
<1> SUFFICES ASSUME Settled PROVE Spec => []TaskHasOnePlace
  OBVIOUS
<1>1. HomeInv => TaskHasOnePlace
  <2> SUFFICES ASSUME HomeInv, NEW t \in Tasks
               PROVE  Cardinality({c \in Committers : task[c] = t})
                      + Cardinality({i \in DOMAIN queue : queue[i] = t})
                      + Cardinality({w \in Workers : t \in {body[w], cur[w]}})
                      + frees[t] + (IF t \in lost THEN 1 ELSE 0) <= 1
    BY DEF TaskHasOnePlace
  <2> DEFINE C == {c \in Committers : task[c] = t}
             Q == {i \in DOMAIN queue : queue[i] = t}
             W == {w \in Workers : t \in {body[w], cur[w]}}
  <2>1. OneHome(t)  BY DEF HomeInv
  <2>2. /\ \A x, y \in C : x = y
        /\ \A x, y \in Q : x = y
        /\ \A x, y \in W : x = y
    BY <2>1 DEF OneHome, OnceQueued, With
  <2>3. (C # {} <=> Carried(t)) /\ (Q # {} <=> Queued(t)) /\ (W # {} <=> Served(t))
    BY DEF Carried, Queued, Served, With
  <2> HIDE DEF C, Q, W
  <2>4. /\ Cardinality(C) = IF Carried(t) THEN 1 ELSE 0
        /\ Cardinality(Q) = IF Queued(t) THEN 1 ELSE 0
        /\ Cardinality(W) = IF Served(t) THEN 1 ELSE 0
    BY Zenon, <2>2, <2>3, AtMostOne
  <2>5. Cardinality(C) + Cardinality(Q) + Cardinality(W)
        + frees[t] + (IF t \in lost THEN 1 ELSE 0) <= 1
    BY <2>1, <2>4 DEF OneHome
  <2> QED  BY <2>5 DEF C, Q, W
<1> QED  BY <1>1, PlacesAlways, PTL

-------------------------------------------------------------------------------
(***************************************************************************)
(* The end of the pool.  clear_pthreads goes through the workers in order, *)
(* a dead worker has nothing in hand and stays dead, and the queue is      *)
(* thrown away after the last one.                                         *)
(***************************************************************************)
JoinInv ==
    /\ lost # {} => mpc \in {"join", "down"}
    /\ mpc \in {"settle", "up", "join", "down"} => count = NThreads
    /\ mpc = "join" => \A w \in Workers : w < made => wpc[w] = "dead"
    /\ mpc = "down" => queue = <<>> /\ \A w \in Workers : wpc[w] = "dead"
    /\ \A w \in Workers : wpc[w] = "dead" => body[w] = NoTask /\ cur[w] = NoTask

LEMMA NextJoinInv ==
    ASSUME RoundsInv, KindInv, JoinInv, [Next]_vars
    PROVE  JoinInv'
<1>a. /\ wpc \in [Workers -> WorkerPlaces]
      /\ body \in [Workers -> Tasks \cup {NoTask}] /\ cur \in [Workers -> Tasks \cup {NoTask}]
      /\ made \in 0 .. NThreads /\ count \in {0, NThreads} /\ NThreads \in Nat \ {0}
  BY TaskCoreAssumption DEF RoundsInv, IInv, TypeInv, TypeOK
<1>b. mpc \in {"join", "down"} => \A c \in Committers : cpc[c] = "idle"
  BY DEF RoundsInv, SettledInv, StopInv
<1> USE <1>a DEF JoinInv
<1>1. CASE UNCHANGED <<mpc, made, count, queue, wpc, body, cur, lost>>  BY <1>1
<1>2. CASE CreateThread  BY <1>2 DEF CreateThread
<1>3. CASE CreateFails  BY <1>3 DEF CreateFails
<1>4. CASE SeeRunning  BY <1>4 DEF SeeRunning
<1>5. CASE InitMutex  BY <1>5 DEF InitMutex
<1>6. CASE InitMutexFails  BY <1>6 DEF InitMutexFails
<1>7. CASE Publish  BY <1>7 DEF Publish
<1>8. CASE Stop  BY <1>8 DEF Stop
<1>9. CASE Join
  <2>1. /\ mpc = "join" /\ UNCHANGED <<mpc, count, queue>> /\ made' = made + 1
        /\ wpc' = [wpc EXCEPT ![made] = "dead"] /\ made \in Workers
        /\ body' = [body EXCEPT ![made] = NoTask] /\ cur' = [cur EXCEPT ![made] = NoTask]
    BY <1>9 DEF Join
  <2>2. \A w \in Workers : w < made' => wpc'[w] = "dead"
    <3>1. \A w \in Workers : w < made + 1 => w < made \/ w = made  OBVIOUS
    <3> QED  BY <2>1, <3>1
  <2>3. \A w \in Workers : wpc'[w] = "dead" => body'[w] = NoTask /\ cur'[w] = NoTask
    BY <2>1
  <2> QED  BY <2>1, <2>2, <2>3
<1>10. CASE Clear
  <2>1. \A w \in Workers : wpc[w] = "dead"  BY <1>10 DEF Clear, ClearAfter
  <2> QED  BY <1>10, <2>1 DEF Clear, ClearAfter
<1>11. ASSUME NEW w \in Workers, WorkerStep(w) PROVE JoinInv'
  <2>1. /\ wpc[w] # "dead" /\ wpc'[w] # "dead"
        /\ \A v \in Workers : v # w => wpc'[v] = wpc[v] /\ body'[v] = body[v] /\ cur'[v] = cur[v]
        /\ UNCHANGED <<mpc, made, count, lost>>
    BY <1>11
       DEF WorkerStep, Run, Unbusy, LockThreads, Unpick, Wake, WakeAt, Busy, CallOther,
           FinishOther, FinishOtherAs, LockQueue, MissQueue, LeaveQueue, CallQueued,
           EmptyQueue, FinishQueued, Goto
  <2> QED  BY <2>1
<1>12. ASSUME NEW c \in Committers, CallerStep(c) \/ \E t \in Tasks : Commit(c, t)
       PROVE  JoinInv'
  <2>1. cpc[c] # "idle" \/ mpc = "up"
    BY <1>12 DEF CallerStep, Commit, LockInsert, MissInsert, Link, LinkAs, PostQueue, LockFind,
                 MissFind, ScanPast, ScanHit, Pick, PickAs, PostThread, PostTo, GiveUp, CGoto
  <2>2. mpc \notin {"join", "down"}  BY <1>b, <2>1
  <2>3. CASE Pick(c)
    <3>1. /\ idx[c] \in Workers /\ wpc[idx[c]] = "wait"
          /\ body' = [body EXCEPT ![idx[c]] = task[c]] /\ UNCHANGED <<lost, wpc, cur>>
      BY <2>3, PickIdle DEF KindInv, Idle
    <3>2. UNCHANGED <<mpc, made, count>>  BY <2>3 DEF Pick, PickAs
    <3> QED  BY <2>2, <3>1, <3>2
  <2>4. CASE ~Pick(c)
    <3>1. UNCHANGED <<mpc, made, count, wpc, body, cur, lost>>
      BY <1>12, <2>4 DEF CallerStep, Commit, LockInsert, MissInsert, Link, LinkAs, PostQueue,
                         LockFind, MissFind, ScanPast, ScanHit, PostThread, PostTo, GiveUp
    <3> QED  BY <2>2, <3>1
  <2> QED  BY <2>3, <2>4
<1>13. CASE Quiet \/ UNCHANGED vars  BY <1>1, <1>13 DEF Quiet, vars
<1> QED
  BY Zenon, <1>2, <1>3, <1>4, <1>5, <1>6, <1>7, <1>8, <1>9, <1>10, <1>11, <1>12, <1>13
     DEF Next, StartStep

PoolInv == RoundsInv /\ KindInv /\ HomeInv /\ RunInv /\ JoinInv

LEMMA PoolAlways == Settled => (Spec => []PoolInv)
<1> SUFFICES ASSUME Settled PROVE Spec => []PoolInv
  OBVIOUS
<1>1. Init => JoinInv  BY TaskCoreAssumption DEF Init, JoinInv
<1>2. (RoundsInv /\ KindInv /\ HomeInv /\ RunInv) /\ JoinInv /\ [Next]_vars => JoinInv'
  BY NextJoinInv
<1> QED  BY <1>1, <1>2, PlacesAlways, PTL DEF Spec, PoolInv

\* Bodies are abandoned only by stop_task_core; after it no worker runs, and
\* every task that was ever committed has been freed once or was abandoned.
THEOREM StopIsCleanAlways == Settled => (Spec => []StopIsClean)
<1> SUFFICES ASSUME Settled PROVE Spec => []StopIsClean
  OBVIOUS
<1>1. PoolInv => StopIsClean
  <2> SUFFICES ASSUME PoolInv, mpc = "down", NEW t \in Committed
               PROVE  frees[t] = 1 \/ t \in lost
    BY DEF PoolInv, JoinInv, StopIsClean
  <2>1. /\ frees \in [Tasks -> Nat] /\ runs \in [Tasks -> Nat] /\ t \in Tasks
        /\ NoTask \notin Tasks
    BY TaskCoreAssumption DEF PoolInv, RoundsInv, IInv, TypeInv, TypeOK, Committed
  <2>2. /\ queue = <<>>
        /\ \A w \in Workers : body[w] = NoTask /\ cur[w] = NoTask
    BY DEF PoolInv, JoinInv
  <2>3. \A c \in Committers : task[c] = NoTask
    BY DEF PoolInv, RoundsInv, SettledInv, StopInv, KindInv, CallerInv, QueueCalls, OnceCalls
  <2>4. \/ runs[t] + frees[t] > 0
        \/ t \in lost
        \/ t \in {queue[i] : i \in DOMAIN queue}
    BY <2>1, <2>2, <2>3 DEF Committed
  <2>5. DOMAIN queue = {}  BY <2>2
  <2>6. runs[t] > 0 \/ frees[t] > 0 \/ t \in lost  BY <2>1, <2>4, <2>5
  <2>7. CASE runs[t] > 0
    <3>1. frees[t] = 1 \/ t \in lost \/ \E w \in Workers : cur[w] = t
      BY <2>1, <2>7 DEF PoolInv, RunInv
    <3> QED  BY <2>1, <2>2, <3>1
  <2>8. CASE frees[t] > 0
    <3>1. frees[t] \in {0, 1}  BY <2>1 DEF PoolInv, HomeInv, OneHome
    <3> QED  BY <2>8, <3>1
  <2> QED  BY <2>6, <2>7, <2>8
<1> QED  BY <1>1, PoolAlways, PTL

-------------------------------------------------------------------------------
(***************************************************************************)
(* The pool keeps the promise of Executor.  What has become of a task is   *)
(* told by its place (HomeInv) and by whether its callback was called      *)
(* (RunInv), so that every step moves at most the task it handles, and     *)
(* only the end of the queue moves several at once.                        *)
(***************************************************************************)
LEMMA StateIs ==
    ASSUME NEW t, frees[t] \in {0, 1}, runs[t] \in Nat
    PROVE  /\ frees[t] = 0 /\ t \notin lost /\ runs[t] = 0 /\ ~Held(t) => StateOf(t) = "new"
           /\ frees[t] = 0 /\ t \notin lost /\ runs[t] = 0 /\ Held(t) => StateOf(t) = "held"
           /\ frees[t] = 0 /\ t \notin lost /\ runs[t] > 0 => StateOf(t) = "running"
           /\ frees[t] = 0 /\ t \in lost => StateOf(t) = "abandoned"
           /\ frees[t] = 1 /\ runs[t] = 0 => StateOf(t) = "dropped"
           /\ frees[t] = 1 /\ runs[t] > 0 => StateOf(t) = "finished"
BY DEF StateOf

LEMMA NextStateIs ==
    ASSUME NEW t, frees'[t] \in {0, 1}, runs'[t] \in Nat
    PROVE  /\ frees'[t] = 0 /\ t \notin lost' /\ runs'[t] = 0 /\ Held(t)'
                  => StateOf(t)' = "held"
           /\ frees'[t] = 0 /\ t \notin lost' /\ runs'[t] > 0 => StateOf(t)' = "running"
           /\ frees'[t] = 0 /\ t \in lost' => StateOf(t)' = "abandoned"
           /\ frees'[t] = 1 /\ runs'[t] = 0 => StateOf(t)' = "dropped"
           /\ frees'[t] = 1 /\ runs'[t] > 0 => StateOf(t)' = "finished"
BY DEF StateOf

LEMMA StateFrame ==
    ASSUME NEW t, frees'[t] = frees[t], runs'[t] = runs[t], t \in lost' <=> t \in lost,
           Held(t)' <=> Held(t)
    PROVE  StateOf(t)' = StateOf(t)
BY Zenon DEF StateOf

LEMMA HeldIs == ASSUME NEW t PROVE /\ Held(t) <=> Queued(t) \/ \E w \in Workers : body[w] = t
                                   /\ Held(t)' <=> Queued(t)' \/ \E w \in Workers : body'[w] = t
BY Zenon DEF Held, Queued

\* What the place of a task tells of it.
LEMMA PlaceTells ==
    ASSUME PoolInv, NEW t \in Tasks
    PROVE  /\ Carried(t) => StateOf(t) = "new"
           /\ Queued(t) => StateOf(t) = "held" /\ runs[t] = 0
           /\ \A w \in Workers : cur[w] = t => StateOf(t) = "running"
           /\ \A w \in Workers : body[w] = t /\ cur[w] = NoTask
                                     => StateOf(t) = "held" /\ runs[t] = 0
           /\ StateOf(t) = "running" => \E w \in Workers : cur[w] = t
<1>1. /\ frees[t] \in {0, 1} /\ runs[t] \in Nat /\ NoTask \notin Tasks
      /\ (t \in lost) \in BOOLEAN /\ Held(t) \in BOOLEAN
  BY TaskCoreAssumption
     DEF PoolInv, HomeInv, OneHome, RoundsInv, IInv, TypeInv, TypeOK, Held
<1>2. OneHome(t)  BY DEF PoolInv, HomeInv
<1>3. runs[t] > 0 => frees[t] = 1 \/ t \in lost \/ \E w \in Workers : cur[w] = t
  BY DEF PoolInv, RunInv
<1>4. runs[t] = 0 \/ runs[t] > 0  BY <1>1
<1>5. ASSUME frees[t] = 0, t \notin lost, \A w \in Workers : cur[w] # t
      PROVE  /\ runs[t] = 0
             /\ Held(t) => StateOf(t) = "held"
             /\ ~Held(t) => StateOf(t) = "new"
  BY <1>1, <1>3, <1>4, <1>5, StateIs
<1>6. ASSUME Carried(t) PROVE StateOf(t) = "new"
  <2>1. frees[t] = 0 /\ t \notin lost /\ ~Queued(t) /\ ~Served(t)  BY <1>2, <1>6 DEF OneHome
  <2> QED  BY <1>5, <2>1, HeldIs DEF Served, With
<1>7. ASSUME Queued(t) PROVE StateOf(t) = "held" /\ runs[t] = 0
  <2>1. frees[t] = 0 /\ t \notin lost /\ ~Served(t)  BY <1>2, <1>7 DEF OneHome
  <2> QED  BY <1>5, <1>7, <2>1, HeldIs DEF Served, With
<1>8. ASSUME NEW w \in Workers, cur[w] = t PROVE StateOf(t) = "running"
  <2>1. frees[t] = 0 /\ t \notin lost  BY <1>2, <1>8 DEF OneHome, Served, With
  <2>2. runs[t] > 0  BY <1>1, <1>8 DEF PoolInv, RunInv
  <2> QED  BY <1>1, <2>1, <2>2, StateIs
<1>9. ASSUME NEW w \in Workers, body[w] = t, cur[w] = NoTask
      PROVE  StateOf(t) = "held" /\ runs[t] = 0
  <2>1. frees[t] = 0 /\ t \notin lost  BY <1>2, <1>9 DEF OneHome, Served, With
  <2>2. \A v \in Workers : cur[v] # t  BY <1>1, <1>2, <1>9 DEF OneHome, With
  <2> QED  BY <1>5, <1>9, <2>1, <2>2, HeldIs
<1>10. ASSUME \A w \in Workers : cur[w] # t PROVE StateOf(t) # "running"
  <2>1. CASE frees[t] = 1  BY <1>1, <1>4, <2>1, StateIs
  <2>2. CASE frees[t] = 0 /\ t \in lost  BY <1>1, <2>2, StateIs
  <2>3. CASE frees[t] = 0 /\ t \notin lost  BY <1>5, <1>10, <2>3
  <2> QED  BY <1>1, <2>1, <2>2, <2>3
<1> QED  BY <1>6, <1>7, <1>8, <1>9, <1>10

\* A step that moves one task.
LEMMA MoveOne ==
    ASSUME NEW t \in Tasks, NEW from, NEW to, StateOf(t) = from, StateOf(t)' = to,
           \A u \in Tasks : u # t => StateOf(u)' = StateOf(u)
    PROVE  Promise!Move(t, from, to)
<1> DEFINE s == [u \in Tasks |-> StateOf(u)]
<1>1. s[t] = from  OBVIOUS
<1>2. s' = [s EXCEPT ![t] = to]
  <2>1. /\ DOMAIN s' = Tasks /\ s'[t] = to
        /\ \A u \in Tasks : u # t => s'[u] = s[u]
        /\ s' = [u \in Tasks |-> s'[u]]
        /\ DOMAIN s = Tasks
    OBVIOUS
  <2> HIDE DEF Tasks, s
  <2> QED  BY <2>1
<1> QED  BY <1>1, <1>2 DEF Promise!Move

LEMMA CallerIsIn ==
    ASSUME PoolInv, NEW c \in Committers, cpc[c] # "idle"
    PROVE  mpc = "up"
BY DEF PoolInv, RoundsInv, SettledInv, StartInv, StopInv, Starting, IInv, TypeInv, TypeOK,
       MainPlaces

\* A task that is linked or bound is accepted.
LEMMA LinkRefines ==
    ASSUME PoolInv, NEW c \in Committers, Link(c)
    PROVE  Promise!Next
<1>1. /\ cpc[c] = "link" /\ queue' = Append(queue, task[c]) /\ mpc' = mpc
      /\ UNCHANGED <<body, cur, runs, frees, lost>> /\ queue \in Seq(Tasks)
  BY DEF Link, LinkAs, CGoto, PoolInv, RoundsInv, IInv, TypeInv, TypeOK
<1>2. PICK b \in Tasks : b = task[c] /\ b \in QueueTasks
  BY <1>1 DEF PoolInv, KindInv, CallerInv, QueueCalls
<1>3. \A u : Queued(u)' <=> Queued(u) \/ u = b  BY <1>1, <1>2, AppendQueues
<1>4. ASSUME NEW u \in Tasks, u # b PROVE StateOf(u)' = StateOf(u)
  <2>1. Held(u)' <=> Held(u)  BY <1>1, <1>3, <1>4, HeldIs
  <2> QED  BY <1>1, <2>1, StateFrame
<1>5. Carried(b) /\ StateOf(b) = "new"  BY <1>2, PlaceTells DEF Carried
<1>6. StateOf(b)' = "held"
  <2>1. frees[b] = 0 /\ b \notin lost /\ ~Served(b)
    BY <1>5 DEF PoolInv, HomeInv, OneHome
  <2>2. runs[b] = 0
    BY <2>1 DEF PoolInv, RunInv, Served, With, RoundsInv, IInv, TypeInv, TypeOK
  <2>3. Held(b)'  BY <1>3, HeldIs
  <2> QED  BY <1>1, <2>1, <2>2, <2>3, NextStateIs
<1>7. Promise!Move(b, "new", "held")  BY <1>4, <1>5, <1>6, MoveOne
<1>8. mpc = "up"  BY <1>1, CallerIsIn
<1>9. Promise!Accept(b)  BY <1>1, <1>2, <1>7, <1>8 DEF Promise!Accept
<1> QED  BY <1>9 DEF Promise!Next, Promise!Tasks

LEMMA PickRefines ==
    ASSUME PoolInv, NEW c \in Committers, Pick(c)
    PROVE  Promise!Next
<1>0. RoundsInv /\ CallerInv  BY DEF PoolInv, KindInv
<1>1. /\ idx[c] \in Workers /\ body[idx[c]] = NoTask /\ mpc = "up"
      /\ body' = [body EXCEPT ![idx[c]] = task[c]]
      /\ UNCHANGED <<mpc, queue, cur, runs, frees, lost>>
      /\ body \in [Workers -> Tasks \cup {NoTask}] /\ NoTask \notin Tasks
  BY <1>0, PickIdle, TaskCoreAssumption DEF Idle, RoundsInv, IInv, TypeInv, TypeOK
<1>2. PICK b \in Tasks : b = task[c] /\ b \in OnceTasks  BY <1>0, PickIdle
<1>3. \A u : Queued(u)' <=> Queued(u)  BY <1>1 DEF Queued
<1>4. ASSUME NEW u \in Tasks, u # b PROVE StateOf(u)' = StateOf(u)
  <2>1. \A w \in Workers : body'[w] = u <=> body[w] = u  BY <1>1, <1>2, <1>4
  <2>2. Held(u)' <=> Held(u)  BY <1>3, <2>1, HeldIs
  <2> QED  BY <1>1, <2>2, StateFrame
<1>5. Carried(b) /\ StateOf(b) = "new"  BY <1>2, PlaceTells DEF Carried
<1>6. StateOf(b)' = "held"
  <2>1. frees[b] = 0 /\ b \notin lost /\ ~Served(b)
    BY <1>5 DEF PoolInv, HomeInv, OneHome
  <2>2. runs[b] = 0
    BY <2>1 DEF PoolInv, RunInv, Served, With, RoundsInv, IInv, TypeInv, TypeOK
  <2>3. body'[idx[c]] = b  BY <1>1, <1>2
  <2>4. Held(b)'  BY <1>1, <2>3, HeldIs
  <2> QED  BY <1>1, <2>1, <2>2, <2>4, NextStateIs
<1>7. Promise!Move(b, "new", "held")  BY <1>4, <1>5, <1>6, MoveOne
<1>8. b \notin QueueTasks  BY <1>2, TaskCoreAssumption
<1>9. Promise!Accept(b)  BY <1>1, <1>7, <1>8 DEF Promise!Accept
<1> QED  BY <1>9 DEF Promise!Next, Promise!Tasks

\* A task that is given up was never accepted.
LEMMA GiveUpRefines ==
    ASSUME PoolInv, NEW c \in Committers, GiveUp(c)
    PROVE  Promise!Next
<1>0. RoundsInv /\ KindInv  BY DEF PoolInv
<1>1. /\ frees' = [frees EXCEPT ![task[c]] = @ + 1]
      /\ UNCHANGED <<mpc, queue, body, cur, runs, lost>>
      /\ frees \in [Tasks -> Nat]
  BY <1>0, GiveUpDoes DEF RoundsInv, IInv, TypeInv, TypeOK
<1>2. PICK b \in Tasks : b = task[c]  BY <1>0, GiveUpDoes
<1>3. \A u : Held(u)' <=> Held(u)  BY <1>1 DEF Held
<1>4. ASSUME NEW u \in Tasks, u # b PROVE StateOf(u)' = StateOf(u)
  <2>1. frees'[u] = frees[u]
    <3> HIDE DEF Tasks
    <3> QED  BY <1>1, <1>2, <1>4
  <2> QED  BY <1>1, <1>3, <2>1, StateFrame
<1>5. Carried(b) /\ StateOf(b) = "new"  BY <1>2, PlaceTells DEF Carried
<1>6. StateOf(b)' = "dropped"
  <2>1. frees[b] = 0 /\ b \notin lost /\ ~Served(b)
    BY <1>5 DEF PoolInv, HomeInv, OneHome
  <2>2. runs[b] = 0
    BY <2>1 DEF PoolInv, RunInv, Served, With, RoundsInv, IInv, TypeInv, TypeOK
  <2>3. frees'[b] = 1
    <3>1. frees' = [frees EXCEPT ![b] = 1]  BY <1>1, <1>2, <2>1
    <3> HIDE DEF Tasks
    <3> QED  BY <1>1, <3>1
  <2> QED  BY <1>1, <2>2, <2>3, NextStateIs
<1>7. Promise!Move(b, "new", "dropped")  BY <1>4, <1>5, <1>6, MoveOne
<1>8. Promise!Drop(b)  BY <1>1, <1>7 DEF Promise!Drop
<1> QED  BY <1>8 DEF Promise!Next, Promise!Tasks

\* A worker calls the callback of a task that was accepted.
LEMMA CallMoves ==
    ASSUME PoolInv, NEW b \in Tasks, StateOf(b) = "held", runs[b] = 0,
           frees[b] = 0, b \notin lost, runs' = [runs EXCEPT ![b] = @ + 1],
           UNCHANGED <<frees, lost>>, \A u \in Tasks : u # b => (Held(u)' <=> Held(u))
    PROVE  Promise!Move(b, "held", "running")
<1>1. runs \in [Tasks -> Nat]  BY DEF PoolInv, RoundsInv, IInv, TypeInv, TypeOK
<1>2. runs'[b] = 1 /\ \A u \in Tasks : u # b => runs'[u] = runs[u]
  <2>1. runs' = [runs EXCEPT ![b] = 1]  OBVIOUS
  <2> HIDE DEF Tasks
  <2> QED  BY <1>1, <2>1
<1>3. StateOf(b)' = "running"  BY <1>2, NextStateIs
<1>4. \A u \in Tasks : u # b => StateOf(u)' = StateOf(u)  BY <1>2, StateFrame
<1> QED  BY <1>3, <1>4, MoveOne

LEMMA CallOtherRefines ==
    ASSUME PoolInv, NEW w \in Workers, CallOther(w)
    PROVE  Promise!Next
<1>1. /\ wpc[w] = "hand" /\ body[w] # NoTask /\ runs' = [runs EXCEPT ![body[w]] = @ + 1]
      /\ UNCHANGED <<mpc, queue, body, frees, lost>>
      /\ body \in [Workers -> Tasks \cup {NoTask}]
  BY DEF CallOther, Goto, PoolInv, RoundsInv, IInv, TypeInv, TypeOK
<1>2. PICK b \in Tasks : b = body[w]  BY <1>1
<1>3. cur[w] = NoTask /\ b \in OnceTasks  BY <1>1, <1>2, TaskCoreAssumption DEF PoolInv, KindInv, WorkInv
<1>4. StateOf(b) = "held" /\ runs[b] = 0  BY <1>2, <1>3, PlaceTells
<1>5. frees[b] = 0 /\ b \notin lost
  BY <1>2 DEF PoolInv, HomeInv, OneHome, Served, With
<1>6. \A u \in Tasks : Held(u)' <=> Held(u)  BY <1>1 DEF Held
<1>7. Promise!Move(b, "held", "running")  BY <1>1, <1>2, <1>4, <1>5, <1>6, CallMoves
<1>8. Promise!StartOnce(b)  BY <1>1, <1>3, <1>7 DEF Promise!StartOnce
<1> QED  BY <1>8 DEF Promise!Next, Promise!Tasks

\* Only worker 0 is in the callback of a task of the queue.
LEMMA CallQueuedRefines ==
    ASSUME PoolInv, NEW w \in Workers, CallQueued(w)
    PROVE  Promise!Next
<1>0. RoundsInv /\ KindInv /\ queue \in Seq(Tasks) /\ NoTask \notin Tasks
  BY TaskCoreAssumption DEF PoolInv, RoundsInv, IInv, TypeInv, TypeOK
<1>1. /\ cur[0] = NoTask /\ queue # <<>> /\ queue' = Tail(queue)
      /\ runs' = [runs EXCEPT ![Head(queue)] = @ + 1]
      /\ UNCHANGED <<mpc, body, frees, lost>>
  BY <1>0, CallQueuedDoes
<1>2. PICK b \in Tasks : b = Head(queue) /\ b \in QueueTasks /\ Queued(b)
  BY <1>0, CallQueuedDoes
<1>3. StateOf(b) = "held" /\ runs[b] = 0  BY <1>2, PlaceTells
<1>4. frees[b] = 0 /\ b \notin lost  BY <1>2 DEF PoolInv, HomeInv, OneHome
<1>5. ASSUME NEW u \in Tasks, u # b PROVE Held(u)' <=> Held(u)
  <2>1. Queued(u)' <=> Queued(u)  BY <1>0, <1>1, <1>2, <1>5, TailQueues
  <2> QED  BY <1>1, <2>1, HeldIs
<1>6. Promise!Move(b, "held", "running")  BY <1>1, <1>2, <1>3, <1>4, <1>5, CallMoves
<1>7. ASSUME NEW u \in QueueTasks PROVE StateOf(u) # "running"
  <2>1. SUFFICES ASSUME NEW v \in Workers, cur[v] = u PROVE FALSE
    BY PlaceTells
  <2>2. v # 0  BY <1>0, <1>1, <2>1
  <2>3. u \in OnceTasks \cup {NoTask}  BY <1>0, <2>1, <2>2 DEF KindInv, WorkInv
  <2> QED  BY <1>0, <2>3, TaskCoreAssumption
<1>8. Promise!StartQueued
  BY <1>1, <1>2, <1>6, <1>7 DEF Promise!StartQueued
<1> QED  BY <1>8 DEF Promise!Next

LEMMA FinishRefines ==
    ASSUME PoolInv, NEW w \in Workers, FinishOther(w) \/ FinishQueued(w)
    PROVE  Promise!Next
<1>0. RoundsInv /\ KindInv  BY DEF PoolInv
<1>1. PICK b \in Tasks : Frees(w, b)  BY <1>0, FinishFrees
<1>2. /\ cur[w] = b /\ body[w] \in {b, NoTask} /\ body' = [body EXCEPT ![w] = NoTask]
      /\ frees'[b] = frees[b] + 1
      /\ \A u \in Tasks : u # b => frees'[u] = frees[u]
      /\ UNCHANGED <<mpc, queue, runs, lost>>
      /\ body \in [Workers -> Tasks \cup {NoTask}] /\ NoTask \notin Tasks
      /\ runs[b] \in Nat
  BY <1>0, <1>1, TaskCoreAssumption DEF Frees, RoundsInv, IInv, TypeInv, TypeOK
<1>3. \A u : Queued(u)' <=> Queued(u)  BY <1>2 DEF Queued
<1>4. ASSUME NEW u \in Tasks, u # b PROVE StateOf(u)' = StateOf(u)
  <2>1. \A v \in Workers : body'[v] = u <=> body[v] = u  BY <1>2, <1>4
  <2>2. Held(u)' <=> Held(u)  BY <1>3, <2>1, HeldIs
  <2> QED  BY <1>2, <1>4, <2>2, StateFrame
<1>5. StateOf(b) = "running"  BY <1>2, PlaceTells
<1>6. StateOf(b)' = "finished"
  <2>1. frees[b] = 0  BY <1>2 DEF PoolInv, HomeInv, OneHome, Served, With
  <2>2. runs[b] > 0  BY <1>2 DEF PoolInv, RunInv
  <2>3. frees'[b] = 1  BY <1>2, <2>1
  <2> QED  BY <1>2, <2>2, <2>3, NextStateIs
<1>7. Promise!Move(b, "running", "finished")  BY <1>4, <1>5, <1>6, MoveOne
<1>8. Promise!Finish(b)  BY <1>2, <1>7 DEF Promise!Finish
<1> QED  BY <1>8 DEF Promise!Next, Promise!Tasks

\* A worker has one task in hand at most, which is abandoned with it.
LEMMA JoinRefines ==
    ASSUME PoolInv, Join
    PROVE  Promise!Next \/ UNCHANGED Promise!vars
<1>1. /\ mpc = "join" /\ lost' = lost \cup ({body[made], cur[made]} \ {NoTask})
      /\ body' = [body EXCEPT ![made] = NoTask] /\ made \in Workers
      /\ UNCHANGED <<mpc, queue, runs, frees>>
      /\ body \in [Workers -> Tasks \cup {NoTask}] /\ cur \in [Workers -> Tasks \cup {NoTask}]
      /\ NoTask \notin Tasks
  BY TaskCoreAssumption DEF Join, PoolInv, RoundsInv, IInv, TypeInv, TypeOK
<1>2. PICK m \in Workers : m = made  BY <1>1
<1>3. \A u : Queued(u)' <=> Queued(u)  BY <1>1 DEF Queued
<1>4. \A u \in Tasks : u \in lost' <=> u \in lost \/ With(u, m)
  BY <1>1, <1>2 DEF With
<1>5. ASSUME NEW u \in Tasks, ~With(u, m) PROVE StateOf(u)' = StateOf(u)
  <2>1. \A v \in Workers : body'[v] = u <=> body[v] = u  BY <1>1, <1>2, <1>5 DEF With
  <2>2. Held(u)' <=> Held(u)  BY <1>3, <2>1, HeldIs
  <2> QED  BY <1>1, <1>4, <1>5, <2>2, StateFrame
<1>6. CASE \A u \in Tasks : ~With(u, m)
  <2>1. \A u \in Tasks : StateOf(u)' = StateOf(u)  BY <1>5, <1>6
  <2>2. [u \in Tasks |-> StateOf(u)]' = [u \in Tasks |-> StateOf(u)]  BY Zenon, <2>1
  <2> QED  BY <1>1, <2>2 DEF Promise!vars
<1>7. ASSUME NEW b \in Tasks, With(b, m) PROVE Promise!Next
  <2>1. ASSUME NEW u \in Tasks, u # b PROVE ~With(u, m)
    <3>1. body[m] = NoTask \/ cur[m] \in {NoTask, body[m]}
      BY DEF PoolInv, KindInv, WorkInv
    <3> QED  BY <1>1, <1>7, <2>1, <3>1 DEF With
  <2>2. \A u \in Tasks : u # b => StateOf(u)' = StateOf(u)  BY <1>5, <2>1
  <2>3. ~Queued(b) /\ frees[b] = 0 /\ runs[b] \in Nat
    BY <1>7 DEF PoolInv, HomeInv, OneHome, Served, RoundsInv, IInv, TypeInv, TypeOK
  <2>4. StateOf(b)' = "abandoned"  BY <1>1, <1>4, <1>7, <2>3, NextStateIs
  <2>5. StateOf(b) \in {"held", "running"}
    <3>1. CASE cur[m] = b  BY <3>1, PlaceTells
    <3>2. CASE cur[m] # b
      <4>1. body[m] = b  BY <1>7, <3>2 DEF With
      <4>2. cur[m] = NoTask
        BY <1>1, <3>2, <4>1, TaskCoreAssumption DEF PoolInv, KindInv, WorkInv
      <4> QED  BY <4>1, <4>2, PlaceTells
    <3> QED  BY <3>1, <3>2
  <2>6. Promise!Move(b, "held", "abandoned") \/ Promise!Move(b, "running", "abandoned")
    BY <2>2, <2>4, <2>5, MoveOne
  <2>7. b \notin {queue[i] : i \in DOMAIN queue}  BY <2>3 DEF Queued
  <2>8. Promise!Abandon(b)  BY <1>1, <2>6, <2>7 DEF Promise!Abandon
  <2> QED  BY <2>8 DEF Promise!Next, Promise!Tasks
<1> QED  BY <1>6, <1>7

LEMMA ClearRefines ==
    ASSUME PoolInv, Clear
    PROVE  Promise!Next
<1>1. /\ queue' = <<>>
      /\ \A u \in Tasks : /\ Queued(u) => frees'[u] = frees[u] + 1
                          /\ ~Queued(u) => frees'[u] = frees[u]
      /\ UNCHANGED <<body, runs, lost>>
  BY ClearFrees DEF PoolInv, RoundsInv, IInv, TypeInv
<1>2. \A u : ~Queued(u)'
  <2>1. DOMAIN queue' = {}  BY <1>1
  <2> QED  BY <2>1 DEF Queued
<1>3. ASSUME NEW u \in Tasks, Queued(u) PROVE StateOf(u)' = "dropped"
  <2>1. frees[u] = 0 /\ runs[u] = 0
    BY <1>3, PlaceTells DEF PoolInv, HomeInv, OneHome
  <2>2. frees'[u] = 1  BY <1>1, <1>3, <2>1
  <2> QED  BY <1>1, <2>1, <2>2, NextStateIs
<1>4. ASSUME NEW u \in Tasks, ~Queued(u) PROVE StateOf(u)' = StateOf(u)
  <2>1. Held(u)' <=> Held(u)  BY <1>1, <1>2, <1>4, HeldIs
  <2> QED  BY <1>1, <1>4, <2>1, StateFrame
<1>5. \A u : u \in {queue[i] : i \in DOMAIN queue} <=> Queued(u)  BY DEF Queued
<1>6. [t \in Tasks |-> StateOf(t)]'
          = [t \in Tasks |-> IF t \in {queue[i] : i \in DOMAIN queue}
                             THEN "dropped" ELSE [u \in Tasks |-> StateOf(u)][t]]
  <2>1. \A t \in Tasks :
            StateOf(t)' = IF t \in {queue[i] : i \in DOMAIN queue}
                          THEN "dropped" ELSE [u \in Tasks |-> StateOf(u)][t]
    BY <1>3, <1>4, <1>5
  <2> QED  BY Zenon, <2>1
<1>7. mpc = "join" /\ mpc' = "down"  BY DEF Clear, ClearAfter
<1>8. Promise!Discard  BY <1>1, <1>6, <1>7 DEF Promise!Discard, Promise!Tasks
<1> QED  BY <1>8 DEF Promise!Next

\* A step that handles no task.
LEMMA QuietRefines ==
    ASSUME UNCHANGED <<queue, body, runs, frees, lost>>
    PROVE  [t \in Tasks |-> StateOf(t)]' = [t \in Tasks |-> StateOf(t)] /\ queue' = queue
<1>1. \A u \in Tasks : StateOf(u)' = StateOf(u)
  <2>1. \A u \in Tasks : Held(u)' <=> Held(u)  BY DEF Held
  <2> QED  BY <2>1, StateFrame
<1> QED  BY Zenon, <1>1

LEMMA PoolRefines == PoolInv /\ [Next]_vars => [Promise!Next]_(Promise!vars)
<1> SUFFICES ASSUME PoolInv, [Next]_vars
             PROVE  Promise!Next \/ UNCHANGED Promise!vars
  OBVIOUS
<1> DEFINE Goal == Promise!Next \/ UNCHANGED Promise!vars
<1> SUFFICES Goal
  OBVIOUS
<1> HIDE DEF Goal
<1>1. ASSUME UNCHANGED <<queue, body, runs, frees, lost>>,
             (mpc' \in {"join", "down", "failed"}) <=> (mpc \in {"join", "down", "failed"})
      PROVE  Goal
  BY <1>1, QuietRefines DEF Goal, Promise!vars
<1>2. CASE CreateFails \/ InitMutexFails \/ Stop
  <2>1. /\ mpc \notin {"join", "down", "failed"} /\ mpc' \in {"join", "down", "failed"}
        /\ UNCHANGED <<queue, body, runs, frees, lost>>
    BY <1>2 DEF CreateFails, InitMutexFails, Stop
  <2>2. Promise!Close  BY <2>1, QuietRefines DEF Promise!Close
  <2> QED  BY <2>2 DEF Goal, Promise!Next
<1>3. CASE Join  BY <1>3, JoinRefines DEF Goal
<1>4. CASE Clear  BY <1>4, ClearRefines DEF Goal
<1>5. CASE CreateThread \/ SeeRunning \/ InitMutex \/ Publish \/ Quiet \/ UNCHANGED vars
  <2>1. /\ UNCHANGED <<queue, body, runs, frees, lost>>
        /\ (mpc' \in {"join", "down", "failed"}) <=> (mpc \in {"join", "down", "failed"})
    BY <1>5 DEF CreateThread, SeeRunning, InitMutex, Publish, Quiet, vars
  <2> QED  BY <1>1, <2>1
<1>6. ASSUME NEW w \in Workers, WorkerStep(w) PROVE Goal
  <2>1. CASE CallOther(w)  BY <2>1, CallOtherRefines DEF Goal
  <2>2. CASE CallQueued(w)  BY <2>2, CallQueuedRefines DEF Goal
  <2>3. CASE FinishOther(w) \/ FinishQueued(w)  BY <2>3, FinishRefines DEF Goal
  <2>4. CASE \/ Run(w) \/ Unbusy(w) \/ LockThreads(w) \/ Unpick(w) \/ Wake(w) \/ Busy(w)
             \/ LockQueue(w) \/ MissQueue(w) \/ LeaveQueue(w) \/ EmptyQueue(w)
    <3>1. UNCHANGED <<mpc, queue, body, runs, frees, lost>>
      BY <2>4 DEF Run, Unbusy, LockThreads, Unpick, Wake, WakeAt, Busy, LockQueue, MissQueue,
                  LeaveQueue, EmptyQueue
    <3> QED  BY <1>1, <3>1
  <2> QED  BY Zenon, <1>6, <2>1, <2>2, <2>3, <2>4 DEF WorkerStep
<1>7. ASSUME NEW c \in Committers, CallerStep(c) \/ \E t \in Tasks : Commit(c, t) PROVE Goal
  <2>1. CASE Link(c)  BY <2>1, LinkRefines DEF Goal
  <2>2. CASE Pick(c)  BY <2>2, PickRefines DEF Goal
  <2>3. CASE GiveUp(c)  BY <2>3, GiveUpRefines DEF Goal
  <2>4. CASE ~Link(c) /\ ~Pick(c) /\ ~GiveUp(c)
    <3>1. UNCHANGED <<mpc, queue, body, runs, frees, lost>>
      BY <1>7, <2>4 DEF CallerStep, Commit, LockInsert, MissInsert, PostQueue, LockFind,
                        MissFind, ScanPast, ScanHit, PostThread, PostTo
    <3> QED  BY <1>1, <3>1
  <2> QED  BY <2>1, <2>2, <2>3, <2>4
<1> QED  BY <1>2, <1>3, <1>4, <1>5, <1>6, <1>7 DEF Next, StartStep

\* Whatever callers, workers and the stopping thread do, the pool behaves as
\* Executor: a task is accepted or dropped, an accepted one is called at most
\* once, those of the queue one at a time and in the order of acceptance, and
\* what has not finished is only abandoned or thrown away by a shutdown.
THEOREM KeepsPromiseAlways == Settled => (Spec => KeepsPromise)
<1> SUFFICES ASSUME Settled PROVE Spec => KeepsPromise
  OBVIOUS
<1>1. Init => Promise!Init
  <2> SUFFICES ASSUME Init PROVE Promise!Init
    OBVIOUS
  <2>1. /\ \A t \in Tasks : frees[t] = 0 /\ runs[t] = 0 /\ t \notin lost
        /\ \A w \in Workers : body[w] = NoTask
        /\ NoTask \notin Tasks /\ queue = <<>> /\ mpc = "create"
    BY TaskCoreAssumption DEF Init
  <2>2. DOMAIN queue = {}  BY <2>1
  <2>3. \A t \in Tasks : ~Held(t)  BY <2>1, <2>2, HeldIs DEF Queued
  <2>4. \A t \in Tasks : StateOf(t) = "new"  BY <2>1, <2>3, StateIs
  <2>5. [t \in Tasks |-> StateOf(t)] = [t \in Tasks |-> "new"]  BY Zenon, <2>4
  <2> QED  BY <2>1, <2>5 DEF Promise!Init, Promise!Tasks
<1> QED  BY <1>1, PoolAlways, PoolRefines, PTL DEF Spec, KeepsPromise, Promise!Spec
===============================================================================
