---------------------------- MODULE ElogFileProofs ----------------------------
(***************************************************************************)
(* Theorems about ElogFile, for any number of processes, names and logs,   *)
(* and for processes that are killed as often as one likes.                *)
(***************************************************************************)
EXTENDS ElogFile, TLAPS, SequenceTheorems, FiniteSetTheorems

USE ElogFileAssumption

-------------------------------------------------------------------------------
(* The semaphore *)

InsideStates == {"open", "size", "remove", "rename", "reopen", "put", "close", "leave"}
Early == {"off", "set", "poll"}

SemTypes ==
    /\ exists \in BOOLEAN /\ stamped \in BOOLEAN /\ lockless \in BOOLEAN /\ val \in Nat
    /\ uses \in [Procs -> BOOLEAN] /\ pc \in [Procs -> States]

\* At most one process initialises the semaphore, and until it has nobody uses
\* it; a process that is past lock_init uses it, unless one had given up.
CreationInv ==
    /\ ~exists => ~stamped /\ \A p \in Procs : pc[p] = "off"
    /\ \A p, q \in Procs : pc[p] = "set" => ~stamped /\ (pc[q] = "set" => p = q)
    /\ ~stamped => val = 0 /\ \A p \in Procs : ~uses[p]
    /\ \A p \in Procs : pc[p] \in Early => ~uses[p]
    /\ ~lockless => \A p \in Procs : pc[p] \notin Early => uses[p]

\* The semaphore is 1 or 0, and 0 whenever somebody holds it.
CountInv ==
    /\ val <= 1
    /\ \A p \in Procs : Holds(p) => val = 0

SemInv == SemTypes /\ CreationInv /\ CountInv /\ AloneInside

LEMMA InitSem == Init => SemInv
<1> SUFFICES ASSUME Init PROVE SemInv
  OBVIOUS
<1>1. /\ exists = FALSE /\ stamped = FALSE /\ lockless = FALSE /\ val = 0
      /\ uses = [p \in Procs |-> FALSE] /\ pc = [p \in Procs |-> "off"]
  BY DEF Init
<1>2. SemTypes
  <2>1. [p \in Procs |-> "off"] \in [Procs -> States]  BY DEF States
  <2> QED  BY <1>1, <2>1 DEF SemTypes
<1>3. \A p \in Procs : pc[p] = "off" /\ ~uses[p]  BY <1>1
<1>4. CreationInv
  <2>1. \A p \in Procs : pc[p] \in Early /\ pc[p] # "set"  BY <1>3 DEF Early
  <2> QED  BY <1>1, <1>3, <2>1 DEF CreationInv
<1>5. \A p \in Procs : ~Holds(p)  BY <1>3 DEF Holds
<1> QED  BY <1>1, <1>2, <1>4, <1>5 DEF SemInv, CountInv, AloneInside

\* What Goes does to the place of each process.
LEMMA Moves ==
    ASSUME NEW p \in Procs, NEW from, NEW to \in States, SemTypes, Goes(p, from, to)
    PROVE  /\ pc' \in [Procs -> States]
           /\ pc[p] = from /\ pc'[p] = to
           /\ \A q \in Procs : q # p => pc'[q] = pc[q]
BY DEF Goes, SemTypes

\* A step that leaves the semaphore alone and stays inside or outside.
LEMMA SemFrame ==
    ASSUME SemInv, NEW p \in Procs, NEW from, NEW to \in States, Goes(p, from, to),
           UNCHANGED <<semVars, uses, lockless>>, exists,
           from \in InsideStates <=> to \in InsideStates,
           from \in Early <=> to \in Early, to # "set"
    PROVE  SemInv'
<1> USE DEF SemInv
<1>1. /\ pc' \in [Procs -> States]
      /\ pc[p] = from /\ pc'[p] = to
      /\ \A q \in Procs : q # p => pc'[q] = pc[q]
  BY Moves
<1>2. UNCHANGED <<exists, stamped, val, uses, lockless>>  BY DEF semVars
<1>3. \A q \in Procs : pc'[q] \in InsideStates <=> pc[q] \in InsideStates
  BY <1>1
<1>4. \A q \in Procs : (pc'[q] \in Early <=> pc[q] \in Early)
                          /\ (pc'[q] = "set" => pc[q] = "set")
  BY <1>1
<1>5. \A q \in Procs : Holds(q)' <=> Holds(q)
  BY <1>2, <1>3 DEF Holds, Inside, InsideStates
<1>6. SemTypes'  BY <1>1, <1>2 DEF SemTypes
<1>7. CreationInv'  BY <1>2, <1>4 DEF CreationInv
<1>8. CountInv'  BY <1>2, <1>5 DEF CountInv
<1>9. AloneInside'  BY <1>5 DEF AloneInside
<1> QED  BY <1>6, <1>7, <1>8, <1>9

LEMMA CreateKeepsSem ==
    ASSUME SemInv, NEW p \in Procs, Create(p)
    PROVE  SemInv'
<1> USE DEF SemInv
<1>1. /\ pc' \in [Procs -> States]
      /\ pc[p] = "off" /\ pc'[p] = "set"
      /\ \A q \in Procs : q # p => pc'[q] = pc[q]
  BY Moves DEF Create, States
<1>2. /\ ~exists /\ exists' = TRUE
      /\ UNCHANGED <<stamped, val, uses, lockless>>
  BY DEF Create, fileVars
<1>3. ~stamped /\ val = 0 /\ (\A q \in Procs : ~uses[q] /\ pc[q] = "off")
  BY <1>2 DEF CreationInv
<1>4. SemTypes'  BY <1>1, <1>2 DEF SemTypes
<1>5. CreationInv'
  <2>1. \A q \in Procs : pc'[q] = "set" => q = p  BY <1>1, <1>3
  <2>2. \A q \in Procs : pc'[q] \in Early  BY <1>1, <1>3 DEF Early
  <2> QED  BY <1>2, <1>3, <2>1, <2>2 DEF CreationInv
<1>6. \A q \in Procs : ~Holds(q)'  BY <1>2, <1>3 DEF Holds
<1> QED  BY <1>2, <1>3, <1>4, <1>5, <1>6 DEF CountInv, AloneInside

LEMMA StampKeepsSem ==
    ASSUME SemInv, NEW p \in Procs, Stamp(p)
    PROVE  SemInv'
<1> USE DEF SemInv
<1>1. /\ pc' \in [Procs -> States]
      /\ pc[p] = "set" /\ pc'[p] = "config"
      /\ \A q \in Procs : q # p => pc'[q] = pc[q]
  BY Moves DEF Stamp, States
<1>2. /\ stamped' = TRUE /\ val' = val + 1 /\ UNCHANGED <<exists, lockless>>
      /\ uses' = [uses EXCEPT ![p] = TRUE]
  BY DEF Stamp, fileVars
<1>3. ~stamped /\ val = 0 /\ \A q \in Procs : ~uses[q]
  BY <1>1 DEF CreationInv
<1>4. exists /\ \A q \in Procs : q # p => pc[q] # "set"
  BY <1>1 DEF CreationInv
<1>5. uses' \in [Procs -> BOOLEAN] /\ uses'[p] = TRUE
      /\ \A q \in Procs : q # p => uses'[q] = uses[q]
  BY <1>2 DEF SemTypes
<1>6. val' = 1  BY <1>2, <1>3
<1>7. SemTypes'  BY <1>1, <1>2, <1>5, <1>6 DEF SemTypes
<1>8. CreationInv'
  <2>1. \A q \in Procs : pc'[q] # "set"  BY <1>1, <1>4
  <2>2. \A q \in Procs : pc'[q] \in Early => ~uses'[q]
    BY <1>1, <1>3, <1>5 DEF Early
  <2>3. ~lockless' => \A q \in Procs : pc'[q] \notin Early => uses'[q]
    BY <1>1, <1>2, <1>5 DEF CreationInv
  <2> QED  BY <1>2, <1>4, <2>1, <2>2, <2>3 DEF CreationInv
<1>9. \A q \in Procs : ~Holds(q)'
  <2>1. pc'[p] \notin InsideStates  BY <1>1 DEF InsideStates
  <2> QED  BY <2>1, <1>3, <1>5 DEF Holds, Inside, InsideStates
<1> QED  BY <1>6, <1>7, <1>8, <1>9 DEF CountInv, AloneInside

LEMMA PollKeepsSem ==
    ASSUME SemInv, NEW p \in Procs, Poll(p) \/ PollGivesUp(p)
    PROVE  SemInv'
<1> USE DEF SemInv
<1>1. PICK use \in BOOLEAN :
         /\ PollEnds(p, use)
         /\ use => stamped /\ lockless' = lockless
         /\ ~use => ~stamped /\ lockless' = TRUE
  BY DEF Poll, PollGivesUp
<1>2. /\ pc' \in [Procs -> States]
      /\ pc[p] = "poll" /\ pc'[p] = "config"
      /\ \A q \in Procs : q # p => pc'[q] = pc[q]
  BY <1>1, Moves DEF PollEnds, States
<1>3. uses' = [uses EXCEPT ![p] = use] /\ UNCHANGED <<exists, stamped, val>>
  BY <1>1 DEF PollEnds, semVars
<1>4. uses' \in [Procs -> BOOLEAN] /\ uses'[p] = use
      /\ \A q \in Procs : q # p => uses'[q] = uses[q]
  BY <1>3 DEF SemTypes
<1>5. exists  BY <1>2 DEF CreationInv
<1>6. SemTypes'  BY <1>1, <1>2, <1>3, <1>4 DEF SemTypes
<1>7. CreationInv'
  <2>1. \A q \in Procs : pc'[q] = "set" => pc[q] = "set"  BY <1>2
  <2>2. ~stamped' => \A q \in Procs : ~uses'[q]
    BY <1>1, <1>3, <1>4 DEF CreationInv
  <2>3. \A q \in Procs : pc'[q] \in Early => ~uses'[q]
    BY <1>2, <1>4 DEF CreationInv, Early
  <2>4. ~lockless' => \A q \in Procs : pc'[q] \notin Early => uses'[q]
    BY <1>1, <1>2, <1>4 DEF CreationInv, SemTypes
  <2> QED  BY <1>3, <1>5, <2>1, <2>2, <2>3, <2>4 DEF CreationInv
<1>8. \A q \in Procs : Holds(q)' <=> Holds(q)
  <2>1. pc'[p] \notin InsideStates /\ pc[p] \notin InsideStates
    BY <1>2 DEF InsideStates
  <2> QED  BY <2>1, <1>2, <1>4 DEF Holds, Inside, InsideStates
<1> QED  BY <1>3, <1>6, <1>7, <1>8 DEF CountInv, AloneInside

LEMMA EnterKeepsSem ==
    ASSUME SemInv, NEW p \in Procs, NEW from \in {"config", "want", "stop"},
           NEW to \in InsideStates, Enter(p, from, to)
    PROVE  SemInv'
<1> USE DEF SemInv
<1>1. /\ pc' \in [Procs -> States]
      /\ pc[p] = from /\ pc'[p] = to
      /\ \A q \in Procs : q # p => pc'[q] = pc[q]
  BY Moves DEF Enter, States, InsideStates
<1>2. /\ uses[p] => val > 0
      /\ val' = IF uses[p] THEN val - 1 ELSE val
      /\ UNCHANGED <<exists, stamped, uses, lockless>>
  BY DEF Enter, fileVars
<1>3. val' \in Nat /\ val' <= val /\ (uses[p] => val = 1 /\ val' = 0)
  BY <1>2 DEF SemTypes, CountInv
<1>4. SemTypes'  BY <1>1, <1>2, <1>3 DEF SemTypes
<1>5. CreationInv'
  <2>1. \A q \in Procs : pc'[q] = "set" => pc[q] = "set"
    BY <1>1 DEF InsideStates
  <2>2. \A q \in Procs : pc'[q] \in Early <=> pc[q] \in Early
    BY <1>1 DEF InsideStates, Early
  <2>3. exists  BY <1>1 DEF CreationInv
  <2>4. ~stamped' => val' = 0  BY <1>2, <1>3 DEF CreationInv, SemTypes
  <2> QED  BY <1>2, <2>1, <2>2, <2>3, <2>4 DEF CreationInv
<1>6. \A q \in Procs : q # p => (Holds(q)' <=> Holds(q))
  BY <1>1, <1>2 DEF Holds, Inside
<1>7. Holds(p)' => val' = 0 /\ \A q \in Procs : ~Holds(q)
  <2>1. Holds(p)' => uses[p]  BY <1>2 DEF Holds
  <2> QED  BY <2>1, <1>3 DEF CountInv
<1>8. CountInv'
  <2>1. val' <= 1  BY <1>3 DEF CountInv, SemTypes
  <2>2. \A q \in Procs : Holds(q)' => val' = 0
    BY <1>3, <1>6, <1>7 DEF CountInv, SemTypes
  <2> QED  BY <2>1, <2>2 DEF CountInv
<1>9. AloneInside'  BY <1>6, <1>7 DEF AloneInside
<1> QED  BY <1>4, <1>5, <1>8, <1>9

\* Whoever leaves from inside gives back what it holds.
LEMMA LeaveKeepsSem ==
    ASSUME SemInv, NEW p \in Procs, Leave(p)
    PROVE  SemInv'
<1> USE DEF SemInv
<1> DEFINE closed == fp[p] = 0
<1>1. PICK to \in {"off", "idle"} :
         /\ Goes(p, "leave", to)
         /\ to = (IF closed THEN "off" ELSE "idle")
  BY DEF Leave
<1>2. /\ pc' \in [Procs -> States]
      /\ pc[p] = "leave" /\ pc'[p] = to
      /\ \A q \in Procs : q # p => pc'[q] = pc[q]
  BY <1>1, Moves DEF States
<1>3. /\ val' = IF uses[p] THEN val + 1 ELSE val
      /\ uses' = [uses EXCEPT ![p] = @ /\ ~closed]
      /\ UNCHANGED <<exists, stamped, lockless>>
  BY DEF Leave, fileVars
<1>4. uses' \in [Procs -> BOOLEAN] /\ uses'[p] = (uses[p] /\ ~closed)
      /\ \A q \in Procs : q # p => uses'[q] = uses[q]
  BY <1>3 DEF SemTypes
<1> HIDE DEF closed
<1>5. uses[p] => val = 0 /\ Holds(p)
  BY <1>2 DEF CountInv, Holds, Inside
<1>6. val' \in Nat /\ val' <= 1
  BY <1>3, <1>5 DEF SemTypes, CountInv
<1>7. SemTypes'  BY <1>2, <1>3, <1>4, <1>6 DEF SemTypes
<1>8. CreationInv'
  <2>1. \A q \in Procs : pc'[q] = "set" => pc[q] = "set"  BY <1>2
  <2>2. exists  BY <1>2 DEF CreationInv
  <2>3. ~stamped => val' = 0 /\ \A q \in Procs : ~uses'[q]
    BY <1>3, <1>4 DEF CreationInv
  <2>4. \A q \in Procs : pc'[q] \in Early => ~uses'[q]
    <3>1. to \in Early => closed  BY <1>1 DEF Early
    <3> QED  BY <1>2, <1>4, <3>1 DEF CreationInv
  <2>5. ~lockless' => \A q \in Procs : pc'[q] \notin Early => uses'[q]
    <3>1. to \notin Early => ~closed  BY <1>1 DEF Early
    <3>2. ~lockless => uses[p]  BY <1>2 DEF CreationInv, Early
    <3> QED  BY <1>2, <1>3, <1>4, <3>1, <3>2 DEF CreationInv
  <2> QED  BY <1>3, <2>1, <2>2, <2>3, <2>4, <2>5 DEF CreationInv
<1>9. ~Holds(p)' /\ \A q \in Procs : Holds(q)' => Holds(q) /\ q # p
  BY <1>2, <1>4 DEF Holds, Inside
<1>10. \A q \in Procs : Holds(q)' => val' = 0
  BY <1>3, <1>5, <1>9 DEF CountInv, AloneInside
<1> QED  BY <1>6, <1>7, <1>8, <1>9, <1>10 DEF CountInv, AloneInside

\* SEM_UNDO gives back exactly what the killed process holds.
LEMMA CrashKeepsSem ==
    ASSUME SemInv, NEW p \in Procs, Crash(p)
    PROVE  SemInv'
<1> USE DEF SemInv
<1>1. /\ pc[p] # "off" /\ pc' = [pc EXCEPT ![p] = "off"]
      /\ val' = val + (IF Holds(p) THEN 1 ELSE 0)
      /\ uses' = [uses EXCEPT ![p] = FALSE]
      /\ UNCHANGED <<exists, stamped, lockless>>
  BY DEF Crash, CrashUndoing, fileVars
<1>2. /\ pc' \in [Procs -> States] /\ pc'[p] = "off"
      /\ uses' \in [Procs -> BOOLEAN] /\ ~uses'[p]
      /\ \A q \in Procs : q # p => pc'[q] = pc[q] /\ uses'[q] = uses[q]
  BY <1>1 DEF SemTypes, States
<1>3. Holds(p) => val = 0  BY DEF CountInv
<1>4. val' \in Nat /\ val' <= 1 /\ (~Holds(p) => val' = val)
  BY <1>1, <1>3 DEF SemTypes, CountInv
<1>5. SemTypes'  BY <1>1, <1>2, <1>4 DEF SemTypes
<1>6. CreationInv'
  <2>1. \A q \in Procs : pc'[q] = "set" => pc[q] = "set"  BY <1>2
  <2>2. exists  BY <1>1 DEF CreationInv
  <2>3. ~stamped => val' = 0 /\ \A q \in Procs : ~uses'[q]
    BY <1>2, <1>4 DEF CreationInv, Holds
  <2>4. \A q \in Procs : pc'[q] \in Early => ~uses'[q]
    BY <1>2 DEF CreationInv
  <2>5. ~lockless' => \A q \in Procs : pc'[q] \notin Early => uses'[q]
    BY <1>1, <1>2 DEF CreationInv, Early
  <2> QED  BY <1>1, <2>1, <2>2, <2>3, <2>4, <2>5 DEF CreationInv
<1>7. \A q \in Procs : Holds(q)' => Holds(q) /\ q # p
  BY <1>2 DEF Holds, Inside
<1>8. \A q \in Procs : Holds(q)' => val' = 0
  BY <1>4, <1>7 DEF CountInv, AloneInside
<1> QED  BY <1>4, <1>5, <1>6, <1>7, <1>8 DEF CountInv, AloneInside

\* The steps on the files leave the semaphore alone.
LEMMA FileStepKeepsSem ==
    ASSUME SemInv, NEW p \in Procs,
           \/ Find(p) \/ Write(p) \/ Deinit(p)
           \/ Open(p) \/ Fits(p) \/ Rotate(p) \/ Remove(p) \/ Rename(p)
           \/ RenameFails(p) \/ Reopen(p) \/ Put(p) \/ Close(p)
    PROVE  SemInv'
<1> USE DEF fileVars
<1>1. exists \/ pc[p] = "off"  BY DEF SemInv, CreationInv
<1>2. CASE Find(p)
  <2>1. Goes(p, "off", "poll") /\ exists  BY <1>2 DEF Find
  <2>2. UNCHANGED <<semVars, uses, lockless>>  BY <1>2 DEF Find
  <2> QED  BY <2>1, <2>2, SemFrame DEF InsideStates, Early, States
<1>3. CASE Write(p) \/ Deinit(p)
  <2>1. PICK to \in {"want", "stop"} : Goes(p, "idle", to)  BY <1>3 DEF Write, Deinit
  <2>2. UNCHANGED <<semVars, uses, lockless>>  BY <1>3 DEF Write, Deinit
  <2>3. exists  BY <1>1, <2>1 DEF Goes
  <2> QED  BY <2>1, <2>2, <2>3, SemFrame DEF InsideStates, Early, States
<1>4. CASE Open(p) \/ Fits(p) \/ Rotate(p) \/ Remove(p) \/ Rename(p)
             \/ RenameFails(p) \/ Reopen(p) \/ Put(p) \/ Close(p)
  <2>1. \E from, to \in InsideStates : Goes(p, from, to)
    BY <1>4 DEF Open, OpenThen, Fits, Rotate, RotateFrom, Remove, Rename, RenameFails,
                RenameFailsTo, Reopen, Put, Close, InsideStates
  <2>2. PICK from \in InsideStates, to \in InsideStates : Goes(p, from, to)  BY <2>1
  <2>3. UNCHANGED <<semVars, uses, lockless>>
    BY <1>4 DEF Open, OpenThen, Fits, Rotate, RotateFrom, Remove, Rename, RenameFails,
                RenameFailsTo, Reopen, Put, Close
  <2>4. exists  BY <1>1, <2>2 DEF Goes, InsideStates
  <2>5. to \in States /\ to # "set" /\ to \notin Early /\ from \notin Early
    BY DEF InsideStates, Early, States
  <2> QED  BY <2>2, <2>3, <2>4, <2>5, SemFrame
<1> QED  BY <1>2, <1>3, <1>4

LEMMA SemAlways == Spec => []SemInv
<1>1. SemInv /\ [Next]_vars => SemInv'
  <2> SUFFICES ASSUME SemInv, [Next]_vars PROVE SemInv'
    OBVIOUS
  <2>1. CASE UNCHANGED vars
    BY <2>1 DEF vars, semVars, fileVars, SemInv, SemTypes, CreationInv, CountInv,
                AloneInside, Holds, Inside
  <2>2. CASE Next
    <3>1. PICK p \in Procs :
             \/ Create(p) \/ Find(p) \/ Write(p) \/ Deinit(p)
             \/ EnterStep(p) \/ ProcStep(p) \/ Crash(p)
      BY <2>2 DEF Next
    <3>2. CASE EnterStep(p)
      <4>1. \E from \in {"config", "want", "stop"}, to \in InsideStates : Enter(p, from, to)
        BY <3>2 DEF EnterStep, EnterConfig, EnterWrite, EnterDeinit, InsideStates
      <4> QED  BY <4>1, EnterKeepsSem
    <3>3. CASE ProcStep(p)
      BY <3>3, StampKeepsSem, PollKeepsSem, LeaveKeepsSem, FileStepKeepsSem DEF ProcStep
    <3> QED
      BY <3>1, <3>2, <3>3, CreateKeepsSem, CrashKeepsSem, FileStepKeepsSem
  <2> QED  BY <2>1, <2>2
<1> QED  BY <1>1, InitSem, PTL DEF Spec

\* The semaphore excludes: of the processes that use it, one at most is at the
\* files (elog_file_port_lock and _unlock, and SEM_UNDO in down and up), as
\* often as processes are killed, and whoever went without it.
THEOREM AlwaysAlone == Spec => []AloneInside
<1>1. SemInv => AloneInside  BY DEF SemInv
<1> QED  BY <1>1, SemAlways, PTL

-------------------------------------------------------------------------------
(* The files *)

Opened == {"idle", "want", "size", "put", "stop", "close"}

FileTypes ==
    /\ data \in Seq(Seq(Nat)) /\ written \in Nat
    /\ fp \in [Procs -> 0 .. Len(data)] /\ dir \in [Names -> 0 .. Len(data)]
    /\ n \in [Procs -> Names]

\* Where a process uses its file it has one, and where it moves one there is a
\* name to move it to.
FileInv ==
    /\ FileTypes
    /\ \A p \in Procs : pc[p] \in Opened => fp[p] # 0
    /\ \A p \in Procs : pc[p] \in {"remove", "rename"} => n[p] # 0

\* A file is only written to when it is short, or new.
SizeInv ==
    /\ \A file \in DOMAIN data : Len(data[file]) <= MaxSize + 1
    /\ \A p \in Procs : pc[p] = "put" => Len(data[fp[p]]) <= MaxSize
    /\ \A p \in Procs : pc[p] = "reopen" => dir[0] = 0

LEMMA InitFile == Init => FileInv /\ SizeInv
<1> SUFFICES ASSUME Init PROVE FileInv /\ SizeInv
  OBVIOUS
<1> USE DEF Init
<1>1. FileTypes  BY SMT DEF FileTypes, Names
<1>2. \A p \in Procs : pc[p] = "off"  OBVIOUS
<1>3. DOMAIN data = {}  OBVIOUS
<1> QED  BY <1>1, <1>2, <1>3 DEF FileInv, SizeInv, Opened

\* As long as nobody goes without the semaphore, only one process is inside.
LEMMA OneInside ==
    ASSUME SemInv, ~lockless, NEW p \in Procs, NEW q \in Procs, Inside(p), Inside(q)
    PROVE  p = q
<1>1. uses[p] /\ uses[q]
  BY DEF SemInv, CreationInv, Inside, Early
<1> QED  BY <1>1 DEF SemInv, AloneInside, Holds

\* Steps that change no file and no name, and leave the other processes alone.
LEMMA FileFrame ==
    ASSUME FileInv, NEW p \in Procs, SemTypes,
           UNCHANGED <<data, dir, written>>,
           NEW to \in States, pc' = [pc EXCEPT ![p] = to],
           \/ fp' = fp /\ (to \in Opened => fp[p] # 0)
           \/ fp' = [fp EXCEPT ![p] = 0] /\ to \notin Opened,
           \/ n' = n /\ (to \in {"remove", "rename"} => n[p] # 0)
           \/ \E m \in Names : n' = [n EXCEPT ![p] = m]
                               /\ (to \in {"remove", "rename"} => m # 0)
    PROVE  /\ FileInv'
           /\ to \notin {"put", "reopen"} /\ SizeInv => SizeInv'
<1>1. FileTypes'
  <2>1. 0 \in 0 .. Len(data)  BY SMT DEF FileInv, FileTypes
  <2>2. fp' \in [Procs -> 0 .. Len(data)]  BY <2>1 DEF FileInv, FileTypes
  <2>3. n' \in [Procs -> Names]  BY DEF FileInv, FileTypes
  <2> QED  BY <2>2, <2>3 DEF FileInv, FileTypes
<1>2. /\ pc'[p] = to
      /\ \A q \in Procs : q # p => pc'[q] = pc[q] /\ fp'[q] = fp[q] /\ n'[q] = n[q]
  BY SMT DEF FileInv, FileTypes, SemTypes
<1>3. (to \in Opened => fp'[p] # 0) /\ (to \in {"remove", "rename"} => n'[p] # 0)
  BY SMT DEF FileInv, FileTypes
<1> QED  BY <1>1, <1>2, <1>3 DEF FileInv, SizeInv

\* All steps but those of elog_file_rotate and elog_file_write that touch a file
\* or a name.
LEMMA QuietKeeps ==
    ASSUME SemInv, FileInv, NEW p \in Procs,
           \/ Create(p) \/ Stamp(p) \/ Find(p) \/ Poll(p) \/ PollGivesUp(p)
           \/ EnterStep(p) \/ Leave(p) \/ Write(p) \/ Rotate(p) \/ RenameFails(p)
           \/ Deinit(p) \/ Close(p) \/ Crash(p)
    PROVE  FileInv' /\ (SizeInv => SizeInv')
<1> USE DEF Goes, fileVars, Opened, States, Names
<1>0. SemTypes  BY DEF SemInv
<1>1. CASE Create(p) \/ Stamp(p) \/ Find(p) \/ Poll(p) \/ PollGivesUp(p)
  <2>1. \E to \in {"set", "config", "poll"} : pc' = [pc EXCEPT ![p] = to]
    BY <1>1 DEF Create, Stamp, Find, Poll, PollGivesUp, PollEnds
  <2>2. UNCHANGED <<data, dir, written, fp, n>>
    BY <1>1 DEF Create, Stamp, Find, Poll, PollGivesUp, PollEnds
  <2> QED  BY <1>0, <2>1, <2>2, FileFrame
<1>2. CASE EnterStep(p) \/ Write(p) \/ Deinit(p)
  <2>1. PICK to \in {"open", "size", "close", "want", "stop"} :
            pc' = [pc EXCEPT ![p] = to] /\ (to = "open" \/ pc[p] \in Opened)
    BY <1>2 DEF EnterStep, EnterConfig, EnterWrite, EnterDeinit, Enter, Write, Deinit
  <2>2. UNCHANGED <<data, dir, written, fp, n>>
    BY <1>2 DEF EnterStep, EnterConfig, EnterWrite, EnterDeinit, Enter, Write, Deinit
  <2>3. to # "open" => fp[p] # 0  BY <2>1 DEF FileInv
  <2> QED  BY <1>0, <2>1, <2>2, <2>3, FileFrame
<1>3. CASE Leave(p)
  <2>1. PICK to \in {"off", "idle"} :
            pc' = [pc EXCEPT ![p] = to] /\ (to = "idle" => fp[p] # 0)
    BY <1>3 DEF Leave
  <2>2. UNCHANGED <<data, dir, written, fp, n>>  BY <1>3 DEF Leave
  <2> QED  BY <1>0, <2>1, <2>2, FileFrame
<1>4. CASE Rotate(p)
  <2>1. /\ pc' = [pc EXCEPT ![p] = "remove"] /\ fp' = [fp EXCEPT ![p] = 0]
        /\ n' = [n EXCEPT ![p] = MaxRotate] /\ UNCHANGED <<data, dir, written>>
    BY <1>4 DEF Rotate, RotateFrom
  <2>2. MaxRotate \in Names /\ MaxRotate # 0  OBVIOUS
  <2> QED  BY <1>0, <2>1, <2>2, FileFrame
<1>5. CASE RenameFails(p)
  <2>1. /\ pc' = [pc EXCEPT ![p] = "open"] /\ n' = [n EXCEPT ![p] = 0]
        /\ UNCHANGED <<data, dir, written, fp>>
    BY <1>5 DEF RenameFails, RenameFailsTo
  <2>2. 0 \in Names  OBVIOUS
  <2> QED  BY <1>0, <2>1, <2>2, FileFrame
<1>6. CASE Close(p)
  <2>1. /\ pc' = [pc EXCEPT ![p] = "leave"] /\ fp' = [fp EXCEPT ![p] = 0]
        /\ UNCHANGED <<data, dir, written, n>>
    BY <1>6 DEF Close
  <2> QED  BY <1>0, <2>1, FileFrame
<1>7. CASE Crash(p)
  <2>1. /\ pc' = [pc EXCEPT ![p] = "off"] /\ fp' = [fp EXCEPT ![p] = 0]
        /\ n' = [n EXCEPT ![p] = 0] /\ UNCHANGED <<data, dir, written>>
    BY <1>7 DEF Crash, CrashUndoing
  <2>2. 0 \in Names  OBVIOUS
  <2> QED  BY <1>0, <2>1, <2>2, FileFrame
<1> QED  BY <1>1, <1>2, <1>3, <1>4, <1>5, <1>6, <1>7

LEMMA FitsKeeps ==
    ASSUME SemInv, FileInv, NEW p \in Procs, Fits(p)
    PROVE  FileInv' /\ (SizeInv => SizeInv')
<1>1. pc[p] = "size" /\ pc' = [pc EXCEPT ![p] = "put"] /\ Len(data[fp[p]]) <= MaxSize
  BY DEF Fits, Goes, Size
<1>2. UNCHANGED <<data, dir, written, fp, n>>  BY DEF Fits, fileVars
<1>3. fp[p] # 0 /\ SemTypes /\ "put" \in States
  BY <1>1 DEF FileInv, Opened, SemInv, States
<1>4. FileInv'  BY <1>1, <1>2, <1>3, FileFrame
<1>5. pc'[p] = "put" /\ \A q \in Procs : q # p => pc'[q] = pc[q]
  BY <1>1, <1>3 DEF SemTypes
<1> QED  BY <1>1, <1>2, <1>4, <1>5 DEF SizeInv

\* remove and rename change names only; with xxx.log renamed, its name is free.
LEMMA MoveKeeps ==
    ASSUME SemInv, FileInv, NEW p \in Procs, Remove(p) \/ Rename(p)
    PROVE  FileInv' /\ (SizeInv /\ ~lockless => SizeInv')
<1> USE DEF Goes, Names, FileTypes
<1>0. n[p] \in 1 .. MaxRotate /\ pc[p] \in {"remove", "rename"}
  <2>1. pc[p] \in {"remove", "rename"}  BY DEF Remove, Rename
  <2>2. n[p] # 0 /\ n[p] \in 0 .. MaxRotate  BY <2>1 DEF FileInv
  <2> QED  BY <2>1, <2>2, SMT
<1>1. UNCHANGED <<data, written, fp>>
  BY DEF Remove, Rename
<1>2. dir' \in [Names -> 0 .. Len(data)] /\ n' \in [Procs -> Names]
  <2>1. CASE Remove(p)
    <3>1. n' = n /\ dir' = [dir EXCEPT ![n[p]] = 0]  BY <2>1 DEF Remove
    <3>2. 0 \in 0 .. Len(data)  BY SMT DEF FileInv
    <3> QED  BY <3>1, <3>2 DEF FileInv
  <2>2. CASE Rename(p)
    <3>1. n[p] - 1 \in Names  BY <1>0, SMT
    <3>2. n' = [n EXCEPT ![p] = n[p] - 1]  BY <2>2 DEF Rename
    <3>3. dir[n[p] - 1] \in 0 .. Len(data) /\ 0 \in 0 .. Len(data)
      BY <3>1, SMT DEF FileInv
    <3>4. dir' \in {dir, [dir EXCEPT ![n[p]] = dir[n[p] - 1], ![n[p] - 1] = 0]}
      BY <2>2 DEF Rename
    <3> QED  BY <3>1, <3>2, <3>3, <3>4 DEF FileInv
  <2> QED  BY <2>1, <2>2
<1>3. PICK to \in {"rename", "remove", "reopen"} :
        /\ pc' = [pc EXCEPT ![p] = to]
        /\ to = "reopen" => dir'[0] = 0
        /\ to # "reopen" => n'[p] # 0
  <2>1. CASE Remove(p)
    <3>1. pc' = [pc EXCEPT ![p] = "rename"] /\ n' = n  BY <2>1 DEF Remove
    <3> QED  BY <1>0, <3>1, SMT
  <2>2. CASE Rename(p)
    <3>1. n'[p] = n[p] - 1  BY <2>2 DEF Rename, FileInv
    <3>2. CASE n[p] - 1 = 0
      <4>1. dir' = IF dir[0] = 0 THEN dir ELSE [dir EXCEPT ![n[p]] = dir[0], ![0] = 0]
        BY <2>2, <3>2 DEF Rename
      <4>2. dir'[0] = 0  BY <4>1, SMT DEF FileInv
      <4>3. pc' = [pc EXCEPT ![p] = "reopen"]  BY <2>2, <3>2 DEF Rename
      <4> QED  BY <4>2, <4>3
    <3>3. CASE n[p] - 1 # 0
      <4>1. pc' = [pc EXCEPT ![p] = "remove"]  BY <2>2, <3>3 DEF Rename
      <4> QED  BY <3>1, <3>3, <4>1
    <3> QED  BY <3>2, <3>3
  <2> QED  BY <2>1, <2>2
<1>4. \A q \in Procs : q # p => n'[q] = n[q]
  <2>1. n' = n \/ n' = [n EXCEPT ![p] = n[p] - 1]  BY DEF Remove, Rename
  <2> QED  BY <2>1 DEF FileInv
<1>5. pc'[p] = to /\ \A q \in Procs : q # p => pc'[q] = pc[q]
  BY <1>3 DEF SemInv, SemTypes
<1>6. FileInv'  BY <1>1, <1>2, <1>3, <1>4, <1>5 DEF FileInv, Opened
<1>7. ~lockless => \A q \in Procs : q # p => pc'[q] \notin {"put", "reopen"}
  <2>1. Inside(p)  BY <1>0 DEF Inside
  <2> QED  BY <1>5, <2>1, OneInside DEF Inside
<1> QED  BY <1>1, <1>3, <1>5, <1>6, <1>7 DEF SizeInv

\* fopen only ever adds an empty file.
LEMMA OpenKeeps ==
    ASSUME SemInv, FileInv, NEW p \in Procs, Open(p) \/ Reopen(p)
    PROVE  FileInv' /\ (SizeInv /\ ~lockless => SizeInv')
<1> USE DEF FileTypes, Names
<1>1. PICK to \in {"leave", "put"} :
        /\ pc[p] = (IF to = "put" THEN "reopen" ELSE "open")
        /\ pc' = [pc EXCEPT ![p] = to]
        /\ UNCHANGED <<n, written>>
        /\ \/ /\ dir[0] = 0
              /\ data' = Append(data, <<>>)
              /\ fp' = [fp EXCEPT ![p] = Len(data) + 1]
              /\ dir' = [dir EXCEPT ![0] = Len(data) + 1]
           \/ /\ dir[0] # 0
              /\ data' = [data EXCEPT ![dir[0]] = data[dir[0]]]
              /\ fp' = [fp EXCEPT ![p] = dir[0]]
              /\ dir' = [dir EXCEPT ![0] = dir[0]]
  BY DEF Open, Reopen, OpenThen, Goes
<1>2. pc'[p] = to /\ \A q \in Procs : q # p => pc'[q] = pc[q]
  BY <1>1 DEF SemInv, SemTypes
<1>3. /\ dir[0] \in 0 .. Len(data) /\ Len(data) \in Nat /\ DOMAIN data = 1 .. Len(data)
      /\ \A f \in 1 .. Len(data) : data[f] \in Seq(Nat)
  <2>1. data \in Seq(Seq(Nat)) /\ 0 \in Names /\ dir \in [Names -> 0 .. Len(data)]
    BY SMT DEF FileInv
  <2> QED  BY <2>1, LenProperties, ElementOfSeq
<1>4. ~lockless => \A q \in Procs : q # p => pc'[q] \notin {"put", "reopen"}
  <2>1. pc[p] \in {"open", "reopen"}  BY <1>1
  <2>2. Inside(p)  BY <2>1 DEF Inside
  <2> QED  BY <1>2, <2>2, OneInside DEF Inside
<1>5. CASE dir[0] = 0
  <2>1. /\ data' \in Seq(Seq(Nat)) /\ Len(data') = Len(data) + 1
        /\ data'[Len(data) + 1] = <<>>
        /\ \A f \in 1 .. Len(data) : data'[f] = data[f]
    <3>1. data \in Seq(Seq(Nat)) /\ <<>> \in Seq(Nat) /\ data' = Append(data, <<>>)
      BY <1>1, <1>5, EmptySeq DEF FileInv
    <3> QED  BY <3>1, AppendProperties
  <2>2. /\ 0 .. Len(data) \subseteq 0 .. Len(data')
        /\ Len(data) + 1 \in 0 .. Len(data') /\ Len(data) + 1 # 0
    BY <1>3, <2>1, SMT
  <2>3. /\ fp' = [fp EXCEPT ![p] = Len(data) + 1] /\ dir' = [dir EXCEPT ![0] = Len(data) + 1]
        /\ n' = n /\ written' = written
    BY <1>1, <1>5
  <2>4. fp' \in [Procs -> 0 .. Len(data')] /\ dir' \in [Names -> 0 .. Len(data')]
    BY <2>2, <2>3 DEF FileInv
  <2>5. fp'[p] = Len(data) + 1 /\ \A q \in Procs : q # p => fp'[q] = fp[q]
    BY <2>3 DEF FileInv
  <2>6. FileInv'
    BY <1>1, <1>2, <2>1, <2>2, <2>3, <2>4, <2>5 DEF FileInv, Opened
  <2>7. DOMAIN data' = 1 .. Len(data) + 1
    BY <2>1, LenProperties
  <2>8. ASSUME SizeInv, NEW f \in DOMAIN data' PROVE Len(data'[f]) <= MaxSize + 1
    <3>1. f \in 1 .. Len(data) \/ f = Len(data) + 1  BY <1>3, <2>7, SMT
    <3>2. Len(<<>>) <= MaxSize + 1  BY SMT
    <3> QED  BY <1>3, <2>1, <2>8, <3>1, <3>2 DEF SizeInv
  <2>9. Len(data'[fp'[p]]) <= MaxSize
    BY <2>1, <2>5, SMT
  <2> QED  BY <1>1, <1>2, <1>4, <2>6, <2>8, <2>9 DEF SizeInv
<1>6. CASE dir[0] # 0
  <2>1. data' = data
    <3>1. data' = [data EXCEPT ![dir[0]] = data[dir[0]]]  BY <1>1, <1>6
    <3> QED  BY <3>1, LenProperties DEF FileInv
  <2>2. dir' = dir
    <3>1. dir' = [dir EXCEPT ![0] = dir[0]]  BY <1>1, <1>6
    <3> QED  BY <3>1 DEF FileInv
  <2>3. fp' = [fp EXCEPT ![p] = dir[0]]  BY <1>1, <1>6
  <2>4. /\ fp' \in [Procs -> 0 .. Len(data)] /\ fp'[p] = dir[0]
        /\ \A q \in Procs : q # p => fp'[q] = fp[q]
    BY <1>3, <2>3 DEF FileInv
  <2>5. FileInv'
    BY <1>1, <1>2, <1>6, <2>1, <2>2, <2>4 DEF FileInv, Opened
  <2>6. SizeInv => to # "put"
    BY <1>1, <1>6 DEF SizeInv
  <2> QED  BY <1>1, <1>2, <1>4, <2>1, <2>5, <2>6 DEF SizeInv
<1> QED  BY <1>5, <1>6

LEMMA PutKeeps ==
    ASSUME SemInv, FileInv, NEW p \in Procs, Put(p)
    PROVE  FileInv' /\ (SizeInv /\ ~lockless => SizeInv')
<1> USE DEF FileTypes
<1>1. /\ pc[p] = "put" /\ pc' = [pc EXCEPT ![p] = "leave"]
      /\ UNCHANGED <<n, fp, dir>> /\ written' = written + 1
      /\ data' = [data EXCEPT ![fp[p]] = Append(data[fp[p]], written + 1)]
  BY DEF Put, Goes
<1>2. pc'[p] = "leave" /\ \A q \in Procs : q # p => pc'[q] = pc[q]
  BY <1>1 DEF SemInv, SemTypes
<1>3. /\ fp[p] \in 1 .. Len(data) /\ DOMAIN data = 1 .. Len(data)
      /\ data \in Seq(Seq(Nat)) /\ data[fp[p]] \in Seq(Nat)
  <2>1. fp[p] # 0  BY <1>1 DEF FileInv, Opened
  <2>2. data \in Seq(Seq(Nat)) /\ fp[p] \in 0 .. Len(data)  BY DEF FileInv
  <2>3. Len(data) \in Nat /\ DOMAIN data = 1 .. Len(data)  BY <2>2, LenProperties
  <2>4. fp[p] \in 1 .. Len(data)  BY <2>1, <2>2, <2>3, SMT
  <2> QED  BY <2>2, <2>3, <2>4, ElementOfSeq
<1>4. Append(data[fp[p]], written + 1) \in Seq(Nat)
      /\ Len(Append(data[fp[p]], written + 1)) = Len(data[fp[p]]) + 1
      /\ Len(data[fp[p]]) \in Nat
  <2>1. written + 1 \in Nat  BY SMT DEF FileInv
  <2> QED  BY <1>3, <2>1, AppendProperties, LenProperties
<1>5. /\ data' \in Seq(Seq(Nat)) /\ Len(data') = Len(data) /\ DOMAIN data' = DOMAIN data
      /\ \A f \in DOMAIN data : data'[f] = IF f = fp[p] THEN Append(data[fp[p]], written + 1)
                                           ELSE data[f]
  BY <1>1, <1>3, <1>4, ExceptSeq, LenProperties
<1>6. FileInv'
  <2>1. written' \in Nat  BY <1>1, SMT DEF FileInv
  <2> QED  BY <1>1, <1>2, <1>5, <2>1 DEF FileInv, Opened
<1>7. ~lockless => \A q \in Procs : pc'[q] \notin {"put", "reopen"}
  <2>1. Inside(p)  BY <1>1 DEF Inside
  <2> QED  BY <1>2, <2>1, OneInside DEF Inside
<1>8. ASSUME SizeInv, NEW f \in DOMAIN data PROVE Len(data'[f]) <= MaxSize + 1
  <2>1. Len(data[fp[p]]) <= MaxSize  BY <1>1, <1>8 DEF SizeInv
  <2>2. Len(data'[fp[p]]) <= MaxSize + 1  BY <1>3, <1>4, <1>5, <2>1, SMT
  <2> QED  BY <1>5, <1>8, <2>2 DEF SizeInv
<1> QED  BY <1>5, <1>6, <1>7, <1>8 DEF SizeInv

LEMMA LockStays ==
    ASSUME [Next]_vars
    PROVE  lockless => lockless'
BY DEF Next, Create, Stamp, Find, Poll, PollGivesUp, EnterStep, EnterConfig, EnterWrite,
       EnterDeinit, Enter, Leave, Open, Reopen, OpenThen, Write, Fits, Rotate, RotateFrom, Remove,
       Rename, RenameFails, RenameFailsTo, Put, Deinit, Close, Crash, CrashUndoing, ProcStep,
       fileVars, vars

LEMMA FilesAlways == Spec => [](FileInv /\ (lockless \/ SizeInv))
<1> DEFINE J == SemInv /\ FileInv /\ (lockless \/ SizeInv)
<1>1. Init => J  BY InitSem, InitFile
<1>2. J /\ [Next]_vars => (FileInv /\ (lockless \/ SizeInv))'
  <2> SUFFICES ASSUME J, [Next]_vars PROVE FileInv' /\ (lockless' \/ SizeInv')
    OBVIOUS
  <2>1. lockless => lockless'  BY LockStays
  <2>2. CASE UNCHANGED vars
    BY <2>2 DEF vars, fileVars, FileInv, FileTypes, SizeInv
  <2>3. CASE Next
    <3>1. PICK p \in Procs :
             \/ Create(p) \/ Find(p) \/ Write(p) \/ Deinit(p)
             \/ EnterStep(p) \/ ProcStep(p) \/ Crash(p)
      BY <2>3 DEF Next
    <3> QED  BY <2>1, <3>1, QuietKeeps, FitsKeeps, MoveKeeps, OpenKeeps, PutKeeps DEF ProcStep
  <2> QED  BY <2>2, <2>3
<1> QED  BY <1>1, <1>2, SemAlways, PTL DEF Spec

\* elog_file_write: a file grows past its limit by one log at most, for any
\* number of processes and names, as long as all keep to the semaphore.
THEOREM AlwaysBounded == Spec => []Bounded
<1>1. FileInv /\ (lockless \/ SizeInv) => Bounded  BY DEF SizeInv, Bounded
<1> QED  BY <1>1, FilesAlways, PTL

-------------------------------------------------------------------------------
(* The order of the logs *)

\* Nothing has happened that the order does not survive.
Calm == ~strayed /\ ~lockless

Full == MaxSize + 1
Moving == {"remove", "rename"}

\* A file has one name, and those that have one open have xxx.log; it is full
\* when it is rotated, and a name is free before a file is moved to it.
PlaceInv ==
    /\ crashes \in Nat /\ failures \in Nat
    /\ \A m, o \in Names : dir[m] # 0 /\ dir[m] = dir[o] => m = o
    /\ \A p \in Procs : fp[p] # 0 => fp[p] = dir[0]
    /\ \A p \in Procs : pc[p] \in Moving => Len(Logs(0)) = Full
    /\ \A p \in Procs : pc[p] = "remove" => n[p] = MaxRotate \/ dir[n[p]] = 0
    /\ \A p \in Procs : pc[p] = "rename" => dir[n[p]] = 0

\* Name m has the logs top[m + 1] + 1 to top[m], one after the other: those up to
\* top[MaxRotate + 1] are lost.
Ranks == 0 .. MaxRotate + 1

Edges(top) ==
    /\ top \in [Ranks -> Nat] /\ top[0] = written
    /\ \A a, b \in Ranks : a <= b => top[b] <= top[a]

Slice(top, m) ==
    /\ Len(Logs(m)) = top[m] - top[m + 1]
    /\ \A i \in DOMAIN Logs(m) : Logs(m)[i] = top[m + 1] + i

Covers(top) ==
    \A x \in top[MaxRotate + 1] + 1 .. written : \E m \in Names : x \in top[m + 1] + 1 .. top[m]

\* Above a log that is not the first, in the names 1 to o - 1, there are full
\* files, but for one for each kill and failure, and one while they are moved.
Moved(o) == \E p \in Procs : pc[p] \in Moving /\ n[p] < o
Gaps(o) == crashes + failures + (IF Moved(o) THEN 1 ELSE 0)
Dense(top) ==
    \A o \in 1 .. MaxRotate + 1 : top[o] > 0 => top[1] - top[o] >= (o - 1 - Gaps(o)) * Full

Chain(top) ==
    Edges(top) /\ (\A m \in Names : Slice(top, m)) /\ Covers(top) /\ Dense(top)

OrderInv == Calm => PlaceInv /\ \E top \in [Ranks -> Nat] : Chain(top)

LEMMA FullTimes ==
    ASSUME NEW j \in Int, NEW k \in Int, j <= k
    PROVE  /\ j * Full \in Int /\ k * Full \in Int /\ j * Full <= k * Full
           /\ (j + 1) * Full = j * Full + Full /\ Full \in Nat
BY SMT DEF Full

LEMMA LogsTypes ==
    ASSUME FileInv, NEW m \in Names
    PROVE  Logs(m) \in Seq(Nat) /\ Len(Logs(m)) \in Nat /\ DOMAIN Logs(m) = 1 .. Len(Logs(m))
<1>1. data \in Seq(Seq(Nat)) /\ dir[m] \in 0 .. Len(data) /\ Len(data) \in Nat
  BY LenProperties DEF FileInv, FileTypes
<1>2. Logs(m) \in Seq(Nat)
  <2>1. CASE dir[m] = 0  BY <2>1, EmptySeq DEF Logs
  <2>2. CASE dir[m] # 0
    <3>1. dir[m] \in 1 .. Len(data)  BY <1>1, <2>2, SMT
    <3>2. data[dir[m]] \in Seq(Nat)  BY <1>1, <3>1, ElementOfSeq
    <3> QED  BY <2>2, <3>2 DEF Logs
  <2> QED  BY <2>1, <2>2
<1> QED  BY <1>2, LenProperties

\* What is dense stays so when there are no fewer excuses.
LEMMA GapsCount ==
    ASSUME PlaceInv, PlaceInv', NEW o
    PROVE  Gaps(o) \in Nat /\ Gaps(o)' \in Nat
<1>1. /\ crashes \in Nat /\ failures \in Nat
      /\ crashes' \in Nat /\ failures' \in Nat
  BY DEF PlaceInv
<1>2. Gaps(o) \in Nat  BY <1>1, SMT DEF Gaps
<1>3. Gaps(o)' = crashes' + failures' + (IF Moved(o)' THEN 1 ELSE 0)
  BY Zenon DEF Gaps
<1>4. Gaps(o)' \in Nat
  <2>1. (IF Moved(o)' THEN 1 ELSE 0) \in {0, 1}  BY Zenon
  <2> DEFINE c == crashes'
             f == failures'
             i == IF Moved(o)' THEN 1 ELSE 0
  <2>2. c \in Nat /\ f \in Nat /\ i \in {0, 1} /\ Gaps(o)' = c + f + i
    BY <1>1, <1>3, <2>1
  <2> HIDE DEF c, f, i
  <2> QED  BY <2>2, SMT
<1> QED  BY <1>2, <1>4

LEMMA DenseStays ==
    ASSUME NEW top \in [Ranks -> Nat], Dense(top), PlaceInv, PlaceInv',
           \A o \in 1 .. MaxRotate + 1 : Gaps(o) <= Gaps(o)'
    PROVE  Dense(top)'
<1> SUFFICES ASSUME NEW o \in 1 .. MaxRotate + 1, top[o] > 0
             PROVE  top[1] - top[o] >= (o - 1 - Gaps(o)') * Full
  BY DEF Dense
<1>1. top[1] \in Nat /\ top[o] \in Nat /\ o \in Nat
  <2>1. 1 \in Ranks /\ o \in Ranks /\ o \in Nat  BY SMT DEF Ranks
  <2> QED  BY <2>1
<1>2. Gaps(o) \in Nat /\ Gaps(o)' \in Nat /\ Gaps(o) <= Gaps(o)'
  BY GapsCount
<1>3. top[1] - top[o] >= (o - 1 - Gaps(o)) * Full  BY DEF Dense
<1> DEFINE j == o - 1 - Gaps(o)'
           k == o - 1 - Gaps(o)
<1>4. j \in Int /\ k \in Int /\ j <= k  BY <1>1, <1>2, SMT
<1> HIDE DEF j, k
<1>5. j * Full \in Int /\ k * Full \in Int /\ j * Full <= k * Full  BY <1>4, FullTimes
<1>6. top[1] - top[o] >= k * Full  BY <1>3 DEF k
<1>7. top[1] - top[o] >= j * Full  BY <1>1, <1>5, <1>6, SMT
<1> QED  BY <1>7 DEF j

\* No log is touched.
LEMMA ChainFrame ==
    ASSUME NEW top \in [Ranks -> Nat], Chain(top), PlaceInv, PlaceInv',
           written' = written, \A m \in Names : Logs(m)' = Logs(m),
           \A o \in 1 .. MaxRotate + 1 : Gaps(o) <= Gaps(o)'
    PROVE  Chain(top)'
<1>2. Edges(top)' /\ Covers(top)'  BY DEF Chain, Edges, Covers
<1>3. \A m \in Names : Slice(top, m)'  BY DEF Chain, Slice
<1>4. Dense(top)'  BY DenseStays DEF Chain
<1> QED  BY <1>2, <1>3, <1>4 DEF Chain

\* A step of a process that is not to move files next; if it was to, it was
\* killed or failed.
LEMMA OrderFrame ==
    ASSUME SemInv, FileInv, PlaceInv, NEW top \in [Ranks -> Nat], Chain(top),
           NEW p \in Procs, NEW to \in States \ Moving, pc' = [pc EXCEPT ![p] = to],
           UNCHANGED <<data, dir, written>>,
           fp' = fp \/ fp' = [fp EXCEPT ![p] = 0],
           n' = n \/ \E m \in Names : n' = [n EXCEPT ![p] = m],
           crashes' \in Nat, failures' \in Nat,
           crashes' + failures' >= crashes + failures + (IF pc[p] \in Moving THEN 1 ELSE 0)
    PROVE  PlaceInv' /\ Chain(top)'
<1>1. /\ pc'[p] = to
      /\ \A q \in Procs : q # p => pc'[q] = pc[q] /\ n'[q] = n[q]
      /\ \A q \in Procs : fp'[q] = fp[q] \/ fp'[q] = 0
  BY DEF FileInv, FileTypes, SemInv, SemTypes
<1>2. \A m \in Names : Logs(m)' = Logs(m)  BY DEF Logs
<1>3. 0 \in Names  BY SMT DEF Names
<1>4. PlaceInv'
  BY <1>1, <1>2, <1>3 DEF PlaceInv, Moving
<1>5. ASSUME NEW o \in 1 .. MaxRotate + 1 PROVE Gaps(o) <= Gaps(o)'
  <2> DEFINE s == crashes + failures
             t == crashes' + failures'
  <2>1. s \in Nat /\ t \in Nat /\ t >= s + (IF pc[p] \in Moving THEN 1 ELSE 0)
    <3>1. crashes \in Nat /\ failures \in Nat  BY DEF PlaceInv
    <3>2. \A c, f \in Nat : c + f \in Nat  OBVIOUS
    <3> QED  BY <3>1, <3>2
  <2>2. pc[p] \notin Moving /\ Moved(o) => Moved(o)'
    BY <1>1 DEF Moved
  <2>3. /\ Gaps(o) = s + (IF Moved(o) THEN 1 ELSE 0)
        /\ Gaps(o)' = t + (IF Moved(o)' THEN 1 ELSE 0)
    BY DEF Gaps
  <2> HIDE DEF s, t
  <2>4. CASE pc[p] \in Moving
    <3>1. t >= s + 1 /\ Gaps(o)' >= t /\ Gaps(o) <= s + 1  BY <2>1, <2>3, <2>4, SMT
    <3>2. Gaps(o) \in Int /\ Gaps(o)' \in Int  BY <2>1, <2>3, SMT
    <3> QED  BY <2>1, <3>1, <3>2, SMT
  <2>5. CASE pc[p] \notin Moving
    <3>1. t >= s  BY <2>1, <2>5, SMT
    <3>2. CASE Moved(o)
      <4>1. Gaps(o) = s + 1 /\ Gaps(o)' = t + 1  BY <2>2, <2>3, <2>5, <3>2
      <4> QED  BY <2>1, <3>1, <4>1, SMT
    <3>3. CASE ~Moved(o)
      <4>1. Gaps(o) = s + 0 /\ Gaps(o)' \in {t + 0, t + 1}  BY <2>3, <3>3
      <4> QED  BY <2>1, <3>1, <4>1, SMT
    <3> QED  BY <3>2, <3>3
  <2> QED  BY <2>4, <2>5
<1> QED  BY <1>2, <1>4, <1>5, ChainFrame

LEMMA QuietOrder ==
    ASSUME SemInv, FileInv, PlaceInv, NEW top \in [Ranks -> Nat], Chain(top),
           NEW p \in Procs,
           \/ Create(p) \/ Stamp(p) \/ Find(p) \/ Poll(p) \/ PollGivesUp(p)
           \/ EnterStep(p) \/ Leave(p) \/ Write(p) \/ Fits(p) \/ RenameFails(p)
           \/ Deinit(p) \/ Close(p) \/ Crash(p)
    PROVE  PlaceInv' /\ Chain(top)'
<1> USE DEF Goes, fileVars
<1>0. crashes \in Nat /\ failures \in Nat  BY DEF PlaceInv
<1>1. CASE \/ Create(p) \/ Stamp(p) \/ Find(p) \/ Poll(p) \/ PollGivesUp(p)
           \/ EnterStep(p) \/ Leave(p) \/ Write(p) \/ Fits(p) \/ Deinit(p) \/ Close(p)
  <2>1. \E to \in States \ Moving : pc' = [pc EXCEPT ![p] = to]
    BY <1>1 DEF Create, Stamp, Find, Poll, PollGivesUp, PollEnds, EnterStep, EnterConfig,
                EnterWrite, EnterDeinit, Enter, Leave, Write, Fits, Deinit, Close, States,
                Moving
  <2>2. pc[p] \notin Moving
    BY <1>1 DEF Create, Stamp, Find, Poll, PollGivesUp, PollEnds, EnterStep, EnterConfig,
                EnterWrite, EnterDeinit, Enter, Leave, Write, Fits, Deinit, Close, Moving
  <2>3. UNCHANGED <<data, dir, written, n, crashes, failures>>
    BY <1>1 DEF Create, Stamp, Find, Poll, PollGivesUp, PollEnds, EnterStep, EnterConfig,
                EnterWrite, EnterDeinit, Enter, Leave, Write, Fits, Deinit, Close
  <2>4. fp' = fp \/ fp' = [fp EXCEPT ![p] = 0]
    BY <1>1 DEF Create, Stamp, Find, Poll, PollGivesUp, PollEnds, EnterStep, EnterConfig,
                EnterWrite, EnterDeinit, Enter, Leave, Write, Fits, Deinit, Close
  <2>5. crashes' + failures' >= crashes + failures + (IF pc[p] \in Moving THEN 1 ELSE 0)
    BY <1>0, <2>2, <2>3, SMT
  <2> QED  BY <1>0, <2>1, <2>3, <2>4, <2>5, OrderFrame
<1>2. CASE RenameFails(p) \/ Crash(p)
  <2>1. \E to \in States \ Moving : pc' = [pc EXCEPT ![p] = to]
    BY <1>2 DEF RenameFails, RenameFailsTo, Crash, CrashUndoing, States, Moving
  <2>2. UNCHANGED <<data, dir, written>>
    BY <1>2 DEF RenameFails, RenameFailsTo, Crash, CrashUndoing
  <2>3. /\ fp' = fp \/ fp' = [fp EXCEPT ![p] = 0]
        /\ n' = [n EXCEPT ![p] = 0] /\ 0 \in Names
    BY <1>2, SMT DEF RenameFails, RenameFailsTo, Crash, CrashUndoing, Names
  <2>4. \/ crashes' = crashes + 1 /\ failures' = failures
        \/ crashes' = crashes /\ failures' = failures + 1
    BY <1>2 DEF RenameFails, RenameFailsTo, Crash, CrashUndoing
  <2>5. /\ crashes' + failures' >= crashes + failures + (IF pc[p] \in Moving THEN 1 ELSE 0)
        /\ crashes' \in Nat /\ failures' \in Nat
    BY <1>0, <2>4, SMT
  <2> QED  BY <2>1, <2>2, <2>3, <2>5, OrderFrame
<1> QED  BY <1>1, <1>2

\* A file that is found too long is full.
LEMMA RotateOrder ==
    ASSUME SemInv, FileInv, SizeInv, PlaceInv, NEW top \in [Ranks -> Nat], Chain(top),
           NEW p \in Procs, Rotate(p)
    PROVE  PlaceInv' /\ Chain(top)'
<1> USE DEF Goes, fileVars
<1>1. /\ pc[p] = "size" /\ pc' = [pc EXCEPT ![p] = "remove"]
      /\ fp' = [fp EXCEPT ![p] = 0] /\ n' = [n EXCEPT ![p] = MaxRotate]
      /\ UNCHANGED <<data, dir, written, crashes, failures>>
      /\ Len(data[fp[p]]) > MaxSize
  BY DEF Rotate, RotateFrom, Size
<1>2. /\ pc'[p] = "remove" /\ n'[p] = MaxRotate
      /\ \A q \in Procs : q # p => pc'[q] = pc[q] /\ n'[q] = n[q]
      /\ \A q \in Procs : fp'[q] = fp[q] \/ fp'[q] = 0
  BY <1>1 DEF FileInv, FileTypes, SemInv, SemTypes
<1>3. \A m \in Names : Logs(m)' = Logs(m)  BY <1>1 DEF Logs
<1>4. 0 \in Names  BY SMT DEF Names
<1>5. Len(Logs(0)) = Full
  <2>1. fp[p] # 0 /\ fp[p] = dir[0] /\ fp[p] \in 0 .. Len(data)
    BY <1>1 DEF FileInv, FileTypes, Opened, PlaceInv
  <2>2. DOMAIN data = 1 .. Len(data) /\ Len(data) \in Nat
    BY LenProperties DEF FileInv, FileTypes
  <2>3. fp[p] \in DOMAIN data  BY <2>1, <2>2, SMT
  <2>4. Len(data[fp[p]]) <= MaxSize + 1  BY <2>3 DEF SizeInv
  <2>5. Logs(0) = data[fp[p]]  BY <2>1 DEF Logs
  <2>6. Len(Logs(0)) \in Nat  BY <1>4, LogsTypes
  <2> QED  BY <1>1, <2>4, <2>5, <2>6, SMT DEF Full
<1>6. PlaceInv'
  BY <1>1, <1>2, <1>3, <1>4, <1>5 DEF PlaceInv, Moving
<1>7. ASSUME NEW o \in 1 .. MaxRotate + 1 PROVE Gaps(o) <= Gaps(o)'
  <2>1. crashes \in Nat /\ failures \in Nat  BY DEF PlaceInv
  <2>2. Moved(o) => Moved(o)'  BY <1>1, <1>2 DEF Moved, Moving
  <2> QED  BY <1>1, <2>1, <2>2, SMT DEF Gaps
<1> QED  BY <1>1, <1>3, <1>6, <1>7, ChainFrame

\* The logs up to the name k are pushed to the next one, or lost with it.
Pushed(top, k) == [top EXCEPT ![k + 1] = top[k]]

LEMMA PushedEdges ==
    ASSUME NEW top \in [Ranks -> Nat], Edges(top), NEW k \in Names
    PROVE  /\ Pushed(top, k) \in [Ranks -> Nat]
           /\ Pushed(top, k)[k + 1] = top[k]
           /\ \A o \in Ranks : o # k + 1 => Pushed(top, k)[o] = top[o]
           /\ Edges(Pushed(top, k))
<1> DEFINE t == Pushed(top, k)
<1>1. k \in Ranks /\ k + 1 \in Ranks /\ 0 \in Ranks /\ 0 # k + 1 /\ k \in Nat
  BY SMT DEF Names, Ranks
<1>2. top[k] \in Nat  BY <1>1
<1>3. /\ t \in [Ranks -> Nat] /\ t[k + 1] = top[k]
      /\ \A o \in Ranks : o # k + 1 => t[o] = top[o]
  BY <1>1, <1>2 DEF Pushed
<1> HIDE DEF t
<1>4. ASSUME NEW a \in Ranks, NEW b \in Ranks, a <= b PROVE t[b] <= t[a]
  <2>1. /\ a \in Nat /\ b \in Nat /\ top[a] \in Nat /\ top[b] \in Nat
        /\ top[b] <= top[a]
    BY <1>4 DEF Ranks, Edges
  <2>2. CASE a = k + 1 /\ b # k + 1
    <3>1. k <= b  BY <1>1, <1>4, <2>1, <2>2, SMT
    <3>2. top[b] <= top[k]  BY <1>1, <3>1 DEF Edges
    <3> QED  BY <1>3, <2>2, <3>2
  <2>3. CASE b = k + 1 /\ a # k + 1
    <3>1. a <= k  BY <1>1, <1>4, <2>1, <2>3, SMT
    <3>2. top[k] <= top[a]  BY <1>1, <3>1 DEF Edges
    <3> QED  BY <1>3, <2>3, <3>2
  <2>4. CASE a # k + 1 /\ b # k + 1  BY <1>3, <2>1, <2>4
  <2>5. CASE a = k + 1 /\ b = k + 1  BY <1>2, <1>3, <2>5, SMT
  <2> QED  BY <2>2, <2>3, <2>4, <2>5
<1>5. t[0] = written  BY <1>1, <1>3 DEF Edges
<1>6. Edges(t)  BY <1>3, <1>4, <1>5 DEF Edges
<1> QED  BY <1>3, <1>6 DEF t

\* While the files are moved, the one that has been moved last makes the gap
\* that is excused.
LEMMA PushedDense ==
    ASSUME NEW top \in [Ranks -> Nat], Edges(top), Dense(top), PlaceInv, PlaceInv',
           NEW k \in 1 .. MaxRotate, ~Moved(k), Moved(k + 1)',
           UNCHANGED <<crashes, failures>>,
           \A o \in 1 .. MaxRotate + 1 : Gaps(o) <= Gaps(o)'
    PROVE  Dense(Pushed(top, k))'
<1> DEFINE t == Pushed(top, k)
<1>1. /\ k \in Names /\ k + 1 \in 1 .. MaxRotate + 1 /\ 1 # k + 1
      /\ 1 \in Ranks /\ k \in Ranks /\ k \in Nat /\ k \in 1 .. MaxRotate + 1
  BY SMT DEF Names, Ranks
<1>2. /\ t \in [Ranks -> Nat] /\ t[k + 1] = top[k] /\ t[1] = top[1]
      /\ \A o \in Ranks : o # k + 1 => t[o] = top[o]
  BY <1>1, PushedEdges
<1> HIDE DEF t
<1>3. Dense(top)'  BY DenseStays
<1>4. ASSUME NEW o \in 1 .. MaxRotate + 1, t[o] > 0
      PROVE  t[1] - t[o] >= (o - 1 - Gaps(o)') * Full
  <2>1. CASE o # k + 1
    <3>1. o \in Ranks  BY SMT DEF Ranks
    <3>2. t[o] = top[o]  BY <1>2, <2>1, <3>1
    <3> QED  BY <1>2, <1>3, <1>4, <3>2 DEF Dense
  <2>2. CASE o = k + 1
    <3>1. top[1] - top[k] >= (k - 1 - Gaps(k)) * Full
      BY <1>1, <1>2, <1>4, <2>2 DEF Dense
    <3>2. Gaps(k) = crashes + failures + 0  BY Zenon DEF Gaps
    <3>3. Gaps(o)' = crashes + failures + 1
      <4>1. Moved(o)'  BY <2>2
      <4>2. Gaps(o)' = crashes' + failures' + 1  BY <4>1, Zenon DEF Gaps
      <4> QED  BY <4>2
    <3>4. crashes \in Nat /\ failures \in Nat  BY DEF PlaceInv
    <3>5. o - 1 - Gaps(o)' = k - 1 - Gaps(k)
      <4> DEFINE g == Gaps(o)'
                 h == Gaps(k)
      <4>1. h = crashes + failures + 0 /\ g = crashes + failures + 1  BY <3>2, <3>3
      <4> HIDE DEF g, h
      <4>2. o - 1 - g = k - 1 - h  BY <1>1, <2>2, <3>4, <4>1, SMT
      <4> QED  BY <4>2 DEF g, h
    <3>6. t[1] - t[o] = top[1] - top[k]  BY <1>2, <2>2
    <3> DEFINE w == k - 1 - Gaps(k)
    <3> HIDE DEF w
    <3>7. top[1] - top[k] >= w * Full /\ o - 1 - Gaps(o)' = w  BY <3>1, <3>5 DEF w
    <3> QED  BY <3>6, <3>7
  <2> QED  BY <2>1, <2>2
<1>5. Dense(t)'
  <2>1. \A o \in 1 .. MaxRotate + 1 : t[o] > 0 => t[1] - t[o] >= (o - 1 - Gaps(o)') * Full
    BY <1>4
  <2> QED  BY <2>1 DEF Dense
<1> QED  BY <1>5 DEF t

\* The last name is freed, unless nothing is moved to it.
LEMMA RemoveOrder ==
    ASSUME SemInv, FileInv, PlaceInv, ~lockless, NEW top \in [Ranks -> Nat], Chain(top),
           NEW p \in Procs, Remove(p)
    PROVE  PlaceInv' /\ \E t \in [Ranks -> Nat] : Chain(t)'
<1>1. /\ pc[p] = "remove" /\ pc' = [pc EXCEPT ![p] = "rename"]
      /\ dir' = [dir EXCEPT ![n[p]] = 0]
      /\ UNCHANGED <<n, fp, data, written, crashes, failures>>
  BY DEF Remove, Goes
<1>2. n[p] \in 1 .. MaxRotate /\ n[p] \in Names /\ 0 \in Names
  <2>1. n[p] # 0 /\ n[p] \in Names  BY <1>1 DEF FileInv, FileTypes
  <2> QED  BY <2>1, SMT DEF Names
<1>3. /\ pc'[p] = "rename" /\ \A q \in Procs : q # p => pc'[q] = pc[q]
      /\ \A q \in Procs : q # p => pc[q] \notin Moving
  <2>1. pc'[p] = "rename" /\ \A q \in Procs : q # p => pc'[q] = pc[q]
    BY <1>1 DEF SemInv, SemTypes
  <2>2. ASSUME NEW q \in Procs, pc[q] \in Moving PROVE q = p
    <3>1. Inside(p) /\ Inside(q)  BY <1>1, <2>2 DEF Inside, Moving
    <3> QED  BY <3>1, OneInside
  <2> QED  BY <2>1, <2>2
<1>4. dir'[n[p]] = 0 /\ \A m \in Names : m # n[p] => dir'[m] = dir[m]
  BY <1>1, <1>2 DEF FileInv, FileTypes
<1>5. /\ \A m \in Names : m = n[p] => Logs(m)' = <<>>
      /\ \A m \in Names : m # n[p] => Logs(m)' = Logs(m)
  BY <1>1, <1>2, <1>4 DEF Logs
<1>6. PlaceInv'
  <2>1. 0 # n[p]  BY <1>2
  <2>2. Logs(0)' = Logs(0) /\ dir'[0] = dir[0]  BY <1>2, <1>4, <1>5, <2>1
  <2> QED  BY <1>1, <1>3, <1>4, <2>2 DEF PlaceInv, Moving
<1>7. ASSUME NEW o PROVE Moved(o)' <=> Moved(o)
  BY <1>1, <1>3 DEF Moved, Moving
<1>8. \A o \in 1 .. MaxRotate + 1 : Gaps(o)' = Gaps(o) /\ Gaps(o) <= Gaps(o)'
  <2> SUFFICES ASSUME NEW o \in 1 .. MaxRotate + 1
               PROVE  Gaps(o)' = Gaps(o) /\ Gaps(o) <= Gaps(o)'
    OBVIOUS
  <2>1. Gaps(o) \in Nat  BY <1>6, GapsCount
  <2>2. Gaps(o)' = crashes' + failures' + (IF Moved(o)' THEN 1 ELSE 0)  BY Zenon DEF Gaps
  <2>3. Gaps(o)' = Gaps(o)  BY <1>1, <1>7, <2>2 DEF Gaps
  <2> QED  BY <2>1, <2>3, SMT
<1>9. CASE dir[n[p]] = 0
  <2>1. \A m \in Names : m = n[p] => Logs(m) = <<>>  BY <1>9 DEF Logs
  <2>2. \A m \in Names : Logs(m)' = Logs(m)  BY <1>5, <2>1
  <2>3. Chain(top)'  BY <1>1, <1>6, <1>8, <2>2, ChainFrame
  <2> QED  BY <1>6, <2>3
<1>10. CASE dir[n[p]] # 0
  <2> DEFINE k == MaxRotate
             t == Pushed(top, k)
  <2>1. n[p] = k  BY <1>1, <1>10 DEF PlaceInv
  <2>2. /\ k \in 1 .. MaxRotate /\ k \in Names /\ k \in Nat /\ k + 1 \in Ranks
        /\ k \in Ranks /\ k \in 1 .. MaxRotate + 1
    BY SMT DEF Names, Ranks
  <2>3. Edges(top) /\ (\A m \in Names : Slice(top, m)) /\ Covers(top) /\ Dense(top)
    BY DEF Chain
  <2>4. /\ t \in [Ranks -> Nat] /\ t[k + 1] = top[k]
        /\ \A o \in Ranks : o # k + 1 => t[o] = top[o]
        /\ Edges(t)
    BY <2>2, <2>3, PushedEdges
  <2>5. Dense(t)'
    <3>1. ~Moved(k)
      <4>1. ~(n[p] < k)  BY <2>1, <2>2, SMT
      <4> QED  BY <1>3, <4>1 DEF Moved
    <3>2. Moved(k + 1)
      <4>1. n[p] < k + 1  BY <2>1, <2>2, SMT
      <4> QED  BY <1>1, <4>1 DEF Moved, Moving
    <3>3. Moved(k + 1)'  BY <1>7, <3>2
    <3> QED  BY <1>1, <1>6, <1>8, <2>2, <2>3, <3>1, <3>3, PushedDense
  <2> HIDE DEF t
  <2>6. ASSUME NEW m \in Names PROVE Slice(t, m)'
    <3>1. m \in Ranks /\ m + 1 \in Ranks /\ m # k + 1 /\ m \in Nat
      BY SMT DEF Names, Ranks
    <3>2. CASE m # k
      <4>1. m + 1 # k + 1  BY <2>2, <3>1, <3>2, SMT
      <4>2. t[m] = top[m] /\ t[m + 1] = top[m + 1]  BY <2>4, <3>1, <4>1
      <4>3. Logs(m)' = Logs(m)  BY <1>5, <2>1, <3>2
      <4> QED  BY <2>3, <4>2, <4>3 DEF Slice
    <3>3. CASE m = k
      <4>1. Logs(m)' = <<>>  BY <1>5, <2>1, <3>3
      <4>2. t[m] = top[k] /\ t[m + 1] = top[k] /\ top[k] \in Nat
        BY <2>2, <2>4, <3>1, <3>3
      <4>3. t[m] - t[m + 1] = 0  BY <4>2, SMT
      <4>4. Len(<<>>) = 0 /\ DOMAIN <<>> = {}  BY EmptySeq
      <4> QED  BY <4>1, <4>3, <4>4 DEF Slice
    <3> QED  BY <3>2, <3>3
  <2>7. Covers(t)
    <3> SUFFICES ASSUME NEW x \in t[k + 1] + 1 .. written
                 PROVE  \E m \in Names : x \in t[m + 1] + 1 .. t[m]
      BY DEF Covers
    <3>1. top[k] \in Nat /\ top[k + 1] \in Nat /\ top[k + 1] <= top[k] /\ k <= k + 1
      BY <2>2, <2>3, SMT DEF Edges
    <3>2. x \in top[k + 1] + 1 .. written /\ ~(x <= top[k])
      <4>1. written \in Nat  BY DEF FileInv, FileTypes
      <4> QED  BY <2>4, <3>1, <4>1, SMT
    <3>3. PICK m \in Names : x \in top[m + 1] + 1 .. top[m]
      BY <2>3, <3>2 DEF Covers
    <3>4. m # k
      <4>1. x <= top[m]
        <5>1. m \in Ranks /\ m + 1 \in Ranks  BY SMT DEF Names, Ranks
        <5>2. top[m] \in Nat /\ top[m + 1] \in Nat  BY <5>1
        <5> QED  BY <3>3, <5>2, SMT
      <4> QED  BY <3>2, <4>1
    <3>5. /\ m \in Ranks /\ m + 1 \in Ranks /\ m # k + 1 /\ m + 1 # k + 1
      BY <3>4, SMT DEF Names, Ranks
    <3>6. t[m] = top[m] /\ t[m + 1] = top[m + 1]  BY <2>4, <3>5
    <3> QED  BY <3>3, <3>6
  <2>8. Edges(t)' /\ Covers(t)'  BY <1>1, <2>4, <2>7 DEF Edges, Covers
  <2>9. Chain(t)'  BY <2>5, <2>6, <2>8 DEF Chain
  <2> QED  BY <1>6, <2>4, <2>9
<1> QED  BY <1>9, <1>10

\* A file is moved to the next name, which is free.
LEMMA MovedChain ==
    ASSUME FileInv, NEW top \in [Ranks -> Nat], Chain(top), written' = written,
           NEW k \in 0 .. MaxRotate - 1, Logs(k + 1) = <<>>,
           \A m \in Names :
               /\ m = k => Logs(m)' = <<>>
               /\ m = k + 1 => Logs(m)' = Logs(k)
               /\ m \notin {k, k + 1} => Logs(m)' = Logs(m)
    PROVE  LET t == Pushed(top, k)
           IN  Edges(t)' /\ (\A m \in Names : Slice(t, m)') /\ Covers(t)'
<1> DEFINE t == Pushed(top, k)
           l == k + 1
<1>1. /\ k \in Names /\ k \in Nat /\ k \in Ranks /\ l \in Ranks /\ l + 1 \in Ranks
      /\ l \in Names /\ MaxRotate + 1 # l /\ MaxRotate + 1 \in Ranks
      /\ k # l /\ l + 1 # l
  BY SMT DEF Names, Ranks
<1>2. Edges(top) /\ (\A m \in Names : Slice(top, m)) /\ Covers(top)
  BY DEF Chain
<1>3. /\ t \in [Ranks -> Nat] /\ t[l] = top[k]
      /\ \A o \in Ranks : o # l => t[o] = top[o]
      /\ Edges(t)
  BY <1>1, <1>2, PushedEdges
<1>4. /\ t[l + 1] = top[l + 1] /\ t[k] = top[k]
      /\ t[MaxRotate + 1] = top[MaxRotate + 1]
  BY <1>1, <1>3
<1> HIDE DEF t
<1>5. top[k] \in Nat /\ top[l] \in Nat /\ top[l + 1] \in Nat /\ top[l] = top[l + 1]
  <2>1. top[k] \in Nat /\ top[l] \in Nat /\ top[l + 1] \in Nat  BY <1>1
  <2>2. Len(Logs(l)) = top[l] - top[l + 1]  BY <1>1, <1>2 DEF Slice
  <2>3. Len(Logs(l)) = 0  BY EmptySeq
  <2> QED  BY <2>1, <2>2, <2>3, SMT
<1>6. ASSUME NEW m \in Names PROVE Slice(t, m)'
  <2>1. m \in Ranks /\ m + 1 \in Ranks /\ m \in Nat  BY SMT DEF Names, Ranks
  <2>2. CASE m = k
    <3>1. Logs(m)' = <<>>  BY <2>2
    <3>2. t[m] - t[m + 1] = 0  BY <1>3, <1>4, <1>5, <2>2, SMT
    <3>3. Len(<<>>) = 0 /\ DOMAIN <<>> = {}  BY EmptySeq
    <3> QED  BY <3>1, <3>2, <3>3 DEF Slice
  <2>3. CASE m = l
    <3>1. Logs(m)' = Logs(k)  BY <2>3
    <3>2. /\ Len(Logs(k)) = top[k] - top[l]
          /\ \A i \in DOMAIN Logs(k) : Logs(k)[i] = top[l] + i
      BY <1>1, <1>2 DEF Slice
    <3>3. t[m] = top[k] /\ t[m + 1] = top[l]  BY <1>3, <1>4, <1>5, <2>3
    <3> QED  BY <3>1, <3>2, <3>3 DEF Slice
  <2>4. CASE m # k /\ m # l
    <3>1. m + 1 # l  BY <1>1, <2>1, <2>4, SMT
    <3>2. t[m] = top[m] /\ t[m + 1] = top[m + 1]  BY <1>3, <2>1, <2>4, <3>1
    <3>3. Logs(m)' = Logs(m)  BY <2>4
    <3> QED  BY <1>2, <3>2, <3>3 DEF Slice
  <2> QED  BY <2>2, <2>3, <2>4
<1>7. ASSUME NEW x \in t[MaxRotate + 1] + 1 .. written
      PROVE  \E m \in Names : x \in t[m + 1] + 1 .. t[m]
  <2>1. PICK m \in Names : x \in top[m + 1] + 1 .. top[m]
    BY <1>2, <1>4 DEF Covers
  <2>2. m \in Ranks /\ m + 1 \in Ranks /\ m \in Nat  BY SMT DEF Names, Ranks
  <2>3. CASE m = k
    <3>1. x \in t[l + 1] + 1 .. t[l]  BY <1>3, <1>4, <1>5, <2>1, <2>3
    <3> QED  BY <1>1, <3>1
  <2>4. CASE m = l
    <3>1. x \in top[l] + 1 .. top[l]  BY <1>5, <2>1, <2>4
    <3> QED  BY <1>5, <3>1, SMT
  <2>5. CASE m # k /\ m # l
    <3>1. m + 1 # l  BY <1>1, <2>2, <2>5, SMT
    <3>2. t[m] = top[m] /\ t[m + 1] = top[m + 1]  BY <1>3, <2>2, <2>5, <3>1
    <3> QED  BY <2>1, <3>2
  <2> QED  BY <2>3, <2>4, <2>5
<1>8. Covers(t)  BY <1>7 DEF Covers
<1>9. Edges(t)' /\ Covers(t)'  BY <1>3, <1>8 DEF Edges, Covers
<1> QED  BY <1>6, <1>9 DEF t

\* What is moved in the end, xxx.log, is full.
LEMMA FirstDense ==
    ASSUME FileInv, NEW top \in [Ranks -> Nat], Chain(top), PlaceInv, PlaceInv',
           UNCHANGED <<crashes, failures>>, Len(Logs(0)) = Full,
           \A o \in 2 .. MaxRotate + 1 : Gaps(o) = crashes + failures + 1
    PROVE  Dense(Pushed(top, 0))'
<1> DEFINE t == Pushed(top, 0)
<1>1. 0 \in Names /\ 0 \in Ranks /\ 1 \in Ranks /\ 0 + 1 = 1 /\ Full \in Nat
  BY SMT DEF Names, Ranks, Full
<1>2. Edges(top) /\ Slice(top, 0) /\ Dense(top)  BY <1>1 DEF Chain
<1>3. /\ t[1] = top[0]
      /\ \A o \in Ranks : o # 1 => t[o] = top[o]
  BY <1>1, <1>2, PushedEdges
<1> HIDE DEF t
<1>4. top[0] \in Nat /\ top[1] \in Nat /\ top[0] - top[1] = Full
  BY <1>1, <1>2 DEF Slice
<1>5. ASSUME NEW o \in 1 .. MaxRotate + 1, t[o] > 0
      PROVE  t[1] - t[o] >= (o - 1 - Gaps(o)') * Full
  <2> DEFINE g == Gaps(o)'
             j == o - 1 - g
  <2>1. g \in Nat  BY GapsCount
  <2>2. g >= crashes + failures
    <3>1. Gaps(o)' = crashes' + failures' + (IF Moved(o)' THEN 1 ELSE 0)  BY Zenon DEF Gaps
    <3>2. g \in {crashes + failures + 1, crashes + failures + 0}
      <4>1. CASE Moved(o)'
        <5>1. Gaps(o)' = crashes' + failures' + 1  BY <3>1, <4>1, Zenon
        <5> QED  BY <5>1
      <4>2. CASE ~Moved(o)'
        <5>1. Gaps(o)' = crashes' + failures' + 0  BY <3>1, <4>2, Zenon
        <5> QED  BY <5>1
      <4> QED  BY <4>1, <4>2
    <3>3. crashes \in Nat /\ failures \in Nat  BY DEF PlaceInv
    <3> HIDE DEF g
    <3> QED  BY <3>2, <3>3, SMT
  <2> HIDE DEF g
  <2>3. o \in Nat /\ o >= 1 /\ j \in Int  BY <2>1, SMT
  <2>4. CASE o = 1
    <3>1. j <= 0 /\ t[1] - t[o] = 0  BY <1>3, <1>4, <2>1, <2>4, SMT
    <3> HIDE DEF j
    <3> DEFINE z == 0
    <3>2. z \in Int /\ j <= z /\ z * Full = 0  BY <1>1, <3>1, SMT
    <3> HIDE DEF z
    <3>3. j * Full \in Int /\ j * Full <= 0
      <4>1. j * Full \in Int /\ j * Full <= z * Full  BY <2>3, <3>2, FullTimes
      <4> QED  BY <3>2, <4>1
    <3>4. t[1] - t[o] >= j * Full  BY <3>1, <3>3, SMT
    <3> QED  BY <3>4 DEF j, g
  <2>5. CASE o # 1
    <3>1. o \in 2 .. MaxRotate + 1 /\ o \in Ranks  BY <2>3, <2>5, SMT DEF Ranks
    <3>2. t[o] = top[o] /\ top[o] \in Nat  BY <1>3, <2>5, <3>1
    <3> DEFINE k == o - 1 - Gaps(o)
    <3>3. top[1] - top[o] >= k * Full  BY <1>2, <1>5, <3>2 DEF Dense
    <3>4. k \in Int /\ j <= k + 1
      <4>1. Gaps(o) = crashes + failures + 1  BY <3>1
      <4>2. crashes \in Nat /\ failures \in Nat  BY DEF PlaceInv
      <4> QED  BY <2>1, <2>2, <2>3, <4>1, <4>2, SMT
    <3> HIDE DEF j, k
    <3>5. /\ k * Full \in Int /\ (k + 1) * Full = k * Full + Full
          /\ j * Full \in Int /\ j * Full <= (k + 1) * Full
      <4>1. k + 1 \in Int /\ k <= k  BY <3>4, SMT
      <4>2. k * Full \in Int /\ (k + 1) * Full = k * Full + Full
        BY <3>4, <4>1, FullTimes
      <4>3. j * Full \in Int /\ j * Full <= (k + 1) * Full
        BY <2>3, <3>4, <4>1, FullTimes
      <4> QED  BY <4>2, <4>3
    <3>6. top[0] - top[o] >= j * Full
      <4> DEFINE a == k * Full
                 b == j * Full
                 c == (k + 1) * Full
      <4>1. /\ a \in Int /\ b \in Int /\ c = a + Full /\ b <= c
            /\ top[1] - top[o] >= a
        BY <3>3, <3>5
      <4> HIDE DEF a, b, c
      <4>2. top[0] - top[o] >= b  BY <1>1, <1>4, <3>2, <4>1, SMT
      <4> QED  BY <4>2 DEF b
    <3>7. t[1] - t[o] >= j * Full  BY <1>3, <3>2, <3>6
    <3> QED  BY <3>7 DEF j, g
  <2> QED  BY <2>4, <2>5
<1>6. Dense(t)'
  <2>1. \A o \in 1 .. MaxRotate + 1 : t[o] > 0 => t[1] - t[o] >= (o - 1 - Gaps(o)') * Full
    BY <1>5
  <2> QED  BY <2>1 DEF Dense
<1> QED  BY <1>6 DEF t

LEMMA RenameOrder ==
    ASSUME SemInv, FileInv, PlaceInv, Calm, Calm', NEW top \in [Ranks -> Nat], Chain(top),
           NEW p \in Procs, Rename(p)
    PROVE  PlaceInv' /\ \E t \in [Ranks -> Nat] : Chain(t)'
<1>0. pc[p] = "rename" /\ n[p] \in 1 .. MaxRotate
  <2>1. pc[p] = "rename"  BY DEF Rename, Goes
  <2>2. n[p] # 0 /\ n[p] \in Names  BY <2>1 DEF FileInv, FileTypes
  <2> QED  BY <2>1, <2>2, SMT DEF Names
<1> PICK k \in 0 .. MaxRotate - 1 : k = n[p] - 1  BY <1>0, SMT
<1>1. /\ pc[p] = "rename" /\ pc' = [pc EXCEPT ![p] = IF k = 0 THEN "reopen" ELSE "remove"]
      /\ n' = [n EXCEPT ![p] = k]
      /\ dir' = IF dir[k] = 0 THEN dir ELSE [dir EXCEPT ![n[p]] = dir[k], ![k] = 0]
      /\ UNCHANGED <<fp, data, written, crashes, failures>>
      /\ \A q \in Procs : ~(k = 0 /\ fp[q] # 0 /\ fp[q] = dir[0])
  BY DEF Rename, Goes, Calm
<1>2. /\ n[p] \in 1 .. MaxRotate /\ n[p] \in Names /\ 0 \in Names
      /\ k \in 0 .. MaxRotate - 1 /\ k \in Names /\ k + 1 = n[p] /\ k # n[p]
      /\ n[p] \in Nat /\ k \in Nat
  BY <1>0, SMT DEF Names
<1>3. /\ pc'[p] = IF k = 0 THEN "reopen" ELSE "remove"
      /\ n'[p] = k
      /\ \A q \in Procs : q # p => pc'[q] = pc[q] /\ n'[q] = n[q]
      /\ \A q \in Procs : q # p => pc[q] \notin Moving
  <2>1. /\ pc'[p] = IF k = 0 THEN "reopen" ELSE "remove"
        /\ n'[p] = k
        /\ \A q \in Procs : q # p => pc'[q] = pc[q] /\ n'[q] = n[q]
    BY <1>1 DEF SemInv, SemTypes, FileInv, FileTypes
  <2>2. ASSUME NEW q \in Procs, pc[q] \in Moving PROVE q = p
    <3>1. Inside(p) /\ Inside(q)  BY <1>1, <2>2 DEF Inside, Moving
    <3> QED  BY <3>1, OneInside DEF Calm
  <2> QED  BY <2>1, <2>2
<1>4. dir[n[p]] = 0 /\ Len(Logs(0)) = Full
  BY <1>1 DEF PlaceInv, Moving
<1>5. ASSUME NEW o PROVE Moved(o) <=> n[p] < o
  BY <1>1, <1>3 DEF Moved, Moving
<1>6. ASSUME NEW o PROVE Moved(o)' <=> k # 0 /\ k < o
  <2>1. CASE k = 0  BY <1>3, <2>1 DEF Moved, Moving
  <2>2. CASE k # 0  BY <1>3, <2>2 DEF Moved, Moving
  <2> QED  BY <2>1, <2>2
<1>7. dir[0] # 0
  <2>1. CASE dir[0] = 0
    <3>1. Len(Logs(0)) = 0  BY <2>1, EmptySeq DEF Logs
    <3> QED  BY <1>4, <3>1, SMT DEF Full
  <2> QED  BY <2>1
<1>8. /\ dir'[k] = 0
      /\ dir'[n[p]] = dir[k]
      /\ \A m \in Names : m # k /\ m # n[p] => dir'[m] = dir[m]
  <2>1. CASE dir[k] = 0  BY <1>1, <1>4, <2>1
  <2>2. CASE dir[k] # 0
    <3>1. dir' = [dir EXCEPT ![n[p]] = dir[k], ![k] = 0]  BY <1>1, <2>2
    <3> QED  BY <1>2, <3>1 DEF FileInv, FileTypes
  <2> QED  BY <2>1, <2>2
<1>9. \A m \in Names :
          /\ m = k => Logs(m)' = <<>>
          /\ m = n[p] => Logs(m)' = Logs(k)
          /\ m \notin {k, n[p]} => Logs(m)' = Logs(m)
  <2> TAKE m \in Names
  <2>1. m = k => Logs(m)' = <<>>  BY <1>8 DEF Logs
  <2>2. ASSUME m = n[p] PROVE Logs(m)' = Logs(k)
    <3>1. dir'[m] = dir[k] /\ data' = data  BY <1>1, <1>8, <2>2
    <3>2. Logs(m)' = IF dir'[m] = 0 THEN <<>> ELSE data'[dir'[m]]  BY DEF Logs
    <3> QED  BY <3>1, <3>2 DEF Logs
  <2>3. ASSUME m \notin {k, n[p]} PROVE Logs(m)' = Logs(m)
    <3>1. dir'[m] = dir[m] /\ data' = data  BY <1>1, <1>8, <2>3
    <3>2. Logs(m)' = IF dir'[m] = 0 THEN <<>> ELSE data'[dir'[m]]  BY DEF Logs
    <3> QED  BY <3>1, <3>2 DEF Logs
  <2> QED  BY <2>1, <2>2, <2>3
<1>10. PlaceInv'
  <2>1. \A m, o \in Names : dir'[m] # 0 /\ dir'[m] = dir'[o] => m = o
    <3> SUFFICES ASSUME NEW m \in Names, NEW o \in Names, dir'[m] # 0, dir'[m] = dir'[o]
                 PROVE  m = o
      OBVIOUS
    <3> DEFINE Was(x) == IF x = n[p] THEN k ELSE x
    <3>1. m # k /\ o # k  BY <1>8
    <3>2. dir'[m] = dir[Was(m)] /\ dir'[o] = dir[Was(o)]  BY <1>8, <3>1
    <3>3. Was(m) \in Names /\ Was(o) \in Names  BY <1>2
    <3>4. Was(m) = Was(o)
      <4>1. dir[Was(m)] # 0 /\ dir[Was(m)] = dir[Was(o)]  BY <3>2
      <4> HIDE DEF Was
      <4> QED  BY <3>3, <4>1 DEF PlaceInv
    <3> QED  BY <3>1, <3>4
  <2>2. CASE k = 0
    <3>1. \A q \in Procs : fp'[q] = 0  BY <1>1, <2>2 DEF PlaceInv
    <3>2. \A q \in Procs : pc'[q] \notin Moving  BY <1>3, <2>2 DEF Moving
    <3> QED  BY <1>1, <2>1, <3>1, <3>2 DEF PlaceInv, Moving
  <2>3. CASE k # 0
    <3>1. 0 # k /\ 0 # n[p]  BY <1>2, <2>3
    <3>2. dir'[0] = dir[0] /\ Logs(0)' = Logs(0)  BY <1>2, <1>8, <1>9, <3>1
    <3>3. /\ pc'[p] = "remove" /\ dir'[n'[p]] = 0
          /\ \A q \in Procs : pc'[q] \in Moving => q = p
      BY <1>3, <1>8, <2>3
    <3>4. \A q \in Procs : fp'[q] # 0 => fp'[q] = dir'[0]  BY <1>1, <3>2 DEF PlaceInv
    <3>5. Len(Logs(0))' = Full  BY <1>4, <3>2
    <3> QED  BY <1>1, <2>1, <3>3, <3>4, <3>5 DEF PlaceInv, Moving
  <2> QED  BY <2>2, <2>3
<1>11. k # 0 => \A o \in 1 .. MaxRotate + 1 : Gaps(o) <= Gaps(o)'
  <2> SUFFICES ASSUME k # 0, NEW o \in 1 .. MaxRotate + 1 PROVE Gaps(o) <= Gaps(o)'
    OBVIOUS
  <2>1. Moved(o) => Moved(o)'  BY <1>2, <1>5, <1>6, SMT
  <2>2. Gaps(o)' = crashes + failures + (IF Moved(o)' THEN 1 ELSE 0)
    <3>1. Gaps(o)' = crashes' + failures' + (IF Moved(o)' THEN 1 ELSE 0)  BY Zenon DEF Gaps
    <3> QED  BY <1>1, <3>1
  <2>3. crashes \in Nat /\ failures \in Nat  BY DEF PlaceInv
  <2> DEFINE g == Gaps(o)'
             P == Moved(o)'
  <2>4. g = crashes + failures + (IF P THEN 1 ELSE 0) /\ (Moved(o) => P)  BY <2>1, <2>2
  <2> HIDE DEF g, P
  <2>5. Gaps(o) <= g  BY <2>3, <2>4, SMT DEF Gaps
  <2> QED  BY <2>5 DEF g
<1> DEFINE t == Pushed(top, k)
<1>12. t \in [Ranks -> Nat]  BY <1>2, PushedEdges DEF Chain
<1>13. Edges(t)' /\ (\A m \in Names : Slice(t, m)') /\ Covers(t)'
  <2>1. Logs(n[p]) = <<>>  BY <1>4 DEF Logs
  <2> QED  BY <1>1, <1>2, <1>9, <2>1, MovedChain
<1>14. CASE k = 0
  <2>1. \A o \in 2 .. MaxRotate + 1 : Gaps(o) = crashes + failures + 1
    <3> SUFFICES ASSUME NEW o \in 2 .. MaxRotate + 1
                 PROVE  Gaps(o) = crashes + failures + 1
      OBVIOUS
    <3>1. n[p] < o  BY <1>2, <1>14, SMT
    <3> QED  BY <1>5, <3>1 DEF Gaps
  <2>2. Dense(Pushed(top, 0))'  BY <1>1, <1>4, <1>10, <2>1, FirstDense
  <2>3. Chain(t)'  BY <1>13, <1>14, <2>2 DEF Chain
  <2> QED  BY <1>10, <1>12, <2>3
<1>15. CASE k # 0 /\ dir[k] # 0
  <2>1. k \in 1 .. MaxRotate  BY <1>2, <1>15, SMT
  <2>2. ~Moved(k)  BY <1>2, <1>5, SMT
  <2>3. Moved(k + 1)'
    <3>1. k < k + 1  BY <1>2, SMT
    <3> QED  BY <1>6, <1>15, <3>1
  <2>4. Dense(t)'
    BY <1>1, <1>10, <1>11, <1>15, <2>1, <2>2, <2>3, PushedDense DEF Chain
  <2>5. Chain(t)'  BY <1>13, <2>4 DEF Chain
  <2> QED  BY <1>10, <1>12, <2>5
<1>16. CASE k # 0 /\ dir[k] = 0
  <2>1. \A m \in Names : Logs(m)' = Logs(m)  BY <1>1, <1>16 DEF Logs
  <2>2. Chain(top)'  BY <1>1, <1>10, <1>11, <1>16, <2>1, ChainFrame
  <2> QED  BY <1>10, <2>2
<1> QED  BY <1>14, <1>15, <1>16

\* A file that is made is empty, and the others keep theirs.
LEMMA OpenOrder ==
    ASSUME SemInv, FileInv, PlaceInv, FileInv', NEW top \in [Ranks -> Nat], Chain(top),
           NEW p \in Procs, Open(p) \/ Reopen(p)
    PROVE  PlaceInv' /\ Chain(top)'
<1>1. /\ pc[p] \notin Moving
      /\ \E to \in States \ Moving : pc' = [pc EXCEPT ![p] = to]
      /\ UNCHANGED <<n, written, crashes, failures>>
      /\ \/ /\ dir[0] = 0
            /\ data' = Append(data, <<>>)
            /\ fp' = [fp EXCEPT ![p] = Len(data) + 1]
            /\ dir' = [dir EXCEPT ![0] = Len(data) + 1]
         \/ /\ dir[0] # 0
            /\ data' = [data EXCEPT ![dir[0]] = data[dir[0]]]
            /\ fp' = [fp EXCEPT ![p] = dir[0]]
            /\ dir' = [dir EXCEPT ![0] = dir[0]]
  BY DEF Open, Reopen, OpenThen, Goes, Moving, States
<1>2. pc'[p] \notin Moving /\ \A q \in Procs : q # p => pc'[q] = pc[q]
  BY <1>1 DEF SemInv, SemTypes
<1>3. /\ 0 \in Names /\ Len(data) \in Nat /\ data \in Seq(Seq(Nat))
      /\ \A m \in Names : dir[m] \in 0 .. Len(data)
  <2>1. 0 \in Names  BY SMT DEF Names
  <2> QED  BY <2>1, LenProperties DEF FileInv, FileTypes
<1>4. \A q \in Procs : fp[q] # 0 => fp[q] = dir[0]  BY DEF PlaceInv
<1>5. /\ \A q \in Procs : fp'[q] # 0 => fp'[q] = dir'[0]
      /\ \A m \in Names : m # 0 => dir'[m] = dir[m]
      /\ \A m \in Names : Logs(m)' = Logs(m)
      /\ dir[0] # 0 => dir'[0] = dir[0]
      /\ dir[0] = 0 => dir'[0] = Len(data) + 1
  <2>1. CASE dir[0] = 0
    <3>1. /\ data' = Append(data, <<>>)
          /\ fp' = [fp EXCEPT ![p] = Len(data) + 1]
          /\ dir' = [dir EXCEPT ![0] = Len(data) + 1]
      BY <1>1, <2>1
    <3>2. /\ dir'[0] = Len(data) + 1
          /\ \A m \in Names : m # 0 => dir'[m] = dir[m]
          /\ \A q \in Procs : fp'[q] = IF q = p THEN Len(data) + 1 ELSE fp[q]
      BY <1>3, <3>1 DEF FileInv, FileTypes
    <3>3. /\ data'[Len(data) + 1] = <<>>
          /\ \A f \in 1 .. Len(data) : data'[f] = data[f]
      <4>1. <<>> \in Seq(Nat)  BY EmptySeq
      <4> QED  BY <1>3, <3>1, <4>1, AppendProperties
    <3>4. ASSUME NEW m \in Names PROVE Logs(m)' = Logs(m)
      <4>1. Logs(m)' = IF dir'[m] = 0 THEN <<>> ELSE data'[dir'[m]]  BY DEF Logs
      <4>2. CASE m = 0
        <5>1. Logs(m) = <<>>  BY <2>1, <4>2 DEF Logs
        <5>2. dir'[m] = Len(data) + 1 /\ Len(data) + 1 # 0  BY <1>3, <3>2, <4>2, SMT
        <5> QED  BY <3>3, <4>1, <5>1, <5>2
      <4>3. CASE m # 0 /\ dir[m] = 0  BY <3>2, <4>1, <4>3 DEF Logs
      <4>4. CASE m # 0 /\ dir[m] # 0
        <5>1. dir[m] \in 1 .. Len(data)  BY <1>3, <4>4, SMT
        <5>2. dir'[m] = dir[m] /\ data'[dir[m]] = data[dir[m]]  BY <3>2, <3>3, <4>4, <5>1
        <5> QED  BY <4>1, <4>4, <5>2 DEF Logs
      <4> QED  BY <4>2, <4>3, <4>4
    <3> QED  BY <1>4, <2>1, <3>2, <3>4
  <2>2. CASE dir[0] # 0
    <3>1. data' = data
      <4>1. data' = [data EXCEPT ![dir[0]] = data[dir[0]]]  BY <1>1, <2>2
      <4> QED  BY <1>3, <4>1, LenProperties
    <3>2. dir' = dir
      <4>1. dir' = [dir EXCEPT ![0] = dir[0]]  BY <1>1, <2>2
      <4> QED  BY <4>1 DEF FileInv, FileTypes
    <3>3. \A q \in Procs : fp'[q] = IF q = p THEN dir[0] ELSE fp[q]
      <4>1. fp' = [fp EXCEPT ![p] = dir[0]]  BY <1>1, <2>2
      <4> QED  BY <4>1 DEF FileInv, FileTypes
    <3> QED  BY <1>4, <2>2, <3>1, <3>2, <3>3 DEF Logs
  <2> QED  BY <2>1, <2>2
<1>6. PlaceInv'
  <2>1. \A m, o \in Names : dir'[m] # 0 /\ dir'[m] = dir'[o] => m = o
    <3> SUFFICES ASSUME NEW m \in Names, NEW o \in Names, dir'[m] # 0, dir'[m] = dir'[o],
                        m # o
                 PROVE  FALSE
      OBVIOUS
    <3>1. \A x \in Names : dir[x] # Len(data) + 1  BY <1>3, SMT
    <3>2. CASE m # 0 /\ o # 0  BY <1>5, <3>2 DEF PlaceInv
    <3>3. CASE (m = 0 \/ o = 0) /\ dir[0] = 0  BY <1>5, <3>1, <3>3
    <3>4. CASE (m = 0 \/ o = 0) /\ dir[0] # 0
      <4>1. dir'[m] = dir[m] /\ dir'[o] = dir[o]  BY <1>5, <3>4
      <4> QED  BY <4>1 DEF PlaceInv
    <3> QED  BY <3>2, <3>3, <3>4
  <2>2. \A q \in Procs : pc'[q] \in Moving => pc[q] = pc'[q] /\ n'[q] = n[q]
                                              /\ n[q] \in Names /\ n[q] # 0
    BY <1>1, <1>2 DEF FileInv, FileTypes, Moving
  <2>3. \A q \in Procs : pc'[q] \in Moving => dir'[n'[q]] = dir[n[q]]
    BY <1>5, <2>2
  <2>4. \A q \in Procs : pc'[q] \in Moving => Len(Logs(0))' = Full
    BY <1>3, <1>5, <2>2 DEF PlaceInv
  <2>5. \A q \in Procs : pc'[q] = "remove" => n'[q] = MaxRotate \/ dir'[n'[q]] = 0
    BY <2>2, <2>3 DEF PlaceInv, Moving
  <2>6. \A q \in Procs : pc'[q] = "rename" => dir'[n'[q]] = 0
    BY <2>2, <2>3 DEF PlaceInv, Moving
  <2>7. crashes' \in Nat /\ failures' \in Nat  BY <1>1 DEF PlaceInv
  <2> QED  BY <1>5, <2>1, <2>4, <2>5, <2>6, <2>7 DEF PlaceInv
<1>7. ASSUME NEW o \in 1 .. MaxRotate + 1 PROVE Gaps(o) <= Gaps(o)'
  <2>1. Moved(o)' <=> Moved(o)  BY <1>1, <1>2 DEF Moved
  <2>2. Gaps(o)' = crashes' + failures' + (IF Moved(o)' THEN 1 ELSE 0)  BY Zenon DEF Gaps
  <2>3. Gaps(o)' = Gaps(o)  BY <1>1, <2>1, <2>2 DEF Gaps
  <2>4. Gaps(o) \in Nat  BY <1>6, GapsCount
  <2> QED  BY <2>3, <2>4, SMT
<1> QED  BY <1>1, <1>5, <1>6, <1>7, ChainFrame

\* The log goes to the end of xxx.log.
LEMMA PutOrder ==
    ASSUME SemInv, FileInv, PlaceInv, Calm, NEW top \in [Ranks -> Nat], Chain(top),
           NEW p \in Procs, Put(p)
    PROVE  PlaceInv' /\ \E t \in [Ranks -> Nat] : Chain(t)'
<1>0. written \in Nat /\ written + 1 \in Nat  BY SMT DEF FileInv, FileTypes
<1> PICK last \in Nat : last = written + 1  BY <1>0
<1> DEFINE t == [top EXCEPT ![0] = last]
<1>1. /\ pc[p] = "put" /\ pc' = [pc EXCEPT ![p] = "leave"]
      /\ UNCHANGED <<n, fp, dir, crashes, failures>> /\ written' = written + 1
      /\ data' = [data EXCEPT ![fp[p]] = Append(data[fp[p]], written + 1)]
  BY DEF Put, Goes
<1>2. /\ pc'[p] = "leave" /\ \A q \in Procs : q # p => pc'[q] = pc[q]
      /\ \A q \in Procs : pc[q] \notin Moving
  <2>1. pc'[p] = "leave" /\ \A q \in Procs : q # p => pc'[q] = pc[q]
    BY <1>1 DEF SemInv, SemTypes
  <2>2. ASSUME NEW q \in Procs, pc[q] \in Moving PROVE FALSE
    <3>1. Inside(p) /\ Inside(q)  BY <1>1, <2>2 DEF Inside, Moving
    <3>2. q = p  BY <3>1, OneInside DEF Calm
    <3> QED  BY <1>1, <2>2, <3>2 DEF Moving
  <2> QED  BY <2>1, <2>2
<1>3. \A q \in Procs : pc'[q] \notin Moving  BY <1>1, <1>2 DEF Moving
<1>4. /\ 0 \in Names /\ 0 \in Ranks /\ 1 \in Ranks /\ written \in Nat /\ 0 + 1 = 1
      /\ data \in Seq(Seq(Nat)) /\ Len(data) \in Nat /\ DOMAIN data = 1 .. Len(data)
      /\ \A m \in Names : dir[m] \in 0 .. Len(data)
  <2>1. 0 \in Names /\ 0 \in Ranks /\ 1 \in Ranks /\ 0 + 1 = 1  BY SMT DEF Names, Ranks
  <2> QED  BY <2>1, LenProperties DEF FileInv, FileTypes
<1>5. dir[0] # 0 /\ fp[p] = dir[0] /\ dir[0] \in 1 .. Len(data)
  <2>1. dir[0] # 0 /\ fp[p] = dir[0]  BY <1>1 DEF FileInv, Opened, PlaceInv
  <2> QED  BY <1>4, <2>1, SMT
<1>6. Logs(0) = data[dir[0]] /\ Logs(0) \in Seq(Nat)
  <2>1. Logs(0) = data[dir[0]]  BY <1>5 DEF Logs
  <2> QED  BY <1>4, <2>1, LogsTypes
<1>7. \A m \in Names : /\ m = 0 => Logs(m)' = Append(Logs(0), written + 1)
                       /\ m # 0 => Logs(m)' = Logs(m)
  <2> TAKE m \in Names
  <2>1. Logs(m)' = IF dir[m] = 0 THEN <<>> ELSE data'[dir[m]]  BY <1>1 DEF Logs
  <2>2. ASSUME m = 0 PROVE Logs(m)' = Append(Logs(0), written + 1)
    <3>1. data'[dir[0]] = Append(data[dir[0]], written + 1)  BY <1>1, <1>4, <1>5
    <3> QED  BY <1>5, <1>6, <2>1, <2>2, <3>1
  <2>3. ASSUME m # 0 PROVE Logs(m)' = Logs(m)
    <3>1. CASE dir[m] = 0  BY <2>1, <3>1 DEF Logs
    <3>2. CASE dir[m] # 0
      <4>1. dir[m] # dir[0]  BY <1>4, <2>3, <3>2 DEF PlaceInv
      <4>2. dir[m] \in DOMAIN data  BY <1>4, <3>2, SMT
      <4>3. data'[dir[m]] = data[dir[m]]  BY <1>1, <1>5, <4>1, <4>2
      <4> QED  BY <2>1, <3>2, <4>3 DEF Logs
    <3> QED  BY <3>1, <3>2
  <2> QED  BY <2>2, <2>3
<1>8. PlaceInv'
  <2>1. \A m, o \in Names : dir'[m] # 0 /\ dir'[m] = dir'[o] => m = o
    BY <1>1 DEF PlaceInv
  <2>2. \A q \in Procs : fp'[q] # 0 => fp'[q] = dir'[0]  BY <1>1 DEF PlaceInv
  <2>3. crashes' \in Nat /\ failures' \in Nat  BY <1>1 DEF PlaceInv
  <2> QED  BY <1>3, <2>1, <2>2, <2>3 DEF PlaceInv, Moving
<1>9. Edges(top) /\ (\A m \in Names : Slice(top, m)) /\ Covers(top) /\ Dense(top)
  BY DEF Chain
<1>10. /\ t \in [Ranks -> Nat] /\ t[0] = written + 1
       /\ \A o \in Ranks : o # 0 => t[o] = top[o]
  <2>1. written + 1 \in Nat  BY <1>4, SMT
  <2> QED  BY <1>4, <2>1
<1> HIDE DEF t
<1>11. top[0] = written /\ top[1] \in Nat /\ top[1] <= written /\ t[1] = top[1]
  <2>1. top[1] <= top[0]  BY <1>4 DEF Edges, Chain
  <2> QED  BY <1>4, <1>9, <1>10, <2>1 DEF Edges
<1>12. Edges(t)'
  <2>1. ASSUME NEW a \in Ranks, NEW b \in Ranks, a <= b PROVE t[b] <= t[a]
    <3>1. top[b] <= top[a] /\ top[b] \in Nat /\ top[a] \in Nat /\ top[b] <= top[0]
      <4>1. 0 <= b  BY SMT DEF Ranks
      <4> QED  BY <1>4, <1>9, <2>1, <4>1 DEF Edges
    <3>2. CASE a = 0
      <4>1. t[b] \in {top[b], written + 1}  BY <1>10
      <4> QED  BY <1>4, <1>10, <1>11, <3>1, <3>2, <4>1, SMT
    <3>3. CASE a # 0
      <4>1. b # 0  BY <2>1, <3>3, SMT DEF Ranks
      <4> QED  BY <1>10, <3>1, <3>3, <4>1
    <3> QED  BY <3>2, <3>3
  <2> QED  BY <1>1, <1>10, <2>1 DEF Edges
<1>13. ASSUME NEW m \in Names PROVE Slice(t, m)'
  <2>1. m \in Ranks /\ m + 1 \in Ranks /\ m + 1 # 0  BY SMT DEF Names, Ranks
  <2>2. CASE m = 0
    <3>1. Logs(m)' = Append(Logs(0), written + 1)  BY <1>7, <2>2
    <3>2. /\ Len(Logs(0)) = written - top[1] /\ Len(Logs(0)) \in Nat
          /\ DOMAIN Logs(0) = 1 .. Len(Logs(0))
          /\ \A i \in DOMAIN Logs(0) : Logs(0)[i] = top[1] + i
      BY <1>4, <1>9, <1>11, LogsTypes DEF Slice
    <3> DEFINE w == Append(Logs(0), written + 1)
               k == Len(Logs(0))
    <3>3. /\ Len(w) = k + 1 /\ w[k + 1] = written + 1 /\ DOMAIN w = 1 .. k + 1
          /\ \A i \in 1 .. k : w[i] = Logs(0)[i]
      <4>1. w \in Seq(Nat) /\ Len(w) = k + 1 /\ w[k + 1] = written + 1
            /\ \A i \in 1 .. k : w[i] = Logs(0)[i]
        <5>1. written + 1 \in Nat  BY <1>4, SMT
        <5> QED  BY <1>6, <5>1, AppendProperties
      <4> QED  BY <4>1, LenProperties
    <3>4. t[m] = written + 1 /\ t[m + 1] = top[1]  BY <1>4, <1>10, <1>11, <2>2
    <3>5. Len(w) = t[m] - t[m + 1]  BY <1>4, <1>11, <3>2, <3>3, <3>4, SMT
    <3>6. ASSUME NEW i \in DOMAIN w PROVE w[i] = t[m + 1] + i
      <4>1. CASE i = k + 1
        <5>1. written + 1 = top[1] + i  BY <1>4, <1>11, <3>2, <4>1, SMT
        <5> QED  BY <3>3, <3>4, <4>1, <5>1
      <4>2. CASE i # k + 1
        <5>1. i \in 1 .. k  BY <3>2, <3>3, <4>2, SMT
        <5> QED  BY <3>2, <3>3, <3>4, <5>1
      <4> QED  BY <4>1, <4>2
    <3> QED  BY <3>1, <3>5, <3>6 DEF Slice
  <2>3. CASE m # 0
    <3>1. Logs(m)' = Logs(m)  BY <1>7, <2>3
    <3>2. t[m] = top[m] /\ t[m + 1] = top[m + 1]  BY <1>10, <2>1, <2>3
    <3> QED  BY <1>9, <3>1, <3>2 DEF Slice
  <2> QED  BY <2>2, <2>3
<1>14. Covers(t)'
  <2>1. MaxRotate + 1 \in Ranks /\ MaxRotate + 1 # 0  BY SMT DEF Ranks
  <2>2. ASSUME NEW x \in t[MaxRotate + 1] + 1 .. written + 1
        PROVE  \E m \in Names : x \in t[m + 1] + 1 .. t[m]
    <3>1. CASE x = written + 1
      <4>1. x \in top[1] + 1 .. written + 1  BY <1>4, <1>11, <3>1, SMT
      <4>2. x \in t[0 + 1] + 1 .. t[0]  BY <1>4, <1>10, <1>11, <4>1
      <4> QED  BY <1>4, <4>2
    <3>2. CASE x # written + 1
      <4>1. x \in top[MaxRotate + 1] + 1 .. written
        <5>1. t[MaxRotate + 1] = top[MaxRotate + 1] /\ top[MaxRotate + 1] \in Nat
          BY <1>10, <2>1
        <5> QED  BY <1>4, <2>2, <3>2, <5>1, SMT
      <4>2. PICK m \in Names : x \in top[m + 1] + 1 .. top[m]
        BY <1>9, <4>1 DEF Covers
      <4>3. m \in Ranks /\ m + 1 \in Ranks /\ m + 1 # 0  BY SMT DEF Names, Ranks
      <4>4. t[m + 1] = top[m + 1]  BY <1>10, <4>3
      <4>5. CASE m = 0
        <5>1. x \in top[1] + 1 .. written  BY <1>4, <1>11, <4>2, <4>5
        <5>2. x \in top[1] + 1 .. written + 1  BY <1>4, <1>11, <5>1, SMT
        <5>3. x \in t[0 + 1] + 1 .. t[0]  BY <1>4, <1>10, <1>11, <5>2
        <5> QED  BY <1>4, <5>3
      <4>6. CASE m # 0
        <5>1. t[m] = top[m]  BY <1>10, <4>3, <4>6
        <5> QED  BY <4>2, <4>4, <5>1
      <4> QED  BY <4>5, <4>6
    <3> QED  BY <3>1, <3>2
  <2> QED  BY <1>1, <2>2 DEF Covers
<1>15. Dense(t)'
  <2>1. ASSUME NEW o \in 1 .. MaxRotate + 1 PROVE Gaps(o) <= Gaps(o)'
    <3>1. Moved(o)' <=> Moved(o)  BY <1>2, <1>3 DEF Moved
    <3>2. Gaps(o)' = crashes' + failures' + (IF Moved(o)' THEN 1 ELSE 0)  BY Zenon DEF Gaps
    <3>3. Gaps(o)' = Gaps(o)  BY <1>1, <3>1, <3>2 DEF Gaps
    <3>4. Gaps(o) \in Nat  BY <1>8, GapsCount
    <3> QED  BY <3>3, <3>4, SMT
  <2>2. Dense(top)'  BY <1>8, <1>9, <2>1, DenseStays
  <2>3. ASSUME NEW o \in 1 .. MaxRotate + 1, t[o] > 0
        PROVE  t[1] - t[o] >= (o - 1 - Gaps(o)') * Full
    <3>1. o \in Ranks /\ o # 0  BY SMT DEF Ranks
    <3>2. t[o] = top[o]  BY <1>10, <3>1
    <3> QED  BY <1>11, <2>2, <2>3, <3>2 DEF Dense
  <2> QED  BY <2>3 DEF Dense
<1>16. Chain(t)'  BY <1>12, <1>13, <1>14, <1>15 DEF Chain
<1> QED  BY <1>8, <1>10, <1>16

LEMMA InitOrder == Init => OrderInv
<1> SUFFICES ASSUME Init PROVE PlaceInv /\ \E top \in [Ranks -> Nat] : Chain(top)
  BY DEF OrderInv
<1> DEFINE top == [o \in Ranks |-> 0]
<1>1. \A p \in Procs : pc[p] \notin Moving  BY DEF Init, Moving
<1>2. \A m \in Names : dir[m] = 0 /\ Logs(m) = <<>>  BY DEF Init, Logs
<1>3. PlaceInv
  BY <1>1, <1>2 DEF PlaceInv, Init, Moving
<1>4. top \in [Ranks -> Nat] /\ \A o \in Ranks : top[o] = 0  OBVIOUS
<1> HIDE DEF top
<1>5. 0 \in Ranks /\ MaxRotate + 1 \in Ranks /\ written = 0  BY SMT DEF Ranks, Init
<1>6. Edges(top)  BY <1>4, <1>5 DEF Edges
<1>7. ASSUME NEW m \in Names PROVE Slice(top, m)
  <2>1. m \in Ranks /\ m + 1 \in Ranks  BY SMT DEF Names, Ranks
  <2>2. Len(Logs(m)) = 0 /\ DOMAIN Logs(m) = {}  BY <1>2, EmptySeq
  <2>3. top[m] - top[m + 1] = 0  BY <1>4, <2>1, SMT
  <2> QED  BY <2>2, <2>3 DEF Slice
<1>8. Covers(top)
  <2>1. top[MaxRotate + 1] = 0  BY <1>4, <1>5
  <2>2. 0 + 1 .. 0 = {}  BY SMT
  <2> QED  BY <1>5, <2>1, <2>2 DEF Covers
<1>9. Dense(top)
  <2>1. \A o \in 1 .. MaxRotate + 1 : o \in Ranks  BY SMT DEF Ranks
  <2>2. \A o \in 1 .. MaxRotate + 1 : top[o] = 0  BY <1>4, <2>1
  <2>3. ~(0 > 0)  BY SMT
  <2> QED  BY <2>2, <2>3 DEF Dense
<1> QED  BY <1>3, <1>4, <1>6, <1>7, <1>8, <1>9 DEF Chain

\* The order survives every step after which nothing has happened to it.
LEMMA CalmBefore ==
    ASSUME [Next]_vars, Calm'
    PROVE  Calm
<1>1. strayed => strayed'
  BY DEF Next, Create, Stamp, Find, Poll, PollGivesUp, PollEnds, EnterStep, EnterConfig,
         EnterWrite, EnterDeinit, Enter, Leave, Open, Reopen, OpenThen, Write, Fits, Rotate,
         RotateFrom, Remove, Rename, RenameFails, RenameFailsTo, Put, Deinit, Close, Crash,
         CrashUndoing, ProcStep, fileVars, vars
<1> QED  BY <1>1, LockStays DEF Calm

LEMMA OrderAlways == Spec => []OrderInv
<1> DEFINE J == SemInv /\ FileInv /\ (lockless \/ SizeInv)
<1>1. J /\ FileInv' /\ OrderInv /\ [Next]_vars => OrderInv'
  <2> SUFFICES ASSUME J, FileInv', OrderInv, [Next]_vars, Calm'
               PROVE  PlaceInv' /\ \E t \in [Ranks -> Nat] : Chain(t)'
    BY DEF OrderInv
  <2>1. Calm  BY CalmBefore
  <2>2. PlaceInv /\ SizeInv /\ ~lockless  BY <2>1 DEF OrderInv, Calm
  <2>3. PICK top \in [Ranks -> Nat] : Chain(top)  BY <2>1 DEF OrderInv
  <2>4. CASE UNCHANGED vars
    <3>1. PlaceInv'  BY <2>2, <2>4 DEF vars, fileVars, PlaceInv, Logs, Moving
    <3>2. \A m \in Names : Logs(m)' = Logs(m)  BY <2>4 DEF vars, fileVars, Logs
    <3>3. ASSUME NEW o \in 1 .. MaxRotate + 1 PROVE Gaps(o) <= Gaps(o)'
      <4>1. Moved(o)' <=> Moved(o)  BY <2>4 DEF vars, Moved
      <4>2. Gaps(o)' = crashes' + failures' + (IF Moved(o)' THEN 1 ELSE 0)
        BY Zenon DEF Gaps
      <4>3. crashes' = crashes /\ failures' = failures  BY <2>4 DEF vars
      <4>4. Gaps(o)' = Gaps(o)  BY <4>1, <4>2, <4>3 DEF Gaps
      <4>5. Gaps(o) \in Nat  BY <2>2, <3>1, GapsCount
      <4> QED  BY <4>4, <4>5, SMT
    <3>4. written' = written  BY <2>4 DEF vars, fileVars
    <3>5. Chain(top)'  BY <2>2, <2>3, <3>1, <3>2, <3>3, <3>4, ChainFrame
    <3> QED  BY <3>1, <3>5
  <2>5. CASE Next
    <3>1. PICK p \in Procs :
             \/ Create(p) \/ Find(p) \/ Write(p) \/ Deinit(p)
             \/ EnterStep(p) \/ ProcStep(p) \/ Crash(p)
      BY <2>5 DEF Next
    <3>2. CASE Rotate(p)  BY <2>2, <2>3, <3>2, RotateOrder
    <3>3. CASE Remove(p)  BY <2>2, <2>3, <3>3, RemoveOrder
    <3>4. CASE Rename(p)  BY <2>1, <2>2, <2>3, <3>4, RenameOrder
    <3>5. CASE Open(p) \/ Reopen(p)  BY <2>2, <2>3, <3>5, OpenOrder
    <3>6. CASE Put(p)  BY <2>1, <2>2, <2>3, <3>6, PutOrder
    <3>7. CASE \/ Create(p) \/ Stamp(p) \/ Find(p) \/ Poll(p) \/ PollGivesUp(p)
               \/ EnterStep(p) \/ Leave(p) \/ Write(p) \/ Fits(p) \/ RenameFails(p)
               \/ Deinit(p) \/ Close(p) \/ Crash(p)
      BY <2>2, <2>3, <3>7, QuietOrder
    <3> QED  BY <3>1, <3>2, <3>3, <3>4, <3>5, <3>6, <3>7 DEF ProcStep
  <2> QED  BY <2>4, <2>5
<1> QED  BY <1>1, InitOrder, SemAlways, FilesAlways, PTL DEF Spec

\* The files hold the logs after those that are lost, in order.
LEMMA ChainIsOrdered ==
    ASSUME FileInv, NEW top \in [Ranks -> Nat], Chain(top)
    PROVE  InOrder /\ Kept = top[MaxRotate + 1] + 1 .. written
                   /\ top[MaxRotate + 1] <= written
<1> DEFINE lost == top[MaxRotate + 1]
<1>1. Edges(top) /\ (\A m \in Names : Slice(top, m)) /\ Covers(top)  BY DEF Chain
<1>2. ASSUME NEW m \in Names
      PROVE  /\ m \in Nat /\ m \in Ranks /\ m + 1 \in Ranks
             /\ top[m] \in Nat /\ top[m + 1] \in Nat /\ top[m] <= written
             /\ lost <= top[m + 1]
             /\ DOMAIN Logs(m) = 1 .. top[m] - top[m + 1]
             /\ \A i \in DOMAIN Logs(m) : Logs(m)[i] = top[m + 1] + i
  <2>1. /\ m \in Nat /\ m \in Ranks /\ m + 1 \in Ranks /\ 0 \in Ranks
        /\ MaxRotate + 1 \in Ranks /\ 0 <= m /\ m + 1 <= MaxRotate + 1
    BY SMT DEF Names, Ranks
  <2>2. top[m] <= top[0] /\ top[0] = written /\ lost <= top[m + 1]
    BY <1>1, <2>1 DEF Edges
  <2>3. /\ DOMAIN Logs(m) = 1 .. top[m] - top[m + 1]
        /\ \A i \in DOMAIN Logs(m) : Logs(m)[i] = top[m + 1] + i
    BY <1>1, LogsTypes DEF Slice
  <2> QED  BY <2>1, <2>2, <2>3
<1>3. lost \in Nat /\ written \in Nat /\ lost <= written
  <2>1. 0 \in Ranks /\ MaxRotate + 1 \in Ranks /\ 0 <= MaxRotate + 1  BY SMT DEF Ranks
  <2>2. top[MaxRotate + 1] <= top[0] /\ top[0] = written  BY <1>1, <2>1 DEF Edges
  <2> QED  BY <2>1, <2>2
<1> HIDE DEF lost
<1>4. ASSUME NEW m \in Names, NEW i \in DOMAIN Logs(m)
      PROVE  Logs(m)[i] = Logs(m)[1] + i - 1
  <2>1. i \in 1 .. top[m] - top[m + 1] /\ top[m] \in Nat /\ top[m + 1] \in Nat
    BY <1>2
  <2>2. 1 \in 1 .. top[m] - top[m + 1] /\ i \in Nat  BY <2>1, SMT
  <2>3. Logs(m)[i] = top[m + 1] + i /\ Logs(m)[1] = top[m + 1] + 1  BY <1>2, <2>2
  <2> QED  BY <2>1, <2>2, <2>3, SMT
<1>5. ASSUME NEW m \in Names, NEW o \in Names,
             NEW i \in DOMAIN Logs(m), NEW j \in DOMAIN Logs(o), m < o
      PROVE  Logs(m)[i] > Logs(o)[j]
  <2>1. /\ i \in 1 .. top[m] - top[m + 1] /\ top[m] \in Nat /\ top[m + 1] \in Nat
        /\ j \in 1 .. top[o] - top[o + 1] /\ top[o] \in Nat /\ top[o + 1] \in Nat
    BY <1>2
  <2>2. Logs(m)[i] = top[m + 1] + i /\ Logs(o)[j] = top[o + 1] + j  BY <1>2
  <2>3. top[o] <= top[m + 1]
    <3>1. m \in Nat /\ o \in Nat /\ m + 1 <= o /\ m + 1 \in Ranks /\ o \in Ranks
      BY <1>2, <1>5, SMT
    <3> QED  BY <1>1, <3>1 DEF Edges
  <2> QED  BY <2>1, <2>2, <2>3, SMT
<1>6. Kept = lost + 1 .. written
  <2>1. ASSUME NEW x \in Kept PROVE x \in lost + 1 .. written
    <3>1. PICK m \in Names : x \in {Logs(m)[i] : i \in DOMAIN Logs(m)}
      BY DEF Kept
    <3>2. PICK i \in DOMAIN Logs(m) : x = Logs(m)[i]  BY <3>1
    <3>3. /\ i \in 1 .. top[m] - top[m + 1] /\ top[m] \in Nat /\ top[m + 1] \in Nat
          /\ x = top[m + 1] + i /\ top[m] <= written /\ lost <= top[m + 1]
      BY <1>2, <3>2
    <3> QED  BY <1>3, <3>3, SMT
  <2>2. ASSUME NEW x \in lost + 1 .. written PROVE x \in Kept
    <3>1. PICK m \in Names : x \in top[m + 1] + 1 .. top[m]
      BY <1>1, <2>2 DEF Covers, lost
    <3> DEFINE i == x - top[m + 1]
    <3>2. /\ i \in 1 .. top[m] - top[m + 1] /\ x = top[m + 1] + i
      <4>1. top[m] \in Nat /\ top[m + 1] \in Nat  BY <1>2
      <4> QED  BY <3>1, <4>1, SMT
    <3> HIDE DEF i
    <3>3. i \in DOMAIN Logs(m) /\ x = Logs(m)[i]  BY <1>2, <3>2
    <3> QED  BY <3>3 DEF Kept
  <2> QED  BY <2>1, <2>2
<1>7. InOrder
  <2>1. lost + 1 \in 1 .. written + 1  BY <1>3, SMT
  <2> QED  BY <1>4, <1>5, <1>6, <2>1 DEF InOrder
<1> QED  BY <1>3, <1>6, <1>7 DEF lost

\* elog_file_rotate: as long as no process writes into a file that another one
\* has renamed, and all keep to the semaphore, the files hold the last logs
\* without a gap and in order, whoever is killed between two steps of a
\* rotation and whatever cannot be renamed.
THEOREM AlwaysInOrder == Spec => []InOrderUntilStrayed
<1>1. FileInv /\ (lockless \/ SizeInv) /\ OrderInv => InOrderUntilStrayed
  BY ChainIsOrdered DEF OrderInv, Calm, InOrderUntilStrayed
<1> QED  BY <1>1, FilesAlways, OrderAlways, PTL

\* When there are logs that are lost, the files above are full, but for the
\* excused ones.
LEMMA ChainKeeps ==
    ASSUME FileInv, PlaceInv, NEW top \in [Ranks -> Nat], Chain(top),
           top[MaxRotate + 1] > 0
    PROVE  written - top[MaxRotate + 1] >= (MaxRotate - crashes - failures) * Full
<1> DEFINE l == MaxRotate + 1
           k == l - 1 - Gaps(l)
           files == MaxRotate - crashes - failures
<1>1. /\ 0 \in Names /\ 0 \in Ranks /\ 1 \in Ranks /\ l \in Ranks /\ l \in 1 .. l
      /\ l \in Nat /\ 0 + 1 = 1 /\ Full \in Nat
  BY SMT DEF Names, Ranks, Full
<1>2. Edges(top) /\ Slice(top, 0) /\ Dense(top)  BY <1>1 DEF Chain
<1>3. /\ top[0] = written /\ top[1] <= written
      /\ written \in Nat /\ top[1] \in Nat /\ top[l] \in Nat
  <2>1. top[1] <= top[0] /\ top[0] = written  BY <1>1, <1>2 DEF Edges
  <2> QED  BY <1>1, <2>1
<1>4. crashes \in Nat /\ failures \in Nat  BY DEF PlaceInv
<1>5. top[1] - top[l] >= k * Full  BY <1>1, <1>2 DEF Dense
<1>6. CASE ~Moved(l)
  <2>1. Gaps(l) = crashes + failures + 0  BY <1>6 DEF Gaps
  <2>2. k = files /\ k \in Int  BY <1>4, <2>1, SMT
  <2> HIDE DEF k, files, l
  <2>3. k * Full \in Int  BY <2>2, FullTimes
  <2>4. written - top[l] >= k * Full  BY <1>3, <1>5, <2>3, SMT
  <2>5. written - top[l] >= files * Full  BY <2>2, <2>4
  <2> QED  BY <2>5 DEF files, l
<1>7. CASE Moved(l)
  <2>1. Gaps(l) = crashes + failures + 1  BY <1>7 DEF Gaps
  <2>2. files = k + 1 /\ k \in Int  BY <1>4, <2>1, SMT
  <2>3. Len(Logs(0)) = Full  BY <1>7 DEF Moved, PlaceInv
  <2>4. written - top[1] = Full  BY <1>1, <1>2, <1>3, <2>3 DEF Slice
  <2> HIDE DEF k, files, l
  <2>5. k * Full \in Int /\ (k + 1) * Full = k * Full + Full
    <3>1. k <= k  BY <2>2, SMT
    <3> QED  BY <2>2, <3>1, FullTimes
  <2> DEFINE a == k * Full
  <2>6. a \in Int /\ top[1] - top[l] >= a /\ files * Full = a + Full
    BY <1>5, <2>2, <2>5
  <2> HIDE DEF a
  <2>7. written - top[l] >= a + Full  BY <1>1, <1>3, <2>4, <2>6, SMT
  <2>8. written - top[l] >= files * Full  BY <2>6, <2>7
  <2> QED  BY <2>8 DEF files, l
<1> QED  BY <1>6, <1>7

\* elog_file_rotate: the files hold all that was written, or MaxRotate full
\* files of it, less one for each process that was killed and each rename that
\* failed.
THEOREM AlwaysKeepsEnough == Spec => []KeepsEnough
<1>1. FileInv /\ OrderInv => KeepsEnough
  <2> SUFFICES ASSUME FileInv, OrderInv, Calm PROVE KeepsEnough
    BY DEF Calm, KeepsEnough
  <2>1. PlaceInv  BY DEF OrderInv
  <2>2. PICK top \in [Ranks -> Nat] : Chain(top)  BY DEF OrderInv
  <2> DEFINE lost == top[MaxRotate + 1]
  <2>3. Kept = lost + 1 .. written /\ lost <= written  BY <2>2, ChainIsOrdered
  <2>4. lost \in Nat /\ written \in Nat
    <3>1. MaxRotate + 1 \in Ranks  BY SMT DEF Ranks
    <3> QED  BY <3>1 DEF FileInv, FileTypes
  <2>5. Cardinality(Kept) = written - lost
    <3> HIDE DEF lost
    <3>1. lost + 1 \in Int /\ written \in Int  BY <2>4, SMT
    <3>2. Cardinality(lost + 1 .. written)
              = IF lost + 1 > written THEN 0 ELSE written - (lost + 1) + 1
      BY <3>1, FS_Interval
    <3>3. (IF lost + 1 > written THEN 0 ELSE written - (lost + 1) + 1) = written - lost
      BY <2>3, <2>4, SMT
    <3> QED  BY <2>3, <3>2, <3>3
  <2>6. CASE lost = 0
    <3>1. Cardinality(Kept) >= written  BY <2>4, <2>5, <2>6, SMT
    <3> QED  BY <3>1 DEF KeepsEnough
  <2>7. CASE lost # 0
    <3>1. lost > 0  BY <2>4, <2>7, SMT
    <3>2. written - lost >= (MaxRotate - crashes - failures) * Full
      BY <2>1, <2>2, <3>1, ChainKeeps
    <3>3. Cardinality(Kept) >= (MaxRotate - crashes - failures) * (MaxSize + 1)
      BY <2>5, <3>2 DEF Full
    <3> QED  BY <3>3 DEF KeepsEnough
  <2> QED  BY <2>6, <2>7
<1> QED  BY <1>1, FilesAlways, OrderAlways, PTL
===============================================================================
