-------------------------------- MODULE ElogFile ------------------------------
(***************************************************************************)
(* src/easyLogger_obj/test/log: elog_file.c, the log file that is rotated  *)
(* through xxx.log.0, xxx.log.1, ..., and elog_file_port.c, the System V   *)
(* semaphore that keeps the processes that log into it apart.  A process   *)
(* may be killed anywhere; SEM_UNDO then gives back what it holds.         *)
(*                                                                         *)
(* A log is represented by its number in the order of writing, and has     *)
(* size 1.  Name 0 is xxx.log and name n is xxx.log.(n-1).  A file is      *)
(* known by its number in the order of creation, 0 is none: a process      *)
(* keeps its file open whatever becomes of the name.  fopen, fwrite and    *)
(* the calls on the semaphore do not fail; remove and rename follow the    *)
(* fopen that looks for the file in one step.                              *)
(***************************************************************************)
EXTENDS Integers, Sequences, FiniteSets

CONSTANTS
    Procs,       \* processes that log, each one call at a time
    MaxSize,     \* ELOG_FILE_MAX_SIZE
    MaxRotate,   \* ELOG_FILE_MAX_ROTATE
    MaxLogs,     \* a bound: calls of elog_file_write begin only below it
    MaxStrayed,  \* a bound: the same, once strayed or lockless
    MaxCrashes,  \* a bound: processes killed
    MaxFailures  \* a bound: calls of rename that fail

ASSUME ElogFileAssumption ==
    /\ MaxSize \in Nat
    /\ MaxRotate \in Nat \ {0}
    /\ MaxLogs \in Nat /\ MaxStrayed \in Nat
    /\ MaxCrashes \in Nat /\ MaxFailures \in Nat

VARIABLES
    exists,    \* the semaphore is created
    stamped,   \* its sem_otime is not 0
    val,       \* its value
    uses,      \* semid is not -1
    pc,        \* where each process is
    n,         \* in elog_file_rotate: the name to free, 0 when all are moved
    fp,        \* the file each process has open
    dir,       \* the file of each name
    data,      \* the logs in each file
    written,   \* logs written
    crashes,   \* processes killed
    failures,  \* calls of rename that failed
    strayed,   \* history: xxx.log was renamed while another process had it open
    lockless   \* history: a process went without the semaphore

semVars == <<exists, stamped, val>>
fileVars == <<dir, data, written, strayed, lockless>>
vars == <<semVars, uses, pc, n, fp, fileVars, crashes, failures>>

Names == 0 .. MaxRotate

Init ==
    /\ exists = FALSE /\ stamped = FALSE /\ val = 0
    /\ uses = [p \in Procs |-> FALSE] /\ pc = [p \in Procs |-> "off"]
    /\ n = [p \in Procs |-> 0] /\ fp = [p \in Procs |-> 0]
    /\ dir = [m \in Names |-> 0] /\ data = <<>> /\ written = 0
    /\ crashes = 0 /\ failures = 0 /\ strayed = FALSE /\ lockless = FALSE

Goes(p, from, to) == pc[p] = from /\ pc' = [pc EXCEPT ![p] = to]

-------------------------------------------------------------------------------
(* elog_file_port.c *)

\* lock_init: semget makes the semaphore ...
Create(p) ==
    /\ Goes(p, "off", "set")
    /\ ~exists /\ exists' = TRUE
    /\ UNCHANGED <<stamped, val, uses, n, fp, fileVars, crashes, failures>>

\* ... and the first semop sets sem_otime.
Stamp(p) ==
    /\ Goes(p, "set", "config")
    /\ stamped' = TRUE /\ val' = val + 1
    /\ uses' = [uses EXCEPT ![p] = TRUE]
    /\ UNCHANGED <<exists, n, fp, fileVars, crashes, failures>>

\* lock_open: the semaphore is there, and is polled until somebody used it.
Find(p) ==
    /\ Goes(p, "off", "poll")
    /\ exists
    /\ UNCHANGED <<semVars, uses, n, fp, fileVars, crashes, failures>>

PollEnds(p, use) ==
    /\ Goes(p, "poll", "config")
    /\ uses' = [uses EXCEPT ![p] = use]
    /\ UNCHANGED <<semVars, n, fp, dir, data, written, strayed, crashes, failures>>

Poll(p) == stamped /\ PollEnds(p, TRUE) /\ UNCHANGED lockless

\* 100 ms have passed: semid stays -1, and every lock does nothing.
PollGivesUp(p) == ~stamped /\ PollEnds(p, FALSE) /\ lockless' = TRUE

\* elog_file_port_lock
Enter(p, from, to) ==
    /\ Goes(p, from, to)
    /\ uses[p] => val > 0
    /\ val' = IF uses[p] THEN val - 1 ELSE val
    /\ UNCHANGED <<exists, stamped, uses, n, fp, fileVars, crashes, failures>>

\* elog_file_port_unlock; after elog_file_deinit, semid is -1 again.
Leave(p) ==
    LET closed == fp[p] = 0
    IN  /\ Goes(p, "leave", IF closed THEN "off" ELSE "idle")
        /\ val' = IF uses[p] THEN val + 1 ELSE val
        /\ uses' = [uses EXCEPT ![p] = @ /\ ~closed]
        /\ UNCHANGED <<exists, stamped, n, fp, fileVars, crashes, failures>>

-------------------------------------------------------------------------------
(* elog_file.c *)

\* fopen(name, "a+") of xxx.log, which is made when it is not there.
OpenThen(p, from, to, reset) ==
    LET new == dir[0] = 0
        file == IF new THEN Len(data) + 1 ELSE dir[0]
    IN  /\ Goes(p, from, to)
        /\ fp' = [fp EXCEPT ![p] = file]
        /\ dir' = [dir EXCEPT ![0] = file]
        /\ data' = IF new THEN Append(data, <<>>)
                   ELSE [data EXCEPT ![file] = IF reset THEN <<>> ELSE @]
        /\ UNCHANGED <<semVars, uses, n, written, strayed, lockless, crashes, failures>>

\* elog_file_init, after elog_file_port_init: elog_file_config under the lock.
EnterConfig(p) == Enter(p, "config", "open")
OpenToWrite(p) == OpenThen(p, "open", "leave", TRUE)   \* mutant
Open(p) == OpenThen(p, "open", "leave", FALSE)

Write(p) ==
    /\ Goes(p, "idle", "want")
    /\ written < IF strayed \/ lockless THEN MaxStrayed ELSE MaxLogs
    /\ UNCHANGED <<semVars, uses, n, fp, fileVars, crashes, failures>>

EnterWrite(p) == Enter(p, "want", "size")

Size(p) == Len(data[fp[p]])

Fits(p) ==
    /\ Goes(p, "size", "put")
    /\ Size(p) <= MaxSize
    /\ UNCHANGED <<semVars, uses, n, fp, fileVars, crashes, failures>>

\* elog_file_rotate, from the last name on.
RotateFrom(p, m) ==
    /\ Goes(p, "size", "remove")
    /\ Size(p) > MaxSize
    /\ fp' = [fp EXCEPT ![p] = 0]
    /\ n' = [n EXCEPT ![p] = m]
    /\ UNCHANGED <<semVars, uses, fileVars, crashes, failures>>

RotateShort(p) == RotateFrom(p, 1)   \* mutant
Rotate(p) == RotateFrom(p, MaxRotate)

Remove(p) ==
    /\ Goes(p, "remove", "rename")
    /\ dir' = [dir EXCEPT ![n[p]] = 0]
    /\ UNCHANGED <<semVars, uses, n, fp, data, written, strayed, lockless, crashes, failures>>

Rename(p) ==
    LET old == n[p] - 1
    IN  /\ Goes(p, "rename", IF old = 0 THEN "reopen" ELSE "remove")
        /\ n' = [n EXCEPT ![p] = old]
        /\ dir' = IF dir[old] = 0 THEN dir
                  ELSE [dir EXCEPT ![n[p]] = dir[old], ![old] = 0]
        /\ strayed' = (strayed \/ \E q \in Procs : old = 0 /\ fp[q] # 0 /\ fp[q] = dir[0])
        /\ UNCHANGED <<semVars, uses, fp, data, written, lockless, crashes, failures>>

\* What cannot be renamed stays, and nothing is written.
RenameFailsTo(p, next) ==
    /\ Goes(p, "rename", next)
    /\ dir[n[p] - 1] # 0
    /\ failures < MaxFailures /\ failures' = failures + 1
    /\ n' = [n EXCEPT ![p] = 0]
    /\ UNCHANGED <<semVars, uses, fp, fileVars, crashes>>

RenameIgnored(p) == RenameFailsTo(p, "reopen")   \* mutant
RenameFails(p) == RenameFailsTo(p, "open")

Reopen(p) == OpenThen(p, "reopen", "put", FALSE)

\* fwrite and fflush.
Put(p) ==
    /\ Goes(p, "put", "leave")
    /\ data' = [data EXCEPT ![fp[p]] = Append(@, written + 1)]
    /\ written' = written + 1
    /\ UNCHANGED <<semVars, uses, n, fp, dir, strayed, lockless, crashes, failures>>

\* elog_file_deinit: elog_file_config without a name, under the lock.
Deinit(p) ==
    /\ Goes(p, "idle", "stop")
    /\ UNCHANGED <<semVars, uses, n, fp, fileVars, crashes, failures>>

EnterDeinit(p) == Enter(p, "stop", "close")

Close(p) ==
    /\ Goes(p, "close", "leave")
    /\ fp' = [fp EXCEPT ![p] = 0]
    /\ UNCHANGED <<semVars, uses, n, fileVars, crashes, failures>>

-------------------------------------------------------------------------------
(* A process is killed *)

Inside(p) ==
    pc[p] \in {"open", "size", "remove", "rename", "reopen", "put", "close", "leave"}
Holds(p) == Inside(p) /\ uses[p]

\* SEM_UNDO in down and up: the kernel takes back the process's downs and ups,
\* which leaves the one it is inside of, if any.
CrashUndoing(p, undone) ==
    /\ pc[p] # "off" /\ pc' = [pc EXCEPT ![p] = "off"]
    /\ crashes < MaxCrashes /\ crashes' = crashes + 1
    /\ val' = val + undone
    /\ uses' = [uses EXCEPT ![p] = FALSE] /\ fp' = [fp EXCEPT ![p] = 0]
    /\ n' = [n EXCEPT ![p] = 0]
    /\ UNCHANGED <<exists, stamped, fileVars, failures>>

CrashHolding(p) == CrashUndoing(p, 0)   \* mutant
\* mutant: up without SEM_UNDO, so that a down that was matched is undone too
CrashUndoingDowns(p) == CrashUndoing(p, IF uses[p] THEN 1 ELSE 0)
Crash(p) == CrashUndoing(p, IF Holds(p) THEN 1 ELSE 0)

-------------------------------------------------------------------------------
EnterStep(p) == EnterConfig(p) \/ EnterWrite(p) \/ EnterDeinit(p)

ProcStep(p) ==
    \/ Stamp(p) \/ Poll(p) \/ PollGivesUp(p) \/ Open(p)
    \/ Fits(p) \/ Rotate(p) \/ Remove(p) \/ Rename(p) \/ RenameFails(p) \/ Reopen(p) \/ Put(p)
    \/ Close(p) \/ Leave(p)

Next ==
    \E p \in Procs :
        \/ Create(p) \/ Find(p) \/ Write(p) \/ Deinit(p)
        \/ EnterStep(p) \/ ProcStep(p)
        \/ Crash(p)

\* Processes keep running, and the kernel wakes those that wait for the
\* semaphore in turn.  Nobody has to start, to log or to stop.
Fairness == \A p \in Procs : WF_vars(ProcStep(p)) /\ SF_vars(EnterStep(p))

Spec == Init /\ [][Next]_vars
FairSpec == Spec /\ Fairness

-------------------------------------------------------------------------------
(* Properties *)

States == {"off", "set", "poll", "config", "open", "idle", "want", "size", "remove",
           "rename", "reopen", "put", "stop", "close", "leave"}

TypeOK ==
    /\ exists \in BOOLEAN /\ stamped \in BOOLEAN /\ val \in Nat
    /\ uses \in [Procs -> BOOLEAN] /\ pc \in [Procs -> States]
    /\ n \in [Procs -> Names]
    /\ data \in Seq(Seq(Nat)) /\ fp \in [Procs -> 0 .. Len(data)]
    /\ dir \in [Names -> 0 .. Len(data)]
    /\ written \in Nat /\ crashes \in Nat /\ failures \in Nat
    /\ strayed \in BOOLEAN /\ lockless \in BOOLEAN

\* Two processes that use the semaphore are never at the file together,
\* whoever was killed where.
AloneInside == \A p, q \in Procs : Holds(p) /\ Holds(q) => p = q

Logs(m) == IF dir[m] = 0 THEN <<>> ELSE data[dir[m]]
Kept == UNION {{Logs(m)[i] : i \in DOMAIN Logs(m)} : m \in Names}

\* The files hold the last logs without a gap, in order, from the file with the
\* highest number to xxx.log.
InOrder ==
    /\ \A m \in Names : \A i \in DOMAIN Logs(m) : Logs(m)[i] = Logs(m)[1] + i - 1
    /\ \A m, o \in Names : \A i \in DOMAIN Logs(m), j \in DOMAIN Logs(o) :
           m < o => Logs(m)[i] > Logs(o)[j]
    /\ \E k \in 1 .. written + 1 : Kept = k .. written

\* This is so, in spite of kills and of calls that fail, as long as nobody else
\* has the file open when it is renamed.
InOrderUntilStrayed == strayed \/ lockless \/ InOrder

\* Of the files of MaxSize + 1 logs, a rotation drops one, and only when there
\* are MaxRotate others; a kill and a failure in the middle cost one each.
KeepsEnough ==
    LET files == MaxRotate - crashes - failures
    IN  strayed \/ lockless
        \/ Cardinality(Kept) >= written
        \/ Cardinality(Kept) >= files * (MaxSize + 1)

\* A file grows past its limit by one log at most, whoever has it open.
Bounded == lockless \/ \A file \in DOMAIN data : Len(data[file]) <= MaxSize + 1

\* Whoever wants to log comes back, even when the process before is killed with
\* the semaphore, unless it is killed itself.
WritesEnd == \A p \in Procs : pc[p] = "want" ~> pc[p] \in {"idle", "off"}

-------------------------------------------------------------------------------
(* What the comments say and the code does not keep: not an invariant *)

\* elog_file.c: "xxx.log.n-1 => xxx.log.n, and xxx.log => xxx.log.0".  This
\* would be so with all processes that keep to the semaphore.
OlderHasHigherNumber == lockless \/ InOrder
===============================================================================
