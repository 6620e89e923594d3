------------------------------- MODULE ElogAsync ------------------------------
(***************************************************************************)
(* src/easyLogger_obj/test/log: elog_async.c, the ring buffer between      *)
(* the threads that log and the thread async_output, as configured by      *)
(* elog_cfg.h (pthreads, no line mode), with the parts of elog.c that      *)
(* start it, stop it and hold the output lock around it.                   *)
(*                                                                         *)
(* A byte is represented by its number in the order of acceptance, 0 is    *)
(* none.  get_log is one step: all of it runs under the lock, which every  *)
(* other use of the buffer holds.  What is output without the buffer, by   *)
(* level or because it is off, changes none of this.                       *)
(***************************************************************************)
EXTENDS Integers, Sequences

CONSTANTS
    Threads,   \* threads that log
    Free,      \* nobody, as a holder of the lock
    BufSize,   \* OUTPUT_BUF_SIZE
    PollSize,  \* ELOG_ASYNC_POLL_GET_LOG_BUF_SIZE
    Sizes,     \* lengths of logs
    MaxBytes,  \* a bound: nothing is put once so many bytes are accepted
    MaxInits   \* a bound: calls of elog_init

ASSUME ElogAssumption ==
    /\ Free \notin Threads
    /\ BufSize \in Nat \ {0} /\ PollSize \in Nat \ {0}
    /\ Sizes \subseteq Nat \ {0}
    /\ MaxBytes \in Nat /\ MaxInits \in Nat

VARIABLES
    w, r,         \* write_index, read_index
    full, empty,  \* buf_is_full, buf_is_empty
    buf,          \* log_buf
    lock,         \* output_lock
    sem,          \* output_notice
    running,      \* thread_running
    on,           \* output_enabled and is_enabled
    cpc,          \* where each thread that logs is
    tpc,          \* where async_output is
    mpc,          \* where the thread that starts and stops the logger is
    poll,         \* poll_get_buf, as long as it is not output
    accepted,     \* history: bytes put
    shown,        \* history: bytes output
    inits, left   \* history: calls of elog_init, bytes put before the last

ringVars == <<w, r, full, empty, buf>>
mainVars == <<running, on, mpc, inits, left>>
vars == <<ringVars, lock, sem, mainVars, cpc, tpc, poll, accepted, shown>>

Init ==
    /\ w = 0 /\ r = 0 /\ full = FALSE /\ empty = TRUE
    /\ buf = [i \in 0 .. BufSize - 1 |-> 0]
    /\ lock = Free /\ sem = 0 /\ running = FALSE /\ on = FALSE
    /\ cpc = [c \in Threads |-> "idle"] /\ tpc = "ended" /\ mpc = "off"
    /\ poll = <<>> /\ accepted = 0 /\ shown = 0 /\ inits = 0 /\ left = 0

Least(a, b) == IF a <= b THEN a ELSE b

\* The cell n after cell i, and how far cell i is after cell j.
At(i, n) == IF i + n < BufSize THEN i + n ELSE i + n - BufSize
After(j, i) == IF j <= i THEN i - j ELSE i - j + BufSize

\* elog_async_get_buf_used
Used ==
    IF w > r THEN w - r
    ELSE IF ~full /\ ~empty THEN BufSize - (r - w)
    ELSE IF full THEN BufSize ELSE 0

-------------------------------------------------------------------------------
(* elog_output, elog_hexdump *)

Goes(c, from, to) == cpc[c] = from /\ cpc' = [cpc EXCEPT ![c] = to]

\* Output is enabled, and the filters pass.
Enter(c) ==
    /\ Goes(c, "idle", "enter")
    /\ on
    /\ UNCHANGED <<ringVars, lock, sem, mainVars, tpc, poll, accepted, shown>>

Lock(c) ==
    /\ Goes(c, "enter", "locked")
    /\ lock = Free /\ lock' = c
    /\ UNCHANGED <<ringVars, sem, mainVars, tpc, poll, accepted, shown>>

\* async_put_log: the beginning that fits, of a log of n bytes.  Without space
\* it does nothing, and nobody is notified.
Space == BufSize - Used

PutThen(c, n, size, next) ==
    /\ Goes(c, "locked", next)
    /\ on /\ accepted < MaxBytes
    /\ Space # 0
    /\ full' = (full \/ Space <= n)
    /\ buf' = [i \in 0 .. BufSize - 1 |->
                  IF After(w, i) < size THEN accepted + After(w, i) + 1 ELSE buf[i]]
    /\ w' = At(w, size)
    /\ empty' = FALSE
    /\ accepted' = accepted + size
    /\ UNCHANGED <<r, lock, sem, mainVars, tpc, poll, shown>>

PutWhole(c, n) == PutThen(c, n, n, "notify")   \* mutant
PutQuietly(c, n) ==   \* mutant
    PutThen(c, n, Least(n, Space), IF n > Space THEN "locked" ELSE "notify")
Put(c, n) == PutThen(c, n, Least(n, Space), "notify")

\* The notice for what was put.
Notify(c) ==
    /\ Goes(c, "notify", "locked")
    /\ sem' = sem + 1
    /\ UNCHANGED <<ringVars, lock, mainVars, tpc, poll, accepted, shown>>

\* The keyword is not there, or everything is put.
Unlock(c) ==
    /\ Goes(c, "locked", "idle")
    /\ lock' = Free
    /\ UNCHANGED <<ringVars, sem, mainVars, tpc, poll, accepted, shown>>

-------------------------------------------------------------------------------
(* async_output *)

Runs(from, to) == tpc = from /\ tpc' = to

Test ==
    /\ Runs("test", IF running THEN "wait" ELSE "ended")
    /\ UNCHANGED <<ringVars, lock, sem, mainVars, cpc, poll, accepted, shown>>

Wake ==
    /\ Runs("wait", "get")
    /\ sem > 0 /\ sem' = sem - 1
    /\ UNCHANGED <<ringVars, lock, mainVars, cpc, poll, accepted, shown>>

\* elog_async_get_log, where "all" says that nothing is left.
TakeIf(all) ==
    LET size == Least(Used, PollSize)
    IN  /\ Runs("get", "out")
        /\ lock = Free
        /\ Used # 0
        /\ poll' = [k \in 1 .. size |-> buf[At(r, k - 1)]]
        /\ r' = At(r, size)
        /\ empty' = (empty \/ all)
        /\ full' = FALSE
        /\ UNCHANGED <<w, buf, lock, sem, mainVars, cpc, accepted, shown>>

TakeStrict == TakeIf(Used < PollSize)   \* mutant
TakeLog == TakeIf(Used <= PollSize)

TakeNothing ==
    /\ Runs("get", "test")
    /\ lock = Free
    /\ Used = 0
    /\ UNCHANGED <<ringVars, lock, sem, mainVars, cpc, poll, accepted, shown>>

\* elog_port_output, without the lock; then there may be more.
ShowThen(next) ==
    /\ Runs("out", next)
    /\ shown' = poll[Len(poll)]
    /\ poll' = <<>>
    /\ UNCHANGED <<ringVars, lock, sem, mainVars, cpc, accepted>>

ShowOnce == ShowThen("test")   \* mutant
Show == ShowThen("get")

-------------------------------------------------------------------------------
(* elog_init, elog_start, elog_stop, elog_deinit *)

Manages(from, to) == mpc = from /\ mpc' = to

\* The ring buffer is left as it is.
InitLog ==
    /\ Manages("off", "ready")
    /\ inits < MaxInits
    /\ lock' = Free /\ sem' = 0 /\ running' = TRUE /\ tpc' = "test"
    /\ inits' = inits + 1 /\ left' = accepted
    /\ UNCHANGED <<ringVars, on, cpc, poll, accepted, shown>>

Start ==
    /\ Manages("ready", "on")
    /\ on' = TRUE
    /\ UNCHANGED <<ringVars, lock, sem, running, inits, left, cpc, tpc, poll, accepted, shown>>

Stop ==
    /\ Manages("on", "ready")
    /\ on' = FALSE
    /\ UNCHANGED <<ringVars, lock, sem, running, inits, left, cpc, tpc, poll, accepted, shown>>

\* elog_deinit, when elog_stop has been called and no thread logs any more.
Deinit ==
    /\ Manages("ready", "deinit")
    /\ \A c \in Threads : cpc[c] = "idle"
    /\ running' = FALSE
    /\ UNCHANGED <<ringVars, lock, sem, on, inits, left, cpc, tpc, poll, accepted, shown>>

DeinitPost(n) ==
    /\ Manages("deinit", "join")
    /\ sem' = sem + n
    /\ UNCHANGED <<ringVars, lock, running, on, inits, left, cpc, tpc, poll, accepted, shown>>

DeinitSilent == DeinitPost(0)   \* mutant
DeinitNotify == DeinitPost(1)

Join ==
    /\ Manages("join", "off")
    /\ tpc = "ended"
    /\ UNCHANGED <<ringVars, lock, sem, running, on, inits, left, cpc, tpc, poll, accepted, shown>>

-------------------------------------------------------------------------------
CallerStep(c) ==
    \/ Lock(c) \/ Notify(c) \/ Unlock(c)
    \/ \E n \in Sizes : Put(c, n)

GetLog == TakeLog \/ TakeNothing
OutputStep == Test \/ Wake \/ GetLog \/ Show
Ending == DeinitNotify \/ Join

\* Switched off for good.
Off == mpc = "off" /\ inits = MaxInits /\ UNCHANGED vars

Next ==
    \/ \E c \in Threads : Enter(c) \/ CallerStep(c)
    \/ OutputStep
    \/ InitLog \/ Start \/ Stop \/ Deinit \/ Ending
    \/ Off

\* Threads keep running, and one that asks for the lock again and again gets
\* it.  Nobody has to log, to start or to stop.
Fairness ==
    /\ \A c \in Threads : WF_vars(CallerStep(c))
    /\ WF_vars(OutputStep) /\ SF_vars(GetLog)
    /\ WF_vars(Ending)

Spec == Init /\ [][Next]_vars
FairSpec == Spec /\ Fairness

-------------------------------------------------------------------------------
(* Properties *)

TypeOK ==
    /\ w \in 0 .. BufSize - 1 /\ r \in 0 .. BufSize - 1
    /\ full \in BOOLEAN /\ empty \in BOOLEAN
    /\ buf \in [0 .. BufSize - 1 -> Nat]
    /\ lock \in Threads \cup {Free} /\ sem \in Nat
    /\ running \in BOOLEAN /\ on \in BOOLEAN
    /\ cpc \in [Threads -> {"idle", "enter", "locked", "notify"}]
    /\ tpc \in {"test", "wait", "get", "out", "ended"}
    /\ mpc \in {"off", "ready", "on", "deinit", "join"}
    /\ poll \in Seq(Nat)
    /\ accepted \in Nat /\ shown \in Nat /\ inits \in Nat /\ left \in Nat

taken == shown + Len(poll)

\* The flags and indices agree with what was put and taken; the ring holds the
\* bytes that come next, and so does poll_get_buf, wherever the ring wraps.
InOrder ==
    /\ Used = accepted - taken
    /\ \A k \in 0 .. Used - 1 : buf[At(r, k)] = taken + k + 1
    /\ \A k \in 1 .. Len(poll) : poll[k] = shown + k

\* async_output never sleeps on a buffer somebody has put bytes into since
\* elog_init: a notice is pending, or about to be posted, or it is to end.
NothingIsStuck ==
    tpc \in {"test", "wait"} /\ accepted > left /\ Used # 0 =>
        sem > 0 \/ ~running \/ \E c \in Threads : cpc[c] = "notify"

\* elog_async.c does what the queue promises, whatever the threads do.
Promise == INSTANCE LogQueue WITH Capacity <- BufSize, Batch <- PollSize
KeepsPromise == Promise!Spec

\* Bytes that were accepted since elog_init, and all before them, are shown,
\* unless the logger is ended first.
LogsComeOut ==
    \A n \in 1 .. MaxBytes :
        running /\ accepted > left /\ accepted >= n ~> shown >= n \/ ~running

\* elog_deinit comes to an end.
DeinitReturns == mpc = "deinit" ~> mpc = "off"
===============================================================================
