------------------------------- MODULE UartSync -------------------------------
(***************************************************************************)
(* src/obj_serial/uart/uart_moudle.c: calls of send_byte_uart_wait, the    *)
(* thread wait_uart that reads the serial line, and the device at the      *)
(* other end.  The caller and the thread share sync_buff, sync_buff_len    *)
(* and sync_flag without a lock, and the semaphore wait_recv; lockmsg only *)
(* keeps the callers apart.                                                *)
(*                                                                         *)
(* A byte is represented by whom it answers: a request, or Nobody.  The    *)
(* device sends one message after the other; the bytes of a message arrive *)
(* when they like, and a pause inside it may last longer than the 10 ms    *)
(* after which wait_uart takes a message for complete.                     *)
(*                                                                         *)
(* The three assignments that arm or reset a call are one step: wait_uart  *)
(* tests sync_flag first and then sync_buff and sync_buff_len, so what it  *)
(* sees between them it also sees before or after.  The Makefile asks for  *)
(* no optimisation: each use of sync_buff reads it again, and each write   *)
(* through it is a step after the one that reads it.                       *)
(***************************************************************************)
EXTENDS Naturals, Sequences, FiniteSets

CONSTANTS
    Requests,    \* calls of send_byte_uart_wait
    Nobody,
    RcvSize,     \* size of rcvbuff, 64
    RecvLen,     \* size of the callers' buffers
    Frames,      \* lengths of the messages of the device
    MaxUnasked,  \* messages the device sends unasked
    Hasty,       \* bounds when the line is not calm: the calls made,
    HastyFrames, \* the lengths
    HastySent    \* and the number of the messages of the device

ASSUME UartAssumption ==
    /\ Nobody \notin Requests
    /\ RcvSize \in Nat \ {0} /\ RecvLen \in Nat \ {0}
    /\ Frames \subseteq Nat \ {0} /\ MaxUnasked \in Nat
    /\ Hasty \subseteq Requests /\ HastyFrames \subseteq Frames /\ HastySent \in Nat

VARIABLES
    lock,      \* the call that holds lockmsg
    buff,      \* whose buffer sync_buff points to
    flag,      \* sync_flag
    code,      \* wait_code
    sem,       \* wait_recv
    pc,        \* where each call is
    result,    \* what it is about to return
    recv,      \* what is in its buffer
    rpc,       \* where wait_uart is
    rcv,       \* rcvbuff
    dst,       \* whose buffer wait_uart is writing to
    wire,      \* bytes that have arrived and wait_uart has not read
    due,       \* bytes of the device's last message that have not arrived
    said,      \* length of the device's answer to each request
    decided,   \* requests the device has answered or ignored
    unasked,   \* messages sent unasked
    cut,       \* wait_uart has taken a part of a message for a whole one
    calm       \* a call starts on a silent line, the device speaks unasked
               \* only between calls and never pauses inside a message, read
               \* fails only at the start of one, and the deadline only
               \* passes when no answer is on its way to the call

callVars == <<lock, flag, pc, result>>
deviceVars == <<due, said, decided, unasked>>
envVars == <<wire, deviceVars, cut, calm>>
vars == <<callVars, buff, code, sem, recv, rpc, rcv, dst, envVars>>

Init ==
    /\ lock = Nobody /\ buff = Nobody /\ flag = FALSE /\ code = "ok" /\ sem = 0
    /\ calm \in BOOLEAN
    /\ pc = [r \in Requests |-> IF calm \/ r \in Hasty THEN "start" ELSE "done"]
    /\ result = [r \in Requests |-> "none"]
    /\ recv = [r \in Requests |-> <<>>]
    /\ rpc = "select" /\ rcv = <<>> /\ dst = Nobody
    /\ wire = <<>> /\ due = <<>> /\ cut = FALSE
    /\ said = [r \in Requests |-> 0]
    /\ decided = {r \in Requests : pc[r] = "done"} /\ unasked = 0

Among(x, s) == \E i \in DOMAIN s : s[i] = x

-------------------------------------------------------------------------------
(* send_byte_uart_wait *)

\* The caller is there, and the process has not crashed.
CallAt(r, at) == pc[r] = at /\ rpc # "crashed"

\* lockmsg is taken, and the call armed.
Arm(r) ==
    /\ CallAt(r, "start")
    /\ lock = Nobody
    /\ calm => wire = <<>> /\ due = <<>> /\ rpc = "select"
    /\ lock' = r /\ buff' = r /\ flag' = TRUE
    /\ pc' = [pc EXCEPT ![r] = "write"]
    /\ UNCHANGED <<code, sem, result, recv, rpc, rcv, dst, envVars>>

\* 50 attempts at lockmsg have failed.
Busy(r) ==
    /\ CallAt(r, "start")
    /\ lock # Nobody
    /\ pc' = [pc EXCEPT ![r] = "done"]
    /\ result' = [result EXCEPT ![r] = "busy"]
    /\ UNCHANGED <<lock, buff, flag, code, sem, recv, rpc, rcv, dst, envVars>>

Write(r) ==
    /\ CallAt(r, "write")
    /\ pc' = [pc EXCEPT ![r] = "wait"]
    /\ UNCHANGED <<lock, buff, flag, code, sem, result, recv, rpc, rcv, dst, envVars>>

WriteFails(r) ==
    /\ CallAt(r, "write")
    /\ pc' = [pc EXCEPT ![r] = "reset"]
    /\ result' = [result EXCEPT ![r] = "failed"]
    /\ UNCHANGED <<lock, buff, flag, code, sem, recv, rpc, rcv, dst, envVars>>

\* sem_timedwait succeeds.
WokenAt(r, least, taken) ==
    /\ CallAt(r, "wait")
    /\ sem >= least
    /\ sem' = sem - taken
    /\ pc' = [pc EXCEPT ![r] = "woken"]
    /\ UNCHANGED <<lock, buff, flag, code, result, recv, rpc, rcv, dst, envVars>>

WokenAnyway(r) == WokenAt(r, 0, 0)   \* mutant
Woken(r) == WokenAt(r, 1, 1)

\* An answer to r is to come, on the line, or with wait_uart.
OnItsWay(r) ==
    \/ r \notin decided
    \/ Among(r, wire) \/ Among(r, due)
    \/ rpc # "select" /\ Among(r, rcv)

SpaceTerminated == RcvSize - 1 - Len(rcv)   \* mutant
Space == RcvSize - Len(rcv)

\* rcvbuff is full and there is more to read: read is asked for 0 bytes, and
\* what it leaves keeps select ready.
Stuck == rpc \in {"read", "more"} /\ Space = 0 /\ wire # <<>>

\* The deadline passes.
Timeout(r) ==
    /\ CallAt(r, "wait")
    /\ sem = 0
    /\ calm => ~OnItsWay(r) \/ Stuck
    /\ pc' = [pc EXCEPT ![r] = "reset"]
    /\ result' = [result EXCEPT ![r] = "timeout"]
    /\ UNCHANGED <<lock, buff, flag, code, sem, recv, rpc, rcv, dst, envVars>>

\* wait_code decides what the call returns.
ReadCode(r) ==
    /\ CallAt(r, "woken")
    /\ pc' = [pc EXCEPT ![r] = "reset"]
    /\ result' = [result EXCEPT ![r] = code]
    /\ UNCHANGED <<lock, buff, flag, code, sem, recv, rpc, rcv, dst, envVars>>

\* reset_flag, and the unlock.
ResetAs(r, newLock) ==
    /\ CallAt(r, "reset")
    /\ buff' = Nobody /\ flag' = FALSE /\ lock' = newLock
    /\ pc' = [pc EXCEPT ![r] = "done"]
    /\ UNCHANGED <<code, sem, result, recv, rpc, rcv, dst, envVars>>

ResetLocked(r) == ResetAs(r, r)   \* mutant
Reset(r) == ResetAs(r, Nobody)

-------------------------------------------------------------------------------
(* wait_uart *)

At(from, to) == rpc = from /\ rpc' = to

\* select says there is something to read; rcvbuff is cleared.
Select ==
    /\ At("select", "read")
    /\ wire # <<>>
    /\ rcv' = <<>>
    /\ UNCHANGED <<callVars, buff, code, sem, recv, dst, envVars>>

\* read returns the bytes that have arrived, but no more than the space left in
\* rcvbuff, even if that is none.
Taken == IF Len(wire) < Space THEN Len(wire) ELSE Space

Read ==
    /\ At("read", "more")
    /\ rcv' = rcv \o SubSeq(wire, 1, Taken)
    /\ wire' = SubSeq(wire, Taken + 1, Len(wire))
    /\ UNCHANGED <<callVars, buff, code, sem, recv, dst, deviceVars, cut, calm>>

\* read fails: what was read before is dropped, and what comes next is taken
\* for a message.
ReadFails ==
    /\ At("read", "select")
    /\ calm => rcv = <<>>
    /\ rcv' = <<>> /\ cut' = (cut \/ rcv # <<>>)
    /\ UNCHANGED <<callVars, buff, code, sem, recv, dst, wire, deviceVars, calm>>

\* More is there within 10 ms ...
More ==
    /\ At("more", "read")
    /\ wire # <<>>
    /\ UNCHANGED <<callVars, buff, code, sem, recv, rcv, dst, envVars>>

\* ... or nothing does, even if the rest of the message is to come.
Silence ==
    /\ At("more", "flag")
    /\ wire = <<>>
    /\ calm => due = <<>>
    /\ cut' = (cut \/ due # <<>>)
    /\ UNCHANGED <<callVars, buff, code, sem, recv, rcv, dst, wire, deviceVars, calm>>

\* Nobody waits: the callback of set_uart_ck.
HandAsync ==
    /\ At("flag", "select")
    /\ ~flag
    /\ UNCHANGED <<callVars, buff, code, sem, recv, rcv, dst, envVars>>

SeeFlag ==
    /\ At("flag", "check")
    /\ flag
    /\ UNCHANGED <<callVars, buff, code, sem, recv, rcv, dst, envVars>>

\* The tests of sync_buff, sync_buff_len and datasize.  A reset after the
\* first leaves a length of 0, for which every message is too long.
CheckNull ==
    /\ At("check", "post")
    /\ buff = Nobody
    /\ code' = "param"
    /\ UNCHANGED <<callVars, buff, sem, recv, rcv, dst, envVars>>

CheckSize ==
    /\ At("check", "post")
    /\ buff # Nobody => Len(rcv) >= RecvLen
    /\ code' = "size"
    /\ UNCHANGED <<callVars, buff, sem, recv, rcv, dst, envVars>>

CheckPasses(len) ==
    /\ At("check", "copy")
    /\ buff # Nobody
    /\ len < RecvLen
    /\ UNCHANGED <<callVars, buff, code, sem, recv, rcv, dst, envVars>>

CheckUnterminated == CheckPasses(Len(rcv) - 1)   \* mutant
Check == CheckPasses(Len(rcv))

\* sync_buff is read again; through NULL the process is gone.
Fetch(from, to) ==
    /\ rpc = from
    /\ dst' = buff
    /\ rpc' = IF buff = Nobody THEN "crashed" ELSE to
    /\ UNCHANGED <<callVars, buff, code, sem, recv, rcv, envVars>>

\* memcpy ...
FetchToCopy == Fetch("copy", "copying")

Copy ==
    /\ At("copying", "end")
    /\ recv' = [recv EXCEPT ![dst] = rcv] /\ dst' = Nobody
    /\ UNCHANGED <<callVars, buff, code, sem, rcv, envVars>>

\* ... the terminating 0, and wait_code.
FetchToEnd == Fetch("end", "ending")

Terminate ==
    /\ At("ending", "post")
    /\ code' = "ok" /\ dst' = Nobody
    /\ UNCHANGED <<callVars, buff, sem, recv, rcv, envVars>>

PostTimes(n) ==
    /\ At("post", "select")
    /\ sem' = sem + n
    /\ UNCHANGED <<callVars, buff, code, recv, rcv, dst, envVars>>

PostTwice == PostTimes(2)   \* mutant
PostNone == PostTimes(0)   \* mutant
Post == PostTimes(1)

-------------------------------------------------------------------------------
(* The device *)

Frame(tag, n) == [i \in 1 .. n |-> tag]

\* What the bounds let the device say.
Sayable ==
    IF calm THEN Frames
    ELSE IF Cardinality({r \in Requests : said[r] # 0}) + unasked < HastySent THEN HastyFrames
    ELSE {}

\* The last message is out, and the next one begins.
Answer(r) ==
    /\ pc[r] \notin {"start", "write"} /\ result[r] # "busy" /\ result[r] # "failed"
    /\ r \notin decided
    /\ due = <<>>
    /\ decided' = decided \cup {r}
    /\ \E n \in Sayable : due' = Frame(r, n) /\ said' = [said EXCEPT ![r] = n]
    /\ UNCHANGED <<callVars, buff, code, sem, recv, rpc, rcv, dst, wire, unasked, cut, calm>>

Ignore(r) ==
    /\ pc[r] = "wait"
    /\ r \notin decided
    /\ decided' = decided \cup {r}
    /\ UNCHANGED <<callVars, buff, code, sem, recv, rpc, rcv, dst, wire, due, said, unasked,
                   cut, calm>>

SpeakUnasked ==
    /\ unasked < MaxUnasked
    /\ due = <<>>
    /\ calm => lock = Nobody /\ wire = <<>> /\ rpc = "select"
    /\ unasked' = unasked + 1
    /\ \E n \in Sayable : due' = Frame(Nobody, n)
    /\ UNCHANGED <<callVars, buff, code, sem, recv, rpc, rcv, dst, wire, said, decided, cut,
                   calm>>

\* Some of the bytes arrive.
Arrive ==
    /\ \E n \in 1 .. Len(due) :
          /\ wire' = wire \o SubSeq(due, 1, n)
          /\ due' = SubSeq(due, n + 1, Len(due))
    /\ UNCHANGED <<callVars, buff, code, sem, recv, rpc, rcv, dst, said, decided, unasked, cut,
                   calm>>

-------------------------------------------------------------------------------
CallStep(r) ==
    Write(r) \/ WriteFails(r) \/ Woken(r) \/ Timeout(r) \/ ReadCode(r) \/ Reset(r)

ReaderStep ==
    \/ Select \/ Read \/ More \/ Silence \/ HandAsync \/ SeeFlag
    \/ CheckNull \/ CheckSize \/ Check
    \/ FetchToCopy \/ Copy \/ FetchToEnd \/ Terminate \/ Post

\* Nothing is left to do, or the process has crashed.
Quiet ==
    /\ \/ (\A r \in Requests : pc[r] = "done") /\ rpc = "select" /\ wire = <<>> /\ due = <<>>
       \/ rpc = "crashed"
    /\ UNCHANGED vars

Next ==
    \/ \E r \in Requests : Arm(r) \/ Busy(r) \/ CallStep(r) \/ Answer(r) \/ Ignore(r)
    \/ ReaderStep \/ ReadFails \/ SpeakUnasked \/ Arrive
    \/ Quiet

\* Threads keep running and the port's reads do not fail for ever; an answer
\* or the deadline comes, and a message that was begun arrives.  Nobody has to
\* call, and the device need not speak.
Fairness ==
    /\ \A r \in Requests : WF_vars(CallStep(r)) /\ WF_vars(Ignore(r))
    /\ WF_vars(ReaderStep) /\ SF_vars(Read) /\ WF_vars(Arrive)

Spec == Init /\ [][Next]_vars
FairSpec == Spec /\ Fairness

-------------------------------------------------------------------------------
(* Properties *)

Results == {"none", "ok", "param", "size", "busy", "failed", "timeout"}
Bytes == Requests \cup {Nobody}

TypeOK ==
    /\ lock \in Bytes /\ buff \in Bytes /\ flag \in BOOLEAN
    /\ code \in {"ok", "param", "size"}
    /\ sem \in Nat
    /\ pc \in [Requests -> {"start", "write", "wait", "woken", "reset", "done"}]
    /\ result \in [Requests -> Results]
    /\ recv \in [Requests -> Seq(Bytes)]
    /\ rpc \in {"select", "read", "more", "flag", "check", "copy", "copying", "end", "ending",
               "post", "crashed"}
    /\ rcv \in Seq(Bytes) /\ Len(rcv) <= RcvSize
    /\ dst \in Bytes /\ (rpc \in {"copying", "ending"} => dst # Nobody)
    /\ wire \in Seq(Bytes) /\ due \in Seq(Bytes) /\ said \in [Requests -> Frames \cup {0}]
    /\ calm \in BOOLEAN /\ cut \in BOOLEAN
    /\ decided \subseteq Requests /\ unasked \in 0 .. MaxUnasked

\* Nothing has disturbed the line yet: no call has failed to write or timed
\* out, no message came unasked, and none was cut by a pause or a failed read.
Undisturbed ==
    /\ unasked = 0 /\ ~cut
    /\ \A r \in Requests : result[r] \notin {"failed", "timeout"}

\* uart_moudle.h: "send a message and wait for the reply".  On a calm line,
\* and on any other until it is disturbed, a call that succeeds has in its
\* buffer the whole reply to its own message and nothing else, however the
\* reply is cut into reads.
AnswerIsMine ==
    calm \/ Undisturbed =>
        \A r \in Requests :
            pc[r] = "done" /\ result[r] = "ok" =>
                /\ recv[r] # <<>> /\ Len(recv[r]) = said[r]
                /\ \A i \in DOMAIN recv[r] : recv[r][i] = r

\* On such a line, no wakeup is left over for the next call, and none is
\* pending twice.
NoStaleWakeup ==
    calm \/ Undisturbed => sem <= 1 /\ (lock = Nobody => sem = 0 /\ rpc # "post")

\* On such a line, wait_uart never writes through sync_buff after it was reset,
\* never to the buffer of a call that may return during the write, and leaves
\* room for the terminating 0.
WritesInside ==
    calm \/ Undisturbed =>
        /\ rpc # "crashed"
        /\ rpc \in {"copying", "ending"} => pc[dst] = "wait" /\ sem = 0
        /\ \A r \in Requests : Len(recv[r]) < RecvLen

\* An answer wait_uart has read whole makes its call return: with the
\* answer, or with -UART_MOUDLE_ERR_BUFFSIZE if it is too long.
AnswerReturns ==
    \A r \in Requests :
        calm /\ rpc = "flag" /\ Among(r, rcv)
            ~> pc[r] = "done" /\ (result[r] = "ok" \/ result[r] = "size")

\* Whatever the line does, every call that got the lock returns and lets the
\* next one in, unless the process has crashed.
CallsReturn == \A r \in Requests : lock = r ~> lock # r \/ rpc = "crashed"

\* wait_uart: "listen to the port and dispatch messages".  On a calm line a
\* message that fits in rcvbuff, even exactly, is dispatched once wait_uart has
\* begun to read it, and wait_uart comes back to listen.
KeepsListening ==
    calm /\ rpc = "read" /\ Len(rcv) + Len(wire) + Len(due) <= RcvSize ~> rpc = "select"

\* It is not so for a message that does not fit.
NeverStuck == ~(calm /\ Stuck)
===============================================================================
