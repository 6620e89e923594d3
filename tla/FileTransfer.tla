----------------------------- MODULE FileTransfer -----------------------------
(***************************************************************************)
(* src/socket_obj/tcpIp/socket_file.c: sock_send_file at one end of a TCP  *)
(* connection and sock_recv_file at the other.  The sender sends a frame   *)
(* of at most FrameSize bytes behind a header, and waits for the reply to  *)
(* it before it reads the next.                                            *)
(*                                                                         *)
(* TCP delivers the bytes in order, but not the boundaries of the frames:  *)
(* a recv may return a part of one, and may end inside the header.  A      *)
(* header is two elements of the stream, its head and its tail, a byte of  *)
(* the file is its position, and 0 is a byte that is not of the file.  It  *)
(* is assumed that no part of the file reads as a header of that file.     *)
(***************************************************************************)
EXTENDS Integers, Sequences

CONSTANTS
    FrameSize,   \* FRAME_BUFF_SIZE, 1024
    Padding,     \* bytes the compiler puts after buff in FILE_FRAME: none where
                 \* long has 32 bits, 4 where it has 64
    Sizes        \* sizes of files

ASSUME FileAssumption ==
    /\ FrameSize \in Nat \ {0}
    /\ Padding \in Nat
    /\ Sizes \subseteq Nat

VARIABLES
    size,      \* size of the file the sender has
    spc,       \* where the sender is
    sindex,    \* fframe->index of the sender
    pos,       \* bytes the sender has read
    sres,      \* what it returned
    stream,    \* on the way to the receiver
    replies,   \* on the way to the sender
    rpc,       \* where the receiver is
    frame,     \* header in the receiver's fframe
    got,       \* the bytes that came with it
    rsp,       \* the receiver's rsp
    file,      \* what it has written
    rres,      \* what it returned
    broken,    \* the connection is broken
    trouble    \* history: which of "short" (a recv returned a part of a frame),
               \* "cut" (a recv ended inside a header) and "lost" (a write that
               \* failed) have happened

senderVars == <<spc, sindex, pos, sres>>
receiverVars == <<rpc, frame, got, rsp, file, rres>>
vars == <<size, senderVars, stream, replies, receiverVars, broken, trouble>>

\* filesize, framecount and laseframesize never change and travel together:
\* "file" when they are those of the file, "zero" when they were never set,
\* "cut" when only some bytes of them were, "junk" when they are bytes of the
\* file, or of another part of a header, taken for them.
Header(i, s) == [index |-> i, sizes |-> s]
HeadLen == 2
HeadOf(i) == <<[kind |-> "head", at |-> i], [kind |-> "tail", at |-> i]>>
Bytes(from, to) == [i \in 1 .. to - from + 1 |-> [kind |-> "byte", at |-> from + i - 1]]
Pads(n) == [i \in 1 .. n |-> [kind |-> "byte", at |-> 0]]

LastSize == size % FrameSize
Count == size \div FrameSize + (IF LastSize = 0 THEN 0 ELSE 1)

\* framecount, of a header with these sizes: of a part of it, anything.
CountsOf(sizes) ==
    CASE sizes = "file" -> {Count}
      [] sizes = "zero" -> {0}
      [] OTHER -> 0 .. Count + 1

Init ==
    /\ size \in Sizes
    /\ spc = "read" /\ sindex = 0 /\ pos = 0 /\ sres = "none"
    /\ stream = <<>> /\ replies = <<>>
    /\ rpc = "recv" /\ frame = Header(0, "zero") /\ got = <<>>
    /\ rsp = Header(0, "zero") /\ file = <<>> /\ rres = "none"
    /\ broken = FALSE /\ trouble = {}

-------------------------------------------------------------------------------
(* sock_send_file *)

SenderEnds(res) == spc' = "done" /\ sres' = res

LastFrame == sindex + 1 = Count

\* readsize is FRAME_BUFF_SIZE, until the frame to read is the last one.
ReadSize == IF LastFrame THEN LastSize ELSE FrameSize

\* Of the last frame only the bytes it has are sent, of the others all of it.
Filled ==
    Bytes(pos + 1, pos + ReadSize) \o (IF LastFrame THEN <<>> ELSE Pads(Padding))

\* A frame is read and sent; to a peer that closed it may still be sent.
Send ==
    /\ spc = "read"
    /\ ReadSize > 0 /\ pos + ReadSize <= size
    /\ ~broken
    /\ stream' = IF rres # "none" THEN stream
                 ELSE stream \o HeadOf(sindex) \o Filled
    /\ pos' = pos + ReadSize
    /\ spc' = "reply"
    /\ UNCHANGED <<size, sindex, sres, replies, receiverVars, broken, trouble>>

\* To a peer that is gone send fails, or SIGPIPE ends the process.
SendFails ==
    /\ spc = "read"
    /\ ReadSize > 0 /\ pos + ReadSize <= size
    /\ broken \/ rres # "none"
    /\ \E res \in {"failed", "killed"} : SenderEnds(res)
    /\ UNCHANGED <<size, sindex, pos, stream, replies, receiverVars, broken, trouble>>

\* fread returns 0, because the file is at its end or readsize is 0.
SendEnd ==
    /\ spc = "read"
    /\ ReadSize = 0 \/ pos + ReadSize > size
    /\ SenderEnds("ok")
    /\ UNCHANGED <<size, sindex, pos, stream, replies, receiverVars, broken, trouble>>

Accepted(reply) == reply.header = Header(sindex, "file") /\ reply.code = "ok"

Acknowledge(accepted) ==
    /\ spc = "reply"
    /\ replies # <<>>
    /\ accepted
    /\ replies' = Tail(replies)
    /\ sindex' = sindex + 1
    /\ spc' = "read"
    /\ UNCHANGED <<size, pos, sres, stream, receiverVars, broken, trouble>>

\* rsp.code is not looked at.
AcknowledgeAny == Acknowledge(replies[1].header.sizes = "file")   \* mutant
Acknowledged == Acknowledge(Accepted(replies[1]))

Refused ==
    /\ spc = "reply"
    /\ replies # <<>>
    /\ ~Accepted(replies[1])
    /\ replies' = Tail(replies)
    /\ SenderEnds("failed")
    /\ UNCHANGED <<size, sindex, pos, stream, receiverVars, broken, trouble>>

\* recv fails, or returns 0 because the peer closed: rsp holds the reply
\* before, or what was on the stack, and does not pass.  A peer that closes
\* before it has read everything resets the connection.
Unanswered ==
    /\ spc = "reply"
    /\ \/ broken
       \/ rres # "none" /\ (replies = <<>> \/ stream # <<>>)
    /\ SenderEnds("failed")
    /\ UNCHANGED <<size, sindex, pos, stream, replies, receiverVars, broken, trouble>>

-------------------------------------------------------------------------------
(* sock_recv_file *)

ReceiverEnds(res) == rpc' = "done" /\ rres' = res

\* What fframe holds once chunk is put over it.  Of a header that is cut it
\* has the bytes that came, and of the others those it had.
Overwrite(chunk) ==
    \/ /\ chunk[1].kind # "head"
       /\ \E i \in 0 .. Count : frame' = Header(i, "junk")
    \/ /\ chunk[1].kind = "head" /\ Len(chunk) >= HeadLen
       /\ frame' = Header(chunk[1].at, "file")
    \/ /\ chunk[1].kind = "head" /\ Len(chunk) < HeadLen
       /\ \E i \in {frame.index, chunk[1].at} :
             \/ frame' = Header(i, "file")
             \/ frame.sizes # "file" /\ frame' = Header(i, "cut")

\* recv: at most a whole FILE_FRAME.  With less than a header datasize wraps.
RecvSome(n) ==
    LET chunk == SubSeq(stream, 1, n) IN
    /\ rpc = "recv" /\ ~broken
    /\ stream' = SubSeq(stream, n + 1, Len(stream))
    /\ rpc' = IF n < HeadLen THEN "less" ELSE "check"
    /\ Overwrite(chunk)
    /\ got' = SubSeq(chunk, HeadLen + 1, n)
    /\ trouble' = trouble \cup (IF n < Len(stream) THEN {"short"} ELSE {})
                           \cup (IF chunk[n].kind = "head" THEN {"cut"} ELSE {})
    /\ UNCHANGED <<size, senderVars, replies, rsp, file, rres, broken>>

Recv == \E n \in 1 .. Len(stream) : n <= HeadLen + FrameSize + Padding /\ RecvSome(n)

\* The peer has closed: recv returns 0, and fframe holds the frame before.
RecvClosedTo(next) ==
    /\ rpc = "recv" /\ ~broken
    /\ stream = <<>> /\ spc = "done"
    /\ got' = <<>>
    /\ rpc' = next
    /\ UNCHANGED <<size, senderVars, stream, replies, frame, rsp, file, rres, broken, trouble>>

RecvAgain == RecvClosedTo("recv")   \* mutant
RecvClosed == RecvClosedTo("less")

RecvFails ==
    /\ rpc = "recv" /\ broken
    /\ ReceiverEnds("failed")
    /\ UNCHANGED <<size, senderVars, stream, replies, frame, got, rsp, file, broken, trouble>>

\* The frame with index 0 sets what the others are compared with.
Expected == IF frame.index = 0 THEN [rsp EXCEPT !.sizes = frame.sizes] ELSE rsp

Reply(code) ==
    replies' = IF broken \/ spc = "done" THEN replies
               ELSE Append(replies, [header |-> Expected, code |-> code])

RefuseIf(wrong, code) ==
    /\ rpc \in {"check", "less"}
    /\ wrong
    /\ rsp' = Expected
    /\ Reply(code)
    /\ ReceiverEnds("failed")
    /\ UNCHANGED <<size, senderVars, stream, frame, got, file, broken, trouble>>

RefuseSize == RefuseIf(frame.sizes # Expected.sizes, "size")
RefuseIndex ==
    RefuseIf(frame.sizes = Expected.sizes /\ frame.index # Expected.index, "index")

\* The bytes are written; that a write failed is not noticed.  datasize is
\* negative, and taken as unsigned, when recv returned less than a header: the
\* write fails, or puts into the file what is not of it.
WrittenAs(bytes) ==
    \/ /\ rpc = "check"
       /\ file' = file \o bytes
       /\ UNCHANGED trouble
    \/ /\ rpc = "check" /\ got # <<>>
       /\ trouble' = trouble \cup {"lost"}
       /\ UNCHANGED file
    \/ /\ rpc = "less"
       /\ file' \in {file, file \o Pads(1)}
       /\ UNCHANGED trouble

WrittenShort == WrittenAs(SubSeq(got, 1, Len(got) - 1))   \* mutant
Written == WrittenAs(got)

AcceptCounted(counted) ==
    /\ frame = Expected
    /\ Written
    /\ Reply("ok")
    /\ rsp' = [Expected EXCEPT !.index = @ + 1]
    /\ \E framecount \in CountsOf(frame.sizes) :
         IF counted = framecount
           THEN ReceiverEnds("ok")
           ELSE rpc' = "recv" /\ UNCHANGED rres
    /\ UNCHANGED <<size, senderVars, stream, frame, got, broken>>

AcceptEarly == AcceptCounted(Expected.index + 2)   \* mutant
Accept == AcceptCounted(Expected.index + 1)

\* The reply cannot be sent.
AcceptFails ==
    /\ frame = Expected
    /\ Written
    /\ broken \/ spc = "done"
    /\ rsp' = Expected
    /\ ReceiverEnds("failed")
    /\ UNCHANGED <<size, senderVars, stream, replies, frame, got, broken>>

\* SIGPIPE ends the process in any of these sends, and what stdio still holds
\* of the file is lost; or the write that took datasize for a size does.
ReceiverKilled ==
    /\ \/ rpc \in {"check", "less"} /\ (broken \/ spc = "done")
       \/ rpc = "less" /\ frame = Expected
    /\ \E n \in 0 .. Len(file) : file' = SubSeq(file, 1, n)
    /\ ReceiverEnds("killed")
    /\ UNCHANGED <<size, senderVars, stream, replies, frame, got, rsp, broken, trouble>>

-------------------------------------------------------------------------------
(* The connection *)

Break ==
    /\ ~broken
    /\ broken' = TRUE
    /\ stream' = <<>> /\ replies' = <<>>
    /\ UNCHANGED <<size, senderVars, receiverVars, trouble>>

-------------------------------------------------------------------------------
SenderStep ==
    Send \/ SendFails \/ SendEnd \/ Acknowledged \/ Refused \/ Unanswered

ReceiverStep ==
    \/ Recv \/ RecvClosed \/ RecvFails
    \/ RefuseSize \/ RefuseIndex \/ Accept \/ AcceptFails \/ ReceiverKilled

\* Both have returned.
Returned == sres # "none" /\ rres # "none" /\ UNCHANGED vars

Next == SenderStep \/ ReceiverStep \/ Break \/ Returned

\* Both ends keep running and what is sent arrives, or the connection breaks
\* and both ends learn of it.
Fairness == WF_vars(SenderStep) /\ WF_vars(ReceiverStep)

Spec == Init /\ [][Next]_vars
FairSpec == Spec /\ Fairness

-------------------------------------------------------------------------------
(* Properties *)

Sizings == {"file", "zero", "cut", "junk"}
Atoms == [kind : {"head", "tail", "byte"}, at : 0 .. size]
Headers == [index : 0 .. Count + 1, sizes : Sizings]
Results == {"none", "ok", "failed", "killed"}

TypeOK ==
    /\ size \in Sizes
    /\ spc \in {"read", "reply", "done"}
    /\ sindex \in 0 .. Count /\ pos \in 0 .. size
    /\ sres \in Results
    /\ stream \in Seq(Atoms)
    /\ replies \in Seq([header : Headers, code : {"ok", "size", "index"}])
    /\ rpc \in {"recv", "check", "less", "done"}
    /\ frame \in Headers /\ got \in Seq(Atoms) /\ rsp \in Headers
    /\ file \in Seq(Atoms)
    /\ rres \in Results
    /\ broken \in BOOLEAN /\ trouble \subseteq {"short", "cut", "lost"}

\* The first n bytes of what the sender sends behind its headers: the file,
\* and after every full frame, where long has 64 bits, Padding bytes that are
\* not of it.
Stride == FrameSize + Padding
ByteAt(p) == LET q == (p - 1) \div Stride
                 r == (p - 1) % Stride
             IN  IF r < FrameSize THEN q * FrameSize + r + 1 ELSE 0
AsSent(n) == [i \in 1 .. n |-> [kind |-> "byte", at |-> ByteAt(i)]]

\* What sock_recv_file has written is the beginning of what sock_send_file
\* sends, in order and without gaps, wherever TCP cuts the frames, if no write
\* failed.  A header that is cut, or a sender that has nothing it sends and
\* closes, makes one write of other bytes, and it is the last.
IsBeginning ==
    "lost" \notin trouble =>
        \/ file = AsSent(Len(file))
        \/ /\ "cut" \in trouble \/ size \in {0, FrameSize}
           /\ \E n \in 0 .. Len(file) - 1 : file = AsSent(n) \o Pads(1)

\* It is so, and is all of it when the receiver returns 0 and every recv
\* returned a whole frame.
ReceivedIsWhole ==
    /\ IsBeginning
    /\ rres = "ok" /\ trouble = {} => file = AsSent(size + (Count - 1) * Padding)

\* A sender that returns 0 has a receiver that returned 0, if the last frame
\* of the file is not a full one.
BothSucceed == sres = "ok" /\ LastSize # 0 => rres = "ok"

\* Of the frames the sender was told are written, all but the last are, if no
\* write failed and the receiver was not killed: a frame of which a recv
\* returned only a part is acknowledged, and then the next one is not.
AcknowledgedIsWritten ==
    "lost" \notin trouble /\ rres # "killed" =>
        \A i \in 1 .. (sindex - 1) * Stride :
            i <= Len(file) /\ file[i] = AsSent(i)[i]

\* Whatever is cut, refused or broken, neither end waits for ever for the other.
BothReturn == <>(sres # "none" /\ rres # "none")

\* sock_send_file: "if ret is 0, the file has been read to its end", and
\* "sending the file is finished".
SentIsWhole == sres = "ok" => pos = size
===============================================================================
