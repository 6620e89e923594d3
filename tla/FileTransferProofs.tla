-------------------------- MODULE FileTransferProofs --------------------------
(***************************************************************************)
(* Theorems about FileTransfer, for any size of frames and padding and for *)
(* files of any size.                                                      *)
(***************************************************************************)
EXTENDS FileTransfer, TLAPS, SequenceTheorems

USE FileAssumption

Atom == [kind : {"head", "tail", "byte"}, at : Nat]
AnyHeader == [index : Nat, sizes : Sizings]
AnyReply == [header : AnyHeader, code : {"ok", "size", "index"}]

-------------------------------------------------------------------------------
(* Arithmetic of the frames *)

\* The frames before the last one are full.
LEMMA FrameArithmetic ==
    ASSUME size \in Nat
    PROVE  /\ LastSize \in 0 .. FrameSize - 1 /\ Count \in Nat
           /\ LastSize # 0 => Count # 0 /\ size = (Count - 1) * FrameSize + LastSize
           /\ LastSize = 0 => size = Count * FrameSize
<1>1. /\ LastSize \in 0 .. FrameSize - 1 /\ size \div FrameSize \in Nat
      /\ size = FrameSize * (size \div FrameSize) + LastSize
  BY SMT DEF LastSize
<1> DEFINE q == size \div FrameSize
<1>2. q \in Nat /\ Count = q + (IF LastSize = 0 THEN 0 ELSE 1)
  BY <1>1 DEF Count
<1> HIDE DEF q
<1>3. size = FrameSize * q + LastSize
  BY <1>1 DEF q
<1> QED  BY <1>1, <1>2, <1>3, SMT

LEMMA MoreIsMore ==
    ASSUME NEW j \in Nat, NEW k \in Nat, j <= k
    PROVE  /\ j * FrameSize \in Nat /\ j * FrameSize <= k * FrameSize
           /\ (j + 1) * FrameSize = j * FrameSize + FrameSize
BY SMT

LEMMA BytesAreASeq ==
    ASSUME NEW a \in Nat \ {0}, NEW b \in Nat, b >= a
    PROVE  Bytes(a, b) \in Seq(Atom) /\ Len(Bytes(a, b)) = b - a + 1
<1>1. b - a + 1 \in Nat  BY SMT
<1>2. Bytes(a, b) \in [1 .. b - a + 1 -> Atom]  BY SMT DEF Bytes, Atom
<1> QED  BY <1>1, <1>2, SMT

LEMMA PadsAreASeq ==
    ASSUME NEW a \in Nat
    PROVE  Pads(a) \in Seq(Atom) /\ Len(Pads(a)) = a
<1>1. Pads(a) \in [1 .. a -> Atom]  BY SMT DEF Pads, Atom
<1> QED  BY <1>1, SMT

-------------------------------------------------------------------------------
(* Types *)

SenderTypes ==
    /\ size \in Nat
    /\ spc \in {"read", "reply", "done"} /\ sres \in Results
    /\ sindex \in Nat /\ pos \in Nat

ReceiverTypes ==
    /\ rpc \in {"recv", "check", "less", "done"} /\ rres \in Results
    /\ frame \in AnyHeader /\ got \in Seq(Atom) /\ rsp \in AnyHeader
    /\ file \in Seq(Atom)

LineTypes == stream \in Seq(Atom) /\ replies \in Seq(AnyReply)

\* The receiver is done when it has a result.
TypeInv ==
    SenderTypes /\ ReceiverTypes /\ LineTypes /\ (rpc = "done" <=> rres # "none")

LEMMA InitTypes == Init => TypeInv
<1> SUFFICES ASSUME Init PROVE TypeInv
  OBVIOUS
<1>1. <<>> \in Seq(Atom) /\ <<>> \in Seq(AnyReply)  BY EmptySeq
<1>2. Header(0, "zero") \in AnyHeader  BY DEF Header, AnyHeader, Sizings
<1> QED
  BY <1>1, <1>2 DEF Init, TypeInv, SenderTypes, ReceiverTypes, LineTypes, Results

\* What a step of the sender puts on the line.
LEMMA FilledIsASeq ==
    ASSUME TypeInv, ReadSize > 0, ReadSize \in Nat
    PROVE  HeadOf(sindex) \in Seq(Atom) /\ Filled \in Seq(Atom)
<1> DEFINE b == Bytes(pos + 1, pos + ReadSize)
           p == IF LastFrame THEN <<>> ELSE Pads(Padding)
<1>1. b \in Seq(Atom)
  <2>1. pos + 1 \in Nat \ {0} /\ pos + ReadSize \in Nat /\ pos + ReadSize >= pos + 1
    BY SMT DEF TypeInv, SenderTypes
  <2> QED  BY <2>1, BytesAreASeq
<1>2. p \in Seq(Atom)
  BY PadsAreASeq, EmptySeq
<1>3. Filled = b \o p  BY DEF Filled
<1> HIDE DEF b, p
<1>4. Filled \in Seq(Atom)  BY <1>1, <1>2, <1>3, ConcatProperties
<1>5. HeadOf(sindex) \in Seq(Atom)
  <2> DEFINE h == [kind |-> "head", at |-> sindex]
             t == [kind |-> "tail", at |-> sindex]
  <2>1. h \in Atom /\ t \in Atom  BY DEF Atom, TypeInv, SenderTypes
  <2>2. HeadOf(sindex) = <<h, t>>  BY DEF HeadOf
  <2> HIDE DEF h, t
  <2> QED  BY <2>1, <2>2, SMT
<1> QED  BY <1>4, <1>5

\* A part of a sequence.
LEMMA PartIsASeq ==
    ASSUME NEW s \in Seq(Atom), NEW m \in Nat \ {0}, NEW n \in Nat, n <= Len(s)
    PROVE  /\ SubSeq(s, m, n) \in Seq(Atom)
           /\ Len(SubSeq(s, m, n)) = IF m <= n THEN n - m + 1 ELSE 0
           /\ \A i \in 1 .. n - m + 1 : SubSeq(s, m, n)[i] = s[m + i - 1]
<1>1. m \in Int /\ n \in Int /\ \A i \in m .. n : i \in 1 .. Len(s)
  BY LenProperties, SMT
<1>2. \A i \in m .. n : s[i] \in Atom  BY <1>1, ElementOfSeq
<1> QED  BY <1>1, <1>2, SubSeqProperties

LEMMA ReadSizeType == TypeInv => ReadSize \in Nat
BY FrameArithmetic, SMT DEF ReadSize, LastFrame, TypeInv, SenderTypes

\* What a reply is.
LEMMA ExpectedType == TypeInv => Expected \in AnyHeader
<1> SUFFICES ASSUME TypeInv PROVE Expected \in AnyHeader
  OBVIOUS
<1> QED  BY DEF TypeInv, ReceiverTypes, Expected, AnyHeader

LEMMA ReplyKeeps ==
    ASSUME TypeInv, NEW code \in {"ok", "size", "index"}, Reply(code)
    PROVE  /\ replies' \in Seq(AnyReply)
           /\ \/ replies' = replies
              \/ replies' = Append(replies, [header |-> Expected, code |-> code])
<1>1. [header |-> Expected, code |-> code] \in AnyReply
  BY ExpectedType DEF AnyReply
<1>2. replies \in Seq(AnyReply)  BY DEF TypeInv, LineTypes
<1> QED  BY <1>1, <1>2, AppendProperties DEF Reply

LEMMA WrittenKeeps ==
    ASSUME TypeInv, Written
    PROVE  /\ file' \in Seq(Atom) /\ rpc \in {"check", "less"}
           /\ trouble' = trouble \/ trouble' = trouble \cup {"lost"}
<1>1. file \in Seq(Atom) /\ got \in Seq(Atom) /\ Pads(1) \in Seq(Atom)
  BY PadsAreASeq DEF TypeInv, ReceiverTypes
<1>2. file \o got \in Seq(Atom) /\ file \o Pads(1) \in Seq(Atom)
  BY <1>1, ConcatProperties
<1>3. \/ rpc = "check" /\ file' = file \o got /\ trouble' = trouble
      \/ rpc = "check" /\ trouble' = trouble \cup {"lost"} /\ file' = file
      \/ rpc = "less" /\ file' \in {file, file \o Pads(1)} /\ trouble' = trouble
  BY DEF Written, WrittenAs
<1> QED  BY <1>1, <1>2, <1>3

LEMMA SenderKeepsTypes ==
    ASSUME TypeInv, SenderStep
    PROVE  TypeInv'
<1> USE DEF TypeInv, SenderTypes, ReceiverTypes, LineTypes, senderVars, receiverVars, SenderEnds
<1>1. CASE Send
  <2>1. stream' \in Seq(Atom)
    <3>1. stream \in Seq(Atom)  OBVIOUS
    <3>2. ReadSize > 0 /\ ReadSize \in Nat  BY <1>1, ReadSizeType DEF Send
    <3>3. HeadOf(sindex) \in Seq(Atom) /\ Filled \in Seq(Atom)
      BY <3>2, FilledIsASeq
    <3>4. stream \o HeadOf(sindex) \in Seq(Atom)  BY <3>1, <3>3, ConcatProperties
    <3>5. (stream \o HeadOf(sindex)) \o Filled \in Seq(Atom)
      BY <3>3, <3>4, ConcatProperties
    <3> QED  BY <1>1, <3>1, <3>5 DEF Send
  <2>2. pos' \in Nat  BY <1>1, ReadSizeType, SMT DEF Send
  <2> QED  BY <1>1, <2>1, <2>2 DEF Send
<1>2. CASE SendFails \/ SendEnd \/ Unanswered
  BY <1>2 DEF SendFails, SendEnd, Unanswered, Results
<1>3. CASE Acknowledged \/ Refused
  <2>1. replies # <<>> /\ replies' = Tail(replies) /\ replies \in Seq(AnyReply)
    BY <1>3 DEF Acknowledged, Acknowledge, Refused
  <2>2. replies' \in Seq(AnyReply)  BY <2>1, HeadTailProperties
  <2>3. sindex' \in Nat  BY <1>3, SMT DEF Acknowledged, Acknowledge, Refused
  <2> QED  BY <1>3, <2>2, <2>3 DEF Acknowledged, Acknowledge, Refused, Results
<1> QED  BY <1>1, <1>2, <1>3 DEF SenderStep

LEMMA RecvKeepsTypes ==
    ASSUME TypeInv, Recv
    PROVE  TypeInv'
<1> USE DEF TypeInv, SenderTypes, ReceiverTypes, LineTypes, senderVars
<1>1. PICK n \in 1 .. Len(stream) : RecvSome(n)  BY DEF Recv
<1> DEFINE chunk == SubSeq(stream, 1, n)
<1>2. /\ rpc = "recv" /\ rpc' \in {"check", "less"}
      /\ stream' = SubSeq(stream, n + 1, Len(stream))
      /\ Overwrite(chunk) /\ got' = SubSeq(chunk, 3, n)
      /\ UNCHANGED <<size, senderVars, replies, rsp, file, rres, broken>>
  <2>1. HeadLen + 1 = 3  BY SMT DEF HeadLen
  <2> QED  BY <1>1, <2>1 DEF RecvSome
<1>3. /\ Len(stream) \in Nat /\ n \in Nat /\ 1 <= n /\ n <= Len(stream)
      /\ n + 1 \in Nat \ {0} /\ n - 1 + 1 = n /\ 1 \in 1 .. n /\ 3 \in Nat \ {0}
  BY LenProperties, SMT
<1>4. stream' \in Seq(Atom)  BY <1>2, <1>3, PartIsASeq
<1>5. chunk \in Seq(Atom) /\ Len(chunk) = n
  BY <1>3, PartIsASeq
<1>6. chunk[1].at \in Nat
  <2>1. chunk[1] \in Atom  BY <1>3, <1>5, ElementOfSeq
  <2> QED  BY <2>1 DEF Atom
<1> HIDE DEF chunk
<1>7. got' \in Seq(Atom)
  <2>1. n <= Len(chunk)  BY <1>3, <1>5
  <2> QED  BY <1>2, <1>3, <1>5, <2>1, PartIsASeq
<1>8. frame' \in AnyHeader
  <2>1. frame.index \in Nat /\ Count \in Nat  BY FrameArithmetic DEF AnyHeader
  <2>2. \E i \in Nat, z \in Sizings : frame' = Header(i, z)
    <3>1. CASE \E i \in 0 .. Count : frame' = Header(i, "junk")
      <4>1. PICK i \in 0 .. Count : frame' = Header(i, "junk")
        BY <3>1
      <4>2. i \in Nat  BY <2>1, <4>1, SMT
      <4> QED  BY <4>1, <4>2 DEF Sizings
    <3>2. CASE frame' = Header(chunk[1].at, "file")
      BY <1>6, <3>2 DEF Sizings
    <3>3. CASE \E i \in {frame.index, chunk[1].at} :
                 frame' = Header(i, "file") \/ frame' = Header(i, "cut")
      BY <1>6, <2>1, <3>3 DEF Sizings
    <3> QED  BY <1>2, <3>1, <3>2, <3>3 DEF Overwrite
  <2> QED  BY <2>2 DEF Header, AnyHeader
<1> QED  BY <1>2, <1>4, <1>7, <1>8

LEMMA ReceiverKeepsTypes ==
    ASSUME TypeInv, ReceiverStep \/ Break
    PROVE  TypeInv'
<1> USE DEF TypeInv, SenderTypes, ReceiverTypes, LineTypes, senderVars, receiverVars, ReceiverEnds,
            Results
<1>1. CASE Recv
  BY <1>1, RecvKeepsTypes
<1>2. CASE RecvClosed \/ RecvFails
  <2>1. <<>> \in Seq(Atom)  BY EmptySeq
  <2> QED  BY <1>2, <2>1 DEF RecvClosed, RecvClosedTo, RecvFails
<1>3. CASE RefuseSize \/ RefuseIndex
  <2>1. \E code \in {"size", "index"} :
          /\ rsp' = Expected /\ Reply(code) /\ rpc' = "done" /\ rres' = "failed"
          /\ UNCHANGED <<size, senderVars, stream, frame, got, file>>
    BY <1>3 DEF RefuseSize, RefuseIndex, RefuseIf
  <2>2. replies' \in Seq(AnyReply)  BY <2>1, ReplyKeeps
  <2> QED  BY <2>1, <2>2, ExpectedType
<1>4. CASE Accept
  <2>1. /\ Written /\ Reply("ok") /\ rsp' = [Expected EXCEPT !.index = @ + 1]
        /\ \/ rpc' = "done" /\ rres' = "ok"
           \/ rpc' = "recv" /\ rres' = rres
        /\ UNCHANGED <<size, senderVars, stream, frame, got>>
    BY <1>4 DEF Accept, AcceptCounted
  <2>2. replies' \in Seq(AnyReply)  BY <2>1, ReplyKeeps
  <2>3. file' \in Seq(Atom) /\ rpc \in {"check", "less"}  BY <2>1, WrittenKeeps
  <2>4. rsp' \in AnyHeader
    <3>1. Expected \in AnyHeader  BY ExpectedType
    <3>2. Expected.index + 1 \in Nat  BY <3>1, SMT DEF AnyHeader
    <3>3. rsp' = [Expected EXCEPT !.index = Expected.index + 1]  BY <2>1
    <3> HIDE DEF Expected
    <3> QED  BY <3>1, <3>2, <3>3 DEF AnyHeader
  <2> QED  BY <2>1, <2>2, <2>3, <2>4
<1>5. CASE AcceptFails
  <2>1. file' \in Seq(Atom)  BY <1>5, WrittenKeeps DEF AcceptFails
  <2> QED  BY <1>5, <2>1, ExpectedType DEF AcceptFails
<1>6. CASE ReceiverKilled
  <2>1. PICK n \in 0 .. Len(file) : file' = SubSeq(file, 1, n)
    BY <1>6 DEF ReceiverKilled
  <2>2. n \in Nat /\ n <= Len(file) /\ 1 \in Nat \ {0}  BY LenProperties, SMT
  <2>3. file' \in Seq(Atom)  BY <2>1, <2>2, PartIsASeq
  <2> QED  BY <1>6, <2>3 DEF ReceiverKilled
<1>7. CASE Break
  <2>1. <<>> \in Seq(Atom) /\ <<>> \in Seq(AnyReply)  BY EmptySeq
  <2> QED  BY <1>7, <2>1 DEF Break
<1> QED  BY <1>1, <1>2, <1>3, <1>4, <1>5, <1>6, <1>7 DEF ReceiverStep

LEMMA StepKeepsTypes ==
    ASSUME TypeInv, Next
    PROVE  TypeInv'
BY SenderKeepsTypes, ReceiverKeepsTypes
DEF Next, Returned, vars, senderVars, receiverVars, TypeInv, SenderTypes, ReceiverTypes,
    LineTypes

-------------------------------------------------------------------------------
(* How much has been read *)

\* Bytes of the first k frames.
Sum(k) == IF k = Count THEN size ELSE k * FrameSize

PosInv ==
    /\ sindex <= Count
    /\ spc = "read" => pos = Sum(sindex)
    /\ spc = "reply" => sindex < Count /\ pos = Sum(sindex + 1) /\ ReadSize > 0

LEMMA ReadMoves ==
    ASSUME TypeInv, NEW k \in Nat, k < Count, k = sindex
    PROVE  Sum(k) + ReadSize = Sum(k + 1) \/ (k + 1 = Count /\ LastSize = 0)
<1>1. size \in Nat  BY DEF TypeInv, SenderTypes
<1>2. k * FrameSize \in Nat /\ (k + 1) * FrameSize = k * FrameSize + FrameSize
  BY MoreIsMore
<1>3. Count \in Nat /\ k # Count  BY <1>1, FrameArithmetic, SMT
<1>4. CASE k + 1 = Count
  <2>1. LastSize # 0 => size = k * FrameSize + LastSize
    <3>1. Count - 1 = k  BY <1>3, <1>4, SMT
    <3> QED  BY <1>1, <3>1, FrameArithmetic
  <2> QED  BY <1>3, <1>4, <2>1 DEF Sum, ReadSize, LastFrame
<1>5. CASE k + 1 # Count
  BY <1>2, <1>3, <1>5 DEF Sum, ReadSize, LastFrame
<1> QED  BY <1>4, <1>5

LEMMA SumBounded ==
    ASSUME size \in Nat, NEW k \in Nat, k <= Count
    PROVE  Sum(k) \in Nat /\ Sum(k) <= size
<1>1. k * FrameSize \in Nat  BY MoreIsMore
<1>2. CASE k = Count
  BY <1>2, SMT DEF Sum
<1>3. CASE k < Count
  <2>1. Count \in Nat /\ LastSize \in Nat  BY FrameArithmetic, SMT
  <2>2. CASE LastSize = 0
    <3>1. size = Count * FrameSize  BY <2>2, FrameArithmetic
    <3>2. k * FrameSize <= Count * FrameSize  BY <1>3, <2>1, MoreIsMore, SMT
    <3> QED  BY <1>1, <1>3, <3>1, <3>2 DEF Sum
  <2>3. CASE LastSize # 0
    <3>1. size = (Count - 1) * FrameSize + LastSize  BY <2>3, FrameArithmetic
    <3>2. Count - 1 \in Nat /\ k <= Count - 1  BY <1>3, <2>1, SMT
    <3>3. k * FrameSize <= (Count - 1) * FrameSize /\ (Count - 1) * FrameSize \in Nat
      BY <3>2, MoreIsMore
    <3>4. k * FrameSize <= size  BY <1>1, <2>1, <3>1, <3>3, SMT
    <3>5. k # Count  BY <1>3, <2>1, SMT
    <3> QED  BY <1>1, <3>4, <3>5 DEF Sum
  <2> QED  BY <2>2, <2>3
<1>4. Count \in Nat  BY FrameArithmetic
<1> QED  BY <1>2, <1>3, <1>4, SMT

LEMMA SizeStays ==
    ASSUME Next
    PROVE  UNCHANGED <<size, Count, LastSize>>
<1>1. size' = size
  BY DEF Next, SenderStep, Send, SendFails, SendEnd, Acknowledged, Acknowledge, Refused,
         Unanswered, ReceiverStep, Recv, RecvSome, RecvClosed, RecvClosedTo, RecvFails,
         RefuseSize, RefuseIndex, RefuseIf, Accept, AcceptCounted, AcceptFails,
         ReceiverKilled, Break, Returned, vars
<1> QED  BY <1>1 DEF Count, LastSize

\* What a step of the receiver or the connection leaves alone.
LEMMA SenderStays ==
    ASSUME ReceiverStep \/ Break
    PROVE  UNCHANGED <<spc, sindex, pos, sres>>
BY DEF ReceiverStep, Recv, RecvSome, RecvClosed, RecvClosedTo, RecvFails, RefuseSize,
       RefuseIndex, RefuseIf, Accept, AcceptCounted, AcceptFails, ReceiverKilled, Break,
       senderVars

LEMMA StepKeepsPos ==
    ASSUME TypeInv, PosInv, Next
    PROVE  PosInv'
<1>1. /\ UNCHANGED <<size, Count>> /\ size \in Nat /\ Count \in Nat /\ sindex \in Nat
      /\ sindex' = sindex => ReadSize' = ReadSize
  BY SizeStays, FrameArithmetic DEF TypeInv, SenderTypes, ReadSize, LastFrame
<1>2. CASE UNCHANGED <<spc, sindex, pos>>
  BY <1>1, <1>2 DEF PosInv, Sum
<1>3. CASE Send
  <2>1. /\ spc = "read" /\ ReadSize > 0 /\ pos + ReadSize <= size
        /\ pos' = pos + ReadSize /\ spc' = "reply" /\ sindex' = sindex
    BY <1>3 DEF Send
  <2>2. pos = Sum(sindex) /\ sindex <= Count  BY <2>1 DEF PosInv
  <2>3. sindex # Count
    <3>1. SUFFICES ASSUME sindex = Count PROVE FALSE
      OBVIOUS
    <3>2. ReadSize = FrameSize /\ pos = size
      <4>1. sindex + 1 # Count  BY <1>1, <3>1, SMT
      <4> QED  BY <2>2, <3>1, <4>1 DEF ReadSize, LastFrame, Sum
    <3> QED  BY <1>1, <2>1, <3>2, SMT
  <2>4. sindex < Count  BY <1>1, <2>2, <2>3, SMT
  <2>5. sindex + 1 = Count => ReadSize = LastSize  BY DEF ReadSize, LastFrame
  <2>6. LastSize = 0 => sindex + 1 # Count  BY <2>1, <2>5, SMT
  <2>7. Sum(sindex) + ReadSize = Sum(sindex + 1)
    BY <1>1, <2>4, <2>6, ReadMoves
  <2> QED  BY <1>1, <2>1, <2>2, <2>4, <2>7 DEF PosInv, Sum
<1>4. CASE Acknowledged
  <2>1. spc = "reply" /\ spc' = "read" /\ sindex' = sindex + 1 /\ pos' = pos
    BY <1>4 DEF Acknowledged, Acknowledge
  <2>2. sindex < Count /\ pos = Sum(sindex + 1)  BY <2>1 DEF PosInv
  <2>3. sindex + 1 <= Count  BY <1>1, <2>2, SMT
  <2> QED  BY <1>1, <2>1, <2>2, <2>3 DEF PosInv, Sum
<1>5. CASE SendFails \/ SendEnd \/ Refused \/ Unanswered
  <2>1. spc' = "done" /\ sindex' = sindex
    BY <1>5 DEF SendFails, SendEnd, Refused, Unanswered, SenderEnds
  <2> QED  BY <1>1, <2>1 DEF PosInv
<1> QED  BY <1>2, <1>3, <1>4, <1>5, SenderStays DEF Next, SenderStep, Returned, vars, senderVars

-------------------------------------------------------------------------------
(* What the sender has been told *)

\* A reply on its way says that the first n frames are written.
Told(n) ==
    \E k \in DOMAIN replies :
        replies[k].code = "ok" /\ replies[k].header.sizes = "file"
        /\ replies[k].header.index + 1 = n

LEMMA TailTells ==
    ASSUME TypeInv, replies # <<>>, replies' = Tail(replies), NEW n, Told(n)'
    PROVE  Told(n)
<1>1. /\ DOMAIN replies = 1 .. Len(replies) /\ Len(replies) \in Nat
      /\ DOMAIN Tail(replies) = 1 .. Len(replies) - 1
      /\ \A k \in DOMAIN Tail(replies) : Tail(replies)[k] = replies[k + 1]
  <2>1. replies \in Seq(AnyReply)  BY DEF TypeInv, LineTypes
  <2>2. /\ Tail(replies) \in Seq(AnyReply) /\ Len(Tail(replies)) = Len(replies) - 1
        /\ \A k \in 1 .. Len(Tail(replies)) : Tail(replies)[k] = replies[k + 1]
    BY <2>1, HeadTailProperties
  <2> QED  BY <2>1, <2>2, LenProperties
<1>2. PICK k \in DOMAIN Tail(replies) :
        /\ Tail(replies)[k].code = "ok" /\ Tail(replies)[k].header.sizes = "file"
        /\ Tail(replies)[k].header.index + 1 = n
  BY DEF Told
<1>3. k + 1 \in DOMAIN replies  BY <1>1, SMT
<1> QED  BY <1>1, <1>2, <1>3 DEF Told

LEMMA ReplyTells ==
    ASSUME TypeInv, NEW code \in {"ok", "size", "index"}, Reply(code), NEW n, Told(n)'
    PROVE  \/ Told(n)
           \/ /\ code = "ok" /\ Expected.sizes = "file" /\ Expected.index + 1 = n
              /\ spc # "done"
<1> DEFINE e == [header |-> Expected, code |-> code]
<1>1. CASE replies' = replies
  BY <1>1 DEF Told
<1>2. CASE replies' = Append(replies, e) /\ spc # "done"
  <2>1. replies \in Seq(AnyReply) /\ e \in AnyReply
    BY ExpectedType DEF TypeInv, LineTypes, AnyReply
  <2> HIDE DEF e
  <2>2. /\ replies' \in Seq(AnyReply) /\ Len(replies') = Len(replies) + 1
        /\ \A k \in 1 .. Len(replies) : replies'[k] = replies[k]
        /\ replies'[Len(replies) + 1] = e
    BY <1>2, <2>1, AppendProperties
  <2>3. /\ Len(replies) \in Nat /\ DOMAIN replies = 1 .. Len(replies)
        /\ DOMAIN replies' = 1 .. Len(replies) + 1
    BY <2>1, <2>2, LenProperties
  <2>4. PICK k \in DOMAIN replies' :
          /\ replies'[k].code = "ok" /\ replies'[k].header.sizes = "file"
          /\ replies'[k].header.index + 1 = n
    BY DEF Told
  <2>5. k \in 1 .. Len(replies) \/ k = Len(replies) + 1  BY <2>3, SMT
  <2>6. e.code = code /\ e.header = Expected  BY DEF e
  <2> QED  BY <1>2, <2>2, <2>3, <2>4, <2>5, <2>6 DEF Told
<1> QED  BY <1>1, <1>2 DEF Reply

\* The reply with which the sender goes on says so.
LEMMA AcceptedTells ==
    ASSUME TypeInv, Acknowledged
    PROVE  Told(sindex + 1)
<1>1. replies # <<>> /\ replies \in Seq(AnyReply)
  BY DEF Acknowledged, Acknowledge, TypeInv, LineTypes
<1>2. Len(replies) \in Nat \ {0} /\ DOMAIN replies = 1 .. Len(replies)
  BY <1>1, EmptySeq, LenProperties
<1>3. 1 \in DOMAIN replies  BY <1>2, SMT
<1>4. /\ replies[1].code = "ok" /\ replies[1].header.sizes = "file"
      /\ replies[1].header.index = sindex
  BY DEF Acknowledged, Acknowledge, Accepted, Header
<1> QED  BY <1>3, <1>4 DEF Told

\* Told of the steps.
LEMMA StepTells ==
    ASSUME TypeInv, Next, NEW n, Told(n)'
    PROVE  \/ Told(n)
           \/ Accept /\ spc # "done" /\ Expected.sizes = "file" /\ Expected.index + 1 = n
<1>1. CASE replies' = replies
  BY <1>1 DEF Told
<1>2. CASE replies # <<>> /\ replies' = Tail(replies)
  BY <1>2, TailTells
<1>3. CASE replies' = <<>>
  <2>1. DOMAIN replies' = {}  BY <1>3
  <2> QED  BY <2>1 DEF Told
<1>4. CASE RefuseSize \/ RefuseIndex
  <2>1. Reply("size") \/ Reply("index")  BY <1>4 DEF RefuseSize, RefuseIndex, RefuseIf
  <2> QED  BY <2>1, ReplyTells
<1>5. CASE Accept
  <2>1. Reply("ok")  BY <1>5 DEF Accept, AcceptCounted
  <2> QED  BY <1>5, <2>1, ReplyTells
<1> QED
  BY <1>1, <1>2, <1>3, <1>4, <1>5
  DEF Next, SenderStep, Send, SendFails, SendEnd, Acknowledged, Acknowledge, Refused,
      Unanswered, ReceiverStep, Recv, RecvSome, RecvClosed, RecvClosedTo, RecvFails,
      AcceptFails, ReceiverKilled, Break, Returned, vars

-------------------------------------------------------------------------------
(* Both succeed *)

SuccessInv ==
    /\ TypeInv /\ PosInv
    /\ Count > 0 /\ Told(Count) => rres = "ok"
    /\ Count > 0 /\ sindex = Count => rres = "ok"
    /\ BothSucceed

LEMMA OkStays ==
    ASSUME TypeInv, Next, rres = "ok"
    PROVE  rres' = "ok"
BY DEF TypeInv, ReceiverTypes, Next, SenderStep, Send, SendFails, SendEnd, Acknowledged,
       Acknowledge, Refused, Unanswered, ReceiverStep, Recv, RecvSome, RecvClosed,
       RecvClosedTo, RecvFails, RefuseSize, RefuseIndex, RefuseIf, Accept, AcceptCounted,
       Written, WrittenAs, AcceptFails, ReceiverKilled, Break, Returned, vars, receiverVars

\* The sender ends well, with a last frame that is not full, only when it has
\* sent it.
LEMMA EndIsEnd ==
    ASSUME TypeInv, PosInv, SendEnd, LastSize # 0
    PROVE  Count > 0 /\ sindex = Count
<1>1. /\ size \in Nat /\ sindex \in Nat /\ sindex <= Count /\ pos = Sum(sindex)
      /\ ReadSize = 0 \/ pos + ReadSize > size
  BY DEF TypeInv, SenderTypes, PosInv, SendEnd
<1>2. /\ Count \in Nat \ {0} /\ LastSize \in Nat \ {0} /\ ReadSize \in Nat \ {0}
  <2>1. Count \in Nat \ {0} /\ LastSize \in Nat \ {0}  BY <1>1, FrameArithmetic, SMT
  <2> QED  BY <2>1 DEF ReadSize, LastFrame
<1>3. SUFFICES ASSUME sindex < Count PROVE FALSE
  BY <1>1, <1>2, SMT
<1>4. pos + ReadSize = Sum(sindex + 1)  BY <1>1, <1>3, ReadMoves
<1>5. sindex + 1 \in Nat /\ sindex + 1 <= Count  BY <1>1, <1>2, <1>3, SMT
<1>6. Sum(sindex + 1) \in Nat /\ Sum(sindex + 1) <= size  BY <1>1, <1>5, SumBounded
<1> QED  BY <1>1, <1>2, <1>4, <1>6, SMT

LEMMA StepKeepsSuccess ==
    ASSUME SuccessInv, Next
    PROVE  SuccessInv'
<1>1. TypeInv /\ PosInv  BY DEF SuccessInv
<1>2. TypeInv'  BY <1>1, StepKeepsTypes
<1>3. PosInv' /\ UNCHANGED <<size, Count, LastSize>>
  BY <1>1, StepKeepsPos, SizeStays
<1>4. ASSUME Count > 0, Told(Count)' PROVE rres' = "ok"
  <2>1. CASE Told(Count)  BY <1>1, <1>4, <2>1, OkStays DEF SuccessInv
  <2>2. CASE Accept /\ Expected.sizes = "file" /\ Expected.index + 1 = Count
    <3>1. frame.sizes = "file"  BY <2>2 DEF Accept, AcceptCounted
    <3> QED  BY <2>2, <3>1 DEF Accept, AcceptCounted, CountsOf, ReceiverEnds
  <2>3. \E n : n = Count /\ Told(n)'  BY <1>3, <1>4 DEF Told
  <2> QED  BY <1>1, <1>3, <1>4, <2>1, <2>2, StepTells
<1>5. ASSUME Count > 0, sindex' = Count PROVE rres' = "ok"
  <2>1. CASE sindex' = sindex  BY <1>1, <1>5, <2>1, OkStays DEF SuccessInv
  <2>2. CASE Acknowledged
    <3>1. sindex' = sindex + 1  BY <2>2 DEF Acknowledged, Acknowledge
    <3>2. Told(Count)  BY <1>1, <1>5, <2>2, <3>1, AcceptedTells
    <3> QED  BY <1>1, <1>5, <3>2, OkStays DEF SuccessInv
  <2> QED
    BY <2>1, <2>2, SenderStays
    DEF Next, SenderStep, Send, SendFails, SendEnd, Refused, Unanswered, Returned, vars,
        senderVars
<1>6. ASSUME sres' = "ok", LastSize # 0 PROVE rres' = "ok"
  <2>1. CASE sres = "ok"  BY <1>1, <1>6, <2>1, OkStays DEF SuccessInv, BothSucceed
  <2>2. CASE SendEnd
    <3>1. Count > 0 /\ sindex = Count  BY <1>1, <1>6, <2>2, EndIsEnd
    <3> QED  BY <1>1, <3>1, OkStays DEF SuccessInv
  <2> QED
    BY <1>6, <2>1, <2>2, SenderStays
    DEF Next, SenderStep, Send, SendFails, Acknowledged, Acknowledge, Refused, Unanswered,
        SenderEnds, Returned, vars, senderVars
<1> QED
  BY <1>2, <1>3, <1>4, <1>5, <1>6 DEF SuccessInv, BothSucceed

LEMMA SuccessAlways == Spec => []SuccessInv
<1>1. Init => SuccessInv
  <2> SUFFICES ASSUME Init PROVE SuccessInv
    OBVIOUS
  <2>1. TypeInv  BY InitTypes
  <2>2. sindex = 0 /\ pos = 0 /\ spc = "read" /\ sres = "none" /\ size \in Nat
    BY DEF Init
  <2>3. DOMAIN replies = {}  BY DEF Init
  <2>4. Count \in Nat /\ (Count = 0 => size = 0)  BY <2>2, FrameArithmetic, SMT
  <2>5. Sum(0) = 0  BY <2>4, SMT DEF Sum
  <2>6. PosInv  BY <2>2, <2>4, <2>5, SMT DEF PosInv
  <2>7. ~(Count > 0 /\ sindex = Count)  BY <2>2, <2>4, SMT
  <2> QED  BY <2>1, <2>2, <2>3, <2>6, <2>7 DEF SuccessInv, Told, BothSucceed
<1>2. SuccessInv /\ UNCHANGED vars => SuccessInv'
  BY DEF SuccessInv, TypeInv, SenderTypes, ReceiverTypes, LineTypes, PosInv, Sum, Count,
         LastSize, ReadSize, LastFrame, Told, BothSucceed, vars, senderVars, receiverVars
<1> QED  BY <1>1, <1>2, StepKeepsSuccess, PTL DEF Spec

\* sock_send_file and sock_recv_file agree: when the last frame is not a full
\* one and sock_send_file returns 0, so has sock_recv_file, wherever TCP cuts
\* the frames, whichever writes fail and whenever the connection breaks.
THEOREM AlwaysAgree == Spec => []BothSucceed
<1>1. SuccessInv => BothSucceed  BY DEF SuccessInv
<1> QED  BY <1>1, SuccessAlways, PTL

-------------------------------------------------------------------------------
(* What is sent *)

\* The bytes the sender sends behind its headers, after the a-th and up to the
\* b-th; those of frame k.
Sent(a, b) == [i \in 1 .. b - a |-> [kind |-> "byte", at |-> ByteAt(a + i)]]
FrameEnd(k) == IF k + 1 = Count THEN k * Stride + LastSize ELSE k * Stride + Stride
Whole(k) == Sent(k * Stride, FrameEnd(k))

LEMMA StrideType == Stride \in Nat \ {0} /\ FrameSize <= Stride
BY SMT DEF Stride

LEMMA MoreStrides ==
    ASSUME NEW j \in Nat, NEW k \in Nat, j <= k
    PROVE  /\ j * Stride \in Nat /\ j * Stride <= k * Stride
           /\ (j + 1) * Stride = j * Stride + Stride
<1> DEFINE d == Stride
<1>1. d \in Nat  BY StrideType
<1> HIDE DEF d
<1>2. /\ j * d \in Nat /\ j * d <= k * d /\ (j + 1) * d = j * d + d
  BY <1>1, SMT
<1> QED  BY <1>2 DEF d

\* A quotient is where it is.
LEMMA OneQuotient ==
    ASSUME NEW d \in Nat \ {0}, NEW k \in Nat, NEW m \in 0 .. d - 1
    PROVE  (k * d + m) \div d = k /\ (k * d + m) % d = m
<1> DEFINE p == k * d + m
<1>1. p \in Nat
  <2>1. k * d \in Nat  BY SMT
  <2> QED  BY <2>1, SMT
<1> HIDE DEF p
<1> DEFINE q == p \div d
           r == p % d
<1>2. q \in Nat /\ r \in 0 .. d - 1 /\ p = d * q + r  BY <1>1, SMT
<1> HIDE DEF q, r
<1>3. /\ q < k => q * d + d <= k * d
      /\ k < q => k * d + d <= q * d
  <2>1. q < k => (q + 1) * d <= k * d  BY <1>2, SMT
  <2>2. k < q => (k + 1) * d <= q * d  BY <1>2, SMT
  <2>3. (q + 1) * d = q * d + d /\ (k + 1) * d = k * d + d  BY <1>2, SMT
  <2> QED  BY <2>1, <2>2, <2>3
<1>4. d * q = q * d /\ q * d \in Nat /\ k * d \in Nat  BY <1>2, SMT
<1>5. k * d + m = q * d + r  BY <1>2, <1>4 DEF p
<1>6. q = k /\ r = m  BY <1>2, <1>3, <1>4, <1>5, SMT
<1> QED  BY <1>6 DEF p, q, r

LEMMA ByteAtType == ASSUME NEW p \in Nat \ {0} PROVE ByteAt(p) \in Nat
<1> DEFINE q == (p - 1) \div Stride
           r == (p - 1) % Stride
<1>1. q \in Nat /\ r \in Nat  BY StrideType, SMT
<1>2. ByteAt(p) = IF r < FrameSize THEN q * FrameSize + r + 1 ELSE 0  BY DEF ByteAt
<1> HIDE DEF q, r
<1>3. q * FrameSize \in Nat  BY <1>1, MoreIsMore
<1> QED  BY <1>1, <1>2, <1>3, SMT

\* The j-th byte of a frame: of the file, or of the padding.
LEMMA ByteAtIs ==
    ASSUME NEW k \in Nat, NEW j \in 1 .. Stride
    PROVE  ByteAt(k * Stride + j) = IF j <= FrameSize THEN k * FrameSize + j ELSE 0
<1> DEFINE d == Stride
           p == k * d + j
           m == j - 1
<1>1. d \in Nat \ {0} /\ j \in 1 .. d  BY StrideType
<1>2. ByteAt(p) = LET q == (p - 1) \div d
                      r == (p - 1) % d
                  IN  IF r < FrameSize THEN q * FrameSize + r + 1 ELSE 0
  BY DEF ByteAt
<1> HIDE DEF d
<1>3. m \in 0 .. d - 1 /\ k * d \in Nat /\ (m < FrameSize <=> j <= FrameSize)
  BY <1>1, SMT
<1>4. p - 1 = k * d + m /\ k * FrameSize + m + 1 = k * FrameSize + j
  <2>1. k * FrameSize \in Nat  BY MoreIsMore
  <2> QED  BY <1>1, <1>3, <2>1, SMT
<1> HIDE DEF p, m
<1>5. (p - 1) \div d = k /\ (p - 1) % d = m
  BY <1>1, <1>3, <1>4, OneQuotient
<1>6. ByteAt(p) = IF j <= FrameSize THEN k * FrameSize + j ELSE 0
  BY <1>2, <1>3, <1>4, <1>5
<1> QED  BY <1>6 DEF p, d

LEMMA SentAre ==
    ASSUME NEW a \in Nat, NEW b \in Nat, a <= b
    PROVE  /\ Sent(a, b) \in Seq(Atom) /\ Len(Sent(a, b)) = b - a
           /\ \A i \in 1 .. b - a : Sent(a, b)[i] = [kind |-> "byte", at |-> ByteAt(a + i)]
<1> DEFINE n == b - a
<1>1. n \in Nat /\ \A i \in 1 .. n : a + i \in Nat \ {0}  BY SMT
<1>2. Sent(a, b) = [i \in 1 .. n |-> [kind |-> "byte", at |-> ByteAt(a + i)]]  BY DEF Sent
<1> HIDE DEF n
<1>3. \A i \in 1 .. n : [kind |-> "byte", at |-> ByteAt(a + i)] \in Atom
  BY <1>1, ByteAtType DEF Atom
<1>4. Sent(a, b) \in [1 .. n -> Atom]  BY <1>2, <1>3
<1>5. Sent(a, b) \in Seq(Atom) /\ Len(Sent(a, b)) = n  BY <1>1, <1>4, SMT
<1> QED  BY <1>2, <1>5 DEF n

LEMMA AsSentIs ==
    ASSUME NEW n \in Nat
    PROVE  /\ AsSent(n) = Sent(0, n) /\ AsSent(n) \in Seq(Atom) /\ Len(AsSent(n)) = n
           /\ \A i \in 1 .. n : AsSent(n)[i] = [kind |-> "byte", at |-> ByteAt(i)]
<1>1. n - 0 = n /\ 0 \in Nat /\ 0 <= n /\ \A i \in 1 .. n : 0 + i = i  BY SMT
<1>2. AsSent(n) = Sent(0, n)  BY <1>1 DEF AsSent, Sent
<1>3. Sent(0, n) \in Seq(Atom) /\ Len(Sent(0, n)) = n  BY <1>1, SentAre
<1>4. \A i \in 1 .. n : AsSent(n)[i] = [kind |-> "byte", at |-> ByteAt(i)]  BY DEF AsSent
<1> QED  BY <1>2, <1>3, <1>4

LEMMA SentJoin ==
    ASSUME NEW a \in Nat, NEW b \in Nat, NEW c \in Nat, a <= b, b <= c
    PROVE  Sent(a, b) \o Sent(b, c) = Sent(a, c)
<1> DEFINE s == Sent(a, b)
           t == Sent(b, c)
           u == Sent(a, c)
<1>1. /\ s \in Seq(Atom) /\ Len(s) = b - a
      /\ \A i \in 1 .. b - a : s[i] = [kind |-> "byte", at |-> ByteAt(a + i)]
  BY SentAre
<1>2. /\ t \in Seq(Atom) /\ Len(t) = c - b
      /\ \A i \in 1 .. c - b : t[i] = [kind |-> "byte", at |-> ByteAt(b + i)]
  BY SentAre
<1>3. /\ u \in Seq(Atom) /\ Len(u) = c - a
      /\ \A i \in 1 .. c - a : u[i] = [kind |-> "byte", at |-> ByteAt(a + i)]
  <2>1. a <= c  BY SMT
  <2> QED  BY <2>1, SentAre
<1> HIDE DEF s, t, u
<1>4. /\ s \o t \in Seq(Atom) /\ Len(s \o t) = Len(s) + Len(t)
      /\ \A i \in 1 .. Len(s) + Len(t) :
            (s \o t)[i] = IF i <= Len(s) THEN s[i] ELSE t[i - Len(s)]
  BY <1>1, <1>2, ConcatProperties
<1>5. Len(s) + Len(t) = c - a  BY <1>1, <1>2, SMT
<1>6. ASSUME NEW i \in 1 .. c - a PROVE (s \o t)[i] = u[i]
  <2>1. CASE i <= b - a
    <3>1. i \in 1 .. b - a  BY <2>1, SMT
    <3> QED  BY <1>1, <1>3, <1>4, <1>5, <2>1, <3>1
  <2>2. CASE ~(i <= b - a)
    <3>1. i - (b - a) \in 1 .. c - b /\ b + (i - (b - a)) = a + i  BY <2>2, SMT
    <3>2. (s \o t)[i] = t[i - (b - a)]  BY <1>1, <1>4, <1>5, <2>2
    <3>3. t[i - (b - a)] = u[i]  BY <1>2, <1>3, <3>1
    <3> QED  BY <3>2, <3>3
  <2> QED  BY <2>1, <2>2
<1>7. s \o t = u  BY <1>3, <1>4, <1>5, <1>6, SeqEqual
<1> QED  BY <1>7 DEF s, t, u

\* The beginning of the beginning.
LEMMA PrefixOfSent ==
    ASSUME NEW n \in Nat, NEW m \in Nat, m <= n
    PROVE  SubSeq(AsSent(n), 1, m) = AsSent(m)
<1>1. /\ AsSent(n) \in Seq(Atom) /\ m <= Len(AsSent(n)) /\ AsSent(m) \in Seq(Atom)
      /\ Len(AsSent(m)) = m /\ m - 1 + 1 = m /\ 1 \in Nat \ {0}
      /\ \A i \in 1 .. m : i \in 1 .. n /\ 1 + i - 1 = i
  BY AsSentIs, SMT
<1>2. /\ SubSeq(AsSent(n), 1, m) \in Seq(Atom)
      /\ Len(SubSeq(AsSent(n), 1, m)) = IF 1 <= m THEN m - 1 + 1 ELSE 0
      /\ \A i \in 1 .. m - 1 + 1 : SubSeq(AsSent(n), 1, m)[i] = AsSent(n)[1 + i - 1]
  BY <1>1, PartIsASeq
<1>3. Len(SubSeq(AsSent(n), 1, m)) = m  BY <1>1, <1>2, SMT
<1>4. \A i \in 1 .. m : SubSeq(AsSent(n), 1, m)[i] = AsSent(m)[i]
  BY <1>1, <1>2, AsSentIs, ZenonT(40)
<1> QED  BY <1>1, <1>2, <1>3, <1>4, SeqEqual
LEMMA StrideSplits ==
    ASSUME NEW k \in Nat
    PROVE  /\ k * Stride = k * FrameSize + k * Padding
           /\ k * FrameSize \in Nat /\ k * Padding \in Nat
<1>1. ASSUME NEW x \in Nat, NEW y \in Nat
      PROVE  k * (x + y) = k * x + k * y /\ k * x \in Nat /\ k * y \in Nat
  BY SMT
<1> QED  BY <1>1 DEF Stride

\* Where a frame ends.
LEMMA FrameEnds ==
    ASSUME size \in Nat, NEW k \in Nat, k < Count
    PROVE  /\ k * Stride \in Nat /\ FrameEnd(k) \in Nat /\ k * Stride <= FrameEnd(k)
           /\ k + 1 # Count => FrameEnd(k) = (k + 1) * Stride
           /\ k + 1 = Count /\ LastSize # 0 => FrameEnd(k) = size + (Count - 1) * Padding
<1>1. /\ k * Stride \in Nat /\ (k + 1) * Stride = k * Stride + Stride
      /\ LastSize \in Nat /\ Stride \in Nat /\ Count \in Nat
  BY MoreStrides, StrideType, FrameArithmetic, SMT
<1>2. FrameEnd(k) \in Nat /\ k * Stride <= FrameEnd(k)
  BY <1>1, SMT DEF FrameEnd
<1>3. ASSUME k + 1 = Count, LastSize # 0
      PROVE  FrameEnd(k) = size + (Count - 1) * Padding
  <2>1. Count - 1 = k /\ size = (Count - 1) * FrameSize + LastSize
    BY <1>1, <1>3, FrameArithmetic, SMT
  <2>2. k * Stride = k * FrameSize + k * Padding /\ k * FrameSize \in Nat /\ k * Padding \in Nat
    BY StrideSplits
  <2>3. FrameEnd(k) = k * Stride + LastSize  BY <1>3 DEF FrameEnd
  <2>4. size = k * FrameSize + LastSize  BY <2>1
  <2>5. FrameEnd(k) = size + k * Padding
    <3> HIDE DEF FrameEnd, LastSize
    <3> QED  BY <1>1, <2>2, <2>3, <2>4, SMT
  <2> QED  BY <2>1, <2>5
<1> QED  BY <1>1, <1>2, <1>3 DEF FrameEnd

\* Behind a header the sender sends its frame.
LEMMA FilledIs ==
    ASSUME TypeInv, PosInv, Send
    PROVE  Filled = Whole(sindex) /\ sindex < Count /\ (sindex + 1 = Count => LastSize # 0)
<1>1. /\ size \in Nat /\ sindex \in Nat /\ pos \in Nat /\ Count \in Nat
      /\ spc = "read" /\ spc' = "reply" /\ pos' = pos + ReadSize /\ sindex' = sindex
      /\ size' = size /\ ReadSize \in Nat \ {0}
      /\ LastSize \in 0 .. FrameSize - 1
  BY FrameArithmetic, ReadSizeType, SMT DEF TypeInv, SenderTypes, Send
<1>2. sindex < Count
  <2>1. PosInv' /\ UNCHANGED <<size, Count, LastSize>>
    BY StepKeepsPos, SizeStays DEF Next, SenderStep
  <2> QED  BY <1>1, <2>1 DEF PosInv
<1>3. pos = sindex * FrameSize
  <2>1. sindex # Count  BY <1>1, <1>2, SMT
  <2> QED  BY <1>1, <2>1 DEF PosInv, Sum
<1>4. sindex + 1 = Count => LastSize # 0 /\ ReadSize = LastSize
  BY <1>1 DEF ReadSize, LastFrame
<1>5. sindex + 1 # Count => ReadSize = FrameSize
  BY DEF ReadSize, LastFrame
<1> DEFINE k == sindex
           a == k * Stride
           e == FrameEnd(k)
           R == ReadSize
           P == IF LastFrame THEN 0 ELSE Padding
           x == Bytes(pos + 1, pos + R)
           y == Pads(P)
<1>6. /\ k \in Nat /\ a \in Nat /\ e \in Nat /\ a <= e /\ R \in 1 .. FrameSize
      /\ P \in Nat /\ R + P = e - a /\ R + P <= Stride /\ (P # 0 => R = FrameSize)
  <2>1. /\ a \in Nat /\ e \in Nat /\ a <= e  BY <1>1, <1>2, FrameEnds
  <2>2. CASE LastFrame
    <3>1. P = 0 /\ R = LastSize /\ e = a + LastSize
      BY <1>4, <2>2 DEF LastFrame, FrameEnd
    <3> HIDE DEF P, R, e, a, k
    <3>2. R \in Nat \ {0}  BY <1>1 DEF R
    <3>3. k \in Nat  BY <1>1 DEF k
    <3> QED  BY <1>1, <2>1, <3>1, <3>2, <3>3, StrideType, SMT
  <2>3. CASE ~LastFrame
    <3>1. P = Padding /\ R = FrameSize /\ e = a + Stride
      BY <1>5, <2>3 DEF LastFrame, FrameEnd
    <3> HIDE DEF P, R, e, a, k
    <3>2. k \in Nat  BY <1>1 DEF k
    <3> QED  BY <2>1, <3>1, <3>2, StrideType, SMT DEF Stride
  <2> QED  BY <2>2, <2>3
<1>7. Filled = x \o y
  <2>1. LastFrame => y = <<>>
    <3>1. LastFrame => y \in Seq(Atom) /\ Len(y) = 0
      <4>1. Pads(0) \in Seq(Atom) /\ Len(Pads(0)) = 0  BY PadsAreASeq
      <4> QED  BY <4>1
    <3> QED  BY <3>1, EmptySeq
  <2> QED  BY <2>1 DEF Filled
<1> HIDE DEF P, R
<1>8. /\ x \in Seq(Atom) /\ Len(x) = R
      /\ \A i \in 1 .. R : x[i] = [kind |-> "byte", at |-> k * FrameSize + i]
  <2>1. /\ pos + 1 \in Nat \ {0} /\ pos + R \in Nat /\ pos + R >= pos + 1
        /\ (pos + R) - (pos + 1) + 1 = R /\ \A i \in 1 .. R : pos + 1 + i - 1 = pos + i
    BY <1>1, <1>6, SMT
  <2>2. x = [i \in 1 .. R |-> [kind |-> "byte", at |-> pos + i]]  BY <2>1 DEF Bytes
  <2>3. \A i \in 1 .. R : x[i] = [kind |-> "byte", at |-> pos + i]  BY <2>2
  <2> QED  BY <1>3, <2>1, <2>3, BytesAreASeq
<1>9. /\ y \in Seq(Atom) /\ Len(y) = P
      /\ \A i \in 1 .. P : y[i] = [kind |-> "byte", at |-> 0]
  BY <1>6, PadsAreASeq DEF Pads
<1> DEFINE u == Sent(a, e)
<1>10. /\ u \in Seq(Atom) /\ Len(u) = e - a
       /\ \A i \in 1 .. e - a : u[i] = [kind |-> "byte", at |-> ByteAt(a + i)]
  BY <1>6, SentAre
<1> HIDE DEF x, y, u, a, e
<1>11. /\ x \o y \in Seq(Atom) /\ Len(x \o y) = Len(x) + Len(y)
       /\ \A i \in 1 .. Len(x) + Len(y) :
             (x \o y)[i] = IF i <= Len(x) THEN x[i] ELSE y[i - Len(x)]
  BY <1>8, <1>9, ConcatProperties
<1>12. Len(x) + Len(y) = e - a  BY <1>6, <1>8, <1>9
<1>13. ASSUME NEW i \in 1 .. e - a PROVE (x \o y)[i] = u[i]
  <2>0. /\ i \in 1 .. R + P /\ R \in 1 .. FrameSize /\ P \in Nat
        /\ Stride \in Nat /\ R + P <= Stride
    BY <1>6, StrideType
  <2>1. /\ i \in 1 .. Stride /\ (i <= R => i \in 1 .. R /\ i <= FrameSize)
        /\ (~(i <= R) => i - R \in 1 .. P)
    BY <2>0, SMT
  <2>2. ByteAt(a + i) = IF i <= FrameSize THEN k * FrameSize + i ELSE 0
    BY <1>6, <2>1, ByteAtIs DEF a
  <2>3. CASE i <= R
    BY <1>8, <1>10, <1>11, <1>12, <2>1, <2>2, <2>3
  <2>4. CASE ~(i <= R)
    <3>1. P # 0  BY <1>6, <2>1, <2>4, SMT
    <3>2. ~(i <= FrameSize)  BY <1>6, <2>4, <3>1
    <3> QED  BY <1>8, <1>9, <1>10, <1>11, <1>12, <2>1, <2>2, <2>4, <3>2
  <2> QED  BY <2>3, <2>4
<1>14. x \o y = u  BY <1>10, <1>11, <1>12, <1>13, SeqEqual
<1> QED  BY <1>2, <1>4, <1>7, <1>14 DEF a, e, u, Whole

\* A header and a part of what is sent.
FrameOf(k, a, b) == HeadOf(k) \o Sent(a, b)
IsFrame(s, k, a, b) ==
    /\ s \in Seq(Atom) /\ Len(s) = 2 + (b - a)
    /\ s[1] = [kind |-> "head", at |-> k] /\ s[2] = [kind |-> "tail", at |-> k]
    /\ \A i \in 3 .. 2 + (b - a) : s[i] = [kind |-> "byte", at |-> ByteAt(a + (i - 2))]

LEMMA FrameAre ==
    ASSUME NEW k \in Nat, NEW a \in Nat, NEW b \in Nat, a <= b
    PROVE  IsFrame(FrameOf(k, a, b), k, a, b)
<1> DEFINE h == HeadOf(k)
           t == Sent(a, b)
<1>1. /\ h \in Seq(Atom) /\ Len(h) = 2 /\ h[1] = [kind |-> "head", at |-> k]
      /\ h[2] = [kind |-> "tail", at |-> k]
  <2> DEFINE x == [kind |-> "head", at |-> k]
             y == [kind |-> "tail", at |-> k]
  <2>1. x \in Atom /\ y \in Atom  BY DEF Atom
  <2>2. h = <<x, y>>  BY DEF HeadOf
  <2> HIDE DEF x, y, h
  <2>3. h \in Seq(Atom) /\ Len(h) = 2 /\ h[1] = x /\ h[2] = y  BY <2>1, <2>2, SMT
  <2> QED  BY <2>3 DEF x, y
<1>2. /\ t \in Seq(Atom) /\ Len(t) = b - a
      /\ \A i \in 1 .. b - a : t[i] = [kind |-> "byte", at |-> ByteAt(a + i)]
  BY SentAre
<1> HIDE DEF h, t
<1>3. /\ h \o t \in Seq(Atom) /\ Len(h \o t) = Len(h) + Len(t)
      /\ \A i \in 1 .. Len(h) + Len(t) :
            (h \o t)[i] = IF i <= Len(h) THEN h[i] ELSE t[i - Len(h)]
  BY <1>1, <1>2, ConcatProperties
<1>4. /\ Len(h) + Len(t) = 2 + (b - a) /\ 1 \in 1 .. 2 + (b - a) /\ 2 \in 1 .. 2 + (b - a)
      /\ 1 <= 2 /\ 2 <= 2
  BY <1>1, <1>2, SMT
<1>5. (h \o t)[1] = h[1] /\ (h \o t)[2] = h[2]
  BY <1>1, <1>3, <1>4
<1>6. ASSUME NEW i \in 3 .. 2 + (b - a)
      PROVE  (h \o t)[i] = [kind |-> "byte", at |-> ByteAt(a + (i - 2))]
  <2>1. i \in 1 .. 2 + (b - a) /\ ~(i <= 2) /\ i - 2 \in 1 .. b - a  BY SMT
  <2>2. (h \o t)[i] = t[i - 2]  BY <1>1, <1>3, <1>4, <2>1
  <2> QED  BY <1>2, <2>1, <2>2
<1>7. FrameOf(k, a, b) = h \o t  BY DEF h, t, FrameOf
<1>8. IsFrame(h \o t, k, a, b)  BY <1>1, <1>3, <1>4, <1>5, <1>6 DEF IsFrame
<1> QED  BY <1>7, <1>8

\* What a recv of n elements of it gets and leaves.
IsCut(s, k, a, b, n) ==
    /\ SubSeq(s, 1, n)[1] = [kind |-> "head", at |-> k] /\ Len(SubSeq(s, 1, n)) = n
    /\ SubSeq(s, 1, n)[n].kind = "head" <=> n < 2
    /\ n < 2 => SubSeq(SubSeq(s, 1, n), 3, n) = <<>>
    /\ ~(n < 2) => /\ SubSeq(SubSeq(s, 1, n), 3, n) = Sent(a, a + (n - 2))
                   /\ a + (n - 2) \in a .. b
    /\ n = Len(s) => ~(n < 2) /\ a + (n - 2) = b
    /\ n < Len(s) => /\ SubSeq(s, n + 1, Len(s)) # <<>>
                     /\ SubSeq(s, n + 1, Len(s))[1].kind # "head"

LEMMA FrameIsCut ==
    ASSUME NEW s, NEW k \in Nat, NEW a \in Nat, NEW b \in Nat, a <= b,
           IsFrame(s, k, a, b), NEW n \in 1 .. Len(s)
    PROVE  IsCut(s, k, a, b, n)
<1> DEFINE l == Len(s)
           c == SubSeq(s, 1, n)
           w == SubSeq(s, n + 1, l)
           g == SubSeq(c, 3, n)
<1>1. /\ s \in Seq(Atom) /\ l = 2 + (b - a)
      /\ s[1] = [kind |-> "head", at |-> k] /\ s[2] = [kind |-> "tail", at |-> k]
      /\ \A i \in 3 .. 2 + (b - a) : s[i] = [kind |-> "byte", at |-> ByteAt(a + (i - 2))]
  BY DEF IsFrame
<1>2. /\ l \in Nat /\ n \in Nat /\ 1 <= n /\ n <= l /\ n + 1 \in Nat \ {0}
      /\ 1 \in Nat \ {0} /\ 3 \in Nat \ {0} /\ n - 1 + 1 = n /\ 1 \in 1 .. n /\ n \in 1 .. n
      /\ \A i \in 1 .. n : 1 + i - 1 = i
      /\ (n = l => ~(n < 2) /\ a + (n - 2) = b)
      /\ (~(n < 2) => a + (n - 2) \in a .. b /\ a + (n - 2) \in Nat /\ a <= a + (n - 2))
      /\ l <= l
  BY <1>1, SMT
<1>3. /\ c \in Seq(Atom) /\ Len(c) = IF 1 <= n THEN n - 1 + 1 ELSE 0
      /\ \A i \in 1 .. n - 1 + 1 : c[i] = s[1 + i - 1]
  BY <1>1, <1>2, PartIsASeq
<1>4. Len(c) = n /\ \A i \in 1 .. n : c[i] = s[i]
  BY <1>2, <1>3
<1>5. /\ w \in Seq(Atom) /\ Len(w) = IF n + 1 <= l THEN l - (n + 1) + 1 ELSE 0
      /\ \A i \in 1 .. l - (n + 1) + 1 : w[i] = s[n + 1 + i - 1]
  <2> DEFINE x == n + 1
  <2>1. x \in Nat \ {0}  BY <1>2
  <2>2. l <= Len(s) /\ l \in Nat /\ s \in Seq(Atom)  BY <1>1, <1>2
  <2> HIDE DEF x, l
  <2>3. /\ SubSeq(s, x, l) \in Seq(Atom)
        /\ Len(SubSeq(s, x, l)) = IF x <= l THEN l - x + 1 ELSE 0
        /\ \A i \in 1 .. l - x + 1 : SubSeq(s, x, l)[i] = s[x + i - 1]
    BY <2>1, <2>2, PartIsASeq, SMTT(30)
  <2> QED  BY <2>3 DEF x
<1>6. /\ g \in Seq(Atom) /\ Len(g) = IF 3 <= n THEN n - 3 + 1 ELSE 0
      /\ \A i \in 1 .. n - 3 + 1 : g[i] = c[3 + i - 1]
  <2> HIDE DEF c
  <2>1. n <= Len(c) /\ n \in Nat /\ 3 \in Nat \ {0} /\ c \in Seq(Atom)
    BY <1>2, <1>3, <1>4
  <2> DEFINE x == 3
  <2> HIDE DEF x
  <2>2. /\ SubSeq(c, x, n) \in Seq(Atom)
        /\ Len(SubSeq(c, x, n)) = IF x <= n THEN n - x + 1 ELSE 0
        /\ \A i \in 1 .. n - x + 1 : SubSeq(c, x, n)[i] = c[x + i - 1]
    BY <2>1, PartIsASeq DEF x
  <2> QED  BY <2>2 DEF x
<1> HIDE DEF l, c, w, g
<1>7. c[1] = [kind |-> "head", at |-> k]  BY <1>1, <1>2, <1>4
<1>8. \A i \in 2 .. l : s[i].kind # "head"
  <2> TAKE i \in 2 .. l
  <2>1. i = 2 \/ i \in 3 .. 2 + (b - a)  BY <1>1, SMT
  <2>2. CASE i = 2  BY <1>1, <2>2
  <2>3. CASE i \in 3 .. 2 + (b - a)
    <3>1. s[i] = [kind |-> "byte", at |-> ByteAt(a + (i - 2))]  BY <1>1, <2>3, Zenon
    <3> QED  BY <3>1
  <2> QED  BY <2>1, <2>2, <2>3
<1>9. c[n].kind = "head" <=> n < 2
  <2>1. CASE n < 2
    <3>1. n = 1  BY <1>2, <2>1, SMT
    <3> QED  BY <1>7, <2>1, <3>1
  <2>2. CASE ~(n < 2)
    <3>1. n \in 2 .. l  BY <1>2, <2>2, SMT
    <3> QED  BY <1>2, <1>4, <1>8, <2>2, <3>1
  <2> QED  BY <2>1, <2>2
<1>10. n < 2 => g = <<>>
  <2>1. n < 2 => Len(g) = 0  BY <1>2, <1>6, SMT
  <2> QED  BY <1>6, <2>1, EmptySeq
<1>11. ASSUME ~(n < 2) PROVE g = Sent(a, a + (n - 2))
  <2> DEFINE e == a + (n - 2)
             u == Sent(a, e)
  <2>1. e \in Nat /\ a <= e /\ e - a = n - 2  BY <1>2, <1>11, SMT
  <2> HIDE DEF e
  <2>2. /\ u \in Seq(Atom) /\ Len(u) = e - a
        /\ \A i \in 1 .. e - a : u[i] = [kind |-> "byte", at |-> ByteAt(a + i)]
    BY <2>1, SentAre
  <2> HIDE DEF u
  <2>3. Len(g) = n - 2  BY <1>2, <1>6, <1>11, SMT
  <2>4. ASSUME NEW i \in 1 .. n - 2 PROVE g[i] = u[i]
    <3>1. /\ i \in 1 .. n - 3 + 1 /\ 3 + i - 1 = i + 2 /\ i + 2 \in 1 .. n
          /\ i + 2 \in 3 .. 2 + (b - a) /\ (i + 2) - 2 = i
      BY <1>1, <1>2, SMT
    <3>2. g[i] = s[i + 2]  BY <1>4, <1>6, <3>1
    <3>3. s[i + 2] = [kind |-> "byte", at |-> ByteAt(a + ((i + 2) - 2))]  BY <1>1, <3>1
    <3> QED  BY <2>1, <2>2, <3>1, <3>2, <3>3
  <2>5. g = u  BY <1>6, <2>1, <2>2, <2>3, <2>4, SeqEqual
  <2> QED  BY <2>5 DEF u, e
<1>12. ASSUME n < l PROVE w # <<>> /\ w[1].kind # "head"
  <2>1. /\ n + 1 <= l /\ l - (n + 1) + 1 # 0 /\ 1 \in 1 .. l - (n + 1) + 1
        /\ n + 1 + 1 - 1 = n + 1 /\ n + 1 \in 2 .. l
    BY <1>2, <1>12, SMT
  <2>2. Len(w) # 0 /\ w[1] = s[n + 1]  BY <1>5, <2>1
  <2> QED  BY <1>8, <2>1, <2>2, EmptySeq
<1>13. IsCut(s, k, a, b, n)
  BY <1>2, <1>4, <1>7, <1>9, <1>10, <1>11, <1>12 DEF IsCut, c, w, g, l
<1> QED  BY <1>13

-------------------------------------------------------------------------------
(* What is written *)

\* No write failed, and there is something to send.
Sound == "lost" \notin trouble /\ size \notin {0, FrameSize}

\* What the next recv finds begins in the middle of a frame.
Stale == stream # <<>> /\ stream[1].kind # "head"

\* Whose turn it is, while the receiver goes on: the number of frames accepted
\* is that of frames sent and acknowledged, or one more.
TurnInv ==
    ~broken /\ rpc # "done" =>
        /\ spc = "read" => replies = <<>> /\ sindex = rsp.index
        /\ spc = "reply" =>
              \/ replies = <<>> /\ sindex = rsp.index
              \/ /\ \E z : replies = <<[header |-> Header(sindex, z), code |-> "ok"]>>
                 /\ sindex + 1 = rsp.index
        /\ spc = "done" => rsp.index > 0

\* What a recv can find: nothing, a whole frame, or the rest of one of which a
\* part was accepted.  Only before the latter is the file not whole frames.
LineInv ==
    ~broken /\ rpc = "recv" =>
        /\ Stale => rsp.index > 0
        /\ ~Stale => file = AsSent(rsp.index * Stride)
        /\ stream # <<>> /\ ~Stale =>
              /\ spc = "reply" /\ replies = <<>>
              /\ stream = HeadOf(rsp.index) \o Whole(rsp.index)

\* What it is compared with: what is no header is never expected.
RspInv ==
    rpc # "done" /\ rsp.index > 0 =>
        /\ rsp.sizes \in {"file", "cut"}
        /\ rpc = "recv" => frame.index + 1 = rsp.index

\* What has been received: something that is refused, the frame that is
\* expected or the beginning of it, or the beginning of its header.
Unfit == rsp.index > 0 /\ (frame.index + 1 = rsp.index \/ frame.sizes = "junk")

FrameHere ==
    /\ frame = Header(rsp.index, "file") /\ rsp.index < Count
    /\ rsp.index + 1 = Count => LastSize # 0
    /\ file = AsSent(rsp.index * Stride)
    /\ \E e \in Nat :
          /\ rsp.index * Stride <= e /\ e <= FrameEnd(rsp.index)
          /\ got = Sent(rsp.index * Stride, e)
          /\ trouble = {} \/ (~broken /\ stream = <<>>) => e = FrameEnd(rsp.index)
    /\ ~broken => spc = "reply" /\ replies = <<>> /\ (stream # <<>> => Stale)

CutHere ==
    /\ "cut" \in trouble /\ frame.sizes \in {"file", "cut"}
    /\ file = AsSent(rsp.index * Stride)
    /\ ~broken => spc = "reply" /\ replies = <<>> /\ Stale

CheckInv ==
    /\ rpc = "check" => Unfit \/ FrameHere
    /\ rpc = "less" => Unfit \/ CutHere

\* Of the frames accepted, all but the last are in the file; and behind what
\* was sent there is at most what was written for a header that was cut.
Holds(n) ==
    /\ rsp.index = 0 \/ rres = "killed" \/ (rsp.index - 1) * Stride <= n
    /\ \/ file = AsSent(n)
       \/ "cut" \in trouble /\ file = AsSent(n) \o Pads(1)

FileInv ==
    /\ \E n \in Nat : Holds(n)
    /\ rres = "ok" /\ trouble = {} => file = AsSent(size + (Count - 1) * Padding)

SoundInv == TurnInv /\ LineInv /\ RspInv /\ CheckInv /\ FileInv

\* A file that is empty, or one full frame, is not sent: the receiver compares
\* headers that were never set and does not succeed.
NothingInv ==
    /\ spc # "reply" /\ sindex = 0 /\ pos = 0
    /\ stream = <<>> /\ rpc # "check" /\ rres # "ok"
    /\ frame = Header(0, "zero") /\ rsp.sizes = "zero"
    /\ file \in {<<>>, Pads(1)}
    /\ rpc # "done" /\ rsp.index = 0 => file = <<>>

\* No more is acknowledged than was accepted.
CountInv == sindex <= rsp.index /\ \A n : Told(n) => n <= rsp.index

WholeInv ==
    /\ TypeInv /\ PosInv /\ CountInv
    /\ Sound => SoundInv
    /\ size \in {0, FrameSize} => NothingInv

LEMMA IndexType == TypeInv => rsp.index \in Nat /\ frame.index \in Nat /\ Expected.index = rsp.index
<1> SUFFICES ASSUME TypeInv
             PROVE  rsp.index \in Nat /\ frame.index \in Nat /\ Expected.index = rsp.index
  OBVIOUS
<1>1. rsp \in AnyHeader /\ frame \in AnyHeader  BY DEF TypeInv, ReceiverTypes
<1> QED  BY <1>1 DEF AnyHeader, Expected

\* What the frames of a line are made of does not change.
LEMMA FramesStay ==
    ASSUME UNCHANGED <<size, rsp>>
    PROVE  /\ UNCHANGED <<Count, LastSize, Whole(rsp.index), FrameEnd(rsp.index)>>
           /\ HeadOf(rsp.index)' = HeadOf(rsp.index)
<1>1. UNCHANGED <<Count, LastSize>>  BY DEF Count, LastSize
<1>2. UNCHANGED FrameEnd(rsp.index)  BY <1>1 DEF FrameEnd
<1> QED  BY <1>1, <1>2 DEF Whole, Sent, HeadOf

LEMMA SendKeepsSound ==
    ASSUME WholeInv, Sound, Send
    PROVE  SoundInv'
<1>0. TypeInv /\ PosInv /\ TurnInv /\ LineInv /\ RspInv /\ CheckInv /\ FileInv
  BY DEF WholeInv, SoundInv
<1>1. /\ spc = "read" /\ spc' = "reply" /\ ~broken
      /\ UNCHANGED <<size, sindex, replies, rpc, frame, got, rsp, file, rres, broken, trouble>>
      /\ stream' = IF rres # "none" THEN stream ELSE stream \o HeadOf(sindex) \o Filled
      /\ UNCHANGED <<Count, LastSize, Whole(rsp.index), FrameEnd(rsp.index)>>
      /\ HeadOf(rsp.index)' = HeadOf(rsp.index)
  BY FramesStay DEF Send, receiverVars
<1>2. rpc = "done" <=> rres # "none"  BY <1>0 DEF TypeInv
<1>3. FileInv' /\ RspInv'  BY <1>0, <1>1 DEF FileInv, Holds, RspInv
<1>4. CheckInv'
  <2>1. ~FrameHere /\ ~CutHere  BY <1>1 DEF FrameHere, CutHere
  <2>2. Unfit => Unfit'  BY <1>1 DEF Unfit
  <2> QED  BY <1>0, <1>1, <2>1, <2>2 DEF CheckInv
<1>5. TurnInv'  BY <1>0, <1>1 DEF TurnInv
<1>6. LineInv'
  <2> SUFFICES ASSUME rpc = "recv" PROVE LineInv'
    BY <1>1 DEF LineInv
  <2>1. sindex = rsp.index /\ replies = <<>> /\ sindex \in Nat
    BY <1>0, <1>1 DEF TurnInv, TypeInv, SenderTypes
  <2>2. stream' = stream \o HeadOf(sindex) \o Filled  BY <1>1, <1>2
  <2>3. HeadOf(sindex) \in Seq(Atom) /\ Filled \in Seq(Atom)
    BY <1>0, ReadSizeType, FilledIsASeq DEF Send
  <2>4. CASE stream = <<>>
    <3>1. <<>> \o HeadOf(sindex) = HeadOf(sindex)  BY <2>3, ConcatEmptySeq
    <3>2. stream' = HeadOf(sindex) \o Filled  BY <2>2, <2>4, <3>1
    <3>3. stream' = HeadOf(rsp.index) \o Whole(rsp.index)
      BY <1>0, <2>1, <3>2, FilledIs
    <3>4. ~Stale'
      <4> DEFINE k == rsp.index
                 a == k * Stride
                 b == FrameEnd(k)
      <4>1. k \in Nat /\ size \in Nat /\ k < Count
        BY <1>0, <2>1, FilledIs DEF TypeInv, SenderTypes
      <4>2. a \in Nat /\ b \in Nat /\ a <= b  BY <4>1, FrameEnds
      <4>3. stream' = FrameOf(k, a, b)  BY <3>3 DEF FrameOf, Whole
      <4> HIDE DEF k, a, b
      <4>4. IsFrame(stream', k, a, b)  BY <4>1, <4>2, <4>3, FrameAre
      <4>5. stream'[1].kind = "head"  BY <4>4 DEF IsFrame
      <4> QED  BY <4>5 DEF Stale
    <3>5. file = AsSent(rsp.index * Stride)
      BY <1>0, <1>1, <2>4 DEF LineInv, Stale
    <3> QED  BY <1>1, <2>1, <3>3, <3>4, <3>5 DEF LineInv
  <2>5. CASE stream # <<>>
    <3>1. Stale /\ rsp.index > 0  BY <1>0, <1>1, <2>5 DEF LineInv
    <3>2. stream \in Seq(Atom) /\ Len(stream) \in Nat /\ 1 <= Len(stream)
      BY <1>0, <2>5, EmptySeq, LenProperties, SMT DEF TypeInv, LineTypes
    <3>3. /\ stream' \in Seq(Atom) /\ stream'[1] = stream[1] /\ Len(stream') # 0
      <4> DEFINE h == HeadOf(sindex)
                 f == Filled
                 u == stream \o h
      <4>1. stream' = u \o f /\ h \in Seq(Atom) /\ f \in Seq(Atom)
            /\ Len(h) \in Nat /\ Len(f) \in Nat
        BY <2>2, <2>3, LenProperties
      <4> HIDE DEF h, f
      <4>2. /\ u \in Seq(Atom) /\ Len(u) = Len(stream) + Len(h)
            /\ \A i \in 1 .. Len(stream) + Len(h) :
                  u[i] = IF i <= Len(stream) THEN stream[i] ELSE h[i - Len(stream)]
        BY <3>2, <4>1, ConcatProperties
      <4> HIDE DEF u
      <4>3. /\ u \o f \in Seq(Atom) /\ Len(u \o f) = Len(u) + Len(f)
            /\ \A i \in 1 .. Len(u) + Len(f) :
                  (u \o f)[i] = IF i <= Len(u) THEN u[i] ELSE f[i - Len(u)]
        BY <4>1, <4>2, ConcatProperties, ZenonT(40)
      <4>4. /\ 1 \in 1 .. Len(stream) + Len(h) /\ 1 <= Len(u) /\ 1 \in 1 .. Len(u) + Len(f)
            /\ Len(u) + Len(f) # 0
        BY <3>2, <4>1, <4>2, SMT
      <4> QED  BY <3>2, <4>1, <4>2, <4>3, <4>4
    <3>4. stream' # <<>>  BY <3>3, EmptySeq
    <3>5. Stale'  BY <3>1, <3>3, <3>4 DEF Stale
    <3> QED  BY <1>1, <3>1, <3>5 DEF LineInv
  <2> QED  BY <2>4, <2>5
<1> QED  BY <1>3, <1>4, <1>5, <1>6 DEF SoundInv

LEMMA SumGrows ==
    ASSUME size \in Nat, NEW k \in Nat, k < Count
    PROVE  /\ k * FrameSize \in Nat /\ Sum(k + 1) \in Nat
           /\ k * FrameSize <= Sum(k + 1)
           /\ Sum(k) = k * FrameSize
           /\ Sum(k + 1) <= k * FrameSize + FrameSize
           /\ k + 1 < Count => Sum(k + 1) = (k + 1) * FrameSize
<1>1. Count \in Nat /\ LastSize \in 0 .. FrameSize - 1  BY FrameArithmetic
<1>2. k + 1 \in Nat /\ k + 1 <= Count /\ k # Count  BY <1>1, SMT
<1>3. /\ k * FrameSize \in Nat /\ (k + 1) * FrameSize = k * FrameSize + FrameSize
  BY MoreIsMore
<1>4. Sum(k + 1) \in Nat  BY <1>2, SumBounded
<1>5. CASE k + 1 = Count
  <2>1. Count - 1 = k /\ Sum(k + 1) = size  BY <1>1, <1>5, SMT DEF Sum
  <2>2. size = k * FrameSize + LastSize \/ size = k * FrameSize + FrameSize
    <3>1. CASE LastSize # 0  BY <2>1, <3>1, FrameArithmetic
    <3>2. CASE LastSize = 0  BY <1>3, <1>5, <3>2, FrameArithmetic
    <3> QED  BY <3>1, <3>2
  <2>3. k * FrameSize <= Sum(k + 1) /\ Sum(k + 1) <= k * FrameSize + FrameSize
    BY <1>1, <1>3, <2>1, <2>2, SMT
  <2> QED  BY <1>1, <1>2, <1>3, <1>4, <1>5, <2>3, SMT DEF Sum
<1>6. CASE k + 1 # Count
  <2>1. Sum(k + 1) = k * FrameSize + FrameSize  BY <1>3, <1>6 DEF Sum
  <2> QED  BY <1>1, <1>2, <1>3, <1>4, <1>6, <2>1, SMT DEF Sum
<1> QED  BY <1>5, <1>6

\* A file that has a byte, and not just a full frame, is sent.
LEMMA SomethingIsSent ==
    ASSUME TypeInv, PosInv, Sound, SendEnd
    PROVE  sindex > 0
<1> SUFFICES ASSUME sindex = 0 PROVE FALSE
  BY SMT DEF TypeInv, SenderTypes
<1>1. /\ size \in Nat /\ size # 0 /\ size # FrameSize /\ pos = Sum(0)
      /\ ReadSize = 0 \/ pos + ReadSize > size
  BY DEF TypeInv, SenderTypes, Sound, SendEnd, PosInv
<1>2. /\ Count \in Nat /\ LastSize \in 0 .. FrameSize - 1
      /\ LastSize # 0 => Count # 0 /\ size = (Count - 1) * FrameSize + LastSize
      /\ LastSize = 0 => size = Count * FrameSize
  BY <1>1, FrameArithmetic
<1>3. 0 < Count  BY <1>1, <1>2, SMT
<1>4. Sum(0) = 0 /\ (0 + 1 < Count => Sum(0 + 1) = (0 + 1) * FrameSize)
  BY <1>1, <1>3, SumGrows, SMT
<1>5. CASE Count = 1
  <2>1. ReadSize = LastSize  BY <1>5 DEF ReadSize, LastFrame
  <2> QED  BY <1>1, <1>2, <1>4, <1>5, <2>1, SMT
<1>6. CASE Count # 1
  <2>1. ReadSize = FrameSize  BY <1>6 DEF ReadSize, LastFrame
  <2>2. Sum(1) = FrameSize /\ 1 <= Count  BY <1>2, <1>3, <1>4, <1>6, SMT
  <2>3. FrameSize <= size  BY <1>1, <2>2, SumBounded
  <2> QED  BY <1>1, <1>4, <2>1, <2>3, SMT
<1> QED  BY <1>5, <1>6

LEMMA EndKeepsSound ==
    ASSUME WholeInv, Sound, SendFails \/ SendEnd \/ Refused \/ Unanswered
    PROVE  SoundInv'
<1>0. TypeInv /\ PosInv /\ TurnInv /\ LineInv /\ RspInv /\ CheckInv /\ FileInv
  BY DEF WholeInv, SoundInv
<1>1. /\ spc' = "done"
      /\ UNCHANGED <<size, sindex, stream, rpc, frame, got, rsp, file, rres, broken, trouble>>
      /\ UNCHANGED <<Count, LastSize, Whole(rsp.index), FrameEnd(rsp.index)>>
      /\ HeadOf(rsp.index)' = HeadOf(rsp.index)
  BY FramesStay DEF SendFails, SendEnd, Refused, Unanswered, SenderEnds, receiverVars
<1>2. ASSUME ~broken, rpc # "done"
      PROVE  rsp.index > 0 /\ (spc = "reply" => replies # <<>>)
  <2>1. rres = "none"  BY <1>0, <1>2 DEF TypeInv
  <2>2. ~SendFails /\ ~Unanswered  BY <1>2, <2>1 DEF SendFails, Unanswered
  <2>3. CASE Refused
    <3>1. spc = "reply" /\ replies # <<>>  BY <2>3 DEF Refused
    <3>2. sindex + 1 = rsp.index  BY <1>0, <1>2, <3>1 DEF TurnInv
    <3> QED  BY <1>0, <3>1, <3>2, SMT DEF TypeInv, SenderTypes
  <2>4. CASE SendEnd
    <3>1. spc = "read" /\ sindex > 0  BY <1>0, <2>4, SomethingIsSent DEF SendEnd
    <3> QED  BY <1>0, <1>2, <3>1 DEF TurnInv
  <2> QED  BY <2>2, <2>3, <2>4
<1>3. FileInv' /\ RspInv'  BY <1>0, <1>1 DEF FileInv, Holds, RspInv
<1>4. TurnInv'  BY <1>1, <1>2 DEF TurnInv
<1>5. ~broken /\ rpc # "done" => spc \in {"read", "reply"}
  BY <1>0 DEF SendFails, SendEnd, Refused, Unanswered
<1>6. LineInv'
  <2> SUFFICES ASSUME ~broken, rpc = "recv" PROVE LineInv'
    BY <1>1 DEF LineInv
  <2>1. stream # <<>> => Stale
    BY <1>0, <1>2 DEF LineInv
  <2>2. Stale' = Stale  BY <1>1 DEF Stale
  <2> QED  BY <1>0, <1>1, <2>1, <2>2 DEF LineInv, Stale
<1>7. CheckInv'
  <2>1. Unfit => Unfit'  BY <1>1 DEF Unfit
  <2>2. rpc # "done" /\ FrameHere => broken  BY <1>2 DEF FrameHere
  <2>3. rpc # "done" /\ CutHere => broken  BY <1>2 DEF CutHere
  <2>4. broken /\ FrameHere => FrameHere'  BY <1>1 DEF FrameHere
  <2>5. broken /\ CutHere => CutHere'  BY <1>1 DEF CutHere
  <2> QED  BY <1>0, <1>1, <2>1, <2>2, <2>3, <2>4, <2>5 DEF CheckInv
<1> QED  BY <1>3, <1>4, <1>6, <1>7 DEF SoundInv

LEMMA AcknowledgedKeepsSound ==
    ASSUME WholeInv, Sound, Acknowledged
    PROVE  SoundInv'
<1>0. TypeInv /\ PosInv /\ TurnInv /\ LineInv /\ RspInv /\ CheckInv /\ FileInv
  BY DEF WholeInv, SoundInv
<1>1. /\ spc = "reply" /\ replies # <<>> /\ replies' = Tail(replies)
      /\ sindex' = sindex + 1 /\ spc' = "read"
      /\ UNCHANGED <<size, stream, rpc, frame, got, rsp, file, rres, broken, trouble>>
      /\ UNCHANGED <<Count, LastSize, Whole(rsp.index), FrameEnd(rsp.index)>>
      /\ HeadOf(rsp.index)' = HeadOf(rsp.index)
  BY FramesStay DEF Acknowledged, Acknowledge, receiverVars
<1>2. FileInv' /\ RspInv'  BY <1>0, <1>1 DEF FileInv, Holds, RspInv
<1>3. TurnInv'
  <2>1. ASSUME ~broken, rpc # "done"
        PROVE  Tail(replies) = <<>> /\ sindex + 1 = rsp.index
    <3>1. PICK z : /\ replies = <<[header |-> Header(sindex, z), code |-> "ok"]>>
                   /\ sindex + 1 = rsp.index
      BY <1>0, <1>1, <2>1 DEF TurnInv
    <3> QED  BY <3>1, SMT
  <2> QED  BY <1>1, <2>1 DEF TurnInv
<1>4. LineInv'
  <2> SUFFICES ASSUME ~broken, rpc = "recv" PROVE LineInv'
    BY <1>1 DEF LineInv
  <2>1. stream # <<>> => Stale  BY <1>0, <1>1 DEF LineInv
  <2>2. Stale' = Stale  BY <1>1 DEF Stale
  <2> QED  BY <1>0, <1>1, <2>1, <2>2 DEF LineInv, Stale
<1>5. CheckInv'
  <2>1. Unfit => Unfit'  BY <1>1 DEF Unfit
  <2>2. FrameHere => broken  BY <1>1 DEF FrameHere
  <2>3. CutHere => broken  BY <1>1 DEF CutHere
  <2>4. broken /\ FrameHere => FrameHere'  BY <1>1 DEF FrameHere
  <2>5. broken /\ CutHere => CutHere'  BY <1>1 DEF CutHere
  <2> QED  BY <1>0, <1>1, <2>1, <2>2, <2>3, <2>4, <2>5 DEF CheckInv
<1> QED  BY <1>2, <1>3, <1>4, <1>5 DEF SoundInv

\* A frame that recv finds, or a part of it, is the one that is expected.
LEMMA RecvKeepsSound ==
    ASSUME WholeInv, Sound, Recv
    PROVE  SoundInv'
<1>0. TypeInv /\ PosInv /\ TurnInv /\ LineInv /\ RspInv /\ CheckInv /\ FileInv
  BY DEF WholeInv, SoundInv
<1>1. PICK n \in 1 .. Len(stream) : RecvSome(n)  BY DEF Recv
<1> DEFINE chunk == SubSeq(stream, 1, n)
           k == rsp.index
           a == k * Stride
           b == FrameEnd(k)
<1>2. /\ rpc = "recv" /\ rpc' = (IF n < 2 THEN "less" ELSE "check") /\ ~broken
      /\ stream' = SubSeq(stream, n + 1, Len(stream))
      /\ Overwrite(chunk) /\ got' = SubSeq(chunk, 3, n)
      /\ trouble' = trouble \cup (IF n < Len(stream) THEN {"short"} ELSE {})
                            \cup (IF chunk[n].kind = "head" THEN {"cut"} ELSE {})
      /\ UNCHANGED <<size, spc, sindex, pos, sres, replies, rsp, file, rres, broken>>
      /\ UNCHANGED <<Count, LastSize, FrameEnd(rsp.index)>>
  <2>1. HeadLen + 1 = 3 /\ HeadLen = 2  BY SMT DEF HeadLen
  <2>2. UNCHANGED <<size, rsp>>  BY <1>1 DEF RecvSome
  <2> QED  BY <1>1, <2>1, <2>2, FramesStay DEF RecvSome, senderVars
<1>3. /\ stream \in Seq(Atom) /\ Len(stream) \in Nat /\ n \in Nat /\ rres = "none"
      /\ k \in Nat /\ size \in Nat /\ stream # <<>> /\ n <= Len(stream) /\ 1 <= n
      /\ frame.index \in Nat
  <2>1. stream \in Seq(Atom) /\ Len(stream) \in Nat
    BY <1>0, LenProperties DEF TypeInv, LineTypes
  <2>2. Len(stream) # 0 /\ n \in Nat /\ n <= Len(stream) /\ 1 <= n  BY <2>1, SMT
  <2>3. stream # <<>>  BY <2>2, EmptySeq
  <2>4. size \in Nat /\ rres = "none"
    BY <1>0, <1>2 DEF TypeInv, ReceiverTypes, SenderTypes
  <2> QED  BY <1>0, <2>1, <2>2, <2>3, <2>4, IndexType
<1>4. chunk[1] = stream[1]
  <2>1. 1 \in Nat \ {0} /\ 1 \in 1 .. n - 1 + 1 /\ 1 + 1 - 1 = 1  BY <1>3, SMT
  <2>2. \A i \in 1 .. n - 1 + 1 : chunk[i] = stream[1 + i - 1]
    BY <1>3, <2>1, PartIsASeq
  <2> QED  BY <2>1, <2>2
<1> HIDE DEF chunk
<1>5. TurnInv' /\ LineInv' /\ RspInv'
  BY <1>0, <1>2 DEF TurnInv, LineInv, RspInv
<1>6. FileInv'
  <2>1. PICK m \in Nat : Holds(m)  BY <1>0 DEF FileInv
  <2>2. "cut" \in trouble => "cut" \in trouble'  BY <1>2
  <2>3. Holds(m)'  BY <1>2, <2>1, <2>2 DEF Holds
  <2>4. rres' # "ok"  BY <1>2, <1>3
  <2> QED  BY <2>1, <2>3, <2>4 DEF FileInv
<1>7. CASE ~Stale
  <2>1. /\ spc = "reply" /\ replies = <<>> /\ file = AsSent(a)
        /\ stream = FrameOf(k, a, b) /\ stream[1].kind = "head"
    BY <1>0, <1>2, <1>3, <1>7 DEF LineInv, FrameOf, Whole, Stale
  <2>2. /\ sindex = k /\ k < Count /\ ReadSize > 0
    BY <1>0, <1>2, <2>1 DEF TurnInv, PosInv
  <2>3. k + 1 = Count => LastSize # 0
    <3>1. k + 1 = Count => ReadSize = LastSize  BY <2>2 DEF ReadSize, LastFrame
    <3> QED  BY <2>2, <3>1, SMT
  <2>4. a \in Nat /\ b \in Nat /\ a <= b  BY <1>3, <2>2, FrameEnds
  <2> HIDE DEF k, a, b
  <2>5. IsCut(stream, k, a, b, n)
    <3>1. IsFrame(stream, k, a, b)  BY <1>3, <2>1, <2>4, FrameAre
    <3> QED  BY <1>3, <2>4, <3>1, FrameIsCut
  <2>6. /\ chunk[1] = [kind |-> "head", at |-> k] /\ Len(chunk) = n
        /\ chunk[n].kind = "head" <=> n < 2
        /\ ~(n < 2) => got' = Sent(a, a + (n - 2)) /\ a + (n - 2) \in a .. b
        /\ n = Len(stream) => ~(n < 2) /\ a + (n - 2) = b
        /\ n < Len(stream) => Stale'
    BY <1>2, <2>5 DEF IsCut, chunk, Stale
  <2>7. frame'.sizes \in {"file", "cut"} /\ (~(n < 2) => frame' = Header(k, "file"))
    <3>1. HeadLen = 2  BY DEF HeadLen
    <3>2. ~(n < 2) => ~(Len(chunk) < HeadLen) /\ Len(chunk) >= HeadLen
      BY <1>3, <2>6, <3>1, SMT
    <3> QED  BY <1>2, <2>6, <3>2 DEF Overwrite, Header
  <2>8. CASE n < 2
    <3>1. "cut" \in trouble' /\ rpc' = "less"  BY <1>2, <2>6, <2>8
    <3>2. n < Len(stream)  BY <1>3, <2>6, <2>8, SMT
    <3>3. CutHere'
      BY <1>2, <2>1, <2>6, <2>7, <3>1, <3>2 DEF CutHere, a, k
    <3>4. CheckInv'  BY <3>1, <3>3 DEF CheckInv
    <3> QED  BY <1>5, <1>6, <3>4 DEF SoundInv
  <2>9. CASE ~(n < 2)
    <3> DEFINE e == a + (n - 2)
    <3>1. e \in Nat /\ a <= e /\ e <= b /\ got' = Sent(a, e)  BY <2>4, <2>6, <2>9, SMT
    <3>2. n # Len(stream) => n < Len(stream)  BY <1>3, SMT
    <3>3. trouble' = {} \/ stream' = <<>> => e = b
      <4>1. n < Len(stream) => "short" \in trouble' /\ stream' # <<>>
        BY <1>2, <2>6 DEF Stale
      <4> QED  BY <2>6, <3>2, <4>1
    <3>4. stream' # <<>> => Stale'
      <4>1. n = Len(stream) => stream' = <<>>
        <5>1. Len(stream) \in Int /\ n + 1 \in Int /\ (n = Len(stream) => Len(stream) < n + 1)
          BY <1>3, SMT
        <5>2. n = Len(stream) => SubSeq(stream, n + 1, Len(stream)) = <<>>
          BY <5>1, SubSeqEmpty
        <5> QED  BY <1>2, <5>2
      <4> QED  BY <2>6, <3>2, <4>1
    <3> HIDE DEF e
    <3>5. FrameHere'
      BY <1>2, <2>1, <2>2, <2>3, <2>7, <2>9, <3>1, <3>3, <3>4 DEF FrameHere, a, b, k
    <3>6. CheckInv'  BY <1>2, <2>9, <3>5 DEF CheckInv
    <3> QED  BY <1>5, <1>6, <3>6 DEF SoundInv
  <2> QED  BY <2>8, <2>9
<1>8. CASE Stale
  <2>1. k > 0  BY <1>0, <1>2, <1>8 DEF LineInv
  <2>2. chunk[1].kind # "head"  BY <1>4, <1>8 DEF Stale
  <2>3. frame'.sizes = "junk"  BY <1>2, <2>2 DEF Overwrite, Header
  <2>4. Unfit'  BY <1>2, <2>1, <2>3 DEF Unfit
  <2>5. CheckInv'  BY <2>4 DEF CheckInv
  <2> QED  BY <1>5, <1>6, <2>5 DEF SoundInv
<1> QED  BY <1>7, <1>8

\* When the receiver is done, only what it has written counts.
LEMMA DoneIsSound ==
    ASSUME FileInv', rpc' = "done"
    PROVE  SoundInv'
<1>1. TurnInv' /\ LineInv' /\ RspInv' /\ CheckInv'
  BY DEF TurnInv, LineInv, RspInv, CheckInv
<1> QED  BY <1>1 DEF SoundInv

\* The receiver gives up, or the connection breaks: nothing is written.
LEMMA OthersKeepSound ==
    ASSUME WholeInv, Sound,
           RecvClosed \/ RecvFails \/ RefuseSize \/ RefuseIndex \/ Break
    PROVE  SoundInv'
<1>0. TypeInv /\ PosInv /\ TurnInv /\ LineInv /\ RspInv /\ CheckInv /\ FileInv
  BY DEF WholeInv, SoundInv
<1>1. CASE RecvClosed
  <2>1. /\ rpc = "recv" /\ rpc' = "less" /\ ~broken /\ spc = "done" /\ stream = <<>>
        /\ UNCHANGED <<size, spc, sindex, stream, replies, frame, rsp, file, rres, broken,
                       trouble>>
        /\ UNCHANGED <<Count, LastSize>>
    BY <1>1, FramesStay DEF RecvClosed, RecvClosedTo, senderVars
  <2>2. rsp.index > 0 /\ frame.index + 1 = rsp.index  BY <1>0, <2>1 DEF TurnInv, RspInv
  <2>3. Unfit'  BY <2>1, <2>2 DEF Unfit
  <2>4. TurnInv' /\ LineInv' /\ RspInv' /\ FileInv' /\ CheckInv'
    BY <1>0, <2>1, <2>3 DEF TurnInv, LineInv, RspInv, FileInv, Holds, CheckInv
  <2> QED  BY <2>4 DEF SoundInv
<1>2. CASE RecvFails \/ RefuseSize \/ RefuseIndex
  <2>1. rpc' = "done" /\ rres' = "failed" /\ UNCHANGED <<file, trouble, size, rsp.index>>
    BY <1>0, <1>2, IndexType
    DEF RecvFails, RefuseSize, RefuseIndex, RefuseIf, ReceiverEnds
  <2>2. rres # "killed"  BY <1>0, <1>2 DEF RecvFails, RefuseSize, RefuseIndex, RefuseIf, TypeInv
  <2>3. FileInv'  BY <1>0, <2>1, <2>2 DEF FileInv, Holds
  <2> QED  BY <2>1, <2>3, DoneIsSound
<1>3. CASE Break
  <2>1. /\ broken' /\ UNCHANGED <<size, spc, sindex, rpc, frame, got, rsp, file, rres, trouble>>
        /\ UNCHANGED <<Count, LastSize, FrameEnd(rsp.index)>>
    BY <1>3, FramesStay DEF Break, senderVars, receiverVars
  <2>2. Unfit => Unfit'  BY <2>1 DEF Unfit
  <2>3. CutHere => CutHere'  BY <2>1 DEF CutHere
  <2>4. FrameHere => FrameHere'
    <3> SUFFICES ASSUME FrameHere PROVE FrameHere'
      OBVIOUS
    <3>1. PICK e \in Nat :
            /\ rsp.index * Stride <= e /\ e <= FrameEnd(rsp.index)
            /\ got = Sent(rsp.index * Stride, e)
            /\ trouble = {} => e = FrameEnd(rsp.index)
      BY DEF FrameHere
    <3> QED  BY <2>1, <3>1 DEF FrameHere
  <2>5. CheckInv'  BY <1>0, <2>1, <2>2, <2>3, <2>4 DEF CheckInv
  <2>6. TurnInv' /\ LineInv' /\ RspInv' /\ FileInv'
    BY <1>0, <2>1 DEF TurnInv, LineInv, RspInv, FileInv, Holds
  <2> QED  BY <2>5, <2>6 DEF SoundInv
<1> QED  BY <1>1, <1>2, <1>3

\* What passes the comparison is the frame that follows those written, or the
\* beginning of its header.
LEMMA AcceptedIsNext ==
    ASSUME WholeInv, Sound, rpc \in {"check", "less"}, frame = Expected
    PROVE  /\ rpc = "check" => FrameHere
           /\ rpc = "less" => CutHere
           /\ frame.index = rsp.index
<1>0. /\ TypeInv /\ RspInv /\ CheckInv
      /\ rsp.index \in Nat /\ frame.index \in Nat /\ Expected.index = rsp.index
  BY IndexType DEF WholeInv, SoundInv
<1>1. frame.index = rsp.index  BY <1>0
<1>2. ~Unfit
  <2> SUFFICES ASSUME Unfit PROVE FALSE
    OBVIOUS
  <2>1. rsp.index > 0 /\ frame.index + 1 # rsp.index /\ frame.sizes = "junk"
    BY <1>0, <1>1, SMT DEF Unfit
  <2>2. rsp.sizes \in {"file", "cut"}  BY <1>0, <2>1 DEF RspInv
  <2>3. frame.index # 0  BY <1>0, <1>1, <2>1, SMT
  <2>4. Expected = rsp  BY <2>3 DEF Expected
  <2> QED  BY <2>1, <2>2, <2>4
<1> QED  BY <1>0, <1>1, <1>2 DEF CheckInv

\* What is written joins what was: of a whole frame, the bytes up to its end.
LEMMA WrittenJoins ==
    ASSUME WholeInv, Sound, Sound', Written, frame = Expected
    PROVE  /\ trouble' = trouble
           /\ \E n \in Nat :
                 /\ rsp.index * Stride <= n
                 /\ \/ file' = AsSent(n)
                    \/ "cut" \in trouble /\ file' = AsSent(n) \o Pads(1)
           /\ trouble = {} \/ (~broken /\ ~Stale) => file' = AsSent(FrameEnd(rsp.index))
           /\ trouble = {} => rpc = "check"
<1>0. TypeInv /\ rpc \in {"check", "less"}
  BY WrittenKeeps DEF WholeInv
<1>1. rpc = "check" => FrameHere
  BY <1>0, AcceptedIsNext
<1>2. rpc = "less" => CutHere
  BY <1>0, AcceptedIsNext
<1>3. /\ rsp.index \in Nat /\ rsp.index * Stride \in Nat /\ size \in Nat
      /\ rsp.index * Stride <= rsp.index * Stride
  BY <1>0, IndexType, MoreStrides, SMT DEF TypeInv, SenderTypes
<1>4. CASE rpc = "check"
  <2>1. FrameHere  BY <1>1, <1>4
  <2> DEFINE a == rsp.index * Stride
             b == FrameEnd(rsp.index)
  <2>2. PICK e \in Nat :
          /\ a <= e /\ e <= b /\ got = Sent(a, e)
          /\ trouble = {} \/ (~broken /\ stream = <<>>) => e = b
    BY <2>1 DEF FrameHere
  <2>3. file' = file \o got /\ trouble' = trouble
    <3>1. "lost" \notin trouble'  BY DEF Sound
    <3> QED  BY <1>4, <3>1 DEF Written, WrittenAs
  <2>4. file = AsSent(a) /\ (~broken /\ ~Stale => stream = <<>>)
    BY <2>1 DEF FrameHere
  <2>5. a \in Nat  BY <1>3
  <2> HIDE DEF a, b
  <2>6. AsSent(a) = Sent(0, a) /\ AsSent(e) = Sent(0, e) /\ 0 \in Nat /\ 0 <= a
    BY <2>5, AsSentIs, SMT
  <2>7. Sent(0, a) \o Sent(a, e) = Sent(0, e)
    BY <2>2, <2>5, <2>6, SentJoin
  <2>8. file' = AsSent(e)  BY <2>2, <2>3, <2>4, <2>6, <2>7
  <2> QED  BY <1>4, <2>2, <2>3, <2>4, <2>8 DEF a, b
<1>5. CASE rpc = "less"
  <2>1. CutHere  BY <1>2, <1>5
  <2>2. file' \in {file, file \o Pads(1)} /\ trouble' = trouble
    BY <1>5 DEF Written, WrittenAs
  <2>3. file = AsSent(rsp.index * Stride) /\ "cut" \in trouble /\ (~broken => Stale)
    BY <2>1 DEF CutHere
  <2> QED  BY <1>3, <2>2, <2>3
<1> QED  BY <1>0, <1>4, <1>5

LEMMA AcceptKeepsSound ==
    ASSUME WholeInv, Sound, Sound', Accept \/ AcceptFails
    PROVE  SoundInv'
<1>0. TypeInv /\ PosInv /\ TurnInv /\ LineInv /\ RspInv /\ CheckInv /\ FileInv
  BY DEF WholeInv, SoundInv
<1>1. Written /\ frame = Expected /\ rpc \in {"check", "less"}
  BY <1>0, WrittenKeeps DEF Accept, AcceptCounted, AcceptFails
<1>2. /\ rpc = "check" => FrameHere
      /\ rpc = "less" => CutHere
      /\ frame.index = rsp.index
  BY <1>1, AcceptedIsNext
<1>3. PICK n \in Nat :
        /\ rsp.index * Stride <= n
        /\ \/ file' = AsSent(n)
           \/ "cut" \in trouble /\ file' = AsSent(n) \o Pads(1)
  BY <1>1, WrittenJoins
<1>4. /\ trouble' = trouble
      /\ trouble = {} \/ (~broken /\ ~Stale) => file' = AsSent(FrameEnd(rsp.index))
      /\ trouble = {} => rpc = "check"
  BY <1>1, WrittenJoins
<1>5. /\ size \in Nat /\ Count \in Nat /\ rsp.index \in Nat
      /\ rres = "none" /\ Expected.index = rsp.index
      /\ rsp.index * Stride \in Nat /\ (rsp.index + 1) - 1 = rsp.index
  <2>1. size \in Nat /\ rres = "none"
    BY <1>0, <1>1 DEF TypeInv, SenderTypes, ReceiverTypes
  <2>2. rsp.index \in Nat /\ Expected.index = rsp.index  BY <1>0, IndexType
  <2>3. rsp.index * Stride \in Nat
    <3>1. rsp.index <= rsp.index  BY <2>2, SMT
    <3> QED  BY <2>2, <3>1, MoreStrides
  <2>4. Count \in Nat  BY <2>1, FrameArithmetic
  <2>5. (rsp.index + 1) - 1 = rsp.index  BY <2>2, SMT
  <2> QED  BY <2>1, <2>2, <2>3, <2>4, <2>5
<1>6. UNCHANGED <<size, spc, sindex, stream, frame, got, broken, Count, LastSize>>
  BY DEF Accept, AcceptCounted, AcceptFails, senderVars, Count, LastSize
<1>7. rsp'.index \in {rsp.index, rsp.index + 1}
  <2>1. CASE AcceptFails  BY <1>5, <2>1 DEF AcceptFails
  <2>2. CASE Accept
    <3>1. rsp' = [Expected EXCEPT !.index = Expected.index + 1]
      BY <2>2 DEF Accept, AcceptCounted
    <3>2. Expected \in AnyHeader  BY <1>0, ExpectedType
    <3> QED  BY <1>5, <3>1, <3>2 DEF AnyHeader
  <2> QED  BY <2>1, <2>2
<1>8. Holds(n)'
  <2>1. rsp'.index = 0 \/ (rsp'.index - 1) * Stride <= n
    <3>1. CASE rsp'.index = rsp.index + 1
      <4>1. rsp'.index - 1 = rsp.index  BY <1>5, <3>1
      <4> QED  BY <1>3, <4>1
    <3>2. CASE rsp'.index = rsp.index /\ rsp.index # 0
      <4> DEFINE j == rsp.index - 1
      <4>1. j \in Nat /\ j <= rsp.index  BY <1>5, <3>2, SMT
      <4> HIDE DEF j
      <4>2. j * Stride \in Nat /\ j * Stride <= rsp.index * Stride
        BY <1>5, <4>1, MoreStrides
      <4>3. j * Stride <= n  BY <1>3, <1>5, <4>2, SMT
      <4> QED  BY <3>2, <4>3 DEF j
    <3> QED  BY <1>7, <3>1, <3>2
  <2> QED  BY <1>3, <1>4, <2>1 DEF Holds
<1>9. CASE rpc' = "done" /\ (rres' = "ok" /\ trouble = {} => rsp.index + 1 = Count)
  <2>1. rres' = "ok" /\ trouble' = {} => file' = AsSent(size' + (Count' - 1) * Padding)
    <3> SUFFICES ASSUME rres' = "ok", trouble = {}
                 PROVE  file' = AsSent(size + (Count - 1) * Padding)
      BY <1>4, <1>6
    <3>1. rsp.index + 1 = Count /\ rsp.index < Count /\ LastSize # 0
      BY <1>2, <1>4, <1>9 DEF FrameHere
    <3>2. FrameEnd(rsp.index) = size + (Count - 1) * Padding
      BY <1>5, <3>1, FrameEnds
    <3> QED  BY <1>4, <3>2
  <2>2. FileInv'  BY <1>8, <2>1 DEF FileInv
  <2> QED  BY <1>9, <2>2, DoneIsSound
<1>10. CASE /\ Accept /\ rpc' = "recv" /\ rres' = rres
            /\ ~broken /\ ~Stale => rsp.index + 1 # Count
  <2>1. rsp' = Header(rsp.index + 1, Expected.sizes) /\ Reply("ok")
    <3>1. rsp' = [Expected EXCEPT !.index = Expected.index + 1] /\ Reply("ok")
      BY <1>10 DEF Accept, AcceptCounted
    <3>2. Expected \in AnyHeader  BY <1>0, ExpectedType
    <3> QED  BY <1>5, <3>1, <3>2 DEF Header, AnyHeader
  <2>2. rsp'.index = rsp.index + 1 /\ rsp'.sizes = frame.sizes /\ rsp'.index > 0
    BY <1>1, <1>5, <2>1, SMT DEF Header
  <2>3. frame.sizes \in {"file", "cut"}
    BY <1>1, <1>2 DEF FrameHere, CutHere, Header
  <2>4. FileInv'  BY <1>5, <1>8, <1>10 DEF FileInv
  <2>5. CheckInv'  BY <1>10 DEF CheckInv
  <2>6. RspInv'  BY <1>2, <1>6, <2>2, <2>3 DEF RspInv
  <2>7. ASSUME ~broken
        PROVE  /\ spc = "reply" /\ replies = <<>> /\ sindex = rsp.index
               /\ stream # <<>> => Stale
    <3>1. spc = "reply" /\ replies = <<>> /\ (stream # <<>> => Stale)
      BY <1>1, <1>2, <2>7 DEF FrameHere, CutHere, Stale
    <3>2. spc = "reply" /\ replies = <<>> => sindex = rsp.index
      BY <1>0, <1>1, <2>7 DEF TurnInv, TypeInv, SenderTypes
    <3> QED  BY <3>1, <3>2
  <2>8. LineInv'
    <3> SUFFICES ASSUME ~broken PROVE LineInv'
      BY <1>6 DEF LineInv
    <3>1. Stale' = Stale  BY <1>6 DEF Stale
    <3>2. ~Stale => file' = AsSent(rsp'.index * Stride)
      <4> SUFFICES ASSUME ~Stale PROVE file' = AsSent(rsp'.index * Stride)
        OBVIOUS
      <4>1. rpc = "check" /\ rsp.index < Count
        BY <1>1, <1>2 DEF CutHere, FrameHere
      <4>2. FrameEnd(rsp.index) = (rsp.index + 1) * Stride
        BY <1>5, <1>10, <4>1, FrameEnds
      <4> QED  BY <1>4, <2>2, <4>2
    <3> QED  BY <1>6, <2>2, <2>7, <3>1, <3>2 DEF LineInv
  <2>9. TurnInv'
    <3> SUFFICES ASSUME ~broken PROVE TurnInv'
      BY <1>6 DEF TurnInv
    <3> DEFINE e == [header |-> Header(sindex, frame.sizes), code |-> "ok"]
    <3>1. [header |-> Expected, code |-> "ok"] = e
      <4>1. Expected = Header(sindex, frame.sizes)
        <5>1. Expected \in AnyHeader  BY <1>0, ExpectedType
        <5>2. Expected.index = sindex /\ Expected.sizes = frame.sizes  BY <1>1, <1>5, <2>7
        <5> QED  BY <5>1, <5>2 DEF Header, AnyHeader
      <4> QED  BY <4>1
    <3> HIDE DEF e
    <3>2. replies' = Append(<<>>, e)  BY <2>1, <2>7, <3>1 DEF Reply
    <3>3. replies' = <<e>>  BY <3>2, SMT
    <3>4. replies' = <<[header |-> Header(sindex, frame.sizes), code |-> "ok"]>>
      BY <3>3 DEF e
    <3>5. sindex' = sindex /\ sindex' + 1 = rsp'.index  BY <1>6, <2>2, <2>7
    <3> QED  BY <1>6, <2>7, <3>4, <3>5 DEF TurnInv
  <2> QED  BY <2>4, <2>5, <2>6, <2>8, <2>9 DEF SoundInv
<1>11. \/ rpc' = "done" /\ (rres' = "ok" /\ trouble = {} => rsp.index + 1 = Count)
       \/ /\ Accept /\ rpc' = "recv" /\ rres' = rres
          /\ ~broken /\ ~Stale => rsp.index + 1 # Count
  <2>1. CASE AcceptFails  BY <2>1 DEF AcceptFails, ReceiverEnds
  <2>2. CASE Accept
    <3>1. PICK c \in CountsOf(frame.sizes) :
            IF Expected.index + 1 = c
              THEN rpc' = "done" /\ rres' = "ok"
              ELSE rpc' = "recv" /\ rres' = rres
      BY <2>2 DEF Accept, AcceptCounted, ReceiverEnds
    <3>2. rpc = "check" => c = Count
      <4>1. rpc = "check" => frame.sizes = "file"  BY <1>2 DEF FrameHere, Header
      <4>2. frame.sizes = "file" => c = Count  BY <3>1 DEF CountsOf
      <4> QED  BY <4>1, <4>2
    <3>3. ~broken /\ ~Stale => rpc = "check"  BY <1>1, <1>2 DEF CutHere
    <3> QED  BY <1>4, <1>5, <2>2, <3>1, <3>2, <3>3
  <2> QED  BY <2>1, <2>2
<1> QED  BY <1>9, <1>10, <1>11

\* What a killed receiver leaves is the beginning of what it wrote.
LEMMA KilledKeepsSound ==
    ASSUME WholeInv, Sound, ReceiverKilled
    PROVE  SoundInv'
<1>0. TypeInv /\ FileInv /\ file \in Seq(Atom) /\ Len(file) \in Nat
  BY LenProperties DEF WholeInv, SoundInv, TypeInv, ReceiverTypes
<1>1. /\ rpc' = "done" /\ rres' = "killed"
      /\ UNCHANGED <<size, rsp, trouble>>
      /\ \E m \in 0 .. Len(file) : file' = SubSeq(file, 1, m)
  BY DEF ReceiverKilled, ReceiverEnds
<1>2. PICK m \in 0 .. Len(file) : file' = SubSeq(file, 1, m)  BY <1>1
<1>3. PICK n \in Nat : Holds(n)  BY <1>0 DEF FileInv
<1>4. m \in Nat /\ m <= Len(file)  BY <1>0, SMT
<1>5. \E i \in Nat : Holds(i)'
  <2>1. CASE file = AsSent(n)
    <3>1. m <= n  BY <1>4, <2>1, AsSentIs
    <3>2. file' = AsSent(m)  BY <1>2, <1>4, <2>1, <3>1, PrefixOfSent
    <3> QED  BY <1>1, <1>4, <3>2 DEF Holds
  <2>2. CASE "cut" \in trouble /\ file = AsSent(n) \o Pads(1)
    <3> DEFINE s == AsSent(n)
               t == Pads(1)
    <3>1. /\ s \in Seq(Atom) /\ Len(s) = n /\ t \in Seq(Atom) /\ Len(t) = 1
      BY AsSentIs, PadsAreASeq
    <3>2. file = s \o t  BY <2>2
    <3> HIDE DEF s, t
    <3>3. /\ Len(s \o t) = Len(s) + Len(t)
          /\ \A i \in 1 .. Len(s) + Len(t) :
                (s \o t)[i] = IF i <= Len(s) THEN s[i] ELSE t[i - Len(s)]
      BY <3>1, ConcatProperties
    <3>4. Len(file) = n + 1 /\ \A i \in 1 .. n : i \in 1 .. n + 1 /\ i <= n
      BY <3>1, <3>2, <3>3, SMT
    <3>5. \A i \in 1 .. n : file[i] = s[i]  BY <3>1, <3>2, <3>3, <3>4
    <3>6. CASE m <= n
      <4>1. /\ file' \in Seq(Atom) /\ Len(file') = IF 1 <= m THEN m - 1 + 1 ELSE 0
            /\ \A i \in 1 .. m - 1 + 1 : file'[i] = file[1 + i - 1]
        <5>1. 1 \in Nat \ {0}  OBVIOUS
        <5>2. /\ SubSeq(file, 1, m) \in Seq(Atom)
              /\ Len(SubSeq(file, 1, m)) = IF 1 <= m THEN m - 1 + 1 ELSE 0
              /\ \A i \in 1 .. m - 1 + 1 : SubSeq(file, 1, m)[i] = file[1 + i - 1]
          BY <1>0, <1>4, <5>1, PartIsASeq
        <5> QED  BY <1>2, <5>2
      <4>2. Len(file') = m /\ m - 1 + 1 = m  BY <1>4, <4>1, SMT
      <4>3. \A i \in 1 .. m : i \in 1 .. n /\ 1 + i - 1 = i  BY <1>4, <3>6, SMT
      <4>4. /\ AsSent(m) \in Seq(Atom) /\ Len(AsSent(m)) = m
            /\ \A i \in 1 .. m : AsSent(m)[i] = [kind |-> "byte", at |-> ByteAt(i)]
        BY <1>4, AsSentIs
      <4>5. \A i \in 1 .. n : s[i] = [kind |-> "byte", at |-> ByteAt(i)]
        BY AsSentIs DEF s
      <4>6. \A i \in 1 .. m : file'[i] = AsSent(m)[i]
        BY <3>5, <4>1, <4>2, <4>3, <4>4, <4>5
      <4>7. file' = AsSent(m)  BY <4>1, <4>2, <4>4, <4>6, SeqEqual
      <4> QED  BY <1>1, <1>4, <4>7 DEF Holds
    <3>7. CASE ~(m <= n)
      <4>1. m = Len(file)  BY <1>4, <3>4, <3>7, SMT
      <4>2. file' = file
        <5>1. SubSeq(file, 1, Len(file)) = file  BY <1>0, SubSeqFull
        <5> QED  BY <1>2, <4>1, <5>1
      <4> QED  BY <1>1, <2>2, <4>2 DEF Holds
    <3> QED  BY <3>6, <3>7
  <2> QED  BY <1>3, <2>1, <2>2 DEF Holds
<1>6. FileInv'  BY <1>1, <1>5 DEF FileInv
<1> QED  BY <1>1, <1>6, DoneIsSound

-------------------------------------------------------------------------------
(* Files of which nothing is sent *)

LEMMA NothingIsRead ==
    ASSUME TypeInv, size \in {0, FrameSize}, NothingInv
    PROVE  ~Send
<1>1. /\ size \in Nat /\ Count \in Nat /\ LastSize \in 0 .. FrameSize - 1
      /\ LastSize # 0 => Count # 0 /\ size = (Count - 1) * FrameSize + LastSize
      /\ LastSize = 0 => size = Count * FrameSize
      /\ sindex = 0 /\ pos = 0
  BY FrameArithmetic DEF TypeInv, SenderTypes, NothingInv
<1>2. size # 0 => Count # 0
  BY <1>1, SMT
<1>3. ReadSize = 0 \/ pos + ReadSize > size
  <2>1. CASE Count # 1
    <3>1. ReadSize = FrameSize  BY <1>1, <2>1, SMT DEF ReadSize, LastFrame
    <3>2. size = 0
      <4> SUFFICES ASSUME size = FrameSize, Count # 0 PROVE FALSE
        BY <1>2
      <4>1. 1 <= Count - 1 /\ Count - 1 \in Nat /\ 2 <= Count  BY <1>1, <2>1, SMT
      <4>2. /\ 1 * FrameSize <= (Count - 1) * FrameSize /\ (Count - 1) * FrameSize \in Nat
            /\ 2 * FrameSize <= Count * FrameSize /\ Count * FrameSize \in Nat
        BY <1>1, <4>1, MoreIsMore
      <4> QED  BY <1>1, <4>2, SMT
    <3> QED  BY <1>1, <3>1, <3>2, SMT
  <2>2. CASE Count = 1
    <3>1. ReadSize = LastSize  BY <1>1, <2>2, SMT DEF ReadSize, LastFrame
    <3> QED  BY <1>1, <2>2, <3>1, SMT
  <2> QED  BY <2>1, <2>2
<1>4. ReadSize \in Nat /\ pos \in Nat  BY ReadSizeType DEF TypeInv, SenderTypes
<1> QED  BY <1>1, <1>3, <1>4, SMT DEF Send

\* What passes the comparison of headers that were never set is the first.
LEMMA NothingAccepted ==
    ASSUME TypeInv, NothingInv, Written, frame = Expected
    PROVE  /\ file' \in {<<>>, Pads(1)} /\ rsp.index = 0
           /\ rpc = "less" /\ Expected = Header(0, "zero")
<1>1. rpc = "less" /\ frame = Header(0, "zero")
  BY WrittenKeeps DEF NothingInv
<1>2. rsp.index = 0  BY <1>1, IndexType DEF Header
<1>3. file = <<>> /\ file' \in {file, file \o Pads(1)}
  BY <1>1, <1>2 DEF NothingInv, Written, WrittenAs
<1>4. <<>> \o Pads(1) = Pads(1)
  <2> DEFINE s == Pads(1)
  <2>1. s \in Seq(Atom)  BY PadsAreASeq
  <2> HIDE DEF s
  <2>2. <<>> \o s = s  BY <2>1, ConcatEmptySeq
  <2> QED  BY <2>2 DEF s
<1> QED  BY <1>1, <1>2, <1>3, <1>4

LEMMA StepKeepsNothing ==
    ASSUME TypeInv, Next, size \in {0, FrameSize}, NothingInv
    PROVE  NothingInv'
<1>1. ~Send  BY NothingIsRead
<1>2. CASE SenderStep
  BY <1>1, <1>2
  DEF NothingInv, SenderStep, SendFails, SendEnd, Acknowledged, Acknowledge, Refused,
      Unanswered, SenderEnds, receiverVars
<1>3. CASE Accept
  <2>1. /\ file' \in {<<>>, Pads(1)} /\ Expected = Header(0, "zero")
        /\ frame = Expected /\ rsp' = [Expected EXCEPT !.index = Expected.index + 1]
    BY <1>3, NothingAccepted DEF Accept, AcceptCounted
  <2>2. Expected.index = 0 /\ frame.sizes = "zero"  BY <2>1 DEF Header
  <2>3. rsp'.sizes = "zero" /\ rsp'.index = 1  BY <2>1, <2>2, SMT DEF Header
  <2>4. rpc' = "recv" /\ rres' = rres
    <3>1. CountsOf(frame.sizes) = {0}  BY <2>2 DEF CountsOf
    <3>2. Expected.index + 1 # 0  BY <2>2, SMT
    <3> QED  BY <1>3, <3>1, <3>2 DEF Accept, AcceptCounted
  <2>5. UNCHANGED <<spc, sindex, pos, stream, frame>>
    BY <1>3 DEF Accept, AcceptCounted, senderVars
  <2> QED  BY <2>1, <2>3, <2>4, <2>5 DEF NothingInv
<1>4. CASE AcceptFails
  <2>1. file' \in {<<>>, Pads(1)} /\ Expected = Header(0, "zero") /\ rsp' = Expected
    BY <1>4, NothingAccepted DEF AcceptFails
  <2>2. rsp'.sizes = "zero"  BY <2>1 DEF Header
  <2> QED  BY <1>4, <2>1, <2>2 DEF AcceptFails, ReceiverEnds, NothingInv, senderVars
<1>5. CASE RefuseSize \/ RefuseIndex
  <2>1. rsp' = Expected  BY <1>5 DEF RefuseSize, RefuseIndex, RefuseIf
  <2>2. Expected.sizes = "zero"
    <3>1. rsp \in AnyHeader /\ frame.index = 0 /\ frame.sizes = "zero"
      BY DEF TypeInv, ReceiverTypes, NothingInv, Header
    <3> QED  BY <3>1 DEF Expected, AnyHeader
  <2> QED
    BY <1>5, <2>1, <2>2 DEF RefuseSize, RefuseIndex, RefuseIf, ReceiverEnds, NothingInv,
                            senderVars
<1>6. CASE ReceiverKilled
  <2>1. PICK n \in 0 .. Len(file) : file' = SubSeq(file, 1, n)  BY <1>6, SMTT(30) DEF ReceiverKilled
  <2>2. file' \in {<<>>, Pads(1)}
    <3> DEFINE s == Pads(1)
    <3>1. s \in Seq(Atom) /\ Len(s) = 1 /\ Len(<<>>) = 0
      BY PadsAreASeq, EmptySeq
    <3>2. file \in {<<>>, s}  BY DEF NothingInv
    <3>3. file \in Seq(Atom)  BY DEF TypeInv, ReceiverTypes
    <3> HIDE DEF s
    <3>4. n = 0 \/ n = Len(file)  BY <2>1, <3>1, <3>2, SMT
    <3>5. SubSeq(file, 1, Len(file)) = file  BY <3>3, SubSeqFull
    <3>6. SubSeq(file, 1, 0) = <<>>  BY <3>3, SubSeqEmpty, SMT
    <3> QED  BY <2>1, <3>2, <3>4, <3>5, <3>6 DEF s
  <2> QED  BY <1>6, <2>2, SMTT(30) DEF ReceiverKilled, ReceiverEnds, NothingInv, senderVars
<1>7. CASE RecvClosed \/ RecvFails \/ Break \/ Returned
  BY <1>7 DEF RecvClosed, RecvClosedTo, RecvFails, ReceiverEnds, Break, Returned,
              NothingInv, vars, senderVars, receiverVars
<1>8. ~Recv
  <2>1. Len(stream) = 0  BY EmptySeq DEF NothingInv
  <2> QED  BY <2>1, SMT DEF Recv
<1> QED  BY <1>2, <1>3, <1>4, <1>5, <1>6, <1>7, <1>8 DEF Next, ReceiverStep

-------------------------------------------------------------------------------
(* What is acknowledged *)

LEMMA ToldType == ASSUME TypeInv, NEW n, Told(n) PROVE n \in Nat
<1>1. PICK k \in DOMAIN replies : replies[k].header.index + 1 = n  BY DEF Told
<1>2. replies \in Seq(AnyReply) /\ k \in 1 .. Len(replies)
  BY LenProperties DEF TypeInv, LineTypes
<1>3. replies[k] \in AnyReply  BY <1>2, ElementOfSeq
<1>4. replies[k].header.index \in Nat  BY <1>3 DEF AnyReply, AnyHeader
<1> QED  BY <1>1, <1>4, SMT

\* The receiver never takes back what it has accepted.
LEMMA CountGrows ==
    ASSUME TypeInv, Next
    PROVE  /\ rsp'.index \in {rsp.index, rsp.index + 1}
           /\ Accept => rsp'.index = Expected.index + 1
<1>1. Expected \in AnyHeader /\ Expected.index = rsp.index  BY ExpectedType, IndexType
<1>2. ASSUME Accept PROVE rsp'.index = Expected.index + 1
  <2>1. rsp' = [Expected EXCEPT !.index = Expected.index + 1]
    BY <1>2 DEF Accept, AcceptCounted
  <2> QED  BY <1>1, <2>1 DEF AnyHeader
<1>3. CASE rsp' = Expected  BY <1>1, <1>2, <1>3
<1>4. CASE rsp' = rsp  BY <1>1, <1>2, <1>4
<1>5. Accept \/ rsp' = Expected \/ rsp' = rsp
  BY DEF Next, SenderStep, Send, SendFails, SendEnd, Acknowledged, Acknowledge, Refused,
         Unanswered, ReceiverStep, Recv, RecvSome, RecvClosed, RecvClosedTo, RecvFails,
         RefuseSize, RefuseIndex, RefuseIf, AcceptFails, ReceiverKilled, Break, Returned,
         vars, receiverVars
<1> QED  BY <1>1, <1>2, <1>3, <1>4, <1>5

LEMMA StepKeepsCount ==
    ASSUME TypeInv, Next, CountInv
    PROVE  CountInv'
<1>1. /\ rsp'.index \in {rsp.index, rsp.index + 1}
      /\ Accept => rsp'.index = Expected.index + 1
      /\ rsp.index \in Nat /\ sindex \in Nat
  BY CountGrows, IndexType DEF TypeInv, SenderTypes
<1>2. ASSUME NEW n, Told(n)' PROVE n <= rsp'.index
  <2>1. CASE Told(n)
    <3>1. n \in Nat /\ n <= rsp.index  BY <2>1, ToldType DEF CountInv
    <3> QED  BY <1>1, <3>1, SMT
  <2>2. CASE Accept /\ Expected.index + 1 = n
    <3>1. Expected.index \in Nat  BY <1>1, IndexType
    <3> QED  BY <1>1, <2>2, <3>1, SMT
  <2> QED  BY <1>2, <2>1, <2>2, StepTells
<1>3. sindex' <= rsp'.index
  <2>1. CASE sindex' = sindex
    <3>1. sindex <= rsp.index  BY DEF CountInv
    <3> QED  BY <1>1, <2>1, <3>1, SMT
  <2>2. CASE Acknowledged
    <3>1. sindex' = sindex + 1 /\ sindex + 1 <= rsp.index
      BY <2>2, AcceptedTells DEF Acknowledged, Acknowledge, CountInv
    <3> QED  BY <1>1, <3>1, SMT
  <2> QED
    BY <2>1, <2>2, SenderStays
    DEF Next, SenderStep, Send, SendFails, SendEnd, Refused, Unanswered, Returned, vars,
        senderVars
<1> QED  BY <1>2, <1>3 DEF CountInv

-------------------------------------------------------------------------------
(* The theorems *)

LEMMA InitIsWhole == Init => WholeInv
<1> SUFFICES ASSUME Init PROVE WholeInv
  OBVIOUS
<1>1. TypeInv  BY InitTypes
<1>2. /\ sindex = 0 /\ pos = 0 /\ spc = "read" /\ size \in Nat /\ stream = <<>>
      /\ replies = <<>> /\ rpc = "recv" /\ file = <<>> /\ rres = "none"
      /\ rsp = Header(0, "zero") /\ frame = Header(0, "zero")
  BY DEF Init
<1>3. Count \in Nat /\ (Count = 0 => size = 0)  BY <1>2, FrameArithmetic, SMT
<1>4. PosInv
  <2>1. Sum(0) = 0  BY <1>3, SMT DEF Sum
  <2> QED  BY <1>2, <1>3, <2>1, SMT DEF PosInv
<1>5. rsp.index = 0 /\ ~(rsp.index > 0) /\ rsp.sizes = "zero"
  BY <1>2, SMT DEF Header
<1>6. CountInv
  <2>1. DOMAIN replies = {}  BY <1>2
  <2>2. sindex <= rsp.index  BY <1>2, <1>5, SMT
  <2> QED  BY <2>1, <2>2 DEF CountInv, Told
<1>7. file = AsSent(0) /\ 0 * Stride = 0 /\ 0 \in Nat
  <2>1. 0 \in Nat  OBVIOUS
  <2>2. AsSent(0) \in Seq(Atom) /\ Len(AsSent(0)) = 0  BY <2>1, AsSentIs
  <2>3. AsSent(0) = <<>>  BY <2>2, EmptySeq
  <2>4. 0 * Stride = 0  BY StrideType, SMT
  <2> QED  BY <1>2, <2>1, <2>3, <2>4
<1>8. TurnInv /\ RspInv /\ CheckInv
  BY <1>2, <1>5 DEF TurnInv, RspInv, CheckInv
<1>9. LineInv  BY <1>2, <1>5, <1>7 DEF LineInv, Stale
<1>10. FileInv
  <2>1. Holds(0)  BY <1>5, <1>7 DEF Holds
  <2> QED  BY <1>2, <1>7, <2>1 DEF FileInv
<1>11. NothingInv  BY <1>2, <1>5 DEF NothingInv
<1> QED  BY <1>1, <1>4, <1>6, <1>8, <1>9, <1>10, <1>11 DEF WholeInv, SoundInv

LEMMA StutterIsWhole ==
    ASSUME WholeInv, UNCHANGED vars
    PROVE  WholeInv'
<1> USE DEF vars, senderVars, receiverVars
<1>1. UNCHANGED <<size, Count, LastSize, ReadSize, FrameEnd(rsp.index), Sum(sindex),
                  Sum(sindex + 1), Stale>>
  BY DEF Count, LastSize, ReadSize, LastFrame, FrameEnd, Sum, Stale
<1>2. TypeInv'  BY DEF WholeInv, TypeInv, SenderTypes, ReceiverTypes, LineTypes
<1>3. PosInv'  BY <1>1 DEF WholeInv, PosInv
<1>4. CountInv'  BY DEF WholeInv, CountInv, Told
<1>5. ASSUME Sound' PROVE SoundInv'
  <2>1. Sound  BY <1>5 DEF Sound
  <2>2. TurnInv' /\ RspInv'  BY <2>1 DEF WholeInv, SoundInv, TurnInv, RspInv
  <2>3. LineInv'
    BY <1>1, <2>1 DEF WholeInv, SoundInv, LineInv, HeadOf, Whole, Sent
  <2>4. CheckInv'
    <3>1. Unfit => Unfit'  BY DEF Unfit
    <3>2. CutHere => CutHere'  BY <1>1 DEF CutHere
    <3>3. FrameHere => FrameHere'  BY <1>1 DEF FrameHere
    <3> QED  BY <2>1, <3>1, <3>2, <3>3 DEF WholeInv, SoundInv, CheckInv
  <2>5. FileInv'  BY <1>1, <2>1 DEF WholeInv, SoundInv, FileInv, Holds
  <2> QED  BY <2>2, <2>3, <2>4, <2>5 DEF SoundInv
<1>6. size' \in {0, FrameSize} => NothingInv'  BY DEF WholeInv, NothingInv
<1> QED  BY <1>2, <1>3, <1>4, <1>5, <1>6 DEF WholeInv

LEMMA WholeAlways == Spec => []WholeInv
<1>1. WholeInv /\ UNCHANGED vars => WholeInv'
  BY StutterIsWhole
<1>2. WholeInv /\ Next => WholeInv'
  <2> SUFFICES ASSUME WholeInv, Next PROVE WholeInv'
    OBVIOUS
  <2>1. TypeInv' /\ PosInv' /\ CountInv'
    BY StepKeepsTypes, StepKeepsPos, StepKeepsCount DEF WholeInv
  <2>2. CASE Returned  BY <1>1, <2>2 DEF Returned
  <2>3. ASSUME Sound', ~Returned PROVE SoundInv'
    <3>1. size' = size  BY SizeStays
    <3>2. trouble \subseteq trouble'
      <4>1. CASE Written  BY <4>1, WrittenKeeps DEF WholeInv
      <4>2. CASE ~Written
        BY <2>3, <4>2
        DEF Next, SenderStep, Send, SendFails, SendEnd, Acknowledged, Acknowledge, Refused,
            Unanswered, ReceiverStep, Recv, RecvSome, RecvClosed, RecvClosedTo, RecvFails,
            RefuseSize, RefuseIndex, RefuseIf, Accept, AcceptCounted, AcceptFails,
            ReceiverKilled, Break
      <4> QED  BY <4>1, <4>2
    <3>3. Sound  BY <2>3, <3>1, <3>2 DEF Sound
    <3> QED
      BY <2>3, <3>3, SendKeepsSound, EndKeepsSound, AcknowledgedKeepsSound, RecvKeepsSound,
         OthersKeepSound, AcceptKeepsSound, KilledKeepsSound
      DEF Next, SenderStep, ReceiverStep
  <2>4. ASSUME size' \in {0, FrameSize} PROVE NothingInv'
    <3>1. size' = size  BY SizeStays
    <3> QED  BY <2>4, <3>1, StepKeepsNothing DEF WholeInv
  <2> QED  BY <2>1, <2>2, <2>3, <2>4 DEF WholeInv
<1> QED  BY <1>2, <1>1, InitIsWhole, PTL DEF Spec

\* One more byte at the end.
LEMMA OneMore ==
    ASSUME NEW n \in Nat
    PROVE  /\ Len(AsSent(n) \o Pads(1)) = n + 1
           /\ \A i \in 1 .. n : (AsSent(n) \o Pads(1))[i] = AsSent(n)[i]
<1> DEFINE s == AsSent(n)
           t == Pads(1)
<1>1. s \in Seq(Atom) /\ Len(s) = n /\ t \in Seq(Atom) /\ Len(t) = 1
  BY AsSentIs, PadsAreASeq
<1> HIDE DEF s, t
<1>2. /\ Len(s \o t) = Len(s) + Len(t)
      /\ \A i \in 1 .. Len(s) + Len(t) :
            (s \o t)[i] = IF i <= Len(s) THEN s[i] ELSE t[i - Len(s)]
  BY <1>1, ConcatProperties
<1>3. Len(s) + Len(t) = n + 1 /\ \A i \in 1 .. n : i \in 1 .. n + 1 /\ i <= n
  BY <1>1, SMT
<1> QED  BY <1>1, <1>2, <1>3 DEF s, t

LEMMA NothingIsAsSent == <<>> = AsSent(0) /\ Pads(1) = AsSent(0) \o Pads(1)
<1>1. 0 \in Nat  OBVIOUS
<1>2. AsSent(0) \in Seq(Atom) /\ Len(AsSent(0)) = 0  BY <1>1, AsSentIs
<1>3. AsSent(0) = <<>>  BY <1>2, EmptySeq
<1> DEFINE s == Pads(1)
<1>4. s \in Seq(Atom)  BY PadsAreASeq
<1> HIDE DEF s
<1>5. <<>> \o s = s  BY <1>4, ConcatEmptySeq
<1> QED  BY <1>3, <1>5 DEF s

\* What sock_recv_file has written is the beginning of what sock_send_file
\* sends, wherever TCP cuts the frames and their headers, if no write failed: but
\* for one last write, where a header was cut or there was nothing to send.  When
\* it returns 0 and every recv returned a whole frame, it is all of it.  For every
\* size of file and of frame, and any padding.
THEOREM AlwaysWhole == Spec => []ReceivedIsWhole
<1>1. WholeInv => ReceivedIsWhole
  <2> SUFFICES ASSUME WholeInv PROVE ReceivedIsWhole
    OBVIOUS
  <2>1. (Sound => FileInv) /\ (size \in {0, FrameSize} => NothingInv)
    BY DEF WholeInv, SoundInv
  <2>2. IsBeginning
    <3> SUFFICES ASSUME "lost" \notin trouble
                 PROVE  \/ file = AsSent(Len(file))
                        \/ /\ "cut" \in trouble \/ size \in {0, FrameSize}
                           /\ \E m \in 0 .. Len(file) - 1 : file = AsSent(m) \o Pads(1)
      BY DEF IsBeginning
    <3>1. PICK n \in Nat :
            \/ file = AsSent(n)
            \/ /\ "cut" \in trouble \/ size \in {0, FrameSize}
               /\ file = AsSent(n) \o Pads(1)
      <4>1. CASE Sound  BY <2>1, <4>1 DEF FileInv, Holds
      <4>2. CASE size \in {0, FrameSize}
        <5>1. file \in {<<>>, Pads(1)} /\ 0 \in Nat  BY <2>1, <4>2 DEF NothingInv
        <5> QED  BY <4>2, <5>1, NothingIsAsSent
      <4> QED  BY <4>1, <4>2 DEF Sound
    <3>2. CASE file = AsSent(n)
      <4>1. Len(file) = n  BY <3>2, AsSentIs
      <4> QED  BY <3>2, <4>1
    <3>3. CASE file = AsSent(n) \o Pads(1)
      <4>1. Len(file) = n + 1  BY <3>3, OneMore
      <4>2. n \in 0 .. Len(file) - 1  BY <4>1, SMT
      <4>3. ("cut" \in trouble \/ size \in {0, FrameSize}) \/ file = AsSent(n)  BY <3>1
      <4> QED  BY <3>2, <3>3, <4>2, <4>3
    <3> QED  BY <3>1, <3>2, <3>3
  <2>3. rres = "ok" /\ trouble = {} => file = AsSent(size + (Count - 1) * Padding)
    BY <2>1 DEF Sound, FileInv, NothingInv
  <2> QED  BY <2>2, <2>3 DEF ReceivedIsWhole
<1> QED  BY <1>1, WholeAlways, PTL

\* Of the frames sock_send_file was told are written, all but the last are in the
\* file and right, whatever recv returned of them, if no write failed and the
\* receiver was not killed: for every size of file and of frame, and any padding.
THEOREM AlwaysWritten == Spec => []AcknowledgedIsWritten
<1>1. WholeInv => AcknowledgedIsWritten
  <2> SUFFICES ASSUME WholeInv, "lost" \notin trouble, rres # "killed",
                      NEW i \in 1 .. (sindex - 1) * Stride
               PROVE  i <= Len(file) /\ file[i] = AsSent(i)[i]
    BY DEF AcknowledgedIsWritten
  <2>1. sindex \in Nat /\ rsp.index \in Nat /\ sindex <= rsp.index
    BY IndexType DEF WholeInv, TypeInv, SenderTypes, CountInv
  <2>2. sindex # 0
    <3>1. CASE sindex = 0
      <4> DEFINE last == (0 - 1) * Stride
      <4>1. last \in Int /\ last < 1  BY StrideType, SMT
      <4>2. i \in 1 .. last  BY <3>1
      <4> HIDE DEF last
      <4> QED  BY <4>1, <4>2, SMT
    <3> QED  BY <3>1
  <2>3. Sound /\ FileInv
    <3>1. size \notin {0, FrameSize}  BY <2>2 DEF WholeInv, NothingInv
    <3> QED  BY <3>1 DEF WholeInv, Sound, SoundInv
  <2>4. PICK n \in Nat : Holds(n)  BY <2>3 DEF FileInv
  <2> DEFINE j == sindex - 1
             k == rsp.index - 1
  <2>5. j \in Nat /\ k \in Nat /\ j <= k /\ rsp.index # 0  BY <2>1, <2>2, SMT
  <2>6. k * Stride <= n  BY <2>4, <2>5 DEF Holds
  <2>7. i \in 1 .. j * Stride  OBVIOUS
  <2> HIDE DEF j, k
  <2>8. j * Stride \in Nat /\ j * Stride <= k * Stride /\ k * Stride \in Nat
    <3>1. k <= k  BY <2>5, SMT
    <3> QED  BY <2>5, <3>1, MoreStrides
  <2>9. i \in Nat /\ i \in 1 .. n /\ i \in 1 .. i /\ i <= n /\ i <= n + 1
    BY <2>6, <2>7, <2>8, SMT
  <2>10. AsSent(n)[i] = AsSent(i)[i]
    <3>1. AsSent(n)[i] = [kind |-> "byte", at |-> ByteAt(i)]  BY <2>9, AsSentIs
    <3>2. AsSent(i)[i] = [kind |-> "byte", at |-> ByteAt(i)]  BY <2>9, AsSentIs
    <3> QED  BY <3>1, <3>2
  <2>11. CASE file = AsSent(n)
    <3>1. Len(file) = n  BY <2>11, AsSentIs
    <3> QED  BY <2>9, <2>10, <2>11, <3>1
  <2>12. CASE file = AsSent(n) \o Pads(1)
    <3>1. Len(file) = n + 1 /\ file[i] = AsSent(n)[i]  BY <2>9, <2>12, OneMore
    <3> QED  BY <2>9, <2>10, <3>1
  <2> QED  BY <2>4, <2>11, <2>12 DEF Holds
<1> QED  BY <1>1, WholeAlways, PTL
===============================================================================
