---------------------------- MODULE UartSyncProofs ----------------------------
(***************************************************************************)
(* Theorems about UartSync, for any number of calls, any sizes of buffers  *)
(* and messages, and any device.                                           *)
(***************************************************************************)
EXTENDS UartSync, SequenceTheorems, TLAPS

USE UartAssumption

Reading == {"read", "more", "flag"}
Writing == {"copying", "ending"}
Handling == Writing \cup {"check", "copy", "end", "post"}
Inside == {"write", "wait", "woken", "reset"}
Places == Inside \cup {"start", "done"}

TypeInv ==
    /\ lock \in Bytes /\ calm \in BOOLEAN /\ sem \in Nat /\ unasked \in Nat
    /\ pc \in [Requests -> Places] /\ result \in [Requests -> Results]
    /\ code \in {"ok", "param", "size"}
    /\ recv \in [Requests -> Seq(Bytes)] /\ rcv \in Seq(Bytes) /\ wire \in Seq(Bytes)
    /\ due \in Seq(Bytes) /\ said \in [Requests -> Nat] /\ cut \in BOOLEAN
    /\ rpc \in {"select", "crashed"} \cup Reading \cup Handling
    /\ decided \subseteq Requests

\* A call is inside exactly as long as it holds lockmsg, and is armed as long.
ArmInv ==
    /\ \A r \in Requests : pc[r] \in Inside <=> lock = r
    /\ buff = lock /\ (flag <=> lock # Nobody)

\* A call has no result until it is about to return.
ResultInv == \A r \in Requests : pc[r] \in {"start", "write", "wait", "woken"} => result[r] = "none"

\* What is copied fits, what was read is something, and it is written to a call.
SizeInv ==
    /\ Len(rcv) <= RcvSize
    /\ rpc \in Writing => dst \in Requests
    /\ \A r \in Requests : Len(recv[r]) < RecvLen
    /\ rpc \in {"copy", "copying"} => Len(rcv) < RecvLen
    /\ rpc = "read" => wire # <<>>
    /\ rpc \in {"more", "flag"} \cup Handling => rcv # <<>>

\* From here on: as long as nothing has disturbed the line.
Trusted == calm \/ Undisturbed

Tagged(s, t) == \A i \in DOMAIN s : s[i] = t

\* Nothing has arrived that is not read, and nothing is to arrive.
Silent == wire = <<>> /\ due = <<>>

\* The call that waits has all of its answer ahead, none of it read.
Ahead(r) == pc[r] = "wait" /\ sem = 0 /\ Len(wire) + Len(due) = said[r]

\* The answer does not fit in rcvbuff, and the deadline has passed.
Jammed(r) == pc[r] = "reset" /\ calm /\ Stuck

\* Nobody waits: no wakeup is left, and nothing is handed to a call.
FreeInv ==
    lock = Nobody =>
        /\ sem = 0 /\ rpc \in {"select"} \cup Reading
        /\ ~calm => Silent /\ rpc = "select"

\* What is on the line answers the call that waits; it is read whole, handed
\* over, woken up for and read once, in this order.
HeldInv ==
    \A r \in Requests : lock = r =>
        /\ rpc # "crashed" /\ Tagged(wire, r) /\ Tagged(due, r)
        /\ r \notin decided => sem = 0 /\ rpc = "select" /\ Silent
        /\ rpc # "select" => Tagged(rcv, r) /\ sem = 0 /\ (pc[r] = "wait" \/ Jammed(r))
        /\ rpc = "select" => Silent \/ Ahead(r)
        /\ rpc \in {"read", "more"} => Len(rcv) + Len(wire) + Len(due) = said[r]
        /\ rpc \in {"flag"} \cup Handling => Silent /\ Len(rcv) = said[r]
        /\ rpc \in Writing => dst = r
        /\ sem <= 1 /\ (sem = 1 => pc[r] = "wait")
        /\ pc[r] \in {"woken", "reset"} => sem = 0
        /\ pc[r] = "woken" => rpc = "select" /\ Silent
        /\ pc[r] = "reset" => (rpc = "select" /\ Silent) \/ Jammed(r)

\* A call is answered once, and not before it has written.
PastInv ==
    \A r \in Requests :
        /\ pc[r] \in {"start", "write"} => r \notin decided
        /\ pc[r] = "woken" => r \in decided
        /\ pc[r] \in {"reset", "done"} => r \in decided \/ result[r] \in {"busy", "failed"}

Mine(r) == recv[r] # <<>> /\ Tagged(recv[r], r) /\ Len(recv[r]) = said[r]

\* wait_code "ok" stands for the right answer in the buffer, from the copy on.
AnswerInv ==
    \A r \in Requests :
        /\ lock = r /\ rpc \in {"end", "ending"} => Mine(r)
        /\ lock = r /\ code = "ok" /\ (rpc = "post" \/ sem = 1 \/ pc[r] = "woken") => Mine(r)
        /\ pc[r] \in {"reset", "done"} /\ result[r] = "ok" => Mine(r)

TrustInv == FreeInv /\ HeldInv /\ PastInv /\ AnswerInv

Inv == TypeInv /\ ArmInv /\ ResultInv /\ SizeInv /\ (Trusted => TrustInv)

-------------------------------------------------------------------------------
(* Sequences of bytes *)

LEMMA TaggedEmpty == ASSUME NEW t PROVE Tagged(<<>>, t)
BY DEF Tagged

LEMMA TaggedConcat ==
    ASSUME NEW t, NEW s \in Seq(Bytes), NEW u \in Seq(Bytes), Tagged(s, t), Tagged(u, t)
    PROVE  s \o u \in Seq(Bytes) /\ Tagged(s \o u, t)
BY DEF Tagged

LEMMA TaggedSub ==
    ASSUME NEW t, NEW s \in Seq(Bytes), Tagged(s, t), NEW m \in 1 .. Len(s) + 1,
           NEW n \in 0 .. Len(s)
    PROVE  SubSeq(s, m, n) \in Seq(Bytes) /\ Tagged(SubSeq(s, m, n), t)
BY DEF Tagged

LEMMA FrameTagged ==
    ASSUME NEW t \in Bytes, NEW n \in Frames
    PROVE  /\ Frame(t, n) \in Seq(Bytes) /\ Tagged(Frame(t, n), t)
           /\ Len(Frame(t, n)) = n /\ n > 0
BY DEF Frame, Tagged

\* A sequence cut in two.
LEMMA Halves ==
    ASSUME NEW s \in Seq(Bytes), NEW n \in 0 .. Len(s)
    PROVE  /\ SubSeq(s, 1, n) \in Seq(Bytes) /\ Len(SubSeq(s, 1, n)) = n
           /\ SubSeq(s, n + 1, Len(s)) \in Seq(Bytes)
           /\ Len(SubSeq(s, n + 1, Len(s))) = Len(s) - n
<1>1. SubSeq(s, 1, n) \in Seq(Bytes) /\ Len(SubSeq(s, 1, n)) = n  OBVIOUS
<1>2. SubSeq(s, n + 1, Len(s)) \in Seq(Bytes)  OBVIOUS
<1>3. Len(SubSeq(s, n + 1, Len(s))) = Len(s) - n  OBVIOUS
<1> QED  BY <1>1, <1>2, <1>3

LEMMA Joined ==
    ASSUME NEW s \in Seq(Bytes), NEW u \in Seq(Bytes)
    PROVE  s \o u \in Seq(Bytes) /\ Len(s \o u) = Len(s) + Len(u)
BY ConcatProperties

\* What read takes is at the beginning of the line, and fits.
LEMMA TakenFits ==
    ASSUME rcv \in Seq(Bytes), Len(rcv) <= RcvSize, wire \in Seq(Bytes), wire # <<>>
    PROVE  /\ Taken \in 0 .. Len(wire) /\ Len(rcv) + Taken <= RcvSize /\ Len(rcv) + Taken > 0
           /\ Space = 0 => Len(rcv) = RcvSize /\ Taken = 0
<1>1. Len(wire) \in Nat /\ Len(wire) > 0 /\ Len(rcv) \in Nat  OBVIOUS
<1> QED  BY <1>1 DEF Taken, Space

\* What has been read is something, and none of it is lost.
LEMMA ReadTakes ==
    ASSUME NEW c \in Seq(Bytes), NEW w \in Seq(Bytes), w # <<>>,
           NEW n \in 0 .. Len(w), Len(c) + n > 0
    PROVE  /\ c \o SubSeq(w, 1, n) \in Seq(Bytes) /\ SubSeq(w, n + 1, Len(w)) \in Seq(Bytes)
           /\ c \o SubSeq(w, 1, n) # <<>> /\ (n = 0 => SubSeq(w, n + 1, Len(w)) # <<>>)
           /\ Len(c \o SubSeq(w, 1, n)) = Len(c) + n
           /\ Len(c \o SubSeq(w, 1, n)) + Len(SubSeq(w, n + 1, Len(w))) = Len(c) + Len(w)
           /\ \A t : Tagged(w, t) /\ Tagged(c, t) =>
                        Tagged(SubSeq(w, n + 1, Len(w)), t) /\ Tagged(c \o SubSeq(w, 1, n), t)
<1>1. Len(w) \in Nat /\ Len(w) > 0 /\ Len(c) \in Nat /\ n \in Nat  OBVIOUS
<1> DEFINE first == SubSeq(w, 1, n) rest == SubSeq(w, n + 1, Len(w))
<1>2. /\ first \in Seq(Bytes) /\ Len(first) = n
      /\ rest \in Seq(Bytes) /\ Len(rest) = Len(w) - n
  BY Halves
<1>3. ASSUME NEW t, Tagged(w, t) PROVE Tagged(first, t) /\ Tagged(rest, t)
  <2>1. 1 \in 1 .. Len(w) + 1 /\ n + 1 \in 1 .. Len(w) + 1 /\ Len(w) \in 0 .. Len(w)
    BY <1>1
  <2> QED  BY <1>3, <2>1, TaggedSub
<1> HIDE DEF first, rest
<1> DEFINE a == Len(c \o first) b == Len(rest)
<1>4. c \o first \in Seq(Bytes) /\ a = Len(c) + Len(first)  BY <1>2, Joined
<1>5. a = Len(c) + n /\ b = Len(w) - n  BY <1>2, <1>4
<1> HIDE DEF a, b
<1>6. a + b = Len(c) + Len(w) /\ a # 0 /\ (n = 0 => b # 0)  BY <1>1, <1>5
<1>7. c \o first # <<>> /\ (n = 0 => rest # <<>>)  BY <1>6 DEF a, b
<1>8. ASSUME NEW t, Tagged(w, t), Tagged(c, t) PROVE Tagged(rest, t) /\ Tagged(c \o first, t)
  BY <1>2, <1>3, <1>8, TaggedConcat
<1> QED  BY <1>2, <1>4, <1>5, <1>6, <1>7, <1>8 DEF a, b, first, rest

-------------------------------------------------------------------------------
(* wait_uart *)

\* A step of wait_uart leaves the calls, and what is trusted, as they are.
LEMMA ReaderFrame ==
    ASSUME Inv, UNCHANGED <<lock, flag, pc, result, buff, unasked, calm>>
    PROVE  /\ ArmInv' /\ ResultInv'
           /\ cut' = cut => (Trusted' <=> Trusted)
BY DEF Inv, TypeInv, ArmInv, ResultInv, Trusted, Undisturbed

LEMMA SelectKeeps == ASSUME Inv, Select PROVE Inv'
<1> USE DEF Inv
<1>1. /\ rpc = "select" /\ rpc' = "read" /\ wire # <<>> /\ rcv' = <<>>
      /\ UNCHANGED <<lock, flag, pc, result, buff, code, sem, recv, dst, wire, due, said, decided,
                     unasked, cut, calm>>
  BY DEF Select, At, callVars, deviceVars, envVars
<1>2. TypeInv'  BY <1>1 DEF TypeInv, Reading
<1>3. ArmInv' /\ ResultInv' /\ (Trusted' <=> Trusted)  BY <1>1, ReaderFrame
<1>4. SizeInv'  BY <1>1 DEF SizeInv, Handling, Writing
<1>5. ASSUME Trusted PROVE TrustInv'
  <2>1. FreeInv'  BY <1>1, <1>5 DEF TrustInv, FreeInv, Reading, Silent
  <2>2. ASSUME NEW r \in Requests, lock = r
        PROVE  Ahead(r) /\ Tagged(wire, r) /\ Tagged(due, r) /\ r \in decided
    BY <1>1, <1>5, <2>2 DEF TrustInv, HeldInv, Silent
  <2>3. HeldInv'
    <3>1. \A r \in Requests : lock = r => Len(rcv') + Len(wire) + Len(due) = said[r]
      <4>1. Len(rcv') = 0 /\ Len(wire) \in Nat /\ Len(due) \in Nat  BY <1>1 DEF TypeInv
      <4> QED  BY <2>2, <4>1 DEF Ahead
    <3> QED  BY <1>1, <2>2, <3>1, TaggedEmpty DEF HeldInv, Ahead, Handling, Writing
  <2>4. PastInv' /\ AnswerInv'
    BY <1>1, <1>5 DEF TrustInv, PastInv, AnswerInv, Mine
  <2> QED  BY <2>1, <2>3, <2>4 DEF TrustInv
<1> QED  BY <1>2, <1>3, <1>4, <1>5

LEMMA ReadKeeps == ASSUME Inv, Read PROVE Inv'
<1> USE DEF Inv
<1>1. /\ rpc = "read" /\ rpc' = "more"
      /\ rcv' = rcv \o SubSeq(wire, 1, Taken) /\ wire' = SubSeq(wire, Taken + 1, Len(wire))
      /\ UNCHANGED <<lock, flag, pc, result, buff, code, sem, recv, dst, due, said, decided,
                     unasked, cut, calm>>
  BY DEF Read, At, callVars, deviceVars
<1>2. /\ rcv' \in Seq(Bytes) /\ rcv' # <<>> /\ wire' \in Seq(Bytes) /\ Len(rcv') <= RcvSize
      /\ Len(rcv') + Len(wire') = Len(rcv) + Len(wire)
      /\ Space = 0 => Len(rcv') = RcvSize /\ wire' # <<>>
      /\ \A t : Tagged(wire, t) /\ Tagged(rcv, t) => Tagged(wire', t) /\ Tagged(rcv', t)
  <2>1. rcv \in Seq(Bytes) /\ Len(rcv) <= RcvSize /\ wire \in Seq(Bytes) /\ wire # <<>>
    BY <1>1 DEF TypeInv, SizeInv
  <2> HIDE DEF Inv
  <2>2. PICK n \in 0 .. Len(wire) :
          /\ n = Taken /\ Len(rcv) + n <= RcvSize /\ Len(rcv) + n > 0
          /\ Space = 0 => Len(rcv) = RcvSize /\ n = 0
    BY <2>1, TakenFits
  <2>3. rcv' = rcv \o SubSeq(wire, 1, n) /\ wire' = SubSeq(wire, n + 1, Len(wire))
    BY <1>1, <2>2
  <2>4. /\ rcv' \in Seq(Bytes) /\ wire' \in Seq(Bytes) /\ rcv' # <<>> /\ (n = 0 => wire' # <<>>)
        /\ Len(rcv') = Len(rcv) + n /\ Len(rcv') + Len(wire') = Len(rcv) + Len(wire)
        /\ \A t : Tagged(wire, t) /\ Tagged(rcv, t) => Tagged(wire', t) /\ Tagged(rcv', t)
    <3> DEFINE c == rcv \o SubSeq(wire, 1, n) w == SubSeq(wire, n + 1, Len(wire))
    <3>1. /\ c \in Seq(Bytes) /\ w \in Seq(Bytes) /\ c # <<>> /\ (n = 0 => w # <<>>)
          /\ Len(c) = Len(rcv) + n /\ Len(c) + Len(w) = Len(rcv) + Len(wire)
          /\ \A t : Tagged(wire, t) /\ Tagged(rcv, t) => Tagged(w, t) /\ Tagged(c, t)
      <4>1. rcv \in Seq(Bytes) /\ wire \in Seq(Bytes) /\ wire # <<>> /\ Len(rcv) + n > 0
        BY <2>1, <2>2
      <4> QED  BY <4>1, ReadTakes, ZenonT(60)
    <3>2. rcv' = c /\ wire' = w  BY <2>3
    <3> HIDE DEF c, w
    <3> QED  BY <3>1, <3>2, Zenon
  <2> DEFINE a == Len(rcv')
  <2>5. a = Len(rcv) + n /\ Len(rcv) \in Nat  BY <2>1, <2>4
  <2> HIDE DEF a
  <2>6. a <= RcvSize /\ (Space = 0 => a = RcvSize)  BY <2>2, <2>5
  <2> QED  BY <2>2, <2>4, <2>6 DEF a
<1>3. TypeInv'  BY <1>1, <1>2 DEF TypeInv, Reading
<1>4. ArmInv' /\ ResultInv' /\ (Trusted' <=> Trusted)  BY <1>1, ReaderFrame
<1>5. SizeInv'  BY <1>1, <1>2 DEF SizeInv, Handling, Writing
<1>6. ASSUME Trusted PROVE TrustInv'
  <2>1. FreeInv'  BY <1>1, <1>6 DEF TrustInv, FreeInv, Reading
  <2>2. ASSUME NEW r \in Requests, lock = r
        PROVE  /\ Tagged(wire', r) /\ Tagged(rcv', r) /\ Tagged(due', r) /\ r \in decided
               /\ Len(rcv) + Len(wire) + Len(due) = said[r]
               /\ sem = 0 /\ (pc[r] = "wait" \/ Jammed(r))
    BY <1>1, <1>2, <1>6, <2>2 DEF TrustInv, HeldInv
  <2>3. ASSUME NEW r \in Requests, lock = r, Jammed(r) PROVE Jammed(r)'
    <3>1. Space = 0 /\ pc[r] = "reset" /\ calm  BY <2>3 DEF Jammed, Stuck
    <3>2. Space' = 0 /\ wire' # <<>>
      <4>1. Len(rcv') = RcvSize /\ wire' # <<>>  BY <1>2, <3>1
      <4>2. RcvSize - Len(rcv') = 0  BY <4>1
      <4> QED  BY <4>1, <4>2 DEF Space
    <3> QED  BY <1>1, <3>1, <3>2 DEF Jammed, Stuck
  <2>4. \A r \in Requests : lock = r => Len(rcv') + Len(wire') + Len(due') = said[r]
    <3> DEFINE a == Len(rcv') b == Len(wire') c == Len(rcv) d == Len(wire) e == Len(due)
    <3>1. a \in Nat /\ b \in Nat /\ c \in Nat /\ d \in Nat /\ e \in Nat
      BY <1>2 DEF TypeInv
    <3>2. a + b = c + d /\ Len(due') = e  BY <1>1, <1>2
    <3>3. \A r \in Requests : lock = r => c + d + e = said[r]  BY <2>2
    <3> HIDE DEF a, b, c, d, e
    <3>4. \A r \in Requests : lock = r => a + b + e = said[r]  BY <3>1, <3>2, <3>3
    <3> QED  BY <3>2, <3>4 DEF a, b
  <2>5. HeldInv'
    <3>1. \A r \in Requests : lock = r => pc[r] = "wait" \/ Jammed(r)'  BY <2>2, <2>3
    <3>2. \A r \in Requests : Jammed(r) => pc[r] = "reset"  BY DEF Jammed
    <3>3. ASSUME NEW r \in Requests, lock = r
          PROVE  /\ pc[r] # "woken" /\ sem = 0 /\ sem <= 1 /\ sem # 1 /\ r \in decided
                 /\ Tagged(wire', r) /\ Tagged(rcv', r) /\ Tagged(due', r)
                 /\ pc[r] = "wait" \/ (Jammed(r)' /\ pc[r] = "reset")
      BY <2>2, <2>3, <3>2, <3>3
    <3>4. rpc' = "more"  BY <1>1
    <3>5. UNCHANGED <<lock, pc, sem, decided, dst, due, said>>  BY <1>1
    <3> QED  BY <2>4, <3>3, <3>4, <3>5, Zenon DEF HeldInv, Handling, Writing
  <2>6. PastInv' /\ AnswerInv'
    BY <1>1, <1>6 DEF TrustInv, PastInv, AnswerInv, Mine, Reading
  <2> QED  BY <2>1, <2>5, <2>6 DEF TrustInv
<1> QED  BY <1>3, <1>4, <1>5, <1>6

LEMMA ReadFailsKeeps == ASSUME Inv, ReadFails PROVE Inv'
<1> USE DEF Inv
<1>1. /\ rpc = "read" /\ rpc' = "select" /\ rcv' = <<>> /\ (calm => rcv = <<>>)
      /\ cut' = (cut \/ rcv # <<>>)
      /\ UNCHANGED <<lock, flag, pc, result, buff, code, sem, recv, dst, wire, due, said, decided,
                     unasked, calm>>
  BY DEF ReadFails, At, callVars, deviceVars
<1>2. TypeInv'  BY <1>1 DEF TypeInv
<1>3. ArmInv' /\ ResultInv'  BY <1>1, ReaderFrame
<1>4. SizeInv'  BY <1>1 DEF SizeInv, Handling, Writing
<1>5. ASSUME Trusted' PROVE TrustInv'
  <2>1. Trusted /\ rcv = <<>>  BY <1>1, <1>5 DEF Trusted, Undisturbed
  <2>2. FreeInv'  BY <1>1, <2>1 DEF TrustInv, FreeInv
  <2>3. ASSUME NEW r \in Requests, lock = r
        PROVE  Ahead(r) /\ Tagged(wire, r) /\ Tagged(due, r) /\ r \in decided
    <3>1. Space # 0
      <4>1. Len(rcv) = 0 /\ RcvSize # 0  BY <2>1
      <4> QED  BY <4>1 DEF Space
    <3>2. pc[r] = "wait" /\ sem = 0 /\ Len(rcv) + Len(wire) + Len(due) = said[r]
      BY <1>1, <2>1, <2>3, <3>1 DEF TrustInv, HeldInv, Jammed, Stuck
    <3>3. Len(rcv) = 0 /\ Len(wire) \in Nat /\ Len(due) \in Nat  BY <2>1 DEF TypeInv
    <3>4. Len(wire) + Len(due) = said[r]  BY <3>2, <3>3
    <3>5. Tagged(wire, r) /\ Tagged(due, r) /\ r \in decided
      BY <1>1, <2>1, <2>3 DEF TrustInv, HeldInv
    <3> QED  BY <3>2, <3>4, <3>5 DEF Ahead
  <2>4. HeldInv'  BY <1>1, <2>3 DEF HeldInv, Ahead, Handling, Writing
  <2>5. PastInv' /\ AnswerInv'
    BY <1>1, <2>1 DEF TrustInv, PastInv, AnswerInv, Mine
  <2> QED  BY <2>2, <2>4, <2>5 DEF TrustInv
<1> QED  BY <1>2, <1>3, <1>4, <1>5

LEMMA SilenceKeeps == ASSUME Inv, Silence PROVE Inv'
<1> USE DEF Inv
<1>1. /\ rpc = "more" /\ rpc' = "flag" /\ wire = <<>> /\ (calm => due = <<>>)
      /\ cut' = (cut \/ due # <<>>)
      /\ UNCHANGED <<lock, flag, pc, result, buff, code, sem, recv, rcv, dst, wire, due, said,
                     decided, unasked, calm>>
  BY DEF Silence, At, callVars, deviceVars
<1>2. TypeInv'  BY <1>1 DEF TypeInv, Reading
<1>3. ArmInv' /\ ResultInv'  BY <1>1, ReaderFrame
<1>4. SizeInv'  BY <1>1 DEF SizeInv, Handling, Writing
<1>5. ASSUME Trusted' PROVE TrustInv'
  <2>1. Trusted /\ Silent  BY <1>1, <1>5 DEF Trusted, Undisturbed, Silent
  <2>2. FreeInv'  BY <1>1, <2>1 DEF TrustInv, FreeInv, Reading
  <2>3. ASSUME NEW r \in Requests, lock = r
        PROVE  /\ pc[r] = "wait" /\ sem = 0 /\ Len(rcv) = said[r] /\ r \in decided
               /\ Tagged(rcv, r) /\ Tagged(wire, r) /\ Tagged(due, r)
    <3>1. /\ pc[r] = "wait" /\ sem = 0 /\ Len(rcv) + Len(wire) + Len(due) = said[r]
          /\ Tagged(rcv, r) /\ Tagged(wire, r) /\ Tagged(due, r) /\ r \in decided
      BY <1>1, <2>1, <2>3 DEF TrustInv, HeldInv, Jammed, Stuck
    <3>2. Len(wire) = 0 /\ Len(due) = 0 /\ Len(rcv) \in Nat  BY <2>1 DEF Silent, TypeInv
    <3>3. Len(rcv) = said[r]  BY <3>1, <3>2
    <3> QED  BY <3>1, <3>3
  <2>4. Silent'  BY <1>1, <2>1 DEF Silent
  <2>5. HeldInv'  BY <1>1, <2>3, <2>4 DEF HeldInv, Writing
  <2>6. PastInv' /\ AnswerInv'
    BY <1>1, <2>1 DEF TrustInv, PastInv, AnswerInv, Mine
  <2> QED  BY <2>2, <2>5, <2>6 DEF TrustInv
<1> QED  BY <1>2, <1>3, <1>4, <1>5

\* The steps that only move on: to the next read, to what sync_flag says, and
\* to the tests.
LEMMA MoveKeeps == ASSUME Inv, More \/ HandAsync \/ SeeFlag \/ Check PROVE Inv'
<1> USE DEF Inv
<1>1. UNCHANGED <<lock, flag, pc, result, buff, code, sem, recv, rcv, dst, wire, due, said,
                  decided, unasked, cut, calm>>
  BY DEF More, HandAsync, SeeFlag, Check, CheckPasses, callVars, deviceVars, envVars
<1>2. \/ rpc = "more" /\ rpc' = "read" /\ wire # <<>>
      \/ rpc = "flag" /\ rpc' = "select" /\ ~flag
      \/ rpc = "flag" /\ rpc' = "check" /\ flag
      \/ rpc = "check" /\ rpc' = "copy" /\ Len(rcv) < RecvLen
  BY DEF More, HandAsync, SeeFlag, Check, CheckPasses, At
<1>3. TypeInv'  BY <1>1, <1>2 DEF TypeInv, Reading, Handling, Writing
<1>4. ArmInv' /\ ResultInv' /\ (Trusted' <=> Trusted)  BY <1>1, ReaderFrame
<1>5. SizeInv'  BY <1>1, <1>2 DEF SizeInv, Handling, Writing
<1>6. ASSUME Trusted PROVE TrustInv'
  <2>1. FreeInv'  BY <1>1, <1>2, <1>6 DEF TrustInv, FreeInv, ArmInv, Reading
  <2>2. HeldInv'
    <3>1. Silent' <=> Silent  BY <1>1 DEF Silent
    <3>2. \A r \in Requests : Jammed(r) => Jammed(r)' /\ rpc' = "read"
      BY <1>1, <1>2 DEF Jammed, Stuck, Space
    <3>3. CASE rpc = "more"
      BY <1>1, <1>2, <1>6, <3>2, <3>3 DEF TrustInv, HeldInv, Handling, Writing
    <3>4. CASE rpc # "more"
      <4>1. \A r \in Requests : ~Jammed(r)  BY <1>2, <3>4 DEF Jammed, Stuck
      <4> QED
        BY <1>1, <1>2, <1>6, <3>1, <3>4, <4>1 DEF TrustInv, HeldInv, ArmInv, Handling, Writing
    <3> QED  BY <3>3, <3>4
  <2>3. PastInv' /\ AnswerInv'
    BY <1>1, <1>2, <1>6 DEF TrustInv, PastInv, AnswerInv, Mine
  <2> QED  BY <2>1, <2>2, <2>3 DEF TrustInv
<1> QED  BY <1>3, <1>4, <1>5, <1>6

\* While a message is handed over, the call that holds lockmsg waits for it.
LEMMA HandlingWaits ==
    ASSUME Inv, Trusted, rpc \in Handling
    PROVE  /\ lock \in Requests /\ buff = lock /\ pc[lock] = "wait" /\ sem = 0 /\ Silent
           /\ lock \in decided /\ Tagged(rcv, lock) /\ rcv # <<>> /\ Len(rcv) = said[lock]
<1>1. lock # Nobody  BY DEF Inv, TrustInv, FreeInv, Reading, Handling, Writing
<1>2. lock \in Requests /\ buff = lock  BY <1>1 DEF Inv, TypeInv, ArmInv, Bytes
<1>3. ~Stuck  BY DEF Stuck, Handling, Writing
<1> QED
  BY <1>2, <1>3 DEF Inv, TrustInv, HeldInv, SizeInv, Jammed, Handling, Writing

\* From one step of that to the next, only the call's buffer and wait_code change.
LEMMA HandlingKeeps ==
    ASSUME Inv, Trusted, rpc \in Handling, rpc' \in Handling,
           rpc' \in Writing => dst' = buff,
           UNCHANGED <<lock, buff, pc, result, sem, rcv, wire, due, said, decided, unasked, calm>>
    PROVE  FreeInv' /\ HeldInv' /\ PastInv'
<1>1. /\ lock \in Requests /\ buff = lock /\ pc[lock] = "wait" /\ sem = 0 /\ Silent
      /\ lock \in decided /\ Tagged(rcv, lock) /\ rcv # <<>> /\ Len(rcv) = said[lock]
  BY HandlingWaits
<1>2. FreeInv'  BY <1>1 DEF FreeInv
<1>3. Silent'  BY <1>1 DEF Silent
<1>4. \A t : Tagged(wire, t) /\ Tagged(due, t)  BY <1>1, TaggedEmpty DEF Silent
<1>5. rpc' \notin {"select", "read", "more", "crashed"}  BY DEF Handling, Writing
<1>6. HeldInv'  BY <1>1, <1>3, <1>4, <1>5 DEF HeldInv
<1>7. PastInv'  BY DEF Inv, TrustInv, PastInv
<1> QED  BY <1>2, <1>6, <1>7

LEMMA CheckFailsKeeps == ASSUME Inv, CheckNull \/ CheckSize PROVE Inv'
<1> USE DEF Inv
<1>1. /\ rpc = "check" /\ rpc' = "post" /\ code' \in {"param", "size"}
      /\ UNCHANGED <<lock, flag, pc, result, buff, sem, recv, rcv, dst, wire, due, said, decided,
                     unasked, cut, calm>>
  BY DEF CheckNull, CheckSize, At, callVars, deviceVars, envVars
<1>2. TypeInv'  BY <1>1 DEF TypeInv, Handling
<1>3. ArmInv' /\ ResultInv' /\ (Trusted' <=> Trusted)  BY <1>1, ReaderFrame
<1>4. SizeInv'  BY <1>1 DEF SizeInv, Handling, Writing
<1>5. ASSUME Trusted PROVE TrustInv'
  <2>1. FreeInv' /\ HeldInv' /\ PastInv'
    BY <1>1, <1>5, HandlingKeeps DEF Handling, Writing
  <2>2. AnswerInv'
    BY <1>1, <1>5 DEF TrustInv, AnswerInv, Mine
  <2> QED  BY <2>1, <2>2 DEF TrustInv
<1> QED  BY <1>2, <1>3, <1>4, <1>5

LEMMA FetchKeeps == ASSUME Inv, FetchToCopy \/ FetchToEnd PROVE Inv'
<1> USE DEF Inv
<1>1. /\ \/ rpc = "copy" /\ rpc' = IF buff = Nobody THEN "crashed" ELSE "copying"
         \/ rpc = "end" /\ rpc' = IF buff = Nobody THEN "crashed" ELSE "ending"
      /\ dst' = buff
      /\ UNCHANGED <<lock, flag, pc, result, buff, code, sem, recv, rcv, wire, due, said, decided,
                     unasked, cut, calm>>
  BY DEF FetchToCopy, FetchToEnd, Fetch, callVars, deviceVars, envVars
<1>2. TypeInv'  BY <1>1 DEF TypeInv, Handling, Writing
<1>3. ArmInv' /\ ResultInv' /\ (Trusted' <=> Trusted)  BY <1>1, ReaderFrame
<1>4. SizeInv'
  <2>1. rpc' \in Writing => dst' \in Requests
    BY <1>1 DEF TypeInv, ArmInv, Writing, Bytes
  <2> QED  BY <1>1, <2>1 DEF SizeInv, Handling, Writing
<1>5. ASSUME Trusted PROVE TrustInv'
  <2>1. buff # Nobody
    <3>1. rpc \in Handling  BY <1>1 DEF Handling
    <3> QED  BY <1>5, <3>1, HandlingWaits
  <2>2. FreeInv' /\ HeldInv' /\ PastInv'
    BY <1>1, <1>5, <2>1, HandlingKeeps DEF Handling, Writing
  <2>3. AnswerInv'
    BY <1>1, <1>5, <2>1 DEF TrustInv, AnswerInv, Mine
  <2> QED  BY <2>2, <2>3 DEF TrustInv
<1> QED  BY <1>2, <1>3, <1>4, <1>5

LEMMA CopyKeeps == ASSUME Inv, Copy PROVE Inv'
<1> USE DEF Inv
<1>1. /\ rpc = "copying" /\ rpc' = "end" /\ dst' = Nobody
      /\ recv' = [recv EXCEPT ![dst] = rcv]
      /\ UNCHANGED <<lock, flag, pc, result, buff, code, sem, rcv, wire, due, said, decided,
                     unasked, cut, calm>>
  BY DEF Copy, At, callVars, deviceVars, envVars
<1>2. /\ recv' \in [Requests -> Seq(Bytes)]
      /\ \A r \in Requests : recv'[r] = IF r = dst THEN rcv ELSE recv[r]
  BY <1>1 DEF TypeInv
<1>3. TypeInv'  BY <1>1, <1>2 DEF TypeInv, Handling
<1>4. ArmInv' /\ ResultInv' /\ (Trusted' <=> Trusted)  BY <1>1, ReaderFrame
<1>5. SizeInv'
  <2>1. \A r \in Requests : Len(recv'[r]) < RecvLen  BY <1>1, <1>2 DEF SizeInv
  <2> QED  BY <1>1, <2>1 DEF SizeInv, Handling, Writing
<1>6. ASSUME Trusted PROVE TrustInv'
  <2>1. /\ lock \in Requests /\ pc[lock] = "wait" /\ Tagged(rcv, lock) /\ rcv # <<>>
        /\ Len(rcv) = said[lock] /\ dst = lock
    <3>1. rpc \in Handling /\ rpc \in Writing  BY <1>1 DEF Handling, Writing
    <3>2. dst = lock  BY <1>6, <3>1, HandlingWaits DEF TrustInv, HeldInv
    <3> QED  BY <1>6, <3>1, <3>2, HandlingWaits
  <2>2. FreeInv' /\ HeldInv' /\ PastInv'
    BY <1>1, <1>6, HandlingKeeps DEF Handling, Writing
  <2>3. recv'[lock] = rcv /\ \A r \in Requests : r # lock => recv'[r] = recv[r]
    BY <1>2, <2>1
  <2>4. \A r \in Requests : r = lock => Mine(r)'  BY <1>1, <2>1, <2>3 DEF Mine
  <2>5. \A r \in Requests : r # lock => (Mine(r)' <=> Mine(r))  BY <1>1, <2>3 DEF Mine
  <2>6. AnswerInv'
    BY <1>1, <1>6, <2>1, <2>4, <2>5 DEF TrustInv, AnswerInv
  <2> QED  BY <2>2, <2>6 DEF TrustInv
<1> QED  BY <1>3, <1>4, <1>5, <1>6

LEMMA TerminateKeeps == ASSUME Inv, Terminate PROVE Inv'
<1> USE DEF Inv
<1>1. /\ rpc = "ending" /\ rpc' = "post" /\ code' = "ok" /\ dst' = Nobody
      /\ UNCHANGED <<lock, flag, pc, result, buff, sem, recv, rcv, wire, due, said, decided,
                     unasked, cut, calm>>
  BY DEF Terminate, At, callVars, deviceVars, envVars
<1>2. TypeInv'  BY <1>1 DEF TypeInv, Handling
<1>3. ArmInv' /\ ResultInv' /\ (Trusted' <=> Trusted)  BY <1>1, ReaderFrame
<1>4. SizeInv'  BY <1>1 DEF SizeInv, Handling, Writing
<1>5. ASSUME Trusted PROVE TrustInv'
  <2>1. FreeInv' /\ HeldInv' /\ PastInv'
    BY <1>1, <1>5, HandlingKeeps DEF Handling, Writing
  <2>2. AnswerInv'
    <3>1. rpc \in Handling  BY <1>1 DEF Handling, Writing
    <3>2. lock \in Requests /\ pc[lock] = "wait" /\ sem = 0  BY <1>5, <3>1, HandlingWaits
    <3>3. Mine(lock)  BY <1>1, <1>5, <3>2 DEF TrustInv, AnswerInv
    <3>4. \A r \in Requests : Mine(r)' <=> Mine(r)  BY <1>1 DEF Mine
    <3> QED  BY <1>1, <1>5, <3>2, <3>3, <3>4 DEF TrustInv, AnswerInv
  <2> QED  BY <2>1, <2>2 DEF TrustInv
<1> QED  BY <1>2, <1>3, <1>4, <1>5

LEMMA PostKeeps == ASSUME Inv, Post PROVE Inv'
<1> USE DEF Inv
<1>1. /\ rpc = "post" /\ rpc' = "select" /\ sem' = sem + 1
      /\ UNCHANGED <<lock, flag, pc, result, buff, code, recv, rcv, dst, wire, due, said, decided,
                     unasked, cut, calm>>
  BY DEF Post, PostTimes, At, callVars, deviceVars, envVars
<1>2. TypeInv'  BY <1>1 DEF TypeInv
<1>3. ArmInv' /\ ResultInv' /\ (Trusted' <=> Trusted)  BY <1>1, ReaderFrame
<1>4. SizeInv'  BY <1>1 DEF SizeInv, Handling, Writing
<1>5. ASSUME Trusted PROVE TrustInv'
  <2>1. /\ lock \in Requests /\ pc[lock] = "wait" /\ sem = 0 /\ Silent /\ lock \in decided
    <3>1. rpc \in Handling  BY <1>1 DEF Handling
    <3> QED  BY <1>5, <3>1, HandlingWaits
  <2>2. FreeInv'  BY <1>1, <2>1 DEF FreeInv
  <2>3. HeldInv'
    <3>1. Silent' /\ sem' = 1  BY <1>1, <2>1 DEF Silent
    <3>2. \A t : Tagged(wire, t) /\ Tagged(due, t)  BY <2>1, TaggedEmpty DEF Silent
    <3> QED  BY <1>1, <2>1, <3>1, <3>2 DEF HeldInv, Handling, Writing
  <2>4. PastInv'  BY <1>1, <1>5 DEF TrustInv, PastInv
  <2>5. AnswerInv'
    BY <1>1, <1>5, <2>1 DEF TrustInv, AnswerInv, Mine
  <2> QED  BY <2>2, <2>3, <2>4, <2>5 DEF TrustInv
<1> QED  BY <1>2, <1>3, <1>4, <1>5

LEMMA ReaderKeeps == ASSUME Inv, ReaderStep \/ ReadFails PROVE Inv'
BY SelectKeeps, ReadKeeps, ReadFailsKeeps, SilenceKeeps, MoveKeeps, CheckFailsKeeps,
   FetchKeeps, CopyKeeps, TerminateKeeps, PostKeeps DEF ReaderStep

-------------------------------------------------------------------------------
(* send_byte_uart_wait *)

\* What disturbs the line stays recorded in a result.
LEMMA TrustLasts ==
    ASSUME Inv, NEW r \in Requests, NEW res \in Results,
           pc[r] \in {"start", "write", "wait", "woken"},
           result' = [result EXCEPT ![r] = res], UNCHANGED <<unasked, cut, calm>>
    PROVE  /\ Trusted' => Trusted
           /\ Trusted' => calm \/ res \notin {"failed", "timeout"}
           /\ result' \in [Requests -> Results] /\ result'[r] = res
           /\ \A q \in Requests : q # r => result'[q] = result[q]
<1>1. /\ result' \in [Requests -> Results] /\ result'[r] = res
      /\ \A q \in Requests : q # r => result'[q] = result[q]
  BY DEF Inv, TypeInv
<1>2. result[r] = "none"  BY DEF Inv, ResultInv
<1> QED  BY <1>1, <1>2 DEF Trusted, Undisturbed

\* Where the call that moves is, and where the others are.
LEMMA PlaceMoves ==
    ASSUME Inv, NEW r \in Requests, NEW to \in Places, pc' = [pc EXCEPT ![r] = to]
    PROVE  pc' \in [Requests -> Places] /\ pc'[r] = to
           /\ \A q \in Requests : q # r => pc'[q] = pc[q]
BY DEF Inv, TypeInv

LEMMA ArmKeeps == ASSUME Inv, NEW r \in Requests, Arm(r) PROVE Inv'
<1> USE DEF Inv
<1>1. /\ pc[r] = "start" /\ rpc # "crashed" /\ lock = Nobody
      /\ calm => Silent /\ rpc = "select"
      /\ lock' = r /\ buff' = r /\ flag' = TRUE /\ pc' = [pc EXCEPT ![r] = "write"]
      /\ UNCHANGED <<code, sem, result, recv, rpc, rcv, dst, wire, due, said, decided, unasked,
                     cut, calm>>
  BY DEF Arm, CallAt, deviceVars, envVars, Silent
<1>2. /\ pc' \in [Requests -> Places] /\ pc'[r] = "write"
      /\ \A q \in Requests : q # r => pc'[q] = pc[q]
  BY <1>1, PlaceMoves DEF Places, Inside
<1>3. TypeInv'  BY <1>1, <1>2 DEF TypeInv, Bytes
<1>4. ArmInv'  BY <1>1, <1>2 DEF ArmInv, Inside
<1>5. ResultInv' /\ SizeInv' /\ (Trusted' <=> Trusted)
  BY <1>1, <1>2 DEF ResultInv, SizeInv, Trusted, Undisturbed
<1>6. ASSUME Trusted PROVE TrustInv'
  <2>1. sem = 0 /\ rpc = "select" /\ Silent
    BY <1>1, <1>6 DEF TrustInv, FreeInv
  <2>2. FreeInv'  BY <1>1 DEF FreeInv
  <2>3. r \notin decided
    BY <1>1, <1>6 DEF TrustInv, PastInv
  <2>4. HeldInv'
    <3>1. Silent'  BY <1>1, <2>1 DEF Silent
    <3>2. \A t : Tagged(wire, t) /\ Tagged(due, t)  BY <2>1, TaggedEmpty DEF Silent
    <3> QED  BY <1>1, <1>2, <2>1, <2>3, <3>1, <3>2 DEF HeldInv, Handling, Writing
  <2>5. PastInv'  BY <1>1, <1>2, <1>6 DEF TrustInv, PastInv
  <2>6. AnswerInv'
    BY <1>1, <1>2, <2>1, <1>6 DEF TrustInv, AnswerInv, Mine
  <2> QED  BY <2>2, <2>4, <2>5, <2>6 DEF TrustInv
<1> QED  BY <1>3, <1>4, <1>5, <1>6

LEMMA BusyKeeps == ASSUME Inv, NEW r \in Requests, Busy(r) PROVE Inv'
<1> USE DEF Inv
<1>1. /\ pc[r] = "start" /\ pc' = [pc EXCEPT ![r] = "done"]
      /\ result' = [result EXCEPT ![r] = "busy"]
      /\ UNCHANGED <<lock, buff, flag, code, sem, recv, rpc, rcv, dst, wire, due, said, decided,
                     unasked, cut, calm>>
  BY DEF Busy, CallAt, deviceVars, envVars
<1>2. /\ pc' \in [Requests -> Places] /\ pc'[r] = "done"
      /\ \A q \in Requests : q # r => pc'[q] = pc[q]
  BY <1>1, PlaceMoves DEF Places
<1>3. /\ Trusted' => Trusted
      /\ result' \in [Requests -> Results] /\ result'[r] = "busy"
      /\ \A q \in Requests : q # r => result'[q] = result[q]
  BY <1>1, TrustLasts DEF Results
<1>4. TypeInv'  BY <1>1, <1>2, <1>3 DEF TypeInv
<1>5. lock # r  BY <1>1 DEF ArmInv, Inside
<1>6. ArmInv'  BY <1>1, <1>2, <1>5 DEF ArmInv, Inside
<1>7. ResultInv' /\ SizeInv'
  BY <1>1, <1>2, <1>3 DEF ResultInv, SizeInv
<1>8. ASSUME Trusted PROVE TrustInv'
  <2>1. FreeInv'  BY <1>1, <1>8 DEF TrustInv, FreeInv, Silent
  <2>2. HeldInv'
    BY <1>1, <1>2, <1>5, <1>8 DEF TrustInv, HeldInv, Ahead, Jammed, Stuck, Space, Silent
  <2>3. PastInv'  BY <1>1, <1>2, <1>3, <1>8 DEF TrustInv, PastInv
  <2>4. AnswerInv'
    BY <1>1, <1>2, <1>3, <1>5, <1>8 DEF TrustInv, AnswerInv, Mine
  <2> QED  BY <2>1, <2>2, <2>3, <2>4 DEF TrustInv
<1> QED  BY <1>3, <1>4, <1>6, <1>7, <1>8

LEMMA WriteKeeps == ASSUME Inv, NEW r \in Requests, Write(r) PROVE Inv'
<1> USE DEF Inv
<1>1. /\ pc[r] = "write" /\ pc' = [pc EXCEPT ![r] = "wait"]
      /\ UNCHANGED <<lock, buff, flag, code, sem, result, recv, rpc, rcv, dst, wire, due, said,
                     decided, unasked, cut, calm>>
  BY DEF Write, CallAt, deviceVars, envVars
<1>2. /\ pc' \in [Requests -> Places] /\ pc'[r] = "wait"
      /\ \A q \in Requests : q # r => pc'[q] = pc[q]
  BY <1>1, PlaceMoves DEF Places, Inside
<1>3. TypeInv'  BY <1>1, <1>2 DEF TypeInv
<1>4. ArmInv'  BY <1>1, <1>2 DEF ArmInv, Inside
<1>5. ResultInv' /\ SizeInv' /\ (Trusted' <=> Trusted)
  BY <1>1, <1>2 DEF ResultInv, SizeInv, Trusted, Undisturbed
<1>6. ASSUME Trusted PROVE TrustInv'
  <2>1. FreeInv'  BY <1>1, <1>6 DEF TrustInv, FreeInv, Silent
  <2>2. HeldInv'
    BY <1>1, <1>2, <1>6 DEF TrustInv, HeldInv, Ahead, Jammed, Stuck, Space, Silent
  <2>3. PastInv'  BY <1>1, <1>2, <1>6 DEF TrustInv, PastInv
  <2>4. AnswerInv'  BY <1>1, <1>2, <1>6 DEF TrustInv, AnswerInv, Mine
  <2> QED  BY <2>1, <2>2, <2>3, <2>4 DEF TrustInv
<1> QED  BY <1>3, <1>4, <1>5, <1>6

LEMMA WokenKeeps == ASSUME Inv, NEW r \in Requests, Woken(r) PROVE Inv'
<1> USE DEF Inv
<1>1. /\ pc[r] = "wait" /\ pc' = [pc EXCEPT ![r] = "woken"]
      /\ sem >= 1 /\ sem' = sem - 1
      /\ UNCHANGED <<lock, buff, flag, code, result, recv, rpc, rcv, dst, wire, due, said,
                     decided, unasked, cut, calm>>
  BY DEF Woken, WokenAt, CallAt, deviceVars, envVars
<1>2. /\ pc' \in [Requests -> Places] /\ pc'[r] = "woken"
      /\ \A q \in Requests : q # r => pc'[q] = pc[q]
  BY <1>1, PlaceMoves DEF Places, Inside
<1>3. TypeInv'  BY <1>1, <1>2 DEF TypeInv
<1>4. ArmInv'  BY <1>1, <1>2 DEF ArmInv, Inside
<1>5. ResultInv' /\ SizeInv' /\ (Trusted' <=> Trusted)
  BY <1>1, <1>2 DEF ResultInv, SizeInv, Trusted, Undisturbed
<1>6. ASSUME Trusted PROVE TrustInv'
  <2>1. lock = r  BY <1>1 DEF ArmInv, Inside
  <2>2. sem = 1 /\ rpc = "select" /\ Silent /\ r \in decided
    BY <1>1, <1>6, <2>1 DEF TrustInv, HeldInv, Ahead, TypeInv
  <2>3. sem' = 0  BY <1>1, <2>2
  <2>4. FreeInv'  BY <1>1, <2>1 DEF FreeInv, TypeInv
  <2>5. HeldInv'
    <3>1. Silent'  BY <1>1, <2>2 DEF Silent
    <3>2. \A t : Tagged(wire, t) /\ Tagged(due, t)  BY <2>2, TaggedEmpty DEF Silent
    <3> QED
      BY <1>1, <1>2, <2>1, <2>2, <2>3, <3>1, <3>2 DEF HeldInv, Handling, Writing
  <2>6. PastInv'  BY <1>1, <1>2, <1>6, <2>2 DEF TrustInv, PastInv
  <2>7. AnswerInv'
    BY <1>1, <1>2, <1>6, <2>1, <2>2, <2>3 DEF TrustInv, AnswerInv, Mine
  <2> QED  BY <2>4, <2>5, <2>6, <2>7 DEF TrustInv
<1> QED  BY <1>3, <1>4, <1>5, <1>6

\* A write that fails, a deadline, or wait_code end the wait.
LEMMA EndsKeeps ==
    ASSUME Inv, NEW r \in Requests, WriteFails(r) \/ Timeout(r) \/ ReadCode(r)
    PROVE  Inv'
<1> USE DEF Inv
<1>1. PICK res \in Results :
         /\ pc' = [pc EXCEPT ![r] = "reset"] /\ result' = [result EXCEPT ![r] = res]
         /\ \/ pc[r] = "write" /\ res = "failed"
            \/ pc[r] = "wait" /\ res = "timeout" /\ sem = 0 /\ (calm => ~OnItsWay(r) \/ Stuck)
            \/ pc[r] = "woken" /\ res = code
         /\ UNCHANGED <<lock, buff, flag, code, sem, recv, rpc, rcv, dst, wire, due, said,
                        decided, unasked, cut, calm>>
  BY DEF WriteFails, Timeout, ReadCode, CallAt, deviceVars, envVars, Results, TypeInv
<1>2. /\ pc' \in [Requests -> Places] /\ pc'[r] = "reset"
      /\ \A q \in Requests : q # r => pc'[q] = pc[q]
  BY <1>1, PlaceMoves DEF Places, Inside
<1>3. /\ Trusted' => Trusted
      /\ Trusted' => calm \/ res \notin {"failed", "timeout"}
      /\ result' \in [Requests -> Results] /\ result'[r] = res
      /\ \A q \in Requests : q # r => result'[q] = result[q]
  <2>1. pc[r] \in {"start", "write", "wait", "woken"}  BY <1>1
  <2> QED  BY <1>1, <2>1, TrustLasts
<1>4. TypeInv'  BY <1>1, <1>2, <1>3 DEF TypeInv
<1>5. ArmInv'  BY <1>1, <1>2 DEF ArmInv, Inside
<1>6. ResultInv' /\ SizeInv'
  BY <1>1, <1>2, <1>3 DEF ResultInv, SizeInv
<1>7. ASSUME Trusted' PROVE TrustInv'
  <2>1. lock = r  BY <1>1 DEF ArmInv, Inside
  <2>2. /\ (rpc = "select" /\ Silent) \/ (calm /\ Stuck)
        /\ sem = 0 /\ (r \in decided \/ res = "failed")
        /\ Tagged(wire, r) /\ Tagged(due, r)
        /\ rpc # "select" => Tagged(rcv, r)
        /\ rpc # "crashed" /\ (r \notin decided => rpc = "select" /\ Silent)
        /\ rpc \in {"read", "more"} => Len(rcv) + Len(wire) + Len(due) = said[r]
    <3>1. TrustInv  BY <1>3, <1>7
    <3>2. /\ Tagged(wire, r) /\ Tagged(due, r) /\ (rpc # "select" => Tagged(rcv, r))
          /\ rpc # "crashed" /\ (r \notin decided => rpc = "select" /\ Silent /\ sem = 0)
          /\ rpc \in {"read", "more"} => Len(rcv) + Len(wire) + Len(due) = said[r]
      <4> USE DEF HeldInv
      <4>1. Tagged(wire, r) /\ Tagged(due, r) /\ (rpc # "select" => Tagged(rcv, r))
        BY <2>1, <3>1 DEF TrustInv
      <4>2. rpc # "crashed" /\ (r \notin decided => rpc = "select" /\ Silent /\ sem = 0)
        BY <2>1, <3>1 DEF TrustInv
      <4>3. rpc \in {"read", "more"} => Len(rcv) + Len(wire) + Len(due) = said[r]
        BY <2>1, <3>1 DEF TrustInv
      <4> QED  BY <4>1, <4>2, <4>3
    <3>3. CASE pc[r] = "write"
      BY <1>1, <2>1, <3>1, <3>2, <3>3 DEF TrustInv, PastInv
    <3>4. CASE pc[r] = "wait" /\ Stuck
      BY <1>1, <1>3, <1>7, <3>2, <3>4 DEF Stuck
    <3>5. CASE pc[r] = "wait" /\ ~Stuck
      <4>1. ~OnItsWay(r)  BY <1>1, <1>3, <1>7, <3>5
      <4>2. /\ r \in decided /\ ~Among(r, wire) /\ ~Among(r, due)
            /\ rpc # "select" => ~Among(r, rcv)
        BY <4>1 DEF OnItsWay
      <4>3. DOMAIN wire = {} /\ DOMAIN due = {}  BY <3>2, <4>2 DEF Tagged, Among
      <4>4. Silent  BY <4>3 DEF Silent, TypeInv
      <4>5. rpc = "select"
        <5>1. SUFFICES ASSUME rpc # "select" PROVE FALSE  OBVIOUS
        <5>2. DOMAIN rcv = {}  BY <3>2, <4>2, <5>1 DEF Tagged, Among
        <5>3. rcv = <<>>  BY <5>2 DEF TypeInv
        <5> QED
          BY <3>2, <4>4, <5>1, <5>3 DEF SizeInv, Silent, TypeInv, Reading, Handling, Writing
      <4> QED  BY <1>1, <3>2, <3>5, <4>2, <4>4, <4>5
    <3>6. CASE pc[r] = "woken"
      BY <1>1, <2>1, <3>1, <3>2, <3>6 DEF TrustInv, HeldInv, PastInv
    <3> QED  BY <1>1, <3>3, <3>4, <3>5, <3>6
  <2>3. FreeInv'  BY <1>1, <2>1 DEF FreeInv, TypeInv
  <2>4. HeldInv'
    <3>1. (Silent' <=> Silent) /\ (Stuck' <=> Stuck)  BY <1>1 DEF Silent, Stuck, Space
    <3>2. Stuck => rpc \in {"read", "more"}  BY DEF Stuck
    <3>3. \/ rpc = "select" /\ Silent'
          \/ rpc \in {"read", "more"} /\ Jammed(r)'
      BY <1>1, <1>2, <2>2, <3>1, <3>2 DEF Jammed
    <3> QED
      BY <1>1, <1>2, <2>1, <2>2, <3>3 DEF HeldInv, Handling, Writing
  <2>5. PastInv'
    BY <1>1, <1>2, <1>3, <1>7, <2>2 DEF TrustInv, PastInv
  <2>6. AnswerInv'
    <3>1. res = "ok" => Mine(r)
      BY <1>1, <1>3, <1>7, <2>1 DEF TrustInv, AnswerInv
    <3> QED
      BY <1>1, <1>2, <1>3, <1>7, <2>1, <2>2, <3>1 DEF TrustInv, AnswerInv, Mine
  <2> QED  BY <2>3, <2>4, <2>5, <2>6 DEF TrustInv
<1> QED  BY <1>4, <1>5, <1>6, <1>7

LEMMA ResetKeeps == ASSUME Inv, NEW r \in Requests, Reset(r) PROVE Inv'
<1> USE DEF Inv
<1>1. /\ pc[r] = "reset" /\ pc' = [pc EXCEPT ![r] = "done"]
      /\ buff' = Nobody /\ flag' = FALSE /\ lock' = Nobody
      /\ UNCHANGED <<code, sem, result, recv, rpc, rcv, dst, wire, due, said, decided, unasked,
                     cut, calm>>
  BY DEF Reset, ResetAs, CallAt, deviceVars, envVars
<1>2. /\ pc' \in [Requests -> Places] /\ pc'[r] = "done"
      /\ \A q \in Requests : q # r => pc'[q] = pc[q]
  BY <1>1, PlaceMoves DEF Places
<1>3. TypeInv'  BY <1>1, <1>2 DEF TypeInv, Bytes
<1>4. lock = r  BY <1>1 DEF ArmInv, Inside
<1>5. ArmInv'
  <2>1. \A q \in Requests : pc'[q] \notin Inside  BY <1>1, <1>2, <1>4 DEF ArmInv, Inside
  <2> QED  BY <1>1, <2>1 DEF ArmInv
<1>6. ResultInv' /\ SizeInv' /\ (Trusted' <=> Trusted)
  BY <1>1, <1>2 DEF ResultInv, SizeInv, Trusted, Undisturbed
<1>7. ASSUME Trusted PROVE TrustInv'
  <2>1. sem = 0 /\ ((rpc = "select" /\ Silent) \/ (calm /\ Stuck))
    BY <1>1, <1>4, <1>7 DEF TrustInv, HeldInv, Jammed
  <2>2. FreeInv'  BY <1>1, <2>1 DEF FreeInv, Silent, Stuck, Reading
  <2>3. HeldInv'  BY <1>1 DEF HeldInv
  <2>4. PastInv'  BY <1>1, <1>2, <1>7 DEF TrustInv, PastInv
  <2>5. AnswerInv'  BY <1>1, <1>2, <1>7 DEF TrustInv, AnswerInv, Mine
  <2> QED  BY <2>2, <2>3, <2>4, <2>5 DEF TrustInv
<1> QED  BY <1>3, <1>5, <1>6, <1>7

LEMMA CallKeeps ==
    ASSUME Inv, NEW r \in Requests, Arm(r) \/ Busy(r) \/ CallStep(r) PROVE Inv'
BY ArmKeeps, BusyKeeps, WriteKeeps, WokenKeeps, EndsKeeps, ResetKeeps DEF CallStep

-------------------------------------------------------------------------------
(* The device *)

\* A message that begins is something, and all of it is to come.
LEMMA FrameDue ==
    ASSUME NEW t \in Bytes, NEW n \in Sayable
    PROVE  /\ Frame(t, n) \in Seq(Bytes) /\ Tagged(Frame(t, n), t)
           /\ Len(Frame(t, n)) = n /\ n \in Nat
<1>1. n \in Frames  BY DEF Sayable
<1> QED  BY <1>1, FrameTagged

LEMMA AnswerKeeps == ASSUME Inv, NEW r \in Requests, Answer(r) PROVE Inv'
<1> USE DEF Inv
<1>1. PICK n \in Sayable :
         /\ pc[r] \notin {"start", "write"} /\ result[r] \notin {"busy", "failed"}
         /\ r \notin decided /\ decided' = decided \cup {r}
         /\ due = <<>> /\ due' = Frame(r, n) /\ said' = [said EXCEPT ![r] = n]
         /\ UNCHANGED <<lock, flag, pc, result, buff, code, sem, recv, rpc, rcv, dst, wire,
                        unasked, cut, calm>>
  BY DEF Answer, callVars
<1>2. due' \in Seq(Bytes) /\ Tagged(due', r) /\ Len(due') = n /\ n \in Nat
  BY <1>1, FrameDue DEF Bytes
<1>3. /\ said' \in [Requests -> Nat] /\ said'[r] = n
      /\ \A q \in Requests : q # r => said'[q] = said[q]
  BY <1>1, <1>2 DEF TypeInv
<1>4. TypeInv'  BY <1>1, <1>2, <1>3 DEF TypeInv
<1>5. ArmInv' /\ ResultInv' /\ (Trusted' <=> Trusted)  BY <1>1, ReaderFrame
<1>6. SizeInv'  BY <1>1 DEF SizeInv
<1>7. ASSUME Trusted PROVE TrustInv'
  <2>1. lock = r /\ pc[r] = "wait"
    BY <1>1, <1>7 DEF TrustInv, PastInv, ArmInv, TypeInv, Places, Inside
  <2>2. sem = 0 /\ rpc = "select" /\ wire = <<>>
    BY <1>1, <1>7, <2>1 DEF TrustInv, HeldInv, Silent
  <2>3. Ahead(r)' /\ Tagged(wire', r)
    <3>1. Len(wire') = 0  BY <1>1, <2>2
    <3>2. Len(wire') + Len(due') = said'[r]  BY <1>2, <1>3, <3>1
    <3> QED  BY <1>1, <2>1, <2>2, <3>2, TaggedEmpty DEF Ahead
  <2>4. FreeInv'  BY <1>1, <2>1 DEF FreeInv, TypeInv
  <2>5. HeldInv'
    BY <1>1, <1>2, <2>1, <2>2, <2>3 DEF HeldInv, Handling, Writing
  <2>6. PastInv'  BY <1>1, <1>7, <2>1 DEF TrustInv, PastInv
  <2>7. \A q \in Requests : q # r => (Mine(q)' <=> Mine(q))  BY <1>1, <1>3 DEF Mine
  <2>8. AnswerInv'  BY <1>1, <1>7, <2>1, <2>2, <2>7 DEF TrustInv, AnswerInv
  <2> QED  BY <2>4, <2>5, <2>6, <2>8 DEF TrustInv
<1> QED  BY <1>4, <1>5, <1>6, <1>7

LEMMA IgnoreKeeps == ASSUME Inv, NEW r \in Requests, Ignore(r) PROVE Inv'
<1> USE DEF Inv
<1>1. /\ pc[r] = "wait" /\ r \notin decided /\ decided' = decided \cup {r}
      /\ UNCHANGED <<lock, flag, pc, result, buff, code, sem, recv, rpc, rcv, dst, wire, due, said,
                     unasked, cut, calm>>
  BY DEF Ignore, callVars
<1>2. TypeInv'  BY <1>1 DEF TypeInv
<1>3. ArmInv' /\ ResultInv' /\ (Trusted' <=> Trusted)  BY <1>1, ReaderFrame
<1>4. SizeInv'  BY <1>1 DEF SizeInv
<1>5. ASSUME Trusted PROVE TrustInv'
  <2>1. FreeInv'  BY <1>1, <1>5 DEF TrustInv, FreeInv, Silent
  <2>2. HeldInv'  
    BY <1>1, <1>5 DEF TrustInv, HeldInv, Ahead, Jammed, Stuck, Space, Silent
  <2>3. PastInv'  BY <1>1, <1>5 DEF TrustInv, PastInv
  <2>4. AnswerInv'  BY <1>1, <1>5 DEF TrustInv, AnswerInv, Mine
  <2> QED  BY <2>1, <2>2, <2>3, <2>4 DEF TrustInv
<1> QED  BY <1>2, <1>3, <1>4, <1>5

LEMMA SpeakKeeps == ASSUME Inv, SpeakUnasked PROVE Inv'
<1> USE DEF Inv
<1>1. PICK n \in Sayable :
         /\ calm => lock = Nobody
         /\ unasked' = unasked + 1 /\ due' = Frame(Nobody, n)
         /\ UNCHANGED <<lock, flag, pc, result, buff, code, sem, recv, rpc, rcv, dst, wire, said,
                        decided, cut, calm>>
  BY DEF SpeakUnasked, callVars
<1>2. due' \in Seq(Bytes)  BY <1>1, FrameDue DEF Bytes
<1>3. TypeInv'  BY <1>1, <1>2 DEF TypeInv
<1>4. ArmInv' /\ ResultInv' /\ SizeInv'  BY <1>1 DEF ArmInv, ResultInv, SizeInv
<1>5. ASSUME Trusted' PROVE TrustInv'
  <2>1. calm /\ lock = Nobody /\ TrustInv
    <3>1. unasked' # 0  BY <1>1 DEF TypeInv
    <3> QED  BY <1>1, <1>5, <3>1 DEF Trusted, Undisturbed
  <2>2. FreeInv' /\ HeldInv'  BY <1>1, <2>1 DEF TrustInv, FreeInv, HeldInv, TypeInv, Bytes
  <2>3. PastInv' /\ AnswerInv'  BY <1>1, <2>1 DEF TrustInv, PastInv, AnswerInv, Mine
  <2> QED  BY <2>2, <2>3 DEF TrustInv
<1> QED  BY <1>3, <1>4, <1>5

\* What arrives is taken from what is due.
LEMMA ArriveTakes ==
    ASSUME NEW n \in 1 .. Len(due), wire \in Seq(Bytes), due \in Seq(Bytes),
           wire' = wire \o SubSeq(due, 1, n), due' = SubSeq(due, n + 1, Len(due))
    PROVE  /\ wire' \in Seq(Bytes) /\ due' \in Seq(Bytes) /\ wire' # <<>>
           /\ Len(wire') + Len(due') = Len(wire) + Len(due)
           /\ \A t : Tagged(wire, t) /\ Tagged(due, t) => Tagged(wire', t) /\ Tagged(due', t)
<1>1. due # <<>> /\ n \in 0 .. Len(due) /\ Len(wire) + n > 0  OBVIOUS
<1> QED  BY <1>1, ReadTakes, ZenonT(40)

LEMMA ArriveKeeps == ASSUME Inv, Arrive PROVE Inv'
<1> USE DEF Inv
<1>1. PICK n \in 1 .. Len(due) :
         /\ wire' = wire \o SubSeq(due, 1, n) /\ due' = SubSeq(due, n + 1, Len(due))
         /\ UNCHANGED <<lock, flag, pc, result, buff, code, sem, recv, rpc, rcv, dst, said,
                        decided, unasked, cut, calm>>
  BY DEF Arrive, callVars
<1>2. /\ wire' \in Seq(Bytes) /\ due' \in Seq(Bytes) /\ wire' # <<>>
      /\ Len(wire') + Len(due') = Len(wire) + Len(due)
      /\ \A t : Tagged(wire, t) /\ Tagged(due, t) => Tagged(wire', t) /\ Tagged(due', t)
  <2>1. wire \in Seq(Bytes) /\ due \in Seq(Bytes)  BY DEF TypeInv
  <2> HIDE DEF Inv
  <2> QED  BY <1>1, <2>1, ArriveTakes
<1>3. ~Silent  BY <1>1 DEF Silent
<1>4. TypeInv'  BY <1>1, <1>2 DEF TypeInv
<1>5. ArmInv' /\ ResultInv' /\ (Trusted' <=> Trusted)  BY <1>1, ReaderFrame
<1>6. SizeInv'  BY <1>1, <1>2 DEF SizeInv, Handling
<1>7. ASSUME Trusted PROVE TrustInv'
  <2>1. FreeInv'  BY <1>1, <1>3, <1>7 DEF TrustInv, FreeInv
  <2>2. \A r \in Requests : (Ahead(r) => Ahead(r)') /\ (Jammed(r) => Jammed(r)')
    BY <1>1, <1>2 DEF Ahead, Jammed, Stuck, Space
  <2>3. ASSUME NEW r \in Requests, lock = r,
               Len(rcv) + Len(wire) + Len(due) = said[r]
        PROVE  Len(rcv) + Len(wire') + Len(due') = said[r]
    <3> DEFINE a == Len(wire') b == Len(due') c == Len(wire) d == Len(due) e == Len(rcv)
    <3>1. a \in Nat /\ b \in Nat /\ c \in Nat /\ d \in Nat /\ e \in Nat
      BY <1>2 DEF TypeInv
    <3>2. a + b = c + d /\ e + c + d = said[r]  BY <1>2, <2>3
    <3> HIDE DEF a, b, c, d, e
    <3>3. e + a + b = said[r]  BY <3>1, <3>2
    <3> QED  BY <3>3 DEF a, b, e
  <2>4. HeldInv'
    <3>1. ASSUME NEW r \in Requests, lock = r
          PROVE  /\ r \in decided /\ Tagged(wire', r) /\ Tagged(due', r)
                 /\ rpc \notin {"flag", "crashed"} \cup Handling /\ pc[r] # "woken"
                 /\ rpc = "select" => Ahead(r)'
                 /\ rpc \in {"read", "more"} => Len(rcv) + Len(wire') + Len(due') = said[r]
                 /\ rpc # "select" => Tagged(rcv, r) /\ sem = 0 /\ (pc[r] = "wait" \/ Jammed(r)')
                 /\ sem <= 1 /\ (sem = 1 => pc[r] = "wait")
                 /\ pc[r] = "reset" => sem = 0 /\ Jammed(r)'
      <4>1. Tagged(wire, r) /\ Tagged(due, r)  BY <1>7, <3>1 DEF TrustInv, HeldInv
      <4>2. Tagged(wire', r) /\ Tagged(due', r)  BY <1>2, <4>1
      <4>3. rpc \in {"read", "more"} => Len(rcv) + Len(wire') + Len(due') = said[r]
        BY <1>7, <2>3, <3>1 DEF TrustInv, HeldInv
      <4> QED  BY <1>3, <1>7, <2>2, <3>1, <4>2, <4>3 DEF TrustInv, HeldInv
    <3> QED  BY <1>1, <3>1 DEF HeldInv, Handling, Writing
  <2>5. PastInv' /\ AnswerInv'
    BY <1>1, <1>7 DEF TrustInv, PastInv, AnswerInv, Mine
  <2> QED  BY <2>1, <2>4, <2>5 DEF TrustInv
<1> QED  BY <1>4, <1>5, <1>6, <1>7

-------------------------------------------------------------------------------
LEMMA InitInv == Init => Inv
<1> SUFFICES ASSUME Init PROVE Inv
  OBVIOUS
<1> USE DEF Init
<1>1. /\ pc \in [Requests -> Places]
      /\ \A r \in Requests : pc[r] \in {"start", "done"} /\ (pc[r] = "done" <=> r \in decided)
  <2>1. \A r \in Requests : (IF calm \/ r \in Hasty THEN "start" ELSE "done") \in {"start", "done"}
    OBVIOUS
  <2> QED  BY <2>1 DEF Places
<1>2. TypeInv
  <2>1. <<>> \in Seq(Bytes)  OBVIOUS
  <2>2. recv \in [Requests -> Seq(Bytes)]  BY <2>1
  <2>3. result \in [Requests -> Results]  BY DEF Results
  <2> QED  BY <1>1, <2>1, <2>2, <2>3 DEF TypeInv, Bytes
<1>3. ArmInv
  <2>1. \A r \in Requests : pc[r] \notin Inside /\ lock # r  BY <1>1 DEF Inside
  <2> QED  BY <2>1 DEF ArmInv
<1>4. ResultInv  BY DEF ResultInv
<1>5. SizeInv
  <2>0. Len(rcv) = 0 /\ RcvSize > 0  OBVIOUS
  <2>1. \A r \in Requests : recv[r] = <<>>  OBVIOUS
  <2> QED  BY <2>0, <2>1 DEF SizeInv, Handling, Writing
<1>6. FreeInv /\ HeldInv  BY DEF FreeInv, HeldInv, Silent
<1>7. PastInv  BY <1>1 DEF PastInv
<1>8. AnswerInv  BY DEF AnswerInv
<1> QED  BY <1>2, <1>3, <1>4, <1>5, <1>6, <1>7, <1>8 DEF Inv, TrustInv

LEMMA StutterKeeps == ASSUME Inv, UNCHANGED vars PROVE Inv'
BY DEF vars, callVars, envVars, deviceVars, Inv, TypeInv, ArmInv, ResultInv, SizeInv, Trusted,
       Undisturbed, TrustInv, FreeInv, HeldInv, PastInv, AnswerInv, Mine, Tagged, Silent,
       Ahead, Jammed, Stuck, Space

LEMMA Invariant == Spec => []Inv
<1>1. Inv /\ [Next]_vars => Inv'
  BY ReaderKeeps, CallKeeps, AnswerKeeps, IgnoreKeeps, SpeakKeeps, ArriveKeeps, StutterKeeps
  DEF Next, Quiet
<1> QED  BY <1>1, InitInv, PTL DEF Spec

\* On a calm line, and on any line until it is first disturbed (a late answer, a
\* message unasked, a pause inside a message, a failed read or write), wait_uart
\* never writes through NULL, beyond the buffer, or to the buffer of a call that
\* may return during the write (uart_moudle.c:91-103) ...
THEOREM AlwaysWritesInside == Spec => []WritesInside
<1>1. ASSUME Inv, Trusted PROVE rpc # "crashed"
  BY <1>1 DEF Inv, TypeInv, TrustInv, FreeInv, HeldInv, Bytes, Reading
<1>2. ASSUME Inv, Trusted, rpc \in Writing PROVE pc[dst] = "wait" /\ sem = 0
  <2>1. rpc \in Handling  BY <1>2 DEF Handling
  <2>2. lock \in Requests /\ pc[lock] = "wait" /\ sem = 0  BY <1>2, <2>1, HandlingWaits
  <2>3. dst = lock  BY <1>2, <2>2 DEF Inv, TrustInv, HeldInv
  <2> QED  BY <2>2, <2>3
<1>3. Inv => WritesInside  BY <1>1, <1>2 DEF Inv, SizeInv, WritesInside, Trusted, Writing
<1> QED  BY <1>3, Invariant, PTL

\* ... no wakeup is left for the next call (uart_moudle.c:106, 285) ...
THEOREM NeverStale == Spec => []NoStaleWakeup
<1>1. ASSUME Inv, Trusted PROVE sem <= 1 /\ (lock = Nobody => sem = 0 /\ rpc # "post")
  BY <1>1 DEF Inv, TypeInv, TrustInv, FreeInv, HeldInv, Bytes, Reading
<1>2. Inv => NoStaleWakeup  BY <1>1 DEF NoStaleWakeup, Trusted
<1> QED  BY <1>2, Invariant, PTL

\* ... and a call that succeeds has the whole reply to its own message, however
\* it arrives and is cut into reads.
THEOREM AlwaysMine == Spec => []AnswerIsMine
<1>1. Inv => AnswerIsMine
  BY DEF Inv, TrustInv, AnswerInv, Mine, Tagged, AnswerIsMine, Trusted
<1> QED  BY <1>1, Invariant, PTL
===============================================================================
