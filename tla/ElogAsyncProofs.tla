--------------------------- MODULE ElogAsyncProofs ----------------------------
(***************************************************************************)
(* Theorems about ElogAsync, for every size of the ring buffer and of the  *)
(* thread's own buffer, and for every set of threads that log.             *)
(***************************************************************************)
EXTENDS ElogAsync, SequenceTheorems, TLAPS

USE ElogAssumption

Cells == 0 .. BufSize - 1

\* Bytes in the ring, by what was put and taken.
Kept == accepted - taken

-------------------------------------------------------------------------------
(* Arithmetic of the ring *)

\* The next cell is a cell.
LEMMA AtIsCell ==
    ASSUME NEW i \in Cells, NEW n \in 0 .. BufSize
    PROVE  At(i, n) \in Cells
BY DEF At, Cells

\* Two steps on the ring are one.
LEMMA AtAt ==
    ASSUME NEW i \in Cells, NEW m \in Nat, NEW n \in Nat, m + n < BufSize
    PROVE  At(At(i, m), n) = At(i, m + n)
BY DEF At, Cells

LEMMA AtFull ==
    ASSUME NEW i \in Cells
    PROVE  At(i, BufSize) = i
BY DEF At, Cells

LEMMA AtWhole ==
    ASSUME NEW i \in Cells, NEW m \in Nat, NEW n \in Nat, m + n <= BufSize
    PROVE  At(At(i, m), n) = At(i, m + n)
BY DEF At, Cells

\* How far one cell is after another, both counted from a third.
LEMMA AfterAt ==
    ASSUME NEW i \in Cells, NEW m \in 0 .. BufSize - 1, NEW k \in 0 .. BufSize - 1
    PROVE  After(At(i, m), At(i, k)) = IF m <= k THEN k - m ELSE k - m + BufSize
BY DEF At, After, Cells

LEMMA AfterIsNat ==
    ASSUME NEW i \in Cells, NEW j \in Cells
    PROVE  After(i, j) \in Nat
BY DEF After, Cells

LEMMA LeastIsLeast ==
    ASSUME NEW a \in Nat, NEW b \in Nat
    PROVE  Least(a, b) \in Nat /\ Least(a, b) <= a /\ Least(a, b) <= b
               /\ (a > 0 /\ b > 0 => Least(a, b) > 0)
BY DEF Least

\* A function on the first n numbers is a sequence of length n.
LEMMA Elements ==
    ASSUME NEW n \in Nat, NEW f \in [1 .. n -> Nat]
    PROVE  f \in Seq(Nat) /\ Len(f) = n
<1>1. f \in Seq(Nat)  BY SeqDef
<1>2. DOMAIN f = 1 .. Len(f) /\ Len(f) \in Nat  BY <1>1, LenProperties
<1>3. 1 .. Len(f) = 1 .. n  BY <1>2
<1> QED  BY <1>1, <1>2, <1>3

-------------------------------------------------------------------------------
(* The invariant *)

\* poll_get_buf holds bytes exactly while they are to be output, and a logger
\* that is off has no thread.
ThreadInv ==
    /\ tpc = "out" => Len(poll) > 0
    /\ tpc # "out" => poll = <<>>
    /\ mpc = "off" => tpc = "ended"

TypeInv == TypeOK /\ ThreadInv

\* The two indices and the two flags, by the number of bytes kept.
FlagsInv ==
    /\ Kept \in 0 .. BufSize
    /\ w = At(r, Kept)
    /\ full <=> Kept = BufSize
    /\ empty <=> Kept = 0

\* The ring and poll_get_buf hold the bytes that come next.
BytesInv ==
    /\ \A k \in 0 .. Kept - 1 : buf[At(r, k)] = taken + k + 1
    /\ \A k \in 1 .. Len(poll) : poll[k] = shown + k

IInv == TypeInv /\ FlagsInv /\ BytesInv

\* elog_async_get_buf_used counts the bytes kept.
LEMMA UsedIsKept ==
    ASSUME NEW w1 \in Cells, NEW r1 \in Cells, NEW u \in 0 .. BufSize,
           NEW f \in BOOLEAN, NEW e \in BOOLEAN,
           w1 = At(r1, u), f <=> u = BufSize, e <=> u = 0
    PROVE  (IF w1 > r1 THEN w1 - r1
            ELSE IF ~f /\ ~e THEN BufSize - (r1 - w1)
            ELSE IF f THEN BufSize ELSE 0) = u
BY DEF At, Cells

LEMMA UsedIs ==
    ASSUME TypeOK, FlagsInv
    PROVE  Used = Kept
BY UsedIsKept DEF Used, TypeOK, FlagsInv, Cells

LEMMA InitIInv == Init => IInv
<1> SUFFICES ASSUME Init PROVE IInv
  OBVIOUS
<1>1. poll \in Seq(Nat) /\ Len(poll) = 0  BY DEF Init
<1>2. TypeInv
  <2>1. buf \in [0 .. BufSize - 1 -> Nat]  BY DEF Init
  <2>2. cpc \in [Threads -> {"idle", "enter", "locked", "notify"}]  BY DEF Init
  <2>3. TypeOK
    <3>1. 0 \in 0 .. BufSize - 1  OBVIOUS
    <3>2. poll \in Seq(Nat) /\ full \in BOOLEAN /\ empty \in BOOLEAN  BY <1>1 DEF Init
    <3> QED  BY <3>1, <3>2, <2>1, <2>2 DEF Init, TypeOK
  <2>4. ThreadInv  BY DEF Init, ThreadInv
  <2> QED  BY <2>3, <2>4 DEF TypeInv
<1>3. FlagsInv  BY <1>1, BufSize > 0 DEF Init, FlagsInv, Kept, taken, At
<1>4. BytesInv  BY <1>1 DEF Init, BytesInv, Kept, taken
<1> QED  BY <1>2, <1>3, <1>4 DEF IInv

\* A step that leaves the ring and what was taken from it as it is.
LEMMA RingFrame ==
    ASSUME IInv, TypeInv', UNCHANGED <<ringVars, poll, accepted, shown>>
    PROVE  IInv'
<1>1. FlagsInv'  BY DEF IInv, FlagsInv, Kept, taken, ringVars, At
<1>2. BytesInv'  BY DEF IInv, BytesInv, Kept, taken, ringVars, At
<1> QED  BY <1>1, <1>2 DEF IInv

\* async_put_log keeps what is in the ring and adds the next bytes behind it.
LEMMA PutKeeps ==
    ASSUME IInv, NEW c \in Threads, NEW n \in Sizes, Put(c, n)
    PROVE  IInv'
<1> DEFINE size == Least(n, Space)
<1> USE DEF IInv, TypeInv
<1>1. /\ w \in Cells /\ r \in Cells /\ buf \in [Cells -> Nat]
      /\ accepted \in Nat /\ shown \in Nat /\ Len(poll) \in Nat /\ taken \in Nat
  BY LenProperties DEF TypeOK, Cells, taken
<1>2. Used = Kept /\ Kept \in 0 .. BufSize  BY UsedIs DEF FlagsInv
<1>3. /\ Space = BufSize - Kept /\ Space # 0 /\ Space \in Nat
      /\ Kept \in 0 .. BufSize - 1
  BY <1>2 DEF Space, Put, PutThen
<1>4. size \in Nat /\ size > 0 /\ size <= n /\ size <= Space /\ n \in Nat
  BY <1>3, LeastIsLeast, n \in Nat \ {0}
<1>5. Space <= n <=> size = Space  BY <1>3, <1>4 DEF Least
<1>6. /\ full' = (full \/ Space <= n) /\ empty' = FALSE
      /\ w' = At(w, size) /\ r' = r /\ poll' = poll /\ shown' = shown
      /\ accepted' = accepted + size
      /\ buf' = [i \in Cells |->
                    IF After(w, i) < size THEN accepted + After(w, i) + 1 ELSE buf[i]]
  BY DEF Put, PutThen, Cells
<1> HIDE DEF size
<1>7. taken' = taken /\ Kept' = Kept + size
  BY <1>1, <1>4, <1>6 DEF taken, Kept
<1>8. Kept + size <= BufSize  BY <1>3, <1>4, <1>2
<1>9. w' \in Cells  BY <1>1, <1>4, <1>3, <1>6, AtIsCell
<1>10. buf' \in [Cells -> Nat]
  <2> SUFFICES ASSUME NEW i \in Cells
               PROVE  (IF After(w, i) < size THEN accepted + After(w, i) + 1 ELSE buf[i]) \in Nat
    BY <1>6
  <2> QED  BY <1>1, AfterIsNat
<1>11. TypeInv'
  <2>1. cpc' \in [Threads -> {"idle", "enter", "locked", "notify"}]
    BY DEF Put, PutThen, Goes, TypeOK
  <2>2. UNCHANGED <<lock, sem, running, on, mpc, inits, left, tpc>>
    BY DEF Put, PutThen, mainVars
  <2>3. full' \in BOOLEAN /\ accepted' \in Nat
    BY <1>1, <1>4, <1>6 DEF TypeOK
  <2>4. TypeOK'  BY <1>6, <1>9, <1>10, <2>1, <2>2, <2>3 DEF TypeOK, Cells
  <2>5. ThreadInv'  BY <1>6, <2>2 DEF ThreadInv
  <2> QED  BY <2>4, <2>5
<1>12. FlagsInv'
  <2>1. w = At(r, Kept) /\ (full <=> Kept = BufSize) /\ (empty <=> Kept = 0)
    BY DEF FlagsInv
  <2>2. w' = At(r, Kept + size)
    BY <2>1, <1>1, <1>2, <1>4, <1>6, <1>8, AtWhole
  <2>3. full' <=> Kept + size = BufSize
    <3>1. ~full  BY <2>1, <1>3
    <3>2. full' <=> size = Space  BY <3>1, <1>5, <1>6
    <3> QED  BY <3>2, <1>2, <1>3, <1>4
  <2>4. empty' <=> Kept + size = 0  BY <1>2, <1>4, <1>6
  <2>5. Kept + size \in 0 .. BufSize  BY <1>2, <1>4, <1>8
  <2> QED  BY <2>2, <2>3, <2>4, <2>5, <1>6, <1>7 DEF FlagsInv, At
<1>13. BytesInv'
  <2>1. \A k \in 0 .. Kept + size - 1 : buf'[At(r, k)] = taken + k + 1
    <3> SUFFICES ASSUME NEW k \in 0 .. Kept + size - 1
                 PROVE  buf'[At(r, k)] = taken + k + 1
      OBVIOUS
    <3>1. k \in 0 .. BufSize - 1  BY <1>2, <1>4, <1>8
    <3>2. At(r, k) \in Cells  BY <3>1, <1>1, AtIsCell
    <3>3. After(w, At(r, k)) = IF Kept <= k THEN k - Kept ELSE k - Kept + BufSize
      BY <3>1, <1>1, <1>3, AfterAt DEF FlagsInv
    <3>4. buf'[At(r, k)] = IF After(w, At(r, k)) < size
                             THEN accepted + After(w, At(r, k)) + 1 ELSE buf[At(r, k)]
      BY <3>2, <1>6
    <3>5. CASE Kept <= k
      <4>1. After(w, At(r, k)) = k - Kept /\ k - Kept < size  BY <3>3, <3>5, <3>1, <1>2, <1>4
      <4> QED  BY <4>1, <3>4, <1>1, <1>2, <3>1 DEF Kept
    <3>6. CASE k < Kept
      <4>1. ~(After(w, At(r, k)) < size)  BY <3>3, <3>6, <3>1, <1>2, <1>4, <1>8
      <4>2. k \in 0 .. Kept - 1  BY <3>6, <3>1, <1>2
      <4> QED  BY <4>1, <4>2, <3>4 DEF BytesInv
    <3> QED  BY <3>5, <3>6, <3>1, <1>2
  <2>2. ASSUME NEW k \in 0 .. Kept' - 1
        PROVE  buf'[At(r', k)] = taken' + k + 1
    <3>1. k \in 0 .. Kept + size - 1  BY <1>7, <1>2, <1>4, <2>2
    <3>2. buf'[At(r, k)] = taken + k + 1  BY <2>1, <3>1
    <3> QED  BY <3>2, <1>6, <1>7
  <2>3. ASSUME NEW k \in 1 .. Len(poll')
        PROVE  poll'[k] = shown' + k
    BY <1>6 DEF BytesInv
  <2> QED  BY <2>2, <2>3 DEF BytesInv, At
<1> QED  BY <1>11, <1>12, <1>13

\* elog_async_get_log takes the bytes that come next.
LEMMA TakeKeeps ==
    ASSUME IInv, TakeLog
    PROVE  /\ IInv'
           /\ shown = taken /\ taken' = taken + Least(PollSize, accepted - taken)
<1> DEFINE size == Least(Used, PollSize)
<1> USE DEF IInv, TypeInv
<1>1. /\ w \in Cells /\ r \in Cells /\ buf \in [Cells -> Nat]
      /\ accepted \in Nat /\ shown \in Nat
  BY DEF TypeOK, Cells
<1>2. Used = Kept /\ Kept \in 0 .. BufSize  BY UsedIs DEF FlagsInv
<1>3. poll = <<>> /\ Len(poll) = 0
  BY DEF ThreadInv, TakeLog, TakeIf, Runs
<1>4. taken = shown  BY <1>1, <1>3 DEF taken
<1>5. Kept # 0 /\ Kept = accepted - taken  BY <1>2 DEF TakeLog, TakeIf, Kept
<1>6. size \in Nat /\ size > 0 /\ size <= Kept /\ size <= PollSize
  <2>1. Used \in Nat /\ Used > 0 /\ PollSize \in Nat /\ PollSize > 0  BY <1>2, <1>5
  <2> HIDE DEF IInv, TypeInv
  <2>2. Least(Used, PollSize) \in Nat /\ Least(Used, PollSize) > 0
        /\ Least(Used, PollSize) <= Used /\ Least(Used, PollSize) <= PollSize
    BY <2>1, LeastIsLeast
  <2> QED  BY <2>2, <1>2
<1>7. (Used <= PollSize) <=> size = Kept  BY <1>2, <1>6 DEF Least
<1>8. size = Least(PollSize, accepted - taken)  BY <1>2, <1>5 DEF Least
<1>9. /\ poll' = [k \in 1 .. size |-> buf[At(r, k - 1)]]
      /\ r' = At(r, size) /\ empty' = (empty \/ Used <= PollSize) /\ full' = FALSE
      /\ UNCHANGED <<w, buf, lock, sem, mainVars, cpc, accepted, shown>>
      /\ tpc' = "out"
  BY DEF TakeLog, TakeIf, Runs
<1> HIDE DEF size
<1>10. ASSUME NEW k \in 1 .. size
       PROVE  At(r, k - 1) \in Cells /\ buf[At(r, k - 1)] = shown + k
  <2>1. k - 1 \in 0 .. Kept - 1 /\ k - 1 \in 0 .. BufSize  BY <1>2, <1>6, <1>10
  <2>2. At(r, k - 1) \in Cells  BY <2>1, <1>1, AtIsCell
  <2>3. buf[At(r, k - 1)] = taken + (k - 1) + 1  BY <2>1 DEF BytesInv
  <2> QED  BY <2>2, <2>3, <1>1, <1>4, <1>10
<1>11. poll' \in Seq(Nat) /\ Len(poll') = size
  <2>1. poll' \in [1 .. size -> Nat]  BY <1>1, <1>9, <1>10
  <2> QED  BY <2>1, <1>6, Elements
<1>12. taken' = taken + size /\ Kept' = Kept - size
  <2>1. taken' = shown' + Len(poll') /\ Kept' = accepted' - taken'  BY DEF taken, Kept
  <2>2. taken' = taken + size  BY <2>1, <1>4, <1>9, <1>11
  <2> QED  BY <2>1, <2>2, <1>1, <1>4, <1>5, <1>6, <1>9
<1>13. r' \in Cells  BY <1>1, <1>2, <1>6, <1>9, AtIsCell
<1>14. TypeInv'
  <2>1. full' \in BOOLEAN /\ empty' \in BOOLEAN  BY <1>9 DEF TypeOK
  <2>2. tpc' \in {"test", "wait", "get", "out", "ended"}  BY <1>9
  <2>3. TypeOK'
    BY <1>9, <1>11, <1>13, <2>1, <2>2 DEF TypeOK, Cells, mainVars
  <2>4. mpc' # "off"
    <3>1. tpc # "ended"  BY DEF TakeLog, TakeIf, Runs
    <3> QED  BY <3>1, <1>9 DEF ThreadInv, mainVars
  <2>5. ThreadInv'  BY <1>6, <1>9, <1>11, <2>4 DEF ThreadInv
  <2> QED  BY <2>3, <2>5
<1>15. FlagsInv'
  <2>1. w = At(r, Kept) /\ (full <=> Kept = BufSize) /\ (empty <=> Kept = 0)
    BY DEF FlagsInv
  <2>2. w' = At(r', Kept - size)
    <3>1. size + (Kept - size) = Kept  BY <1>2, <1>6
    <3>2. Kept - size \in Nat /\ size + (Kept - size) <= BufSize  BY <1>2, <1>6
    <3>3. At(At(r, size), Kept - size) = At(r, size + (Kept - size))
      BY <3>2, <1>1, <1>6, AtWhole
    <3> QED  BY <3>1, <3>3, <2>1, <1>9
  <2>3. Kept - size \in 0 .. BufSize /\ Kept - size # BufSize
    BY <1>2, <1>6
  <2>4. empty' <=> Kept - size = 0
    <3>1. ~empty  BY <2>1, <1>5
    <3>2. empty' <=> size = Kept  BY <3>1, <1>7, <1>9
    <3> QED  BY <3>2, <1>2, <1>6
  <2> QED  BY <2>2, <2>3, <2>4, <1>9, <1>12 DEF FlagsInv, At
<1>16. BytesInv'
  <2>1. ASSUME NEW k \in 0 .. Kept - size - 1
        PROVE  buf[At(At(r, size), k)] = taken + size + k + 1
    <3>1. k \in Nat /\ size + k \in 0 .. Kept - 1 /\ size + k <= BufSize
      BY <2>1, <1>2, <1>6
    <3>2. At(At(r, size), k) = At(r, size + k)  BY <3>1, <1>1, <1>6, AtWhole
    <3>3. buf[At(r, size + k)] = taken + (size + k) + 1  BY <3>1 DEF BytesInv
    <3> QED  BY <3>2, <3>3, <1>1, <1>4, <1>6, <3>1
  <2>2. \A k \in 0 .. Kept' - 1 : buf'[At(r', k)] = taken' + k + 1
    BY <2>1, <1>9, <1>12
  <2>3. \A k \in 1 .. Len(poll') : poll'[k] = shown' + k
    BY <1>9, <1>10, <1>11
  <2> QED  BY <2>2, <2>3 DEF BytesInv, At
<1> QED  BY <1>4, <1>8, <1>12, <1>14, <1>15, <1>16

\* elog_port_output shows what was taken, and takes nothing more.
LEMMA ShowKeeps ==
    ASSUME IInv, Show
    PROVE  IInv' /\ shown' = taken /\ taken' = taken
<1> USE DEF IInv, TypeInv
<1>1. accepted \in Nat /\ shown \in Nat  BY DEF TypeOK
<1>2. poll \in Seq(Nat) /\ Len(poll) \in Nat /\ Len(poll) > 0
  BY LenProperties DEF TypeOK, ThreadInv, Show, ShowThen, Runs
<1>3. Len(poll) \in 1 .. Len(poll)  BY <1>2
<1>4. poll[Len(poll)] = taken
  <2>1. poll[Len(poll)] = shown + Len(poll)  BY <1>3 DEF BytesInv
  <2> QED  BY <2>1 DEF taken
<1>5. /\ shown' = poll[Len(poll)] /\ poll' = <<>> /\ tpc = "out" /\ tpc' = "get"
      /\ UNCHANGED <<ringVars, lock, sem, mainVars, cpc, accepted>>
  BY DEF Show, ShowThen, Runs
<1>6. shown' = taken /\ shown' \in Nat  BY <1>1, <1>2, <1>4, <1>5 DEF taken
<1>7. poll' \in Seq(Nat) /\ Len(poll') = 0  BY <1>5
<1>8. taken' = taken /\ Kept' = Kept
  <2>1. taken' = shown' + Len(poll') /\ Kept' = accepted' - taken'  BY DEF taken, Kept
  <2>2. taken' = taken  BY <2>1, <1>6, <1>7
  <2> QED  BY <2>1, <2>2, <1>5 DEF Kept
<1>9. TypeInv'
  <2>1. TypeOK'  BY <1>5, <1>6, <1>7 DEF TypeOK, ringVars, mainVars
  <2>2. ThreadInv'  BY <1>5 DEF ThreadInv, mainVars
  <2> QED  BY <2>1, <2>2
<1>10. FlagsInv'  BY <1>5, <1>8 DEF FlagsInv, ringVars, At
<1>11. BytesInv'
  <2>1. \A k \in 0 .. Kept' - 1 : buf'[At(r', k)] = taken' + k + 1
    BY <1>5, <1>8 DEF BytesInv, ringVars, At
  <2>2. \A k \in 1 .. Len(poll') : poll'[k] = shown' + k  BY <1>7
  <2> QED  BY <2>1, <2>2 DEF BytesInv, At
<1> QED  BY <1>6, <1>8, <1>9, <1>10, <1>11

\* Every other step leaves the ring, poll_get_buf and the counters alone.
Other ==
    \/ \E c \in Threads : Enter(c) \/ Lock(c) \/ Notify(c) \/ Unlock(c)
    \/ Test \/ Wake \/ TakeNothing
    \/ InitLog \/ Start \/ Stop \/ Deinit \/ Ending

LEMMA NextSplits ==
    ASSUME Next
    PROVE  \/ \E c \in Threads : \E n \in Sizes : Put(c, n)
           \/ TakeLog \/ Show \/ Other \/ UNCHANGED vars
BY DEF Next, CallerStep, OutputStep, GetLog, Other, Off

LEMMA OtherFrame ==
    ASSUME Other
    PROVE  UNCHANGED <<ringVars, poll, accepted, shown>>
<1>1. ASSUME NEW c \in Threads, Enter(c) \/ Lock(c) \/ Notify(c) \/ Unlock(c)
      PROVE  UNCHANGED <<ringVars, poll, accepted, shown>>
  BY <1>1 DEF Enter, Lock, Notify, Unlock
<1>2. CASE Test \/ Wake \/ TakeNothing
  BY <1>2 DEF Test, Wake, TakeNothing
<1>3. CASE InitLog \/ Start \/ Stop \/ Deinit \/ Ending
  BY <1>3 DEF InitLog, Start, Stop, Deinit, Ending, DeinitNotify, DeinitPost, Join
<1> QED  BY <1>1, <1>2, <1>3 DEF Other

LEMMA OtherTypes ==
    ASSUME IInv, Other
    PROVE  TypeInv'
<1> USE DEF IInv, TypeInv
<1>1. UNCHANGED <<ringVars, poll, accepted, shown>>  BY OtherFrame
<1>2. ASSUME NEW c \in Threads, Enter(c) \/ Lock(c) \/ Notify(c) \/ Unlock(c)
      PROVE  TypeInv'
  <2>1. cpc' \in [Threads -> {"idle", "enter", "locked", "notify"}]
    BY <1>2 DEF Enter, Lock, Notify, Unlock, Goes, TypeOK
  <2>2. lock' \in Threads \cup {Free} /\ sem' \in Nat
    BY <1>2 DEF Enter, Lock, Notify, Unlock, TypeOK
  <2>3. UNCHANGED <<running, on, mpc, inits, left, tpc>>
    BY <1>2 DEF Enter, Lock, Notify, Unlock, mainVars
  <2> QED  BY <1>1, <2>1, <2>2, <2>3 DEF TypeOK, ThreadInv, ringVars
<1>3. CASE Test \/ Wake \/ TakeNothing
  <2>1. tpc' \in {"test", "wait", "get", "ended"} /\ tpc \in {"test", "wait", "get"}
    BY <1>3 DEF Test, Wake, TakeNothing, Runs
  <2>2. sem' \in Nat  BY <1>3 DEF Test, Wake, TakeNothing, TypeOK
  <2>3. UNCHANGED <<lock, running, on, mpc, inits, left, cpc>>
    BY <1>3 DEF Test, Wake, TakeNothing, mainVars
  <2>4. TypeOK'  BY <1>1, <2>1, <2>2, <2>3 DEF TypeOK, ringVars
  <2>5. ThreadInv'
    <3>1. mpc # "off"  BY <2>1 DEF ThreadInv
    <3>2. poll' = <<>> /\ tpc' # "out" /\ mpc' # "off"
      BY <3>1, <1>1, <2>1, <2>3 DEF ThreadInv
    <3> QED  BY <3>2 DEF ThreadInv
  <2> QED  BY <2>4, <2>5
<1>4. CASE InitLog
  <2>1. /\ lock' = Free /\ sem' = 0 /\ running' = TRUE /\ tpc' = "test"
        /\ inits' = inits + 1 /\ left' = accepted /\ mpc' = "ready"
        /\ UNCHANGED <<on, cpc>> /\ tpc = "ended"
    BY <1>4 DEF InitLog, Manages, ThreadInv
  <2>2. TypeOK'  BY <1>1, <2>1 DEF TypeOK, ringVars
  <2>3. ThreadInv'  BY <1>1, <2>1 DEF ThreadInv
  <2> QED  BY <2>2, <2>3
<1>5. CASE Start \/ Stop \/ Deinit
  <2>1. /\ mpc' \in {"on", "ready", "deinit"} /\ on' \in BOOLEAN /\ running' \in BOOLEAN
        /\ UNCHANGED <<lock, sem, inits, left, cpc, tpc>>
    BY <1>5 DEF Start, Stop, Deinit, Manages, TypeOK
  <2>2. TypeOK'  BY <1>1, <2>1 DEF TypeOK, ringVars
  <2>3. ThreadInv'  BY <1>1, <2>1 DEF ThreadInv
  <2> QED  BY <2>2, <2>3
<1>6. CASE Ending
  <2>1. /\ mpc' \in {"join", "off"} /\ (mpc' = "off" => tpc = "ended") /\ sem' \in Nat
        /\ UNCHANGED <<lock, running, on, inits, left, cpc, tpc>>
    BY <1>6 DEF Ending, DeinitNotify, DeinitPost, Join, Manages, TypeOK
  <2>2. TypeOK'  BY <1>1, <2>1 DEF TypeOK, ringVars
  <2>3. ThreadInv'  BY <1>1, <2>1 DEF ThreadInv
  <2> QED  BY <2>2, <2>3
<1> QED  BY <1>2, <1>3, <1>4, <1>5, <1>6 DEF Other

LEMMA VarsIncludes ==
    ASSUME UNCHANGED vars, IInv
    PROVE  IInv'
BY DEF vars, ringVars, mainVars, IInv, TypeInv, TypeOK, ThreadInv, FlagsInv, BytesInv,
       Kept, taken, At

LEMMA Inductive == IInv /\ [Next]_vars => IInv'
<1> SUFFICES ASSUME IInv, [Next]_vars PROVE IInv'
  OBVIOUS
<1>1. ASSUME NEW c \in Threads, NEW n \in Sizes, Put(c, n)
      PROVE  IInv'
  BY <1>1, PutKeeps
<1>2. CASE TakeLog  BY <1>2, TakeKeeps
<1>3. CASE Show  BY <1>3, ShowKeeps
<1>4. CASE Other
  <2>1. TypeInv'  BY <1>4, OtherTypes
  <2>2. UNCHANGED <<ringVars, poll, accepted, shown>>  BY <1>4, OtherFrame
  <2> QED  BY <2>1, <2>2, RingFrame
<1>5. CASE UNCHANGED vars  BY <1>5, VarsIncludes
<1> QED  BY <1>1, <1>2, <1>3, <1>4, <1>5, NextSplits

\* In every reachable state the ring is what its indices and flags say.
THEOREM Invariant == Spec => []IInv
<1> QED  BY InitIInv, Inductive, PTL DEF Spec

\* The variables keep their types.
THEOREM AlwaysTyped == Spec => []TypeOK
<1>1. IInv => TypeOK  BY DEF IInv, TypeInv
<1> QED  BY <1>1, Invariant, PTL

\* elog_async_get_buf_used counts the bytes that were put and not taken, and
\* they come out in the order in which they were put.
THEOREM AlwaysInOrder == Spec => []InOrder
<1>1. IInv => InOrder
  <2> SUFFICES ASSUME IInv PROVE InOrder
    OBVIOUS
  <2>1. Used = Kept  BY UsedIs DEF IInv, TypeInv
  <2> QED  BY <2>1 DEF InOrder, IInv, BytesInv, Kept
<1> QED  BY <1>1, Invariant, PTL

-------------------------------------------------------------------------------
(* No lost wakeup *)

\* NothingIsStuck, by what the ring keeps.
Awake ==
    tpc \in {"test", "wait"} /\ accepted > left /\ Kept # 0 =>
        sem > 0 \/ ~running \/ \E c \in Threads : cpc[c] = "notify"

LEMMA PutWakes ==
    ASSUME NEW c \in Threads, NEW n \in Sizes, IInv, Put(c, n)
    PROVE  Awake'
<1>1. cpc' = [cpc EXCEPT ![c] = "notify"]  BY DEF Put, PutThen, Goes
<1>2. cpc'[c] = "notify"  BY <1>1 DEF IInv, TypeInv, TypeOK
<1> QED  BY <1>2 DEF Awake

LEMMA OtherWakes ==
    ASSUME IInv, Awake, Other
    PROVE  Awake'
<1> USE DEF IInv, TypeInv
<1>1. Kept' = Kept /\ accepted' = accepted
  BY OtherFrame DEF Kept, taken
<1>2. ASSUME NEW c \in Threads, Enter(c) \/ Lock(c) \/ Unlock(c)
      PROVE  Awake'
  <2>1. \A d \in Threads : cpc[d] = "notify" => cpc'[d] = "notify"
    BY <1>2 DEF Enter, Lock, Unlock, Goes, TypeOK
  <2>2. UNCHANGED <<sem, running, left, tpc>>
    BY <1>2 DEF Enter, Lock, Unlock, mainVars
  <2> QED  BY <1>1, <2>1, <2>2 DEF Awake
<1>3. ASSUME NEW c \in Threads, Notify(c)
      PROVE  Awake'
  <2>1. sem' > 0  BY <1>3 DEF Notify, TypeOK
  <2> QED  BY <2>1 DEF Awake
<1>4. CASE Test
  BY <1>1, <1>4 DEF Awake, Test, Runs, mainVars
<1>5. CASE Wake  BY <1>5 DEF Awake, Wake, Runs
<1>6. CASE TakeNothing
  <2>1. Kept = 0  BY <1>6, UsedIs DEF TakeNothing
  <2> QED  BY <1>1, <2>1 DEF Awake
<1>7. CASE InitLog
  <2>1. ~(accepted > left)'  BY <1>1, <1>7 DEF InitLog, TypeOK
  <2> QED  BY <2>1 DEF Awake
<1>8. CASE Start \/ Stop
  BY <1>1, <1>8 DEF Awake, Start, Stop
<1>9. CASE Deinit
  <2>1. ~running'  BY <1>9 DEF Deinit
  <2> QED  BY <2>1 DEF Awake
<1>10. CASE DeinitNotify
  <2>1. sem' > 0  BY <1>10 DEF DeinitNotify, DeinitPost, TypeOK
  <2> QED  BY <2>1 DEF Awake
<1>11. CASE Join
  BY <1>1, <1>11 DEF Awake, Join
<1> QED
  BY <1>2, <1>3, <1>4, <1>5, <1>6, <1>7, <1>8, <1>9, <1>10, <1>11 DEF Other, Ending

LEMMA AwakeInductive == IInv /\ Awake /\ [Next]_vars => Awake'
<1> SUFFICES ASSUME IInv, Awake, [Next]_vars PROVE Awake'
  OBVIOUS
<1>1. ASSUME NEW c \in Threads, NEW n \in Sizes, Put(c, n)
      PROVE  Awake'
  BY <1>1, PutWakes
<1>2. CASE TakeLog  BY <1>2 DEF Awake, TakeLog, TakeIf, Runs
<1>3. CASE Show  BY <1>3 DEF Awake, Show, ShowThen, Runs
<1>4. CASE Other  BY <1>4, OtherWakes
<1>5. CASE UNCHANGED vars  BY <1>5 DEF Awake, vars, mainVars, Kept, taken
<1> QED  BY <1>1, <1>2, <1>3, <1>4, <1>5, NextSplits

\* async_output never sleeps on bytes that somebody put since elog_init: for
\* every log a notice is on its way until the buffer is seen empty.
THEOREM NeverStuck == Spec => []NothingIsStuck
<1>1. Init => Awake  BY DEF Init, Awake
<1>2. IInv /\ Awake => NothingIsStuck
  <2> SUFFICES ASSUME IInv, Awake PROVE NothingIsStuck
    OBVIOUS
  <2>1. Used = Kept  BY UsedIs DEF IInv, TypeInv
  <2> QED  BY <2>1 DEF Awake, NothingIsStuck
<1> QED  BY <1>1, <1>2, Invariant, AwakeInductive, PTL DEF Spec

-------------------------------------------------------------------------------
(* Refinement *)

LEMMA PutIsAccept ==
    ASSUME NEW c \in Threads, NEW n \in Sizes, IInv, Put(c, n)
    PROVE  Promise!Accept(n)
<1>1. Space = BufSize - (accepted - taken)  BY UsedIs DEF IInv, TypeInv, Space, Kept
<1>2. accepted' = accepted + Least(n, Space) /\ shown' = shown /\ poll' = poll
  BY DEF Put, PutThen
<1>3. taken' = taken  BY <1>2 DEF taken
<1>4. Least(n, Space) = Promise!Least(n, Space)  BY DEF Least, Promise!Least
<1> QED  BY <1>1, <1>2, <1>3, <1>4 DEF Promise!Accept

LEMMA TakeIsTake ==
    ASSUME IInv, TakeLog
    PROVE  Promise!Take
<1>1. shown = taken /\ taken' = taken + Least(PollSize, accepted - taken)
  BY TakeKeeps
<1>2. accepted' = accepted /\ shown' = shown  BY DEF TakeLog, TakeIf
<1>3. Least(PollSize, accepted - taken) = Promise!Least(PollSize, accepted - taken)
  BY DEF Least, Promise!Least
<1> QED  BY <1>1, <1>2, <1>3 DEF Promise!Take

LEMMA ShowIsShow ==
    ASSUME IInv, Show
    PROVE  Promise!Show
<1>1. accepted' = accepted  BY DEF Show, ShowThen
<1> QED  BY <1>1, ShowKeeps DEF Promise!Show

LEMMA StepRefines == IInv /\ [Next]_vars => [Promise!Next]_(Promise!vars)
<1> SUFFICES ASSUME IInv, [Next]_vars
             PROVE  Promise!Next \/ UNCHANGED Promise!vars
  OBVIOUS
<1>1. ASSUME NEW c \in Threads, NEW n \in Sizes, Put(c, n)
      PROVE  Promise!Next
  BY <1>1, PutIsAccept DEF Promise!Next
<1>2. CASE TakeLog  BY <1>2, TakeIsTake DEF Promise!Next
<1>3. CASE Show  BY <1>3, ShowIsShow DEF Promise!Next
<1>4. CASE Other  BY <1>4, OtherFrame DEF Promise!vars, taken
<1>5. CASE UNCHANGED vars  BY <1>5 DEF Promise!vars, taken, vars
<1> QED  BY <1>1, <1>2, <1>3, <1>4, <1>5, NextSplits

\* Whatever the threads do, elog_async.c behaves as the queue that drops only
\* what does not fit, and shows the rest once and in order.
THEOREM Implements == Spec => KeepsPromise
<1>1. Init => Promise!Init
  <2> SUFFICES ASSUME Init PROVE Promise!Init
    OBVIOUS
  <2>1. Len(poll) = 0  BY DEF Init
  <2> QED  BY <2>1 DEF Init, Promise!Init, taken
<1> QED  BY <1>1, Invariant, StepRefines, PTL DEF Spec, KeepsPromise, Promise!Spec
===============================================================================
