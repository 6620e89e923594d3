--------------------------- MODULE LinkedListProofs ---------------------------
(***************************************************************************)
(* Theorems about LinkedList, for every set of nodes and of threads.       *)
(***************************************************************************)
EXTENDS LinkedList, SequenceTheorems, WellFoundedInduction, TLAPS

USE DEF ring, args, Cells, Indices

InList == {"walk", "each"}

LockInv ==
    /\ \A c \in Callers : pc[c] \in InList => lock = c
    /\ lock # Free => pc[lock] \in InList

ArgsInv ==
    \A c \in Callers :
        /\ pc[c] # "idle" /\ op[c] \in {"insert", "tail"} => node[c] \in hand[c]
        /\ pc[c] = "walk" /\ op[c] = "remove" => index[c] # 0 /\ Abs(index[c]) <= nodecount
        /\ pc[c] = "walk" /\ op[c] \in {"insert", "remove"} => left[c] <= Abs(index[c])
        /\ pc[c] # "idle" /\ op[c] = "remove" => index[c] # 0
        /\ pc[c] = "walk" => op[c] # "foreach"

TypeInv == TypeOK /\ LockInv /\ ArgsInv

\* The index names a place of the list.  That of a removal does from the lock
\* on; that of an insertion did when the call began.
Fits(c) == op[c] = "remove" \/ (op[c] = "insert" /\ Abs(index[c]) <= nodecount)

\* Places the walk has passed, counted from the head in the direction of the
\* index.
Passed(c) == Abs(index[c]) - left[c]

\* A thread that walks is on the ring, and if its index names a place of it,
\* where its walk says.
WalkInv(s) ==
    \A c \in Callers :
        /\ pc[c] = "walk" => \E i \in 0 .. nodecount : at[c] = Cell(s, i)
        /\ pc[c] = "walk" /\ Fits(c) =>
               at[c] = Cell(s, IF index[c] > 0 THEN Passed(c) ELSE nodecount + 1 - Passed(c))
        /\ pc[c] = "each" =>
               left[c] <= nodecount /\ at[c] = Cell(s, nodecount + 1 - left[c])

\* A node is in the list or with exactly one thread.
OwnInv(s) ==
    \A n \in Nodes :
        \/ Linked(s, n) /\ \A c \in Callers : n \notin hand[c]
        \/ /\ ~Linked(s, n)
           /\ \E c \in Callers : n \in hand[c] /\ \A d \in Callers \ {c} : n \notin hand[d]

RingInv == \E s \in Orders : Matches(s) /\ WalkInv(s) /\ OwnInv(s)

IInv == TypeInv /\ RingInv

LEMMA InitIInv == Init => IInv
<1> SUFFICES ASSUME Init PROVE IInv
  OBVIOUS
<1> USE LinkedListAssumption
<1>1. TypeInv  BY DEF Init, TypeInv, TypeOK, LockInv, InList, ArgsInv
<1> DEFINE s == [i \in 1 .. nodecount |-> HeadCell]
<1>2. nodecount = 0 /\ 1 .. nodecount = {}  BY DEF Init
<1>3. s \in Orders  BY <1>2 DEF Orders
<1>4. Matches(s)  BY <1>2 DEF Matches, Cell, Init
<1>5. WalkInv(s)  BY DEF WalkInv, Init
<1>6. OwnInv(s)  BY <1>2 DEF OwnInv, Linked, Init
<1> QED  BY <1>1, <1>3, <1>4, <1>5, <1>6 DEF IInv, RingInv

\* The cell remove_lknode unlinks is the node at its index.
LEMMA RemoveAt ==
    ASSUME IInv, NEW c \in Callers, pc[c] = "walk", op[c] = "remove", left[c] = 0,
           NEW s \in Orders, WalkInv(s)
    PROVE  /\ Place(index[c]) \in 1 .. nodecount
           /\ at[c] = s[Place(index[c])]
           /\ at[c] \in Nodes
<1>1. index[c] \in Int /\ index[c] # 0 /\ Abs(index[c]) <= nodecount /\ nodecount \in Nat
  BY LinkedListAssumption DEF IInv, TypeInv, TypeOK, ArgsInv
<1>2. Place(index[c]) \in 1 .. nodecount  BY <1>1 DEF Place, Abs
<1>3. at[c] = Cell(s, Place(index[c]))  BY <1>1 DEF WalkInv, Fits, Passed, Place, Abs
<1> QED  BY <1>2, <1>3 DEF Cell, Orders

LEMMA NextTypeInv == IInv /\ [Next]_vars => TypeInv'
<1> SUFFICES ASSUME IInv, [Next]_vars PROVE TypeInv'
  OBVIOUS
<1>0. TypeInv  BY DEF IInv
<1> USE LinkedListAssumption DEF TypeInv, TypeOK, LockInv, InList, ArgsInv, Abs, Return, Leave,
        Enter, Call
<1>1. ASSUME NEW c \in Callers, CallInsert(c) PROVE TypeInv'  BY <1>0, <1>1 DEF CallInsert
<1>2. ASSUME NEW c \in Callers, CallTail(c) PROVE TypeInv'  BY <1>0, <1>2 DEF CallTail
<1>3. ASSUME NEW c \in Callers, CallRemove(c) PROVE TypeInv'  BY <1>0, <1>3 DEF CallRemove
<1>4. ASSUME NEW c \in Callers, CallForeach(c) PROVE TypeInv'  BY <1>0, <1>4 DEF CallForeach
<1>5. ASSUME NEW c \in Callers, LockInsert(c) PROVE TypeInv'  BY <1>0, <1>5 DEF LockInsert
<1>6. ASSUME NEW c \in Callers, LockTail(c) PROVE TypeInv'  BY <1>0, <1>6 DEF LockTail
<1>7. ASSUME NEW c \in Callers, LockRemove(c) PROVE TypeInv'  BY <1>0, <1>7 DEF LockRemove, LockRemoveIf
<1>8. ASSUME NEW c \in Callers, LockForeach(c) PROVE TypeInv'  BY <1>0, <1>8 DEF LockForeach
<1>9. ASSUME NEW c \in Callers, Refuse(c) PROVE TypeInv'  BY <1>0, <1>9 DEF Refuse
<1>10. ASSUME NEW c \in Callers, Miss(c) PROVE TypeInv'  BY <1>0, <1>10 DEF Miss
<1>11. ASSUME NEW c \in Callers, GiveUp(c) PROVE TypeInv'  BY <1>0, <1>11 DEF GiveUp
<1>12. ASSUME NEW c \in Callers, Walk(c) PROVE TypeInv'  BY <1>0, <1>12 DEF Walk
<1>13. ASSUME NEW c \in Callers, Link(c) PROVE TypeInv'  BY <1>0, <1>13 DEF Link, Splice
<1>14. ASSUME NEW c \in Callers, Unlink(c) PROVE TypeInv'
  <2>1. PICK s \in Orders : WalkInv(s)  BY DEF IInv, RingInv
  <2>2. at[c] \in Nodes /\ nodecount - 1 \in Nat
    BY <1>0, <1>14, <2>1, RemoveAt DEF Unlink, UnlinkAt
  <2> QED  BY <1>0, <1>14, <2>2 DEF Unlink, UnlinkAt
<1>15. ASSUME NEW c \in Callers, Visit(c) PROVE TypeInv'  BY <1>0, <1>15 DEF Visit, VisitThen
<1>16. ASSUME NEW c \in Callers, EndForeach(c) PROVE TypeInv'  BY <1>0, <1>16 DEF EndForeach
<1>17. CASE UNCHANGED vars  BY <1>0, <1>17 DEF vars
<1> QED
  BY Zenon, <1>1, <1>2, <1>3, <1>4, <1>5, <1>6, <1>7, <1>8, <1>9, <1>10, <1>11, <1>12, <1>13,
     <1>14, <1>15, <1>16, <1>17 DEF Next, Step

-------------------------------------------------------------------------------
(* Linking and unlinking keep the ring *)

\* The nodes with n after place k, and without the one at place k.
With(s, k, n) ==
    [i \in 1 .. nodecount + 1 |-> IF i <= k THEN s[i] ELSE IF i = k + 1 THEN n ELSE s[i - 1]]
Without(s, k) == [i \in 1 .. nodecount - 1 |-> IF i < k THEN s[i] ELSE s[i + 1]]

LEMMA LinkKeepsRing ==
    ASSUME TypeOK, NEW s \in Orders, Matches(s), NEW k \in 0 .. nodecount,
           NEW n \in Nodes, ~Linked(s, n), Splice(Cell(s, k), n), nodecount' = nodecount + 1,
           NEW t, t = With(s, k, n)
    PROVE  t \in Orders' /\ Matches(t)'
<1> DEFINE p == Cell(s, k)
           q == Cell(s, k + 1)
<1> USE LinkedListAssumption
<1>0. nodecount \in Nat /\ next \in [Cells -> Cells] /\ pre \in [Cells -> Cells]
  BY DEF TypeOK
<1>1. t \in Orders'  BY <1>0 DEF With, Orders
<1>2. next[p] = q /\ p \in Cells /\ q \in Cells /\ n # p /\ n # q
  BY <1>0 DEF Matches, Cell, Linked, Orders
<1>3. /\ next' = [next EXCEPT ![n] = q, ![p] = n]
      /\ pre' = [pre EXCEPT ![q] = n, ![n] = p]
  BY Zenon, <1>0, <1>2 DEF Splice
<1>4. \A i, j \in 1 .. nodecount' : t[i] = t[j] => i = j
  BY <1>0 DEF With, Matches, Linked, Orders
<1>5. \A i \in 0 .. nodecount' + 1 :
          Cell(t, i)' = IF i <= k THEN Cell(s, i) ELSE IF i = k + 1 THEN n ELSE Cell(s, i - 1)
  BY <1>0 DEF With, Cell, Orders
<1>6. \A i \in 0 .. nodecount : Cell(s, i) = p => i = k
  BY <1>0 DEF Matches, Cell, Orders
<1>7. \A i \in 1 .. nodecount + 1 : Cell(s, i) = q => i = k + 1
  BY <1>0 DEF Matches, Cell, Orders
<1>8. \A i \in 0 .. nodecount + 1 : Cell(s, i) # n /\ Cell(s, i) \in Cells
  BY <1>0 DEF Cell, Linked, Orders
<1>9. ASSUME NEW i \in 0 .. nodecount'
      PROVE  next'[Cell(t, i)'] = Cell(t, i + 1)' /\ pre'[Cell(t, i + 1)'] = Cell(t, i)'
  <2>1. CASE i < k
    <3>1. Cell(t, i)' = Cell(s, i) /\ Cell(t, i + 1)' = Cell(s, i + 1)  BY <1>0, <1>5, <2>1
    <3>2. next[Cell(s, i)] = Cell(s, i + 1) /\ pre[Cell(s, i + 1)] = Cell(s, i)
      BY <1>0, <2>1 DEF Matches
    <3>3. Cell(s, i) # p /\ Cell(s, i + 1) # q  BY <1>0, <1>6, <1>7, <2>1
    <3> QED  BY <1>0, <1>3, <1>8, <2>1, <3>1, <3>2, <3>3
  <2>2. CASE i = k
    <3>1. Cell(t, i)' = p /\ Cell(t, i + 1)' = n  BY <1>0, <1>5, <2>2
    <3> QED  BY <1>0, <1>2, <1>3, <3>1
  <2>3. CASE i = k + 1
    <3>1. Cell(t, i)' = n /\ Cell(t, i + 1)' = q  BY <1>0, <1>5, <2>3
    <3> QED  BY <1>0, <1>2, <1>3, <3>1
  <2>4. CASE i > k + 1
    <3>0. i - 1 \in 0 .. nodecount  BY <1>0, <2>4
    <3>1. Cell(t, i)' = Cell(s, i - 1) /\ Cell(t, i + 1)' = Cell(s, i)  BY <1>0, <1>5, <2>4
    <3>2. next[Cell(s, i - 1)] = Cell(s, i) /\ pre[Cell(s, i)] = Cell(s, i - 1)
      BY <1>0, <3>0 DEF Matches
    <3>3. Cell(s, i - 1) # p /\ Cell(s, i) # q  BY <1>0, <1>6, <1>7, <2>4
    <3> QED  BY <1>0, <1>3, <1>8, <2>4, <3>1, <3>2, <3>3
  <2> QED  BY <1>0, <2>1, <2>2, <2>3, <2>4
<1>10. Matches(t)'  BY <1>4, <1>9 DEF Matches
<1> QED  BY <1>1, <1>10

LEMMA UnlinkKeepsRing ==
    ASSUME TypeOK, NEW s \in Orders, Matches(s), NEW k \in 1 .. nodecount,
           next' = [next EXCEPT ![pre[s[k]]] = next[s[k]]],
           pre' = [pre EXCEPT ![next'[s[k]]] = pre[s[k]]],
           nodecount' = nodecount - 1,
           NEW t, t = Without(s, k)
    PROVE  t \in Orders' /\ Matches(t)'
<1> DEFINE p == Cell(s, k - 1)
           q == Cell(s, k + 1)
<1> USE LinkedListAssumption
<1>0. nodecount \in Nat /\ next \in [Cells -> Cells] /\ pre \in [Cells -> Cells]
  BY DEF TypeOK
<1>1. t \in Orders'  BY <1>0 DEF Without, Orders
<1>2. /\ Cell(s, k) = s[k] /\ s[k] \in Cells /\ p \in Cells /\ q \in Cells
      /\ next[s[k]] = q /\ pre[s[k]] = p
  <2>1. Cell(s, k) = s[k] /\ s[k] \in Cells /\ p \in Cells /\ q \in Cells
    BY <1>0 DEF Cell, Orders
  <2>2. next[Cell(s, k)] = q  BY <1>0 DEF Matches
  <2>3. k - 1 \in 0 .. nodecount /\ (k - 1) + 1 = k  BY <1>0
  <2>4. pre[Cell(s, k)] = p  BY <2>3 DEF Matches
  <2> QED  BY <2>1, <2>2, <2>4
<1>p. p # s[k]  BY <1>0 DEF Matches, Cell, Orders
<1>3. next' = [next EXCEPT ![p] = q] /\ pre' = [pre EXCEPT ![q] = p]
  BY Zenon, <1>0, <1>2, <1>p
<1>4. \A i, j \in 1 .. nodecount' : t[i] = t[j] => i = j
  BY <1>0 DEF Without, Matches, Orders
<1>5. \A i \in 0 .. nodecount' + 1 : Cell(t, i)' = IF i < k THEN Cell(s, i) ELSE Cell(s, i + 1)
  BY <1>0 DEF Without, Cell, Orders
<1>6. \A i \in 0 .. nodecount : Cell(s, i) = p => i = k - 1
  BY <1>0 DEF Matches, Cell, Orders
<1>7. \A i \in 1 .. nodecount + 1 : Cell(s, i) = q => i = k + 1
  BY <1>0 DEF Matches, Cell, Orders
<1>8. \A i \in 0 .. nodecount + 1 : Cell(s, i) \in Cells
  BY <1>0 DEF Cell, Orders
<1>9. ASSUME NEW i \in 0 .. nodecount'
      PROVE  next'[Cell(t, i)'] = Cell(t, i + 1)' /\ pre'[Cell(t, i + 1)'] = Cell(t, i)'
  <2>1. CASE i < k - 1
    <3>1. Cell(t, i)' = Cell(s, i) /\ Cell(t, i + 1)' = Cell(s, i + 1)  BY <1>0, <1>5, <2>1
    <3>2. next[Cell(s, i)] = Cell(s, i + 1) /\ pre[Cell(s, i + 1)] = Cell(s, i)
      BY <1>0, <2>1 DEF Matches
    <3>3. Cell(s, i) # p /\ Cell(s, i + 1) # q  BY <1>0, <1>6, <1>7, <2>1
    <3> QED  BY <1>0, <1>3, <1>8, <2>1, <3>1, <3>2, <3>3
  <2>2. CASE i = k - 1
    <3>1. Cell(t, i)' = p /\ Cell(t, i + 1)' = q  BY <1>0, <1>5, <2>2
    <3> QED  BY <1>0, <1>2, <1>3, <3>1
  <2>3. CASE i > k - 1
    <3>0. i + 1 \in 0 .. nodecount  BY <1>0, <2>3
    <3>1. Cell(t, i)' = Cell(s, i + 1) /\ Cell(t, i + 1)' = Cell(s, (i + 1) + 1)
      BY <1>0, <1>5, <2>3
    <3>2. /\ next[Cell(s, i + 1)] = Cell(s, (i + 1) + 1)
          /\ pre[Cell(s, (i + 1) + 1)] = Cell(s, i + 1)
      BY <3>0 DEF Matches
    <3>3. Cell(s, i + 1) # p /\ Cell(s, (i + 1) + 1) # q  BY <1>0, <1>6, <1>7, <2>3
    <3> QED  BY <1>0, <1>3, <1>8, <2>3, <3>1, <3>2, <3>3
  <2> QED  BY <1>0, <2>1, <2>2, <2>3
<1>10. Matches(t)'  BY <1>4, <1>9 DEF Matches
<1> QED  BY <1>1, <1>10

\* Two places around cell i of the ring.
LEMMA Around ==
    ASSUME TypeOK, NEW s \in Orders, Matches(s), NEW i \in 0 .. nodecount
    PROVE  /\ next[Cell(s, i)] = Cell(s, i + 1)
           /\ i > 0 => pre[Cell(s, i)] = Cell(s, i - 1)
           /\ pre[HeadCell] = Cell(s, nodecount)
           /\ next[HeadCell] = Cell(s, 1)
<1>0. nodecount \in Nat  BY DEF TypeOK
<1>1. next[Cell(s, i)] = Cell(s, i + 1)  BY DEF Matches
<1>2. i > 0 => pre[Cell(s, i)] = Cell(s, i - 1)
  <2> SUFFICES ASSUME i > 0 PROVE pre[Cell(s, i)] = Cell(s, i - 1)
    OBVIOUS
  <2>1. i - 1 \in 0 .. nodecount /\ (i - 1) + 1 = i  BY <1>0
  <2> QED  BY <2>1 DEF Matches
<1>3. pre[Cell(s, nodecount + 1)] = Cell(s, nodecount)  BY <1>0 DEF Matches
<1>4. next[Cell(s, 0)] = Cell(s, 0 + 1)  BY <1>0 DEF Matches
<1>5. Cell(s, nodecount + 1) = HeadCell /\ Cell(s, 0) = HeadCell  BY <1>0 DEF Cell
<1> QED  BY <1>1, <1>2, <1>3, <1>4, <1>5

\* A step that leaves the ring and the owners alone keeps RingInv if the walks
\* stay on the ring.
LEMMA RingFrame ==
    ASSUME UNCHANGED <<next, pre, nodecount, hand>>,
           NEW s \in Orders, Matches(s), OwnInv(s), WalkInv(s)'
    PROVE  RingInv'
<1>1. s \in Orders'  BY DEF Orders
<1>2. Matches(s)'  BY DEF Matches, Cell
<1>3. OwnInv(s)'  BY DEF OwnInv, Linked
<1> QED  BY <1>1, <1>2, <1>3 DEF RingInv

LEMMA NextRingInv == IInv /\ [Next]_vars => RingInv'
<1> SUFFICES ASSUME IInv, [Next]_vars PROVE RingInv'
  OBVIOUS
<1> USE LinkedListAssumption
<1>0. TypeInv /\ TypeInv' /\ TypeOK /\ nodecount \in Nat
  BY NextTypeInv DEF IInv, TypeInv, TypeOK
<1>r. PICK s \in Orders : Matches(s) /\ WalkInv(s) /\ OwnInv(s)  BY DEF IInv, RingInv
<1>a. ASSUME UNCHANGED <<next, pre, nodecount, hand>>, WalkInv(s)' PROVE RingInv'
  BY <1>a, <1>r, RingFrame
<1>1. ASSUME NEW c \in Callers, CallInsert(c) PROVE RingInv'
  BY <1>0, <1>a, <1>r, <1>1 DEF CallInsert, Call, TypeInv, TypeOK, WalkInv, Fits, Passed, Cell
<1>2. ASSUME NEW c \in Callers, CallTail(c) PROVE RingInv'
  BY <1>0, <1>a, <1>r, <1>2 DEF CallTail, Call, TypeInv, TypeOK, WalkInv, Fits, Passed, Cell
<1>3. ASSUME NEW c \in Callers, CallRemove(c) PROVE RingInv'
  BY <1>0, <1>a, <1>r, <1>3 DEF CallRemove, Call, TypeInv, TypeOK, WalkInv, Fits, Passed, Cell
<1>4. ASSUME NEW c \in Callers, CallForeach(c) PROVE RingInv'
  BY <1>0, <1>a, <1>r, <1>4 DEF CallForeach, Call, TypeInv, TypeOK, WalkInv, Fits, Passed, Cell
<1>5. ASSUME NEW c \in Callers, LockInsert(c) PROVE RingInv'
  <2>1. /\ at' = [at EXCEPT ![c] = HeadCell] /\ left' = [left EXCEPT ![c] = Abs(index[c])]
        /\ pc' = [pc EXCEPT ![c] = "walk"] /\ op[c] = "insert"
        /\ UNCHANGED <<next, pre, nodecount, hand, op, index>>
    BY <1>5 DEF LockInsert, Enter
  <2>2. WalkInv(s)'
    BY <1>0, <1>r, <2>1 DEF TypeInv, TypeOK, WalkInv, Fits, Passed, Cell
  <2> QED  BY <1>a, <2>1, <2>2
<1>6. ASSUME NEW c \in Callers, LockTail(c) PROVE RingInv'
  <2>0. pre[HeadCell] = Cell(s, nodecount)  BY <1>0, <1>r, Around
  <2>1. /\ at' = [at EXCEPT ![c] = pre[HeadCell]] /\ left' = [left EXCEPT ![c] = 0]
        /\ pc' = [pc EXCEPT ![c] = "walk"] /\ op[c] = "tail"
        /\ UNCHANGED <<next, pre, nodecount, hand, op, index>>
    BY <1>6 DEF LockTail, Enter
  <2>2. WalkInv(s)'
    BY <1>0, <1>r, <2>1, <2>0 DEF TypeInv, TypeOK, WalkInv, Fits, Passed, Cell
  <2> QED  BY <1>a, <2>1, <2>2
<1>7. ASSUME NEW c \in Callers, LockRemove(c) PROVE RingInv'
  <2>1. /\ at' = [at EXCEPT ![c] = HeadCell] /\ left' = [left EXCEPT ![c] = Abs(index[c])]
        /\ pc' = [pc EXCEPT ![c] = "walk"] /\ op[c] = "remove"
        /\ UNCHANGED <<next, pre, nodecount, hand, op, index>>
    BY <1>7 DEF LockRemove, LockRemoveIf, Enter
  <2>2. WalkInv(s)'
    BY <1>0, <1>r, <2>1 DEF TypeInv, TypeOK, WalkInv, Fits, Passed, Cell, Abs
  <2> QED  BY <1>a, <2>1, <2>2
<1>8. ASSUME NEW c \in Callers, LockForeach(c) PROVE RingInv'
  <2>0. next[HeadCell] = Cell(s, 1)  BY <1>0, <1>r, Around
  <2>1. /\ at' = [at EXCEPT ![c] = next[HeadCell]] /\ left' = [left EXCEPT ![c] = nodecount]
        /\ pc' = [pc EXCEPT ![c] = "each"] /\ op[c] = "foreach"
        /\ UNCHANGED <<next, pre, nodecount, hand, op, index>>
    BY <1>8 DEF LockForeach, Enter
  <2>2. WalkInv(s)'
    BY <1>0, <1>r, <2>1, <2>0 DEF TypeInv, TypeOK, WalkInv, Fits, Passed, Cell
  <2> QED  BY <1>a, <2>1, <2>2
<1>9. ASSUME NEW c \in Callers, Refuse(c) PROVE RingInv'
  BY <1>0, <1>a, <1>r, <1>9 DEF Refuse, Return, TypeInv, TypeOK, WalkInv, Fits, Passed, Cell
<1>10. ASSUME NEW c \in Callers, Miss(c) PROVE RingInv'
  BY <1>0, <1>a, <1>r, <1>10 DEF Miss, Return, TypeInv, TypeOK, WalkInv, Fits, Passed, Cell
<1>11. ASSUME NEW c \in Callers, GiveUp(c) PROVE RingInv'
  BY <1>0, <1>a, <1>r, <1>11 DEF GiveUp, Return, TypeInv, TypeOK, WalkInv, Fits, Passed, Cell
<1>12. ASSUME NEW c \in Callers, Walk(c) PROVE RingInv'
  <2>1. /\ pc[c] = "walk" /\ left[c] \in Nat /\ left[c] > 0 /\ index[c] \in Int
        /\ left' = [left EXCEPT ![c] = left[c] - 1]
        /\ at' = [at EXCEPT ![c] = IF index[c] > 0 THEN next[at[c]] ELSE pre[at[c]]]
        /\ UNCHANGED <<next, pre, nodecount, hand, pc, op, index>>
    BY <1>0, <1>12 DEF Walk, TypeInv, TypeOK
  <2>2. \E i \in 0 .. nodecount : at'[c] = Cell(s, i)
    <3>1. PICK i \in 0 .. nodecount : at[c] = Cell(s, i)  BY <1>r, <2>1 DEF WalkInv
    <3>2. /\ next[at[c]] = Cell(s, i + 1)
          /\ i > 0 => pre[at[c]] = Cell(s, i - 1)
          /\ i = 0 => pre[at[c]] = Cell(s, nodecount)
      BY <1>0, <1>r, <3>1, Around DEF Cell
    <3>3. at'[c] \in {next[at[c]], pre[at[c]]}  BY <1>0, <2>1 DEF TypeOK
    <3>4. i = nodecount => Cell(s, i + 1) = Cell(s, 0)  BY <1>0 DEF Cell
    <3> QED  BY <1>0, <3>2, <3>3, <3>4
  <2>3. ASSUME Fits(c)
        PROVE  at'[c] = Cell(s, IF index[c] > 0 THEN Passed(c) + 1 ELSE nodecount + 1 - (Passed(c) + 1))
    <3>1. /\ Passed(c) \in 0 .. nodecount - 1
          /\ at[c] = Cell(s, IF index[c] > 0 THEN Passed(c) ELSE nodecount + 1 - Passed(c))
      BY <1>0, <1>r, <2>1, <2>3 DEF TypeInv, ArgsInv, WalkInv, Fits, Passed, Abs
    <3>2. CASE index[c] > 0
      BY <1>0, <1>r, <2>1, <3>1, <3>2, Around DEF TypeOK
    <3>3. CASE ~(index[c] > 0)
      <4>1. CASE Passed(c) = 0
        <5>1. at[c] = HeadCell  BY <1>0, <3>1, <3>3, <4>1 DEF Cell
        <5> QED  BY <1>0, <1>r, <2>1, <3>3, <4>1, <5>1, Around DEF TypeOK
      <4>2. CASE Passed(c) > 0
        <5>1. PICK i \in 1 .. nodecount : i = nodecount + 1 - Passed(c)  BY <1>0, <3>1, <4>2
        <5>2. pre[Cell(s, i)] = Cell(s, i - 1)  BY <1>0, <1>r, <5>1, Around
        <5>3. i - 1 = nodecount + 1 - (Passed(c) + 1)  BY <1>0, <3>1, <5>1
        <5> QED  BY <1>0, <2>1, <3>1, <3>3, <5>1, <5>2, <5>3 DEF TypeOK
      <4> QED  BY <3>1, <4>1, <4>2
    <3> QED  BY <3>2, <3>3
  <2>4. Passed(c)' = Passed(c) + 1
    BY <1>0, <2>1 DEF Passed, Abs, TypeOK
  <2>5. WalkInv(s)'
    <3>1. ASSUME NEW d \in Callers, d # c
          PROVE  at'[d] = at[d] /\ left'[d] = left[d] /\ Passed(d)' = Passed(d)
      BY <1>0, <2>1, <3>1 DEF TypeOK, Passed
    <3>2. \A i \in Int : Cell(s, i)' = Cell(s, i)  BY <2>1 DEF Cell
    <3>3. ASSUME NEW d \in Callers
          PROVE  /\ pc[d] = "walk" => \E i \in 0 .. nodecount : at'[d] = Cell(s, i)
                 /\ pc[d] = "walk" /\ Fits(d) =>
                        at'[d] = Cell(s, IF index[d] > 0 THEN Passed(d)' ELSE nodecount + 1 - Passed(d)')
                 /\ pc[d] = "each" =>
                        left'[d] <= nodecount /\ at'[d] = Cell(s, nodecount + 1 - left'[d])
      <4>1. CASE d = c  BY <2>1, <2>2, <2>3, <2>4, <4>1
      <4>2. CASE d # c  BY <1>r, <3>1, <4>2 DEF WalkInv
      <4> QED  BY <4>1, <4>2
    <3>4. \A d \in Callers : Passed(d)' \in Int /\ left'[d] \in Int
      BY <1>0, <2>1 DEF TypeInv, TypeOK, Passed, Abs
    <3> QED  BY <1>0, <2>1, <3>3 DEF WalkInv, Fits, Cell
  <2> QED  BY <1>a, <2>1, <2>5
<1>13. ASSUME NEW c \in Callers, Link(c) PROVE RingInv'
  <2>1. /\ pc[c] = "walk" /\ node[c] \in hand[c] /\ node[c] \in Nodes
        /\ Splice(at[c], node[c]) /\ nodecount' = nodecount + 1
        /\ hand' = [hand EXCEPT ![c] = @ \ {node[c]}]
    BY <1>0, <1>13 DEF Link, TypeInv, TypeOK, ArgsInv
  <2>2. PICK k \in 0 .. nodecount : at[c] = Cell(s, k)  BY <1>r, <2>1 DEF WalkInv
  <2>3. ~Linked(s, node[c]) /\ \A d \in Callers \ {c} : node[c] \notin hand[d]
    BY <1>r, <2>1 DEF OwnInv
  <2>4. PICK t : t = With(s, k, node[c])  OBVIOUS
  <2>5. t \in Orders' /\ Matches(t)'  BY <1>0, <1>r, <2>1, <2>2, <2>3, <2>4, LinkKeepsRing
  <2>6. \A d \in Callers : pc'[d] \notin InList
    BY <1>0, <1>13 DEF Link, Leave, Return, TypeInv, LockInv, InList
  <2>7. WalkInv(t)'  BY <2>6 DEF WalkInv, InList
  <2>8. \A m \in Nodes : Linked(t, m) <=> Linked(s, m) \/ m = node[c]
    <3>1. DOMAIN s = 1 .. nodecount /\ DOMAIN t = 1 .. nodecount + 1
      BY <1>0, <2>4 DEF Orders, With
    <3>2. \A i \in 1 .. nodecount : IF i <= k THEN t[i] = s[i] ELSE t[i + 1] = s[i]
      BY <1>0, <2>4 DEF With
    <3>3. t[k + 1] = node[c]  BY <1>0, <2>4 DEF With
    <3>4. \A i \in 1 .. nodecount + 1 : t[i] = node[c] \/ \E j \in 1 .. nodecount : t[i] = s[j]
      BY <1>0, <2>4 DEF With
    <3>5. \A i \in 1 .. nodecount : \E j \in 1 .. nodecount + 1 : t[j] = s[i]
      BY <1>0, <3>2
    <3>6. k + 1 \in 1 .. nodecount + 1  BY <1>0
    <3> QED  BY Zenon, <3>1, <3>3, <3>4, <3>5, <3>6 DEF Linked
  <2>9. OwnInv(t)'
    <3>1. ASSUME NEW m \in Nodes, m # node[c]
          PROVE  \A d \in Callers : m \in hand'[d] <=> m \in hand[d]
      BY <1>0, <2>1, <3>1 DEF TypeOK
    <3>2. \A d \in Callers : node[c] \notin hand'[d]  BY <1>0, <2>1, <2>3 DEF TypeOK
    <3>3. \A m \in Nodes : Linked(t, m)' <=> Linked(s, m) \/ m = node[c]  BY <2>8 DEF Linked
    <3> QED  BY <1>r, <3>1, <3>2, <3>3 DEF OwnInv
  <2> QED  BY <2>5, <2>7, <2>9 DEF RingInv
<1>14. ASSUME NEW c \in Callers, Unlink(c) PROVE RingInv'
  <2>1. /\ pc[c] = "walk" /\ op[c] = "remove" /\ left[c] = 0
        /\ next' = [next EXCEPT ![pre[at[c]]] = next[at[c]]]
        /\ pre' = [pre EXCEPT ![next'[at[c]]] = pre[at[c]]]
        /\ nodecount' = nodecount - 1
        /\ hand' = [hand EXCEPT ![c] = @ \cup {at[c]}]
    BY <1>14 DEF Unlink, UnlinkAt
  <2>2. PICK k \in 1 .. nodecount : at[c] = s[k] /\ at[c] \in Nodes
    BY <1>r, <2>1, RemoveAt
  <2>4. PICK t : t = Without(s, k)  OBVIOUS
  <2>5. t \in Orders' /\ Matches(t)'  BY Zenon, <1>0, <1>r, <2>1, <2>2, <2>4, UnlinkKeepsRing
  <2>6. \A d \in Callers : pc'[d] \notin InList
    BY <1>0, <1>14 DEF Unlink, UnlinkAt, Leave, Return, TypeInv, LockInv, InList
  <2>7. WalkInv(t)'  BY <2>6 DEF WalkInv, InList
  <2>8. \A m \in Nodes : Linked(t, m) <=> Linked(s, m) /\ m # s[k]
    <3>1. DOMAIN s = 1 .. nodecount /\ DOMAIN t = 1 .. nodecount - 1
      BY <1>0, <2>4 DEF Orders, Without
    <3>2. \A i, j \in 1 .. nodecount : s[i] = s[j] => i = j  BY <1>r DEF Matches
    <3>3. \A i \in 1 .. nodecount - 1 : t[i] # s[k] /\ \E j \in 1 .. nodecount : t[i] = s[j]
      BY <1>0, <2>4, <3>2 DEF Without
    <3>4. ASSUME NEW i \in 1 .. nodecount, i # k
          PROVE  \E j \in 1 .. nodecount - 1 : t[j] = s[i]
      <4>1. CASE i < k
        <5>1. i \in 1 .. nodecount - 1 /\ t[i] = s[i]  BY <1>0, <2>4, <4>1 DEF Without
        <5> QED  BY <5>1
      <4>2. CASE i > k
        <5>1. i - 1 \in 1 .. nodecount - 1 /\ (i - 1) + 1 = i /\ ~(i - 1 < k)  BY <1>0, <4>2
        <5>2. t[i - 1] = s[i]  BY <2>4, <5>1 DEF Without
        <5> QED  BY <5>1, <5>2
      <4> QED  BY <1>0, <3>4, <4>1, <4>2
    <3> QED  BY Zenon, <3>1, <3>3, <3>4 DEF Linked
  <2>9. OwnInv(t)'
    <3>1. ASSUME NEW m \in Nodes, m # s[k]
          PROVE  \A d \in Callers : m \in hand'[d] <=> m \in hand[d]
      BY <1>0, <2>1, <2>2, <3>1 DEF TypeOK
    <3>2. Linked(s, s[k])  BY <1>0 DEF Linked, Orders
    <3>3. s[k] \in hand'[c] /\ \A d \in Callers \ {c} : s[k] \notin hand'[d]
      BY <1>0, <1>r, <2>1, <2>2, <3>2 DEF OwnInv, TypeOK
    <3>4. \A m \in Nodes : Linked(t, m)' <=> Linked(s, m) /\ m # s[k]  BY <2>8 DEF Linked
    <3>5. ASSUME NEW m \in Nodes
          PROVE  \/ Linked(t, m)' /\ \A d \in Callers : m \notin hand'[d]
                 \/ /\ ~Linked(t, m)'
                    /\ \E d \in Callers : /\ m \in hand'[d]
                                           /\ \A e \in Callers \ {d} : m \notin hand'[e]
      <4>1. CASE m = s[k]  BY <3>3, <3>4, <4>1
      <4>2. CASE m # s[k]  BY <1>r, <3>1, <3>4, <4>2 DEF OwnInv
      <4> QED  BY <4>1, <4>2
    <3> QED  BY <3>5 DEF OwnInv
  <2> QED  BY <2>5, <2>7, <2>9 DEF RingInv
<1>15. ASSUME NEW c \in Callers, Visit(c) PROVE RingInv'
  <2>1. UNCHANGED <<next, pre, nodecount, hand>>  BY <1>15 DEF Visit, VisitThen
  <2>2. CASE Leave(c)
    BY <1>0, <1>a, <1>r, <2>1, <2>2 DEF Leave, Return, TypeInv, TypeOK, WalkInv, Fits, Passed, Cell
  <2>3. CASE ~Leave(c)
    <3>1. /\ pc[c] = "each" /\ left[c] \in Nat /\ left[c] > 0
          /\ at' = [at EXCEPT ![c] = next[at[c]]] /\ left' = [left EXCEPT ![c] = left[c] - 1]
          /\ UNCHANGED <<pc, op, index>>
      BY <1>0, <1>15, <2>3 DEF Visit, VisitThen, TypeInv, TypeOK
    <3>2. PICK i \in 1 .. nodecount : i = nodecount + 1 - left[c] /\ at[c] = Cell(s, i)
      BY <1>0, <1>r, <3>1 DEF WalkInv
    <3>3. next[at[c]] = Cell(s, i + 1)  BY <1>0, <1>r, <3>2, Around
    <3>4. i + 1 = nodecount + 1 - (left[c] - 1)  BY <1>0, <3>1, <3>2
    <3>5. left'[c] <= nodecount /\ at'[c] = Cell(s, nodecount + 1 - left'[c])
      BY <1>0, <3>1, <3>2, <3>3, <3>4 DEF TypeOK
    <3>6. WalkInv(s)'
      BY <1>0, <1>r, <2>1, <3>1, <3>5 DEF TypeOK, WalkInv, Fits, Passed, Cell
    <3> QED  BY <1>a, <2>1, <3>6
  <2> QED  BY <2>2, <2>3
<1>16. ASSUME NEW c \in Callers, EndForeach(c) PROVE RingInv'
  BY <1>0, <1>a, <1>r, <1>16 DEF EndForeach, Leave, Return, TypeInv, TypeOK, WalkInv, Fits, Passed, Cell
<1>17. CASE UNCHANGED vars
  BY <1>a, <1>r, <1>17 DEF vars, WalkInv, Fits, Passed, Cell
<1> QED
  BY Zenon, <1>1, <1>2, <1>3, <1>4, <1>5, <1>6, <1>7, <1>8, <1>9, <1>10, <1>11, <1>12, <1>13,
     <1>14, <1>15, <1>16, <1>17 DEF Next, Step

-------------------------------------------------------------------------------
LEMMA Inductive == Spec => []IInv
<1>1. IInv /\ [Next]_vars => IInv'  BY NextTypeInv, NextRingInv DEF IInv
<1> QED  BY InitIInv, <1>1, PTL DEF Spec

\* Every variable keeps its type: threads only ever own nodes, and nodecount
\* is never negative.
THEOREM AlwaysTyped == Spec => []TypeOK
<1>1. IInv => TypeOK  BY DEF IInv, TypeInv
<1> QED  BY Inductive, <1>1, PTL

\* The list is one ring through the head, read the same in both directions,
\* with nodecount nodes, whatever the threads do.
THEOREM AlwaysARing == Spec => []IsRing
<1>1. IInv => IsRing  BY DEF IInv, RingInv, IsRing
<1> QED  BY Inductive, <1>1, PTL

\* No node is lost, in the list twice, or in the list and with a thread.
THEOREM AlwaysOneOwner == Spec => []OneOwner
<1>1. IInv => OneOwner  BY DEF IInv, RingInv, OwnInv, OneOwner
<1> QED  BY Inductive, <1>1, PTL

\* Every way out of an operation unlocks the list.
THEOREM AlwaysLeft == Spec => []LockIsLeft
<1>1. IInv => LockIsLeft  BY DEF IInv, TypeInv, LockInv, InList, LockIsLeft
<1> QED  BY Inductive, <1>1, PTL

\* foreach_lklist calls hand on the nodes in their order, never on the head.
THEOREM AlwaysInOrder == Spec => []VisitsInOrder
<1>1. IInv => VisitsInOrder
  <2> SUFFICES ASSUME IInv PROVE VisitsInOrder
    OBVIOUS
  <2>1. PICK s \in Orders : Matches(s) /\ WalkInv(s)  BY DEF IInv, RingInv
  <2>2. nodecount \in Nat /\ left \in [Callers -> Nat]  BY DEF IInv, TypeInv, TypeOK
  <2>3. ASSUME NEW c \in Callers, pc[c] = "each", left[c] > 0
        PROVE  left[c] <= nodecount /\ at[c] = s[nodecount + 1 - left[c]]
    BY <2>1, <2>2, <2>3 DEF WalkInv, Cell
  <2> QED  BY <2>1, <2>3 DEF VisitsInOrder
<1> QED  BY Inductive, <1>1, PTL

\* remove_lknode hands its caller the node that is at the index when the call
\* takes effect: the head is never removed, nor a node next to the one asked.
THEOREM AlwaysRemovesWhatWasAsked == Spec => RemovesWhatWasAsked
<1> DEFINE Asked == \A c \in Callers : Leaves(c, "remove") =>
               \E s \in Orders : /\ Matches(s)
                                 /\ Place(index[c]) \in DOMAIN s
                                 /\ hand'[c] = hand[c] \cup {s[Place(index[c])]}
<1>1. IInv /\ [Next]_vars => [Asked]_vars
  <2> SUFFICES ASSUME IInv, Next, NEW c \in Callers, Leaves(c, "remove")
               PROVE  \E s \in Orders : /\ Matches(s)
                                        /\ Place(index[c]) \in DOMAIN s
                                        /\ hand'[c] = hand[c] \cup {s[Place(index[c])]}
    BY DEF vars
  <2>1. PICK s \in Orders : Matches(s) /\ WalkInv(s)  BY DEF IInv, RingInv
  <2>2. pc[c] = "walk" /\ op[c] = "remove" /\ pc'[c] = "idle"  BY DEF Leaves
  <2>3. /\ pc \in [Callers -> {"idle", "lock1", "lock2", "walk", "each"}]
        /\ hand \in [Callers -> SUBSET Nodes]
    BY DEF IInv, TypeInv, TypeOK
  <2>4. PICK d \in Callers : Step(d)  BY DEF Next
  <2>5. d = c
    BY <2>2, <2>3, <2>4
       DEF Step, CallInsert, CallTail, CallRemove, CallForeach, Call, LockInsert, LockTail,
           LockRemove, LockRemoveIf, LockForeach, Enter, Refuse, Miss, GiveUp, Walk,
           Link, Unlink, UnlinkAt, Visit, VisitThen, EndForeach, Return, Leave
  <2>6. Unlink(c)
    BY <2>2, <2>4, <2>5
       DEF Step, CallInsert, CallTail, CallRemove, CallForeach, Call, LockInsert, LockTail,
           LockRemove, LockRemoveIf, LockForeach, Enter, Refuse, Miss, GiveUp, Walk,
           Link, Visit, VisitThen, EndForeach
  <2>7. left[c] = 0 /\ hand' = [hand EXCEPT ![c] = @ \cup {at[c]}]
    BY <2>6 DEF Unlink, UnlinkAt
  <2>8. Place(index[c]) \in 1 .. nodecount /\ at[c] = s[Place(index[c])]
    BY <2>1, <2>2, <2>7, RemoveAt
  <2> QED  BY Zenon, <2>1, <2>3, <2>7, <2>8 DEF Orders
<1>2. Spec => [][Asked]_vars  BY Inductive, <1>1, PTL DEF Spec
<1> QED  BY <1>2 DEF RemovesWhatWasAsked

\* linkedlist.h: an insertion is where its index asks, as long as the list is
\* still that long when the call takes effect.
InsertsWhereItFits ==
    [][\A c \in Callers : Leaves(c, "insert") /\ Abs(index[c]) <= nodecount =>
           \E s \in Orders : /\ Matches(s)
                             /\ next'[Cell(s, Place(index[c]))] = node[c]]_vars

\* The only way an insertion goes astray is the one the index check without the
\* lock leaves open: removals that shorten the list below the index between
\* that check and the lock.
THEOREM AlwaysInsertsWhereItFits == Spec => InsertsWhereItFits
<1> DEFINE Asked == \A c \in Callers : Leaves(c, "insert") /\ Abs(index[c]) <= nodecount =>
               \E s \in Orders : /\ Matches(s)
                                 /\ next'[Cell(s, Place(index[c]))] = node[c]
<1>1. IInv /\ [Next]_vars => [Asked]_vars
  <2> SUFFICES ASSUME IInv, Next, NEW c \in Callers, Leaves(c, "insert"),
                      Abs(index[c]) <= nodecount
               PROVE  \E s \in Orders : /\ Matches(s)
                                        /\ next'[Cell(s, Place(index[c]))] = node[c]
    BY DEF vars
  <2> USE LinkedListAssumption
  <2>1. PICK s \in Orders : Matches(s) /\ WalkInv(s) /\ OwnInv(s)  BY DEF IInv, RingInv
  <2>2. pc[c] = "walk" /\ op[c] = "insert" /\ pc'[c] = "idle"  BY DEF Leaves
  <2>3. /\ pc \in [Callers -> {"idle", "lock1", "lock2", "walk", "each"}]
        /\ next \in [Cells -> Cells] /\ index[c] \in Int /\ nodecount \in Nat
    BY DEF IInv, TypeInv, TypeOK
  <2>4. PICK d \in Callers : Step(d)  BY DEF Next
  <2>5. d = c
    BY <2>2, <2>3, <2>4
       DEF Step, CallInsert, CallTail, CallRemove, CallForeach, Call, LockInsert, LockTail,
           LockRemove, LockRemoveIf, LockForeach, Enter, Refuse, Miss, GiveUp, Walk,
           Link, Unlink, UnlinkAt, Visit, VisitThen, EndForeach, Return, Leave
  <2>6. Link(c)
    BY <2>2, <2>4, <2>5
       DEF Step, CallInsert, CallTail, CallRemove, CallForeach, Call, LockInsert, LockTail,
           LockRemove, LockRemoveIf, LockForeach, Enter, Refuse, Miss, GiveUp, Walk,
           Unlink, UnlinkAt, Visit, VisitThen, EndForeach
  <2>7. left[c] = 0 /\ Splice(at[c], node[c])  BY <2>6 DEF Link
  <2>8. at[c] = Cell(s, Place(index[c]))
    <3>1. at[c] = Cell(s, IF index[c] > 0 THEN Passed(c) ELSE nodecount + 1 - Passed(c))
      BY <2>1, <2>2 DEF WalkInv, Fits
    <3>2. Passed(c) = Abs(index[c])  BY <2>3, <2>7 DEF Passed, Abs
    <3> QED  BY <2>3, <3>1, <3>2 DEF Place, Abs
  <2>9. node[c] \in Nodes /\ node[c] \in Cells /\ at[c] \in Cells
    BY <2>2 DEF IInv, TypeInv, TypeOK, ArgsInv
  <2>10. next'[at[c]] = node[c]  BY <2>3, <2>7, <2>9 DEF Splice
  <2> QED  BY Zenon, <2>1, <2>8, <2>10
<1>2. Spec => [][Asked]_vars  BY Inductive, <1>1, PTL DEF Spec
<1> QED  BY <1>2 DEF InsertsWhereItFits

-------------------------------------------------------------------------------
(* Every insertion and removal happens at once: LinkedList implements      *)
(* ListSpec, with the nodes in the order of the ring as the list.          *)

\* A set of numbers has a smallest one.
LEMMA Smallest ==
    ASSUME NEW T, T \subseteq Nat, T # {}
    PROVE  \E x \in T : \A y \in T : ~(y < x)
<1> DEFINE Below == {ss \in Nat \X Nat : ss[1] < ss[2]}
<1>1. IsWellFoundedOn(Below, Nat)  BY NatLessThanWellFounded DEF OpToRel
<1> HIDE DEF Below
<1>2. PICK x \in T : \A y \in T : ~(<<y, x>> \in Below)  BY Zenon, <1>1, WFMin
<1> QED  BY <1>2 DEF Below

\* The cell at place i of a ring of m nodes.
CellOf(s, m, i) == IF i \in 1 .. m THEN s[i] ELSE HeadCell

\* The pointers next tell the order of the nodes: two orders they match are
\* equal, since they could not part at a first place.
LEMMA OneOrder ==
    ASSUME NEW m \in Nat, NEW f, NEW s \in [1 .. m -> Nodes], NEW t \in [1 .. m -> Nodes],
           \A i \in 0 .. m : f[CellOf(s, m, i)] = CellOf(s, m, i + 1),
           \A i \in 0 .. m : f[CellOf(t, m, i)] = CellOf(t, m, i + 1)
    PROVE  s = t
<1> DEFINE Parted == {i \in 0 .. m : CellOf(s, m, i) # CellOf(t, m, i)}
<1>1. Parted = {}
  <2> SUFFICES ASSUME Parted # {} PROVE FALSE
    OBVIOUS
  <2>1. PICK x \in Parted : \A y \in Parted : ~(y < x)
    <3>1. Parted \subseteq Nat  OBVIOUS
    <3> HIDE DEF Parted
    <3> QED  BY <3>1, Smallest
  <2>2. x \in 0 .. m /\ CellOf(s, m, x) # CellOf(t, m, x)  BY <2>1
  <2>3. x > 0  BY <2>2 DEF CellOf
  <2>4. x - 1 \in 0 .. m /\ x - 1 < x /\ (x - 1) + 1 = x  BY <2>2, <2>3
  <2>5. CellOf(s, m, x - 1) = CellOf(t, m, x - 1)  BY <2>1, <2>4
  <2>6. f[CellOf(s, m, x - 1)] = CellOf(s, m, x) /\ f[CellOf(t, m, x - 1)] = CellOf(t, m, x)
    BY <2>4
  <2> QED  BY <2>2, <2>5, <2>6
<1>2. \A i \in 1 .. m : s[i] = t[i]  BY <1>1 DEF CellOf
<1> QED  BY <1>2

\* Chain is the order the ring has, before a step and after it.
LEMMA ChainIs ==
    ASSUME nodecount \in Nat, NEW s \in Orders, Matches(s)
    PROVE  Chain = s
<1>1. Chain \in Orders /\ Matches(Chain)  BY DEF Chain
<1>2. PICK t : t = Chain  OBVIOUS
<1> QED  BY <1>1, <1>2, OneOrder DEF Orders, Matches, Cell, CellOf

LEMMA NextChainIs ==
    ASSUME nodecount' \in Nat, NEW t, t \in Orders', Matches(t)'
    PROVE  Chain' = t
<1>1. PICK u : u = Chain'  OBVIOUS
<1>2. u \in Orders' /\ Matches(u)'  BY Zenon, <1>1 DEF Chain
<1>3. u = t
  <2>1. t \in [1 .. nodecount' -> Nodes] /\ u \in [1 .. nodecount' -> Nodes]
    BY <1>2 DEF Orders
  <2>2. \A i \in 0 .. nodecount' : next'[CellOf(t, nodecount', i)] = CellOf(t, nodecount', i + 1)
    BY DEF Matches, Cell, CellOf
  <2>3. \A i \in 0 .. nodecount' : next'[CellOf(u, nodecount', i)] = CellOf(u, nodecount', i + 1)
    BY <1>2 DEF Matches, Cell, CellOf
  <2>4. PICK m : m = nodecount'  OBVIOUS
  <2>5. PICK f : f = next'  OBVIOUS
  <2> QED  BY <2>1, <2>2, <2>3, <2>4, <2>5, OneOrder
<1> QED  BY <1>1, <1>3

\* Linking after place k inserts there, and unlinking takes a place out.
LEMMA LinkIsInsert ==
    ASSUME nodecount \in Nat, NEW s \in Orders, NEW k \in 0 .. nodecount, NEW n \in Nodes
    PROVE  k \in 0 .. Len(s) /\ With(s, k, n) = Promise!InsertAfter(s, k, n)
<1> DEFINE a == SubSeq(s, 1, k)
           b == SubSeq(s, k + 1, nodecount)
           w == With(s, k, n)
<1>1. s \in Seq(Nodes) /\ Len(s) = nodecount  BY DEF Orders
<1>2. a \in Seq(Nodes) /\ Len(a) = k /\ \A i \in 1 .. k : a[i] = s[i]
  <2>1. \A i \in 1 .. k : s[i] \in Nodes  BY DEF Orders
  <2>2. /\ a \in Seq(Nodes) /\ Len(a) = (IF 1 <= k THEN k - 1 + 1 ELSE 0)
        /\ \A i \in 1 .. k - 1 + 1 : a[i] = s[1 + i - 1]
    BY <2>1, SubSeqProperties
  <2> QED  BY <2>2
<1>3. /\ b \in Seq(Nodes) /\ Len(b) = nodecount - k
      /\ \A i \in 1 .. nodecount - k : b[i] = s[k + i]
  <2>1. \A i \in k + 1 .. nodecount : s[i] \in Nodes  BY DEF Orders
  <2>2. /\ b \in Seq(Nodes)
        /\ Len(b) = (IF k + 1 <= nodecount THEN nodecount - (k + 1) + 1 ELSE 0)
        /\ \A i \in 1 .. nodecount - (k + 1) + 1 : b[i] = s[(k + 1) + i - 1]
    BY <2>1, SubSeqProperties
  <2> QED  BY <2>2
<1> HIDE DEF a, b
<1>4. /\ a \o <<n>> \in Seq(Nodes) /\ Len(a \o <<n>>) = k + 1
      /\ \A i \in 1 .. k + 1 : (a \o <<n>>)[i] = IF i <= k THEN s[i] ELSE n
  <2>1. <<n>> \in Seq(Nodes) /\ Len(<<n>>) = 1 /\ <<n>>[1] = n  OBVIOUS
  <2>2. /\ a \o <<n>> \in Seq(Nodes) /\ Len(a \o <<n>>) = Len(a) + Len(<<n>>)
        /\ \A i \in 1 .. Len(a) + Len(<<n>>) :
               (a \o <<n>>)[i] = IF i <= Len(a) THEN a[i] ELSE <<n>>[i - Len(a)]
    BY <1>2, <2>1, ConcatProperties
  <2> QED  BY <1>2, <2>1, <2>2
<1>5. PICK d : d = a \o <<n>>  OBVIOUS
<1>6. /\ d \o b \in Seq(Nodes) /\ Len(d \o b) = nodecount + 1
      /\ \A i \in 1 .. nodecount + 1 : (d \o b)[i] = IF i <= k + 1 THEN d[i] ELSE b[i - (k + 1)]
  <2>1. d \in Seq(Nodes) /\ Len(d) = k + 1  BY <1>4, <1>5
  <2>2. Len(d) + Len(b) = nodecount + 1  BY <1>3, <2>1
  <2>3. /\ d \o b \in Seq(Nodes) /\ Len(d \o b) = Len(d) + Len(b)
        /\ \A i \in 1 .. Len(d) + Len(b) : (d \o b)[i] = IF i <= Len(d) THEN d[i] ELSE b[i - Len(d)]
    BY <1>3, <2>1, ConcatProperties
  <2> QED  BY Zenon, <2>1, <2>2, <2>3
<1>7. \A i \in 1 .. nodecount + 1 : w[i] = (d \o b)[i]
  <2> SUFFICES ASSUME NEW i \in 1 .. nodecount + 1 PROVE w[i] = (d \o b)[i]
    OBVIOUS
  <2>1. CASE i <= k + 1  BY <1>4, <1>5, <1>6, <2>1 DEF With
  <2>2. CASE ~(i <= k + 1)
    <3>1. i - (k + 1) \in 1 .. nodecount - k /\ k + (i - (k + 1)) = i - 1  BY <2>2
    <3>2. (d \o b)[i] = s[i - 1]  BY <1>3, <1>6, <2>2, <3>1
    <3> QED  BY <2>2, <3>2 DEF With
  <2> QED  BY <2>1, <2>2
<1>8. w \in Seq(Nodes) /\ Len(w) = nodecount + 1
  <2>1. w \in [1 .. nodecount + 1 -> Nodes]  BY DEF With, Orders
  <2> HIDE DEF w
  <2> QED  BY <2>1
<1>9. w = d \o b
  <2> HIDE DEF w
  <2> QED  BY <1>6, <1>7, <1>8, SeqEqual
<1> QED  BY <1>1, <1>5, <1>9 DEF Promise!InsertAfter, a, b

LEMMA UnlinkIsRemove ==
    ASSUME nodecount \in Nat, NEW s \in Orders, NEW k \in 1 .. nodecount
    PROVE  k \in DOMAIN s /\ Without(s, k) = Promise!Without(s, k)
<1> DEFINE a == SubSeq(s, 1, k - 1)
           b == SubSeq(s, k + 1, nodecount)
           w == Without(s, k)
<1>1. s \in Seq(Nodes) /\ Len(s) = nodecount /\ k \in DOMAIN s  BY DEF Orders
<1>2. a \in Seq(Nodes) /\ Len(a) = k - 1 /\ \A i \in 1 .. k - 1 : a[i] = s[i]
  <2>1. \A i \in 1 .. k - 1 : s[i] \in Nodes  BY DEF Orders
  <2>2. /\ a \in Seq(Nodes) /\ Len(a) = (IF 1 <= k - 1 THEN k - 1 - 1 + 1 ELSE 0)
        /\ \A i \in 1 .. k - 1 - 1 + 1 : a[i] = s[1 + i - 1]
    BY <2>1, SubSeqProperties
  <2> QED  BY <2>2
<1>3. /\ b \in Seq(Nodes) /\ Len(b) = nodecount - k
      /\ \A i \in 1 .. nodecount - k : b[i] = s[k + i]
  <2>1. \A i \in k + 1 .. nodecount : s[i] \in Nodes  BY DEF Orders
  <2>2. /\ b \in Seq(Nodes)
        /\ Len(b) = (IF k + 1 <= nodecount THEN nodecount - (k + 1) + 1 ELSE 0)
        /\ \A i \in 1 .. nodecount - (k + 1) + 1 : b[i] = s[(k + 1) + i - 1]
    BY <2>1, SubSeqProperties
  <2> QED  BY <2>2
<1> HIDE DEF a, b
<1>4. /\ a \o b \in Seq(Nodes) /\ Len(a \o b) = nodecount - 1
      /\ \A i \in 1 .. nodecount - 1 : (a \o b)[i] = IF i <= k - 1 THEN a[i] ELSE b[i - (k - 1)]
  <2>1. Len(a) + Len(b) = nodecount - 1 /\ Len(a) = k - 1  BY <1>2, <1>3
  <2>2. /\ a \o b \in Seq(Nodes) /\ Len(a \o b) = Len(a) + Len(b)
        /\ \A i \in 1 .. Len(a) + Len(b) : (a \o b)[i] = IF i <= Len(a) THEN a[i] ELSE b[i - Len(a)]
    BY <1>2, <1>3, ConcatProperties
  <2> QED  BY Zenon, <2>1, <2>2
<1>5. \A i \in 1 .. nodecount - 1 : w[i] = (a \o b)[i]
  <2> SUFFICES ASSUME NEW i \in 1 .. nodecount - 1 PROVE w[i] = (a \o b)[i]
    OBVIOUS
  <2>1. CASE i < k  BY <1>2, <1>4, <2>1 DEF Without
  <2>2. CASE ~(i < k)
    <3>1. i - (k - 1) \in 1 .. nodecount - k /\ k + (i - (k - 1)) = i + 1  BY <2>2
    <3>2. (a \o b)[i] = s[i + 1]  BY <1>3, <1>4, <2>2, <3>1
    <3> QED  BY <2>2, <3>2 DEF Without
  <2> QED  BY <2>1, <2>2
<1>6. w \in Seq(Nodes) /\ Len(w) = nodecount - 1
  <2>1. w \in [1 .. nodecount - 1 -> Nodes] /\ nodecount - 1 \in Nat  BY DEF Without, Orders
  <2> HIDE DEF w
  <2> QED  BY <2>1
<1>7. w = a \o b
  <2> HIDE DEF w
  <2> QED  BY <1>4, <1>5, <1>6, SeqEqual
<1> QED  BY <1>1, <1>7 DEF Promise!Without, a, b

\* A step that leaves the ring and the owners alone is none of the promise's.
LEMMA QuietRefines ==
    ASSUME UNCHANGED <<next, pre, nodecount, hand>>
    PROVE  UNCHANGED <<Chain, hand>>
<1>1. Chain' = Chain  BY DEF Chain, Orders, Matches, Cell
<1> QED  BY <1>1

LEMMA LinkRefines ==
    ASSUME IInv, IInv', NEW c \in Callers, Link(c)
    PROVE  \E n \in Nodes : Promise!Insert(c, n)
<1> USE LinkedListAssumption
<1>0. TypeOK /\ nodecount \in Nat /\ nodecount' \in Nat  BY DEF IInv, TypeInv, TypeOK
<1>1. PICK s \in Orders : Matches(s) /\ WalkInv(s) /\ OwnInv(s)  BY DEF IInv, RingInv
<1>2. /\ pc[c] = "walk" /\ node[c] \in hand[c] /\ node[c] \in Nodes
      /\ Splice(at[c], node[c]) /\ nodecount' = nodecount + 1
      /\ hand' = [hand EXCEPT ![c] = @ \ {node[c]}]
  BY DEF Link, IInv, TypeInv, TypeOK, ArgsInv
<1>3. PICK k \in 0 .. nodecount : at[c] = Cell(s, k)  BY <1>1, <1>2 DEF WalkInv
<1>4. ~Linked(s, node[c])  BY <1>1, <1>2 DEF OwnInv
<1>5. PICK t : t = With(s, k, node[c])  OBVIOUS
<1>6. t \in Orders' /\ Matches(t)'  BY <1>0, <1>1, <1>2, <1>3, <1>4, <1>5, LinkKeepsRing
<1>7. Chain = s  BY <1>0, <1>1, ChainIs
<1>8. Chain' = t  BY <1>0, <1>6, NextChainIs
<1>9. k \in 0 .. Len(s) /\ t = Promise!InsertAfter(s, k, node[c])
  BY <1>0, <1>2, <1>5, LinkIsInsert
<1>10. \E p \in 0 .. Len(Chain) : Chain' = Promise!InsertAfter(Chain, p, node[c])
  BY Zenon, <1>7, <1>8, <1>9
<1>11. Promise!Insert(c, node[c])  BY Zenon, <1>2, <1>10 DEF Promise!Insert
<1> QED  BY <1>2, <1>11

LEMMA UnlinkRefines ==
    ASSUME IInv, IInv', NEW c \in Callers, Unlink(c)
    PROVE  \E p \in DOMAIN Chain : Promise!Remove(c, p)
<1> USE LinkedListAssumption
<1>0. TypeOK /\ nodecount \in Nat /\ nodecount' \in Nat  BY DEF IInv, TypeInv, TypeOK
<1>1. PICK s \in Orders : Matches(s) /\ WalkInv(s)  BY DEF IInv, RingInv
<1>2. /\ pc[c] = "walk" /\ op[c] = "remove" /\ left[c] = 0
      /\ next' = [next EXCEPT ![pre[at[c]]] = next[at[c]]]
      /\ pre' = [pre EXCEPT ![next'[at[c]]] = pre[at[c]]]
      /\ nodecount' = nodecount - 1
      /\ hand' = [hand EXCEPT ![c] = @ \cup {at[c]}]
  BY DEF Unlink, UnlinkAt
<1>3. PICK k \in 1 .. nodecount : at[c] = s[k]  BY <1>1, <1>2, RemoveAt
<1>4. PICK t : t = Without(s, k)  OBVIOUS
<1>5. t \in Orders' /\ Matches(t)'  BY Zenon, <1>0, <1>1, <1>2, <1>3, <1>4, UnlinkKeepsRing
<1>6. Chain = s  BY <1>0, <1>1, ChainIs
<1>7. Chain' = t  BY <1>0, <1>5, NextChainIs
<1>8. k \in DOMAIN s /\ t = Promise!Without(s, k)  BY <1>0, <1>4, UnlinkIsRemove
<1>9. hand' = [hand EXCEPT ![c] = @ \cup {s[k]}]  BY Zenon, <1>2, <1>3
<1> QED  BY Zenon, <1>6, <1>7, <1>8, <1>9 DEF Promise!Remove

LEMMA ListRefines == IInv /\ IInv' /\ [Next]_vars => [Promise!Next]_<<Chain, hand>>
<1> SUFFICES ASSUME IInv, IInv', [Next]_vars
             PROVE  Promise!Next \/ UNCHANGED <<Chain, hand>>
  OBVIOUS
<1>1. ASSUME NEW c \in Callers, Link(c) PROVE Promise!Next
  BY Zenon, <1>1, LinkRefines DEF Promise!Next
<1>2. ASSUME NEW c \in Callers, Unlink(c) PROVE Promise!Next
  BY Zenon, <1>2, UnlinkRefines DEF Promise!Next
<1>3. ASSUME NEW c \in Callers, Step(c), ~Link(c), ~Unlink(c)
      PROVE  UNCHANGED <<next, pre, nodecount, hand>>
  BY <1>3 DEF Step, CallInsert, CallTail, CallRemove, CallForeach, Call, LockInsert, LockTail,
              LockRemove, LockRemoveIf, LockForeach, Enter, Refuse, Miss, GiveUp, Walk, Visit,
              VisitThen, EndForeach
<1>4. CASE UNCHANGED vars  BY <1>4, QuietRefines DEF vars
<1> QED  BY Zenon, <1>1, <1>2, <1>3, <1>4, QuietRefines DEF Next

\* The list keeps the promise of ListSpec: an insertion takes effect as a
\* whole at the step that links the node, a removal at the one that unlinks
\* it, at one place of the order the nodes had; no other step of any thread,
\* and no way an operation ends early, changes the list or who owns a node.
THEOREM AlwaysKeepsPromise == Spec => KeepsPromise
<1>1. Init => Promise!Init
  <2> SUFFICES ASSUME Init PROVE Promise!Init
    OBVIOUS
  <2>1. PICK s \in Orders : Matches(s)  BY InitIInv DEF IInv, RingInv
  <2>2. nodecount = 0  BY DEF Init
  <2>3. Chain = s  BY <2>1, <2>2, ChainIs
  <2>4. s = <<>>  BY <2>2 DEF Orders
  <2> QED  BY <2>3, <2>4 DEF Init, Promise!Init
<1> QED  BY <1>1, Inductive, ListRefines, PTL DEF Spec, KeepsPromise, Promise!Spec
===============================================================================
