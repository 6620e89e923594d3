------------------------------ MODULE LinkedList ------------------------------
(***************************************************************************)
(* The doubly linked ring of src/dstruct/linkedlist/linkedlist.c, shared   *)
(* by threads.  A pointer is a cell: the head or a node.  The walk of an   *)
(* operation takes one step of this model per step of its loop; the writes *)
(* that link or unlink a node are one step, in the order of the code,      *)
(* because every operation holds lock_linked while it looks at a pointer.  *)
(* Only the index check of insert_lknode looks at the list without it.     *)
(***************************************************************************)
EXTENDS Integers, Sequences

CONSTANTS Nodes, HeadCell, Callers, Free,
          MaxIndex    \* callers pass indices from -MaxIndex to MaxIndex

Cells == Nodes \cup {HeadCell}
Indices == -MaxIndex .. MaxIndex

ASSUME LinkedListAssumption ==
    /\ HeadCell \notin Nodes
    /\ Free \notin Callers
    /\ MaxIndex \in Nat

VARIABLES
    next, pre,   \* the pointers of every cell
    nodecount,
    lock,        \* holder of lock_linked
    hand,        \* nodes each thread owns outside the list
    pc,          \* where each thread is
    op,          \* the operation it is in
    node,        \* the node it inserts
    index,       \* the index it passed
    at,          \* pnode
    left         \* steps its loop has left

ring == <<next, pre, nodecount>>
args == <<op, node, index>>
vars == <<next, pre, nodecount, lock, hand, pc, op, node, index, at, left>>

Abs(i) == IF i < 0 THEN -i ELSE i

\* init_linkedlist; every node belongs to some thread.
Init ==
    /\ next = [x \in Cells |-> x]
    /\ pre = [x \in Cells |-> x]
    /\ nodecount = 0
    /\ lock = Free
    /\ hand \in [Callers -> SUBSET Nodes]
    /\ \A n \in Nodes : \E c \in Callers : n \in hand[c]
    /\ \A c, d \in Callers : c # d => hand[c] \cap hand[d] = {}
    /\ pc = [c \in Callers |-> "idle"]
    /\ op = [c \in Callers |-> "foreach"]
    /\ node = [c \in Callers |-> HeadCell]
    /\ index = [c \in Callers |-> 0]
    /\ at = [c \in Callers |-> HeadCell]
    /\ left = [c \in Callers |-> 0]

-------------------------------------------------------------------------------
Call(c, o, n, i) ==
    /\ pc[c] = "idle"
    /\ pc' = [pc EXCEPT ![c] = "lock1"]
    /\ op' = [op EXCEPT ![c] = o]
    /\ node' = [node EXCEPT ![c] = n]
    /\ index' = [index EXCEPT ![c] = i]
    /\ UNCHANGED <<ring, lock, hand, at, left>>

\* insert_lknode, and insert_head with index 0: the index is compared with
\* nodecount before the lock is asked for.  An index too large ends the call.
CallInsert(c) ==
    \E n \in hand[c], i \in Indices :
        /\ Abs(i) <= nodecount
        /\ Call(c, "insert", n, i)

CallTail(c) == \E n \in hand[c] : Call(c, "tail", n, 0)

CallRemove(c) == \E i \in Indices \ {0} : Call(c, "remove", HeadCell, i)

CallForeach(c) == Call(c, "foreach", HeadCell, 0)

\* The call returns, and its locals are gone.
Return(c) ==
    /\ pc' = [pc EXCEPT ![c] = "idle"]
    /\ op' = [op EXCEPT ![c] = "foreach"]
    /\ node' = [node EXCEPT ![c] = HeadCell]
    /\ index' = [index EXCEPT ![c] = 0]
    /\ at' = [at EXCEPT ![c] = HeadCell]
    /\ left' = [left EXCEPT ![c] = 0]

Leave(c) == lock' = Free /\ Return(c)

\* pthread_mutex_trylock succeeds at the first or second attempt.
Enter(c, where, from, steps) ==
    /\ pc[c] \in {"lock1", "lock2"}
    /\ lock = Free
    /\ lock' = c
    /\ pc' = [pc EXCEPT ![c] = where]
    /\ at' = [at EXCEPT ![c] = from]
    /\ left' = [left EXCEPT ![c] = steps]
    /\ UNCHANGED <<ring, hand, args>>

LockInsert(c) == op[c] = "insert" /\ Enter(c, "walk", HeadCell, Abs(index[c]))

LockTail(c) == op[c] = "tail" /\ Enter(c, "walk", pre[HeadCell], 0)

\* remove_lknode compares the index under the lock.
LockRemoveIf(c, ok) == op[c] = "remove" /\ ok /\ Enter(c, "walk", HeadCell, Abs(index[c]))

LockRemoveUnchecked(c) == LockRemoveIf(c, Abs(index[c]) <= nodecount + 1)   \* mutant
LockRemove(c) == LockRemoveIf(c, Abs(index[c]) <= nodecount)

LockForeach(c) == op[c] = "foreach" /\ Enter(c, "each", next[HeadCell], nodecount)

\* The index is too large: unlock and return.
Refuse(c) ==
    /\ pc[c] \in {"lock1", "lock2"} /\ op[c] = "remove"
    /\ lock = Free
    /\ Abs(index[c]) > nodecount
    /\ Return(c)
    /\ UNCHANGED <<lock, ring, hand>>

\* The first attempt fails: usleep.
Miss(c) ==
    /\ pc[c] = "lock1"
    /\ lock # Free
    /\ pc' = [pc EXCEPT ![c] = "lock2"]
    /\ UNCHANGED <<ring, lock, hand, args, at, left>>

\* The second fails too: -LKLIST_ERR_LOCK.
GiveUp(c) ==
    /\ pc[c] = "lock2"
    /\ lock # Free
    /\ Return(c)
    /\ UNCHANGED <<ring, lock, hand>>

\* One turn of "while (index--)" or "while (index++)".
Walk(c) ==
    /\ pc[c] = "walk"
    /\ left[c] > 0
    /\ at' = [at EXCEPT ![c] = IF index[c] > 0 THEN next[@] ELSE pre[@]]
    /\ left' = [left EXCEPT ![c] = @ - 1]
    /\ UNCHANGED <<ring, lock, hand, pc, args>>

\* mutant: pnode->next is overwritten before it is followed
SpliceLate(p, n) ==
    LET next1 == [next EXCEPT ![n] = next[p]]
        next2 == [next1 EXCEPT ![p] = n]
    IN  /\ pre' = [pre EXCEPT ![next2[p]] = n, ![n] = p]
        /\ next' = next2

\* The four pointer writes in their order.
Splice(p, n) ==
    LET next1 == [next EXCEPT ![n] = next[p]]
        next2 == [next1 EXCEPT ![p] = n]
    IN  /\ pre' = [pre EXCEPT ![next1[p]] = n, ![n] = p]
        /\ next' = next2

Link(c) ==
    /\ pc[c] = "walk"
    /\ left[c] = 0
    /\ op[c] \in {"insert", "tail"}
    /\ Splice(at[c], node[c])
    /\ nodecount' = nodecount + 1
    /\ hand' = [hand EXCEPT ![c] = @ \ {node[c]}]
    /\ Leave(c)

\* Cell x is bypassed and got handed to the caller; its own pointers stay.
UnlinkAt(c, x, got) ==
    /\ pc[c] = "walk"
    /\ left[c] = 0
    /\ op[c] = "remove"
    /\ next' = [next EXCEPT ![pre[x]] = next[x]]
    /\ pre' = [pre EXCEPT ![next'[x]] = pre[x]]
    /\ hand' = [hand EXCEPT ![c] = @ \cup {got}]
    /\ nodecount' = nodecount - 1
    /\ Leave(c)

UnlinkGivesNext(c) == UnlinkAt(c, at[c], next[at[c]])   \* mutant
UnlinkFirst(c) == UnlinkAt(c, next[HeadCell], next[HeadCell])   \* mutant
Unlink(c) == UnlinkAt(c, at[c], at[c])

\* foreach_lklist calls hand on a node, which lets it go on or not ...
VisitThen(c, following) ==
    /\ pc[c] = "each"
    /\ left[c] > 0
    /\ \/ /\ at' = [at EXCEPT ![c] = following]
          /\ left' = [left EXCEPT ![c] = @ - 1]
          /\ UNCHANGED <<lock, pc, args>>
       \/ Leave(c)
    /\ UNCHANGED <<ring, hand>>

VisitBack(c) == VisitThen(c, pre[at[c]])   \* mutant
Visit(c) == VisitThen(c, next[at[c]])

\* ... until it has counted all of them.
EndForeach(c) ==
    /\ pc[c] = "each"
    /\ left[c] = 0
    /\ Leave(c)
    /\ UNCHANGED <<ring, hand>>

Step(c) ==
    \/ CallInsert(c) \/ CallTail(c) \/ CallRemove(c) \/ CallForeach(c)
    \/ LockInsert(c) \/ LockTail(c) \/ LockRemove(c) \/ LockForeach(c)
    \/ Refuse(c) \/ Miss(c) \/ GiveUp(c) \/ Walk(c) \/ Link(c) \/ Unlink(c)
    \/ Visit(c) \/ EndForeach(c)

Next == \E c \in Callers : Step(c)

Spec == Init /\ [][Next]_vars

-------------------------------------------------------------------------------
(* Properties *)

TypeOK ==
    /\ next \in [Cells -> Cells] /\ pre \in [Cells -> Cells]
    /\ nodecount \in Nat
    /\ lock \in Callers \cup {Free}
    /\ hand \in [Callers -> SUBSET Nodes]
    /\ pc \in [Callers -> {"idle", "lock1", "lock2", "walk", "each"}]
    /\ op \in [Callers -> {"insert", "tail", "remove", "foreach"}]
    /\ node \in [Callers -> Cells]
    /\ index \in [Callers -> Indices]
    /\ at \in [Callers -> Cells]
    /\ left \in [Callers -> Nat]

\* The cell at place i of the ring whose nodes are s: the head is before the
\* first node and after the last.
Cell(s, i) == IF i \in 1 .. nodecount THEN s[i] ELSE HeadCell

\* The pointers form one ring: the head, then the nodes of s, no node twice.
Matches(s) ==
    /\ \A i, j \in 1 .. nodecount : s[i] = s[j] => i = j
    /\ \A i \in 0 .. nodecount : /\ next[Cell(s, i)] = Cell(s, i + 1)
                                 /\ pre[Cell(s, i + 1)] = Cell(s, i)

Orders == [1 .. nodecount -> Nodes]

\* Whatever threads insert and remove, the list stays one ring through the
\* head that has nodecount nodes and reads the same in both directions.
IsRing == \E s \in Orders : Matches(s)

Linked(s, n) == \E i \in DOMAIN s : s[i] = n

\* A node in the list belongs to no thread, and the others to exactly one.
OneOwner ==
    \E s \in Orders :
        /\ Matches(s)
        /\ \A n \in Nodes :
            \/ Linked(s, n) /\ \A c \in Callers : n \notin hand[c]
            \/ /\ ~Linked(s, n)
               /\ \E c \in Callers : n \in hand[c] /\ \A d \in Callers \ {c} : n \notin hand[d]

\* lock_linked is held only by a thread that is inside the list: every way
\* out of an operation, early returns included, has unlocked it.
LockIsLeft == lock # Free => pc[lock] \in {"walk", "each"}

Place(i) == IF i > 0 THEN i ELSE nodecount + 1 + i

Leaves(c, o) == pc[c] = "walk" /\ op[c] = o /\ pc'[c] = "idle"

\* remove_lknode: the thread gets the node that is at its index when it leaves.
RemovesWhatWasAsked ==
    [][\A c \in Callers : Leaves(c, "remove") =>
           \E s \in Orders : /\ Matches(s)
                             /\ Place(index[c]) \in DOMAIN s
                             /\ hand'[c] = hand[c] \cup {s[Place(index[c])]}]_vars

\* linkedlist.h: an insertion with index 1 is after the first node, with -1
\* at the last.
InsertsWhereAsked ==
    [][\A c \in Callers : Leaves(c, "insert") =>
           \E s \in Orders : /\ Matches(s)
                             /\ index[c] # 0 => Place(index[c]) \in DOMAIN s
                             /\ next'[Cell(s, Place(index[c]))] = node[c]]_vars

\* foreach_lklist calls hand on the nodes in their order, never on the head.
VisitsInOrder ==
    \E s \in Orders :
        /\ Matches(s)
        /\ \A c \in Callers : pc[c] = "each" /\ left[c] > 0 =>
               left[c] <= nodecount /\ at[c] = s[nodecount + 1 - left[c]]

Chain == CHOOSE s \in Orders : Matches(s)

\* Every insertion and removal happens at once.
Promise == INSTANCE ListSpec WITH list <- Chain
KeepsPromise == Promise!Spec
===============================================================================
