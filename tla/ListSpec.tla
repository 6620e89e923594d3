------------------------------- MODULE ListSpec -------------------------------
(***************************************************************************)
(* What src/dstruct/linkedlist promises to threads that share a list: each *)
(* insertion and removal happens at once.  A node is in the list or in the *)
(* hands of one thread, and the others keep their order.                   *)
(***************************************************************************)
EXTENDS Naturals, Sequences

CONSTANTS Callers, Nodes

VARIABLES list, hand

InsertAfter(s, p, n) == SubSeq(s, 1, p) \o <<n>> \o SubSeq(s, p + 1, Len(s))
Without(s, p) == SubSeq(s, 1, p - 1) \o SubSeq(s, p + 1, Len(s))

Init ==
    /\ list = <<>>
    /\ hand \in [Callers -> SUBSET Nodes]
    /\ \A n \in Nodes : \E c \in Callers : n \in hand[c]
    /\ \A c, d \in Callers : c # d => hand[c] \cap hand[d] = {}

Insert(c, n) ==
    /\ n \in hand[c]
    /\ \E p \in 0 .. Len(list) : list' = InsertAfter(list, p, n)
    /\ hand' = [hand EXCEPT ![c] = @ \ {n}]

Remove(c, p) ==
    /\ list' = Without(list, p)
    /\ hand' = [hand EXCEPT ![c] = @ \cup {list[p]}]

Next == \E c \in Callers : \/ \E n \in Nodes : Insert(c, n)
                           \/ \E p \in DOMAIN list : Remove(c, p)

Spec == Init /\ [][Next]_<<list, hand>>
===============================================================================
