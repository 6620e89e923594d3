------------------------------- MODULE LogQueue -------------------------------
(***************************************************************************)
(* What the asynchronous output of EasyLogger promises.  Bytes are         *)
(* numbered in the order in which they are accepted.  They are shown in    *)
(* that order, without gaps; what does not fit into the queue is dropped,  *)
(* and nothing else is.                                                    *)
(***************************************************************************)
EXTENDS Naturals

CONSTANTS
    Capacity,  \* bytes the queue holds
    Batch,     \* bytes that are taken from it at once
    Sizes      \* lengths of logs

VARIABLES
    accepted,  \* bytes accepted
    taken,     \* bytes taken from the queue
    shown      \* bytes shown

vars == <<accepted, taken, shown>>

Least(a, b) == IF a <= b THEN a ELSE b

Init == accepted = 0 /\ taken = 0 /\ shown = 0

\* Of a log of n bytes the beginning that fits is accepted.
Accept(n) ==
    /\ accepted' = accepted + Least(n, Capacity - (accepted - taken))
    /\ UNCHANGED <<taken, shown>>

\* The next bytes are taken, once those taken before are shown.
Take ==
    /\ taken = shown
    /\ taken' = taken + Least(Batch, accepted - taken)
    /\ UNCHANGED <<accepted, shown>>

Show == shown' = taken /\ UNCHANGED <<accepted, taken>>

Next == (\E n \in Sizes : Accept(n)) \/ Take \/ Show

Spec == Init /\ [][Next]_vars
===============================================================================
