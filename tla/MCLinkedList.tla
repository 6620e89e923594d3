----------------------------- MODULE MCLinkedList -----------------------------
\* Small instances of LinkedList.  No property names a node or a thread, and
\* none is a liveness property, so both sets are symmetric.
EXTENDS LinkedList, TLC

Symmetric == Permutations(Nodes) \cup Permutations(Callers)
===============================================================================
