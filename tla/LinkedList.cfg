SPECIFICATION Spec
CONSTANTS
    Nodes = {n1, n2, n3}
    HeadCell = head
    Callers = {c1, c2}
    Free = free
    MaxIndex = 3
INVARIANTS IsRing OneOwner VisitsInOrder
PROPERTIES RemovesWhatWasAsked KeepsPromise
SYMMETRY Symmetric
