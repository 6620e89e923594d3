SPECIFICATION Spec
CONSTANTS
    Nodes = {n1, n2}
    HeadCell = head
    Callers = {c1, c2}
    Free = free
    MaxIndex = 2
PROPERTY InsertsWhereAsked
