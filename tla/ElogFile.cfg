SPECIFICATION FairSpec
CONSTANTS
    Procs = {p1, p2}
    MaxSize = 1
    MaxRotate = 2
    MaxLogs = 7
    MaxStrayed = 3
    MaxCrashes = 1
    MaxFailures = 1
INVARIANTS AloneInside InOrderUntilStrayed KeepsEnough Bounded
PROPERTIES WritesEnd
