SPECIFICATION FairSpec
CONSTANTS
    Threads = {c1, c2}
    Free = free
    BufSize = 3
    PollSize = 2
    Sizes = {1, 2, 4}
    MaxBytes = 6
    MaxInits = 2
INVARIANTS InOrder NothingIsStuck
PROPERTIES KeepsPromise LogsComeOut DeinitReturns
