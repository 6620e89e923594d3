SPECIFICATION FairSpec
CONSTANTS
    Interfaces = {e0, e1}
    None = none
    Entries = 2
    MaxStarts = 3
    MaxStopped = 2
INVARIANT OneSeeks
PROPERTY ClientsEnd
