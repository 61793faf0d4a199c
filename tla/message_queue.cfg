\* One plain message and one answer, three items, a file of two, one failed
\* save, two kills or restarts.
SPECIFICATION Spec
CONSTANTS
    Messages = {m}
    Answers = {a}
    MaxItems = 3
    Capacity = 2
    MaxFaults = 1
    MaxStops = 2
    NoKey = NoKey
INVARIANTS
    PendingIndexed
    RestartSafe
    
PROPERTIES
    FencedIsSeen
