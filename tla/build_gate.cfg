\* Two builds, one slot, one kill or refusal to die
CONSTANTS
    Builds = {b1, b2}
    Nobody = nobody
    MaxFaults = 1
SPECIFICATION Spec
INVARIANTS
    OneBuildAtATime
PROPERTIES
    SlotReturned
    
\* The builds end.
CHECK_DEADLOCK FALSE
