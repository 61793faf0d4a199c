\* Two controllers of two generations, two frames, one failed write or one
\* controller that stops reading.
INIT Init
NEXT Next
CONSTANTS
    Clients = {c1, c2}
    NoClient = NoClient
    MaxFrames = 2
    MaxGen = 2
    Cap = 2
    MaxFaults = 1
INVARIANTS
    NothingLost
    InputFenced
PROPERTIES
    Contiguous
CHECK_DEADLOCK FALSE
SYMMETRY Symmetry
