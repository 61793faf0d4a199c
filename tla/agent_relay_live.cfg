\* One controller and a journal of one frame, so that it can overflow; the
\* relay is orphaned, stopped or ends with the provider.
SPECIFICATION Spec
CONSTANTS
    Clients = {c1}
    NoClient = NoClient
    MaxFrames = 2
    MaxGen = 2
    Cap = 1
    MaxFaults = 1
INVARIANTS
    ExitIsLast
PROPERTIES
    StopEnded
CHECK_DEADLOCK FALSE
