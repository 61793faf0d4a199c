\* A failure anywhere, one restart or reboot: safety, and the release of what is
\* contained; the last generation may fall back
CONSTANTS
    Runners = {r1, r2}
    NoReceipt = none
    MaxGen = 2
    MaxBoots = 2
    MaxFaults = 1
    Fallback = {2}
    Orphans = FALSE
SPECIFICATION FairSpec

    
    
PROPERTIES
    GroupReleased
\* A workspace held for want of a proof stays held.
CHECK_DEADLOCK FALSE
