\* Safety: commands that commit a unit late, two consumers with two policies
CONSTANTS
    Consumers = {"daemon", "agent"}
    Resources = {"core", "graphql"}
    Unknown = unknown
    Families = {"pulls"}
    Keys = {"pr"}
    NoKey = none
    Requests <- MCRequests
    MaxInflight <- MCInflight
    FamilyInflight <- MCInflight
    Rpm <- MCRpm
    Stagger <- MCStagger
    Ceiling <- MCCeiling
    Minute = 2
    Hour = 4
    PolicyWindow = 4
    Ttl = 2
    ClaimTtl = 2
    Delays = {2}
    MaxWait = 1
    MaxClock = 4
    MaxIssued = 2
    MaxExtras = 1
SPECIFICATION Spec
INVARIANTS
    RateHeld
    CeilingHeld
PROPERTIES
    HoldRespected
    ClaimHeld
\* The clock stops at its bound.
CHECK_DEADLOCK FALSE
