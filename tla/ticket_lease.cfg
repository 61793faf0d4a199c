\* The code's constants (unit 5 s), the longest start the grace absorbs: safety and takeover
CONSTANTS
    Instances = {a, b}
    NoInstance = none
    Ttl = 6
    Margin = 1
    Interval = 2
    Grace = 4
    CallMax = 2
    StartMax = 4
    Lag = 0
SPECIFICATION FairSpec
INVARIANTS
    
    FenceOnlyAfterFailure
PROPERTIES
    
    DeadHolderReplaced
