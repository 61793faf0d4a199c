\* The code's ttl and interval (unit 5 s) and calls that take at most 5 s
CONSTANTS
    Instances = {a, b}
    NoInstance = none
    Ttl = 6
    Interval = 2
    CallMax = 1
    Lag = 0
SPECIFICATION FairSpec

    
PROPERTIES
    DeadLeaderReplaced
