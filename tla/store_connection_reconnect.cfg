\* Liveness after an outage of the database
CONSTANTS
    Conns = {p1, p2, p3}
    NoConn = none
    MaxDropped = 1
SPECIFICATION ConnFairSpec
PROPERTY Reconnects
