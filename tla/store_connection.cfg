\* Safety, and recovery while the database answers new connections
CONSTANTS
    Conns = {p1, p2, p3, p4}
    NoConn = none
    MaxDropped = 2
SPECIFICATION ConnFairSpec
INVARIANTS
    ConnectedIsQuiet
    OutageShown
PROPERTIES
    TransientErrorHeals
